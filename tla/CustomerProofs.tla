--------------------------- MODULE CustomerProofs ---------------------------
(***************************************************************************)
(* Theorems about what customers do around an order, for any number of     *)
(* requests, keys, lines, places, messages and orders.  Each service has   *)
(* an inductive invariant of its own, which holds of the behaviours of     *)
(* Services that are that service's.                                       *)
(***************************************************************************)
EXTENDS Services, Integers, Sequences, SequenceTheorems, FiniteSetTheorems, TLAPS

-----------------------------------------------------------------------------
(* Checkout: one order per key, and every claimed use is somebody's order *)

LEMMA CheckoutLimits ==
    NoKey \notin Keys /\ UsageLimit \in Nat /\ UsageLimitPerUser \in Nat
BY ServicesAssumption

LEMMA CheckoutCardinality == \A S : Checkout!Cardinality(S) = Cardinality(S)
BY DEF Checkout!Cardinality, Cardinality

\* A request has all its fields, the orders are a sequence and the coupon counts.
CheckoutFields == {"at", "kind", "key", "lines", "coupon", "version", "unitPrice", "lineTotal",
           "items", "discount", "quoted"}
CompleteRequest(j) == j = [x \in CheckoutFields |-> j[x]]
CheckoutRows ==
    /\ job = [h \in Handlers |-> job[h]] /\ \A h \in Handlers : CompleteRequest(job[h])
    /\ idempotency = [k \in Keys |-> idempotency[k]]
    /\ \E S : orders \in Seq(S)
    /\ coupon = [state |-> coupon.state, used |-> coupon.used] /\ coupon.used \in Nat

\* A key without an order was used by none; while no two requests carry it, one that has
\* looked for its order found none, and there is one order at most.
KeyInv ==
    /\ \A k \in Keys : idempotency[k] = 0 => \A n \in DOMAIN orders : orders[n].key # k
    /\ \A g, h \in Handlers : g # h /\ job[g].key = job[h].key /\ job[h].key \in Keys
                                => job[h].key \in together
    /\ \A h \in Handlers : job[h].key \in Keys \ together
                             /\ job[h].at \in {"PRICE", "COUPON", "WRITE"}
                                => idempotency[job[h].key] = 0
    /\ \A k \in Keys \ together : \A n, m \in DOMAIN orders :
           orders[n].key = k /\ orders[m].key = k => n = m

\* Only a request with a coupon has a discount, and its order redeems the coupon.
DiscountInv ==
    /\ \A h \in Handlers : ~job[h].coupon => job[h].discount = 0
    /\ \A n \in DOMAIN orders : orders[n].discount > 0 => n \in redemptions
    /\ IsFiniteSet(redemptions) /\ redemptions \subseteq DOMAIN orders
    /\ coupon.used = Cardinality(redemptions)
    /\ Cardinality(redemptions) <= UsageLimitPerUser /\ coupon.used <= UsageLimit

CheckoutInv == CheckoutRows /\ KeyInv /\ DiscountInv

(* A request that only goes on keeps what it is about. *)
KeepsQuote(i, j) == CompleteRequest(i) /\ i.key = j.key /\ i.coupon = j.coupon
LEMMA AtStays ==
    ASSUME NEW j, CompleteRequest(j), NEW s
    PROVE  /\ KeepsQuote([j EXCEPT !.at = s], j) /\ [j EXCEPT !.at = s].at = s
           /\ [j EXCEPT !.at = s].discount = j.discount
BY DEF CompleteRequest, KeepsQuote, CheckoutFields

Priced(j, p, l, i) == [j EXCEPT !.unitPrice = p, !.lineTotal = l, !.items = i, !.at = "COUPON"]
LEMMA PricedStays ==
    ASSUME NEW j, CompleteRequest(j), NEW p, NEW l, NEW i
    PROVE  /\ KeepsQuote(Priced(j, p, l, i), j) /\ Priced(j, p, l, i).at = "COUPON"
           /\ Priced(j, p, l, i).discount = j.discount
BY DEF CompleteRequest, KeepsQuote, CheckoutFields, Priced

Discounted(j, d) == [j EXCEPT !.at = "WRITE", !.discount = d]
LEMMA DiscountedStays ==
    ASSUME NEW j, CompleteRequest(j), NEW d
    PROVE  /\ KeepsQuote(Discounted(j, d), j) /\ Discounted(j, d).at = "WRITE"
           /\ Discounted(j, d).discount = d
BY DEF CompleteRequest, KeepsQuote, CheckoutFields, Discounted

Requoted(j, q) == [j EXCEPT !.quoted = q]
LEMMA QuotedStays ==
    ASSUME NEW j, CompleteRequest(j), NEW q
    PROVE  /\ KeepsQuote(Requoted(j, q), j) /\ Requoted(j, q).at = j.at
           /\ Requoted(j, q).discount = j.discount
BY DEF CompleteRequest, KeepsQuote, CheckoutFields, Requoted

LEMMA NoJobComplete ==
    /\ CompleteRequest(Checkout!NoJob) /\ Checkout!NoJob.at = "IDLE" /\ Checkout!NoJob.key = NoKey
    /\ Checkout!NoJob.discount = 0
BY DEF CompleteRequest, CheckoutFields, Checkout!NoJob

(* A step of one request that writes no order. *)
LEMMA RequestGoesOn ==
    ASSUME CheckoutInv, NEW h \in Handlers, NEW j, CompleteRequest(j),
           job' = [job EXCEPT ![h] = j],
           together \subseteq together',
           UNCHANGED <<orders, idempotency, redemptions, coupon>>,
           ~j.coupon => j.discount = 0,
           \A g \in Handlers : g # h /\ job[g].key = j.key /\ j.key \in Keys
                                   => j.key \in together',
           j.key \in Keys \ together' /\ j.at \in {"PRICE", "COUPON", "WRITE"}
               => idempotency[j.key] = 0
    PROVE  CheckoutInv'
<1>1. \A g \in Handlers : job'[g] = IF g = h THEN j ELSE job[g]
  BY DEF CheckoutInv, CheckoutRows
<1>2. CheckoutRows'
  BY <1>1 DEF CheckoutInv, CheckoutRows
<1>3. KeyInv'
  <2>1. \A k \in Keys : idempotency'[k] = 0 => \A n \in DOMAIN orders' : orders'[n].key # k
    BY DEF CheckoutInv, KeyInv
  <2>2. \A g, i \in Handlers : g # i /\ job'[g].key = job'[i].key /\ job'[i].key \in Keys
                                  => job'[i].key \in together'
    BY <1>1 DEF CheckoutInv, KeyInv
  <2>3. \A g \in Handlers : job'[g].key \in Keys \ together'
                             /\ job'[g].at \in {"PRICE", "COUPON", "WRITE"}
                                => idempotency'[job'[g].key] = 0
    BY <1>1 DEF CheckoutInv, KeyInv
  <2>4. \A k \in Keys \ together' : \A n, m \in DOMAIN orders' :
           orders'[n].key = k /\ orders'[m].key = k => n = m
    BY DEF CheckoutInv, KeyInv
  <2> QED BY <2>1, <2>2, <2>3, <2>4 DEF KeyInv
<1>4. DiscountInv'
  BY <1>1 DEF CheckoutInv, DiscountInv
<1> QED BY <1>2, <1>3, <1>4 DEF CheckoutInv

LEMMA RequestEnds ==
    ASSUME CheckoutInv, NEW h \in Handlers,
           job' = [job EXCEPT ![h] = Checkout!NoJob],
           together' = together, UNCHANGED <<orders, idempotency, redemptions, coupon>>
    PROVE  CheckoutInv'
<1>1. PICK j : j = Checkout!NoJob
  OBVIOUS
<1>2. CompleteRequest(j) /\ j.at = "IDLE" /\ j.key = NoKey /\ j.discount = 0
  BY <1>1, NoJobComplete
<1>3. job' = [job EXCEPT ![h] = j]
  BY <1>1
<1> QED BY <1>2, <1>3, RequestGoesOn, CheckoutLimits

LEMMA ReceiveStep ==
    ASSUME CheckoutInv, NEW h \in Handlers,
           NEW op \in {"QUOTE", "CREATE"}, NEW key \in Keys \cup {NoKey},
           op = "QUOTE" => key = NoKey, NEW lines, NEW useCoupon \in BOOLEAN, NEW quoted,
           Checkout!Receive(h, op, key, lines, useCoupon, quoted)
    PROVE  CheckoutInv'
<1>1. PICK j : j = [at |-> IF key # NoKey THEN "KEY" ELSE "PRICE",
                    kind |-> op, key |-> key, lines |-> lines,
                    coupon |-> useCoupon, version |-> address.version,
                    unitPrice |-> 0, lineTotal |-> 0, items |-> 0,
                    discount |-> 0, quoted |-> quoted]
  OBVIOUS
<1>2. /\ CompleteRequest(j) /\ j.key = key /\ j.discount = 0
      /\ j.at = (IF key # NoKey THEN "KEY" ELSE "PRICE")
  BY <1>1 DEF CompleteRequest, CheckoutFields
<1>3. job' = [job EXCEPT ![h] = j]
  BY <1>1 DEF Checkout!Receive
<1>4. UNCHANGED <<orders, idempotency, redemptions, coupon>>
  BY DEF Checkout!Receive, Checkout!shop, Checkout!placed
<1>5. together \subseteq together'
      /\ \A g \in Handlers : job[g].key = key /\ key \in Keys => key \in together'
  BY CheckoutLimits DEF Checkout!Receive
<1> QED BY <1>2, <1>3, <1>4, <1>5, RequestGoesOn, CheckoutLimits

LEMMA PricingSteps ==
    ASSUME CheckoutInv, NEW h \in Handlers,
           Checkout!FindKey(h) \/ Checkout!ReadPrice(h) \/ Checkout!ReadCoupon(h)
    PROVE  CheckoutInv'
<1>1. /\ CompleteRequest(job[h]) /\ (~job[h].coupon => job[h].discount = 0)
      /\ \A g \in Handlers : g # h /\ job[g].key = job[h].key /\ job[h].key \in Keys
                                 => job[h].key \in together
  BY DEF CheckoutInv, CheckoutRows, KeyInv, DiscountInv
<1>2. UNCHANGED <<orders, idempotency, redemptions, coupon, together>>
  BY DEF Checkout!FindKey, Checkout!ReadPrice, Checkout!ReadCoupon, Checkout!shop,
         Checkout!placed
<1>3. CASE job' = [job EXCEPT ![h] = Checkout!NoJob]
  BY <1>2, <1>3, RequestEnds
<1>4. ASSUME NEW j, KeepsQuote(j, job[h]), job' = [job EXCEPT ![h] = j],
             ~job[h].coupon => j.discount = 0,
             j.key \in Keys \ together => idempotency[j.key] = 0
      PROVE  CheckoutInv'
  <2>1. CompleteRequest(j) /\ j.key = job[h].key /\ (~j.coupon => j.discount = 0)
    BY <1>4 DEF KeepsQuote
  <2>2. \A g \in Handlers : g # h /\ job[g].key = j.key /\ j.key \in Keys
                                => j.key \in together'
    BY <1>1, <1>2, <2>1
  <2>3. together \subseteq together'
    BY <1>2
  <2>4. j.key \in Keys \ together' /\ j.at \in {"PRICE", "COUPON", "WRITE"}
            => idempotency[j.key] = 0
    BY <1>2, <1>4
  <2> QED BY <1>2, <1>4, <2>1, <2>2, <2>3, <2>4, RequestGoesOn
<1>5. CASE Checkout!FindKey(h)
  <2>1. SUFFICES ASSUME idempotency[job[h].key] = 0
                 PROVE  CheckoutInv'
    BY <1>3, <1>5 DEF Checkout!FindKey, Checkout!Done
  <2>2. PICK j : j = [job[h] EXCEPT !.at = "PRICE"]
    OBVIOUS
  <2>3. KeepsQuote(j, job[h]) /\ j.discount = job[h].discount /\ j.key = job[h].key
    BY <1>1, <2>2, AtStays DEF KeepsQuote
  <2>4. CASE job' = [job EXCEPT ![h].at = "PRICE"]
    <3>1. job' = [job EXCEPT ![h] = j]
      BY <2>2, <2>4
    <3> QED BY <1>1, <1>4, <2>1, <2>3, <3>1, CheckoutLimits
  <2> QED BY <1>3, <1>5, <2>4 DEF Checkout!FindKey, Checkout!Done, Checkout!Go
<1>6. CASE Checkout!ReadPrice(h)
  <2>1. CASE Checkout!Orderable
    <3>1. PICK last \in Colors :
             job' = [job EXCEPT ![h].unitPrice = Checkout!UnitPrice,
                        ![h].lineTotal = Checkout!UnitPrice * job[h].lines[last],
                        ![h].items = Checkout!UnitPrice * Checkout!Pieces(job[h].lines),
                        ![h].at = "COUPON"]
      BY <1>6, <2>1 DEF Checkout!ReadPrice
    <3>2. PICK p, l, i : /\ p = Checkout!UnitPrice
                         /\ l = Checkout!UnitPrice * job[h].lines[last]
                         /\ i = Checkout!UnitPrice * Checkout!Pieces(job[h].lines)
      OBVIOUS
    <3>3. PICK j : j = Priced(job[h], p, l, i)
      OBVIOUS
    <3>4. KeepsQuote(j, job[h]) /\ j.discount = job[h].discount /\ j.key = job[h].key
      BY <1>1, <3>3, PricedStays DEF KeepsQuote
    <3>5. job' = [job EXCEPT ![h].unitPrice = p, ![h].lineTotal = l, ![h].items = i,
                             ![h].at = "COUPON"]
      BY <3>1, <3>2
    <3>6. job' = [job EXCEPT ![h] = j]
      BY <3>3, <3>5 DEF Priced
    <3>7. job[h].key \in Keys \ together => idempotency[job[h].key] = 0
      BY <1>6 DEF Checkout!ReadPrice, Checkout!At, CheckoutInv, KeyInv
    <3> QED BY <1>1, <1>4, <3>4, <3>6, <3>7
  <2>2. CASE ~Checkout!Orderable
    BY <1>3, <1>6, <2>2 DEF Checkout!ReadPrice, Checkout!Done
  <2> QED BY <2>1, <2>2
<1>7. CASE Checkout!ReadCoupon(h)
  <2>1. CASE job[h].coupon /\ ~Checkout!CouponApplies(job[h].items)
    BY <1>3, <1>7, <2>1 DEF Checkout!ReadCoupon, Checkout!Done
  <2>2. CASE ~(job[h].coupon /\ ~Checkout!CouponApplies(job[h].items))
    <3>1. PICK d : d = IF job[h].coupon
                       THEN Checkout!resolveDiscountAmount(job[h].items) ELSE 0
      OBVIOUS
    <3>2. PICK j : j = Discounted(job[h], d)
      OBVIOUS
    <3>3. KeepsQuote(j, job[h]) /\ j.discount = d /\ j.key = job[h].key
      BY <1>1, <3>2, DiscountedStays DEF KeepsQuote
    <3>4. job' = [job EXCEPT ![h].at = "WRITE", ![h].discount = d]
      BY <1>7, <2>2, <3>1 DEF Checkout!ReadCoupon
    <3>5. job' = [job EXCEPT ![h] = j]
      BY <3>2, <3>4 DEF Discounted
    <3>6. job[h].key \in Keys \ together => idempotency[job[h].key] = 0
      BY <1>7 DEF Checkout!ReadCoupon, Checkout!At, CheckoutInv, KeyInv
    <3>7. ~job[h].coupon => d = 0
      BY <3>1
    <3> QED BY <1>1, <1>4, <3>3, <3>5, <3>6, <3>7
  <2> QED BY <2>1, <2>2
<1> QED BY <1>5, <1>6, <1>7

LEMMA PlaceStep ==
    ASSUME CheckoutInv, NEW h \in Handlers, Checkout!Place(h)
    PROVE  CheckoutInv'
<1> DEFINE key == job[h].key
           new == Len(orders) + 1
<1>1. PICK S : orders \in Seq(S)
  BY DEF CheckoutInv, CheckoutRows
<1>2. PICK o : /\ orders' = Append(orders, o) /\ o.key = key /\ o.discount = job[h].discount
  BY DEF Checkout!Place
<1>3. /\ Len(orders) \in Nat /\ DOMAIN orders = 1..Len(orders)
      /\ Len(orders') = new /\ DOMAIN orders' = 1..new
      /\ orders'[new] = o /\ \A n \in DOMAIN orders : orders'[n] = orders[n]
      /\ \E T : orders' \in Seq(T)
  <2>1. orders \in Seq(S \cup {o}) /\ o \in S \cup {o}
    BY <1>1
  <2> QED BY <1>2, <2>1
<1>4. /\ job' = [job EXCEPT ![h] = Checkout!NoJob] /\ together' = together
      /\ job[h].at = "WRITE"
  BY DEF Checkout!Place, Checkout!Done, Checkout!At
<1>5. \A g \in Handlers : job'[g] = IF g = h THEN Checkout!NoJob ELSE job[g]
  BY <1>4 DEF CheckoutInv, CheckoutRows
<1>6. /\ idempotency' = [k \in Keys |-> idempotency'[k]]
      /\ \A k \in Keys : idempotency'[k] = IF k = key THEN new ELSE idempotency[k]
  BY <1>3, CheckoutLimits DEF Checkout!Place, Checkout!RememberKey, CheckoutInv, CheckoutRows
<1>7. \A g \in Handlers : ~job'[g].coupon => job'[g].discount = 0
  BY <1>5, NoJobComplete DEF CheckoutInv, DiscountInv
<1>8. /\ coupon' = [state |-> coupon'.state, used |-> coupon'.used] /\ coupon'.used \in Nat
      /\ DiscountInv'
  <2>1. CASE job[h].coupon
    <3>1. Checkout!ClaimsCoupon
      BY <2>1 DEF Checkout!Place, Checkout!Accepted
    <3>2. coupon' = [coupon EXCEPT !.used = @ + 1] /\ redemptions' = redemptions \cup {new}
      BY <1>3, <2>1 DEF Checkout!Place
    <3>3. /\ coupon' = [state |-> coupon'.state, used |-> coupon'.used]
          /\ coupon'.used = coupon.used + 1 /\ coupon.used \in Nat
      BY <3>2 DEF CheckoutInv, CheckoutRows
    <3>4. new \notin redemptions
      BY <1>3 DEF CheckoutInv, DiscountInv
    <3>5. IsFiniteSet(redemptions') /\ Cardinality(redemptions') = Cardinality(redemptions) + 1
      BY <3>2, <3>4, FS_AddElement DEF CheckoutInv, DiscountInv
    <3>6. Cardinality(redemptions) \in Nat
      BY FS_CardinalityType DEF CheckoutInv, DiscountInv
    <3>7. /\ coupon'.used = Cardinality(redemptions')
          /\ Cardinality(redemptions') <= UsageLimitPerUser /\ coupon'.used <= UsageLimit
      <4>1. /\ coupon.used = Cardinality(redemptions) /\ coupon.used < UsageLimit
            /\ Cardinality(redemptions) < UsageLimitPerUser
        BY <3>1, CheckoutCardinality DEF CheckoutInv, DiscountInv, Checkout!ClaimsCoupon
      <4> QED BY <3>3, <3>5, <3>6, <4>1, CheckoutLimits
    <3>8. \A n \in DOMAIN orders' : orders'[n].discount > 0 => n \in redemptions'
      BY <1>3, <3>2 DEF CheckoutInv, DiscountInv
    <3>9. redemptions' \subseteq DOMAIN orders'
      BY <1>3, <3>2 DEF CheckoutInv, DiscountInv
    <3> QED BY <1>7, <3>3, <3>5, <3>7, <3>8, <3>9 DEF DiscountInv
  <2>2. CASE ~job[h].coupon
    <3>1. UNCHANGED <<coupon, redemptions>> /\ o.discount = 0
      BY <1>2, <2>2 DEF Checkout!Place, CheckoutInv, DiscountInv
    <3>2. \A n \in DOMAIN orders' : orders'[n].discount > 0 => n \in redemptions'
      BY <1>3, <3>1 DEF CheckoutInv, DiscountInv
    <3>3. redemptions' \subseteq DOMAIN orders'
      BY <1>3, <3>1 DEF CheckoutInv, DiscountInv
    <3> QED BY <1>7, <3>1, <3>2, <3>3 DEF CheckoutInv, CheckoutRows, DiscountInv
  <2> QED BY <2>1, <2>2
<1>9. CheckoutRows'
  BY <1>3, <1>4, <1>5, <1>6, <1>8, NoJobComplete DEF CheckoutInv, CheckoutRows
<1>10. KeyInv'
  <2> USE DEF CheckoutInv, KeyInv
  <2>1. \A k \in Keys : idempotency'[k] = 0 => \A n \in DOMAIN orders' : orders'[n].key # k
    BY <1>2, <1>3, <1>6
  <2>2. \A g, i \in Handlers : g # i /\ job'[g].key = job'[i].key /\ job'[i].key \in Keys
                                  => job'[i].key \in together'
    BY <1>4, <1>5, NoJobComplete, CheckoutLimits
  <2>3. \A g \in Handlers : job'[g].key \in Keys \ together'
                             /\ job'[g].at \in {"PRICE", "COUPON", "WRITE"}
                                => idempotency'[job'[g].key] = 0
    BY <1>4, <1>5, <1>6, NoJobComplete, CheckoutLimits
  <2>4. ASSUME NEW k \in Keys \ together', NEW n \in DOMAIN orders', NEW m \in DOMAIN orders',
               orders'[n].key = k, orders'[m].key = k
        PROVE  n = m
    <3>1. \A i \in DOMAIN orders : k = key => orders[i].key # k
      BY <1>4, <2>4
    <3>2. \A i \in DOMAIN orders' : i = new \/ i \in DOMAIN orders
      BY <1>3
    <3> QED BY <1>2, <1>3, <1>4, <2>4, <3>1, <3>2
  <2> QED BY <2>1, <2>2, <2>3, <2>4
<1> QED BY <1>8, <1>9, <1>10 DEF CheckoutInv

LEMMA EditSteps ==
    ASSUME CheckoutInv,
           \/ Checkout!EditProduct \/ Checkout!EditCoupon \/ Checkout!RemoveCoupon
           \/ Checkout!EditAddress \/ Checkout!QuoteExpires \/ UNCHANGED Checkout!vars
    PROVE  CheckoutInv'
<1>1. UNCHANGED <<orders, idempotency, redemptions, together>>
  BY DEF Checkout!EditProduct, Checkout!EditCoupon, Checkout!RemoveCoupon, Checkout!EditAddress,
         Checkout!QuoteExpires, Checkout!Edit, Checkout!placed, Checkout!vars
<1>2. /\ coupon' = [state |-> coupon'.state, used |-> coupon'.used]
      /\ coupon'.used = coupon.used
  <2>1. \/ coupon' = coupon
        \/ \E state : coupon' = [coupon EXCEPT !.state = state]
    BY DEF Checkout!EditProduct, Checkout!EditCoupon, Checkout!RemoveCoupon,
           Checkout!EditAddress, Checkout!QuoteExpires, Checkout!shop, Checkout!vars
  <2> QED BY <2>1 DEF CheckoutInv, CheckoutRows
<1>3. /\ job' = [h \in Handlers |-> job'[h]]
      /\ \A h \in Handlers : KeepsQuote(job'[h], job[h]) /\ job'[h].at = job[h].at
                             /\ job'[h].discount = job[h].discount
  <2>1. CASE Checkout!QuoteExpires
    <3>1. /\ job' = [h \in Handlers |-> job'[h]]
          /\ \A h \in Handlers : \E q : job'[h] = Requoted(job[h], q)
      BY <2>1 DEF Checkout!QuoteExpires, Requoted
    <3> QED BY <3>1, QuotedStays DEF CheckoutInv, CheckoutRows
  <2>2. CASE ~Checkout!QuoteExpires
    <3>1. job' = job
      BY <2>2 DEF Checkout!EditProduct, Checkout!EditCoupon, Checkout!RemoveCoupon,
                  Checkout!EditAddress, Checkout!vars
    <3> QED BY <3>1 DEF CheckoutInv, CheckoutRows, KeepsQuote
  <2> QED BY <2>1, <2>2
<1>4. CheckoutRows'
  BY <1>1, <1>2, <1>3 DEF CheckoutInv, CheckoutRows, KeepsQuote
<1>5. KeyInv'
  BY <1>1, <1>3 DEF CheckoutInv, KeyInv, KeepsQuote
<1>6. DiscountInv'
  BY <1>1, <1>2, <1>3 DEF CheckoutInv, DiscountInv, KeepsQuote
<1> QED BY <1>4, <1>5, <1>6 DEF CheckoutInv

LEMMA CheckoutStart == Checkout!Init => CheckoutInv
<1> SUFFICES ASSUME Checkout!Init PROVE CheckoutInv
  OBVIOUS
<1>1. CheckoutRows
  BY NoJobComplete DEF Checkout!Init, CheckoutRows
<1>2. KeyInv
  BY NoJobComplete, CheckoutLimits DEF Checkout!Init, KeyInv
<1>3. DiscountInv
  BY NoJobComplete, FS_EmptySet, CheckoutLimits DEF Checkout!Init, DiscountInv
<1> QED BY <1>1, <1>2, <1>3 DEF CheckoutInv

LEMMA CheckoutStep == ASSUME CheckoutInv, [Checkout!Next]_(Checkout!vars) PROVE CheckoutInv'
<1>1. ASSUME NEW h \in Handlers, Checkout!quote(h) PROVE CheckoutInv'
  BY <1>1, ReceiveStep DEF Checkout!quote
<1>2. ASSUME NEW h \in Handlers, Checkout!create(h) PROVE CheckoutInv'
  BY <1>2, ReceiveStep DEF Checkout!create
<1>3. ASSUME NEW h \in Handlers, Checkout!signQuote(h) \/ Checkout!Reject(h)
      PROVE  CheckoutInv'
  BY <1>3, RequestEnds DEF Checkout!signQuote, Checkout!Reject, Checkout!Done,
                                 Checkout!shop, Checkout!placed
<1> QED BY <1>1, <1>2, <1>3, PricingSteps, PlaceStep, EditSteps DEF Checkout!Next

LEMMA CheckoutInvHolds == Spec => [](scope = "Checkout" => CheckoutInv)
<1>1. Init => (scope = "Checkout" => CheckoutInv)
  BY CheckoutStart DEF Init
<1>2. (scope = "Checkout" => CheckoutInv) /\ [Next]_vars => (scope = "Checkout" => CheckoutInv)'
  <2>1. [Next]_vars /\ scope' = "Checkout" => scope = "Checkout" /\ [Checkout!Next]_(Checkout!vars)
    BY DEF Next, vars, shared, checkout, Checkout!vars
  <2> QED BY <2>1, CheckoutStep
<1> QED BY <1>1, <1>2, PTL DEF Spec

(* A key has one order, however often and with whatever answers lost the client sends it,
   unless two requests carried it at one time, for any number of requests and keys (create,
   orders.service.ts). *)
THEOREM OneOrderPerKeyHolds == Spec => []OneOrderPerKey
<1>1. ASSUME CheckoutInv, NEW k \in Keys \ together
      PROVE  Cardinality({n \in DOMAIN orders : orders[n].key = k}) <= 1
  <2> DEFINE N == {n \in DOMAIN orders : orders[n].key = k}
  <2>1. CASE N = {}
    BY <2>1, FS_EmptySet
  <2>2. CASE N # {}
    <3>1. PICK n \in N : TRUE
      BY <2>2
    <3>2. N = {n}
      BY <1>1, <3>1 DEF CheckoutInv, KeyInv
    <3>3. Cardinality({n}) = 1
      BY FS_Singleton
    <3> HIDE DEF N
    <3>4. Cardinality(N) = 1
      BY <3>2, <3>3
    <3> QED BY <3>4 DEF N
  <2> QED BY <2>1, <2>2
<1>2. (scope = "Checkout" => CheckoutInv) => OneOrderPerKey
  BY <1>1, CheckoutCardinality DEF OneOrderPerKey, Checkout!OneOrderPerKey
<1> QED BY <1>2, CheckoutInvHolds, PTL

(* Every order with a discount redeemed the coupon, whose counter is what was redeemed, within
   its limit and that of the customer, although the discount is computed from limits read
   long before the transaction (buildOrderPricing and create, orders.service.ts). *)
THEOREM DiscountIsClaimedHolds == Spec => []DiscountIsClaimed
<1>1. (scope = "Checkout" => CheckoutInv) => DiscountIsClaimed
  BY CheckoutCardinality
     DEF DiscountIsClaimed, CheckoutInv, DiscountInv, Checkout!DiscountIsClaimed
<1> QED BY <1>1, CheckoutInvHolds, PTL

-----------------------------------------------------------------------------
(* Cart: never more lines or pieces than an order takes *)

LEMMA CartLimits ==
    IsFiniteSet(Lines) /\ CART_MAX_LINES \in Nat /\ CART_MAX_QUANTITY \in Nat \ {0}
BY ServicesAssumption

LEMMA CartCardinality == \A S : Cart!Cardinality(S) = Cardinality(S)
BY DEF Cart!Cardinality, Cardinality

(* The requests a step leaves behind. *)
CartStages == {"IDLE", "COUNT", "UPSERT", "CAP", "MERGE"}
CartRequests == [at : CartStages, lines : SUBSET Lines, quantity : 0..CART_MAX_QUANTITY]
CartRequestOf(at, ls, q) == [at |-> at, lines |-> ls, quantity |-> q]

\* While no line was added behind a request's back, the cart has room for the lines it is
\* about to add.
CartRows ==
    /\ cart \in [Lines -> Nat] /\ selling \in SUBSET Lines
    /\ job \in [Handlers -> CartRequests]
    /\ \A h \in Handlers : job[h].at \in {"COUNT", "UPSERT", "CAP"} => \E l \in Lines : job[h].lines = {l}
    /\ \A h \in Handlers : job[h].at = "CAP" => job[h].lines \subseteq Cart!In(cart)
CappedLines == \A l \in Lines : cart[l] > CART_MAX_QUANTITY
                        => \/ \E h \in Handlers : job[h].at = "CAP" /\ l \in job[h].lines
                           \/ l \in uncapped
RoomForLines == \/ crowded
        \/ /\ Cardinality(Cart!In(cart)) <= CART_MAX_LINES
           /\ \A h \in Handlers : job[h].at \in {"UPSERT", "MERGE"} =>
               Cardinality(Cart!In(cart) \cup job[h].lines) <= CART_MAX_LINES
CartInv == CartRows /\ CappedLines /\ RoomForLines

LEMMA CartRequestShape ==
    /\ Cart!NoJob \in CartRequests /\ Cart!NoJob.at = "IDLE" /\ Cart!NoJob.lines = {}
    /\ \A at \in CartStages, ls \in SUBSET Lines, q \in 0..CART_MAX_QUANTITY :
          /\ CartRequestOf(at, ls, q) \in CartRequests /\ CartRequestOf(at, ls, q).at = at
          /\ CartRequestOf(at, ls, q).lines = ls
BY CartLimits DEF Cart!NoJob, CartRequests, CartRequestOf, CartStages

LEMMA CardMonotone ==
    ASSUME NEW S, NEW T, S \subseteq T, IsFiniteSet(T)
    PROVE  IsFiniteSet(S) /\ Cardinality(S) <= Cardinality(T) /\ Cardinality(S) \in Nat
BY FS_Subset, FS_CardinalityType

LEMMA InCart == ASSUME NEW c PROVE Cart!In(c) \subseteq Lines
BY DEF Cart!In

(* A line that stays above its limit is still somebody's to cap, or given up. *)
LEMMA StaysExcused ==
    ASSUME CappedLines, NEW c, Cart!Becomes(c), NEW l \in Lines,
           cart[l] > CART_MAX_QUANTITY, c[l] > CART_MAX_QUANTITY
    PROVE  \/ \E h \in Handlers : job[h].at = "CAP" /\ l \in job[h].lines
           \/ l \in uncapped'
BY DEF CappedLines, Cart!Becomes

(* A step that adds no line to the cart leaves room. *)
LEMMA RoomStays ==
    ASSUME CartRows, RoomForLines, Cart!In(cart') \subseteq Cart!In(cart),
           crowded => crowded',
           \A h \in Handlers : job'[h].at \in {"UPSERT", "MERGE"} =>
               \/ job'[h] = job[h]
               \/ job'[h].lines \subseteq Cart!In(cart)
               \/ crowded'
               \/ /\ job'[h].lines \subseteq Lines
                  /\ Cardinality(Cart!In(cart) \cup job'[h].lines) <= CART_MAX_LINES
    PROVE  RoomForLines'
<1> SUFFICES ASSUME ~crowded, ~crowded' PROVE RoomForLines'
  BY DEF RoomForLines
<1>1. IsFiniteSet(Lines) /\ CART_MAX_LINES \in Nat
  BY CartLimits
<1>2. Cardinality(Cart!In(cart')) <= CART_MAX_LINES
  <2>1. IsFiniteSet(Cart!In(cart))
    BY <1>1, InCart, FS_Subset
  <2> QED BY <1>1, <2>1, CardMonotone, FS_CardinalityType DEF RoomForLines
<1>3. ASSUME NEW h \in Handlers, job'[h].at \in {"UPSERT", "MERGE"}
      PROVE  Cardinality(Cart!In(cart') \cup job'[h].lines) <= CART_MAX_LINES
  <2>1. \/ job'[h] = job[h] \/ job'[h].lines \subseteq Cart!In(cart)
        \/ /\ job'[h].lines \subseteq Lines
           /\ Cardinality(Cart!In(cart) \cup job'[h].lines) <= CART_MAX_LINES
    BY <1>3
  <2>2. Cardinality(Cart!In(cart) \cup job'[h].lines) <= CART_MAX_LINES
        /\ Cart!In(cart) \cup job'[h].lines \subseteq Lines
    <3>1. CASE job'[h] = job[h]
      BY <1>3, <3>1, InCart DEF RoomForLines, CartRows, CartRequests
    <3>2. CASE job'[h].lines \subseteq Cart!In(cart)
      <4>1. Cart!In(cart) \cup job'[h].lines = Cart!In(cart)
        BY <3>2
      <4> QED BY <4>1, InCart DEF RoomForLines
    <3> QED BY <2>1, <3>1, <3>2, InCart
  <2>3. PICK S, T : S = Cart!In(cart') \cup job'[h].lines /\ T = Cart!In(cart) \cup job'[h].lines
    OBVIOUS
  <2>4. S \subseteq T /\ IsFiniteSet(T) /\ Cardinality(T) \in Nat
    BY <1>1, <2>2, <2>3, FS_Subset, FS_CardinalityType
  <2>5. Cardinality(S) <= Cardinality(T) /\ Cardinality(S) \in Nat
    BY <2>4, CardMonotone
  <2> QED BY <1>1, <2>2, <2>3, <2>4, <2>5
<1> QED BY <1>2, <1>3 DEF RoomForLines

(* The request that adds its lines leaves room for the others, or there is one it crowds. *)
LEMMA RoomForWrite ==
    ASSUME CartRows, RoomForLines, NEW h \in Handlers, NEW c,
           job[h].at \in {"UPSERT", "MERGE"}, Cart!Write(h, c),
           Cart!In(c) \subseteq Cart!In(cart) \cup job[h].lines,
           \A g \in Handlers : g # h => job'[g] = job[g],
           job'[h].at \in {"CAP", "IDLE"}
    PROVE  RoomForLines'
<1>1. cart' = c /\ (crowded => crowded')
      /\ (crowded' \/ Cart!In(c) \subseteq Cart!In(cart)
            \/ \A g \in Handlers : g # h => job[g].at \notin {"UPSERT", "MERGE"})
  BY DEF Cart!Write, Cart!Becomes
<1>2. CASE Cart!In(c) \subseteq Cart!In(cart)
  <2>1. Cart!In(cart') \subseteq Cart!In(cart)
    BY <1>1, <1>2
  <2>2. \A g \in Handlers : job'[g].at \in {"UPSERT", "MERGE"} => job'[g] = job[g]
    OBVIOUS
  <2> QED BY <1>1, <2>1, <2>2, RoomStays
<1>3. CASE crowded' \/ crowded
  BY <1>1, <1>3 DEF RoomForLines
<1>4. CASE ~crowded /\ \A g \in Handlers : g # h => job[g].at \notin {"UPSERT", "MERGE"}
  <2>1. Cardinality(Cart!In(cart) \cup job[h].lines) <= CART_MAX_LINES
        /\ Cart!In(cart) \cup job[h].lines \subseteq Lines
    BY <1>4, InCart DEF RoomForLines, CartRows, CartRequests
  <2>2. PICK S, T : S = Cart!In(c) /\ T = Cart!In(cart) \cup job[h].lines
    OBVIOUS
  <2>3. Cardinality(S) <= Cardinality(T) /\ Cardinality(S) \in Nat /\ Cardinality(T) \in Nat
    BY <2>1, <2>2, FS_Subset, CardMonotone, FS_CardinalityType, CartLimits
  <2>4. \A g \in Handlers : job'[g].at \notin {"UPSERT", "MERGE"}
    BY <1>4
  <2> QED BY <1>1, <2>1, <2>2, <2>3, <2>4, CartLimits DEF RoomForLines
<1> QED BY <1>1, <1>2, <1>3, <1>4

LEMMA AddSteps ==
    ASSUME CartInv, NEW h \in Handlers,
           \/ \E l \in Lines, q \in Cart!Amounts : Cart!FindLine(h, l, q)
           \/ Cart!CountLines(h) \/ Cart!Upsert(h) \/ Cart!Cap(h)
    PROVE  CartInv'
<1> USE DEF Cart!Set, Cart!Done, Cart!At, CartRequests, CartStages
<1>1. CASE \E l \in Lines, q \in Cart!Amounts : Cart!FindLine(h, l, q)
  <2>1. PICK l \in Lines, q \in 1..CART_MAX_QUANTITY : Cart!FindLine(h, l, q)
    BY <1>1 DEF Cart!Amounts
  <2>2. PICK j : j = [at |-> IF cart[l] > 0 THEN "UPSERT" ELSE "COUNT", lines |-> {l},
                      quantity |-> q]
    OBVIOUS
  <2>3. job' = [job EXCEPT ![h] = j] /\ UNCHANGED <<cart, selling, crowded, uncapped>>
    BY <2>1, <2>2 DEF Cart!FindLine
  <2>4. /\ \A g \in Handlers : job'[g] = IF g = h THEN j ELSE job[g]
        /\ job[h].at = "IDLE" /\ j.at = (IF cart[l] > 0 THEN "UPSERT" ELSE "COUNT")
        /\ j.lines = {l}
    BY <2>1, <2>2, <2>3, CartRequestShape DEF CartInv, CartRows, Cart!FindLine
  <2>5. CartRows' /\ CappedLines'
    <3>1. CartRows'
      BY <2>2, <2>3, <2>4 DEF CartInv, CartRows
    <3>2. CappedLines'
      BY <2>3, <2>4 DEF CartInv, CappedLines
    <3> QED BY <3>1, <3>2
  <2>6. RoomForLines'
    <3>1. j.at = "UPSERT" => j.lines \subseteq Cart!In(cart)
      BY <2>4 DEF Cart!In
    <3>2. j.at # "MERGE"
      BY <2>4
    <3>3. \A g \in Handlers : job'[g].at \in {"UPSERT", "MERGE"} =>
             job'[g] = job[g] \/ job'[g].lines \subseteq Cart!In(cart)
      BY <2>4, <3>1, <3>2
    <3> QED BY <2>3, <3>3, RoomStays DEF CartInv
  <2> QED BY <2>5, <2>6 DEF CartInv
<1>2. CASE Cart!CountLines(h)
  <2>1. PICK l \in Lines : job[h].at = "COUNT" /\ job[h].lines = {l}
    BY <1>2 DEF Cart!CountLines, CartInv, CartRows
  <2>2. UNCHANGED <<cart, selling, crowded, uncapped>>
    BY <1>2 DEF Cart!CountLines
  <2>3. PICK j : /\ job' = [job EXCEPT ![h] = j]
                 /\ j \in CartRequests /\ j.at \in {"IDLE", "UPSERT"}
                 /\ j.at = "UPSERT" => j.lines = {l} /\ ~Cart!AtLimit
    <3>1. CASE Cart!AtLimit
      <4>1. job' = [job EXCEPT ![h] = Cart!NoJob]
        BY <1>2, <3>1 DEF Cart!CountLines
      <4> HIDE DEF CartRequests, CartStages
      <4> QED BY <4>1, CartRequestShape
    <3>2. CASE ~Cart!AtLimit
      <4>1. PICK q \in 0..CART_MAX_QUANTITY : q = job[h].quantity
        BY DEF CartInv, CartRows
      <4>2. job' = [job EXCEPT ![h] = CartRequestOf("UPSERT", {l}, q)]
        BY <1>2, <2>1, <3>2, <4>1 DEF Cart!CountLines, CartRequestOf
      <4>3. {l} \in SUBSET Lines /\ "UPSERT" \in CartStages
        OBVIOUS
      <4> HIDE DEF CartRequests, CartStages
      <4>4. PICK j : j = CartRequestOf("UPSERT", {l}, q)
        OBVIOUS
      <4>5. j \in CartRequests /\ j.at = "UPSERT" /\ j.lines = {l}
        BY <4>3, <4>4, CartRequestShape
      <4> QED BY <3>2, <4>2, <4>4, <4>5
    <3> QED BY <3>1, <3>2
  <2>4. \A g \in Handlers : job'[g] = IF g = h THEN j ELSE job[g]
    BY <2>3 DEF CartInv, CartRows
  <2>5. CartRows'
    BY <2>2, <2>3, <2>4 DEF CartInv, CartRows
  <2>6. CappedLines'
    BY <2>1, <2>2, <2>3, <2>4 DEF CartInv, CappedLines
  <2>7. RoomForLines'
    <3>1. j.at = "UPSERT" => Cardinality(Cart!In(cart) \cup j.lines) <= CART_MAX_LINES
      <4>1. IsFiniteSet(Cart!In(cart)) /\ Cardinality(Cart!In(cart)) \in Nat
        BY InCart, FS_Subset, FS_CardinalityType, CartLimits
      <4>2. Cardinality(Cart!In(cart) \cup {l}) <= Cardinality(Cart!In(cart)) + 1
            /\ Cardinality(Cart!In(cart) \cup {l}) \in Nat
        <5>1. PICK S, T : S = Cart!In(cart) /\ T = Cart!In(cart) \cup {l}
          OBVIOUS
        <5>2. l \in S => T = S
          BY <5>1
        <5>3. l \notin S => Cardinality(T) = Cardinality(S) + 1
          BY <4>1, <5>1, FS_AddElement
        <5> QED BY <4>1, <5>1, <5>2, <5>3
      <4>3. j.at = "UPSERT" => Cardinality(Cart!In(cart)) < CART_MAX_LINES
        BY <2>3, <4>1, CartCardinality, CartLimits DEF Cart!AtLimit
      <4>4. PICK a \in Nat, b \in Nat, c \in Nat :
              /\ a = Cardinality(Cart!In(cart)) /\ c = CART_MAX_LINES
              /\ b = Cardinality(Cart!In(cart) \cup {l}) /\ b <= a + 1
        BY <4>1, <4>2, CartLimits
      <4>5. j.at = "UPSERT" => a < c
        BY <4>3, <4>4
      <4>6. j.at = "UPSERT" => b <= c
        BY <4>4, <4>5
      <4>7. j.at = "UPSERT" => j.lines = {l}
        BY <2>3
      <4> QED BY <4>4, <4>6, <4>7
    <3>2. \A g \in Handlers : job'[g].at \in {"UPSERT", "MERGE"} =>
             \/ job'[g] = job[g]
             \/ /\ job'[g].lines \subseteq Lines
                /\ Cardinality(Cart!In(cart) \cup job'[g].lines) <= CART_MAX_LINES
      BY <2>3, <2>4, <3>1
    <3> QED BY <2>2, <3>2, RoomStays DEF CartInv
  <2> QED BY <2>5, <2>6, <2>7 DEF CartInv
<1>3. CASE Cart!Upsert(h)
  <2> DEFINE c == [l \in Lines |-> IF l \in job[h].lines THEN cart[l] + job[h].quantity
                                   ELSE cart[l]]
  <2>1. PICK x \in Lines : job[h].at = "UPSERT" /\ job[h].lines = {x}
    BY <1>3 DEF Cart!Upsert, CartInv, CartRows
  <2>2. Cart!Write(h, c) /\ Cart!Becomes(c) /\ cart' = c /\ selling' = selling
    BY <1>3 DEF Cart!Upsert, Cart!Write, Cart!Becomes
  <2>3. /\ cart \in [Lines -> Nat] /\ c \in [Lines -> Nat]
        /\ job[h].quantity \in Nat /\ \A l \in Lines : l # x => c[l] = cart[l]
        /\ c[x] = cart[x] + job[h].quantity
    BY <2>1 DEF CartInv, CartRows
  <2>4. PICK j : /\ job' = [job EXCEPT ![h] = j]
                 /\ j \in CartRequests /\ j.at \in {"IDLE", "CAP"}
                 /\ j.at = "CAP" => j.lines = {x} /\ c[x] > CART_MAX_QUANTITY
                 /\ j.at = "IDLE" => ~(c[x] > CART_MAX_QUANTITY)
    <3>1. CASE c[x] > CART_MAX_QUANTITY
      <4>1. job' = [job EXCEPT ![h] = CartRequestOf("CAP", {x}, 0)]
        BY <1>3, <2>1, <3>1 DEF Cart!Upsert, CartRequestOf
      <4>2. {x} \in SUBSET Lines /\ "CAP" \in CartStages /\ 0 \in 0..CART_MAX_QUANTITY
        BY CartLimits
      <4> HIDE DEF CartRequests, CartStages, c
      <4> QED BY <3>1, <4>1, <4>2, CartRequestShape
    <3>2. CASE ~(c[x] > CART_MAX_QUANTITY)
      <4>1. job' = [job EXCEPT ![h] = Cart!NoJob]
        BY <1>3, <2>1, <3>2 DEF Cart!Upsert
      <4> HIDE DEF CartRequests, CartStages, c
      <4> QED BY <3>2, <4>1, CartRequestShape
    <3> QED BY <3>1, <3>2
  <2> HIDE DEF c
  <2>5. \A g \in Handlers : job'[g] = IF g = h THEN j ELSE job[g]
    BY <2>4 DEF CartInv, CartRows
  <2>6. Cart!In(cart) \subseteq Cart!In(cart') /\ Cart!In(c) \subseteq Cart!In(cart) \cup {x}
        /\ (j.at = "CAP" => x \in Cart!In(cart'))
    BY <2>2, <2>3, <2>4, CartLimits DEF Cart!In
  <2>7. CartRows'
    BY <2>2, <2>3, <2>4, <2>5, <2>6 DEF CartInv, CartRows
  <2>8. CappedLines'
    <3>1. ASSUME NEW l \in Lines, cart'[l] > CART_MAX_QUANTITY, l \notin uncapped'
          PROVE  \E g \in Handlers : job'[g].at = "CAP" /\ l \in job'[g].lines
      <4>1. CASE l = x
        BY <2>2, <2>4, <2>5, <3>1, <4>1
      <4>2. CASE l # x
        <5>1. PICK g \in Handlers : job[g].at = "CAP" /\ l \in job[g].lines
          BY <2>2, <2>3, <3>1, <4>2, StaysExcused DEF CartInv
        <5> QED BY <2>1, <2>5, <5>1
      <4> QED BY <4>1, <4>2
    <3> QED BY <3>1 DEF CappedLines
  <2>9. RoomForLines'
    BY <2>1, <2>2, <2>4, <2>5, <2>6, RoomForWrite DEF CartInv
  <2> QED BY <2>7, <2>8, <2>9 DEF CartInv
<1>4. CASE Cart!Cap(h)
  <2>1. PICK x \in Lines : job[h].at = "CAP" /\ job[h].lines = {x} /\ x \in Cart!In(cart)
    BY <1>4 DEF Cart!Cap, CartInv, CartRows
  <2>2. PICK c : /\ c = [l \in Lines |-> IF l = x THEN CART_MAX_QUANTITY ELSE cart[l]]
                 /\ Cart!Becomes(c) /\ cart' = c
                 /\ UNCHANGED <<selling, crowded>> /\ job' = [job EXCEPT ![h] = Cart!NoJob]
    BY <1>4, <2>1 DEF Cart!Cap, Cart!Becomes
  <2>3. \A g \in Handlers : job'[g] = IF g = h THEN Cart!NoJob ELSE job[g]
    BY <2>2 DEF CartInv, CartRows
  <2>4. Cart!In(cart') = Cart!In(cart)
    BY <2>1, <2>2, CartLimits DEF Cart!In
  <2>5. CartRows'
    BY <2>2, <2>3, <2>4, CartRequestShape, CartLimits DEF CartInv, CartRows
  <2>6. CappedLines'
    <3>1. ASSUME NEW l \in Lines, cart'[l] > CART_MAX_QUANTITY, l \notin uncapped'
          PROVE  \E g \in Handlers : job'[g].at = "CAP" /\ l \in job'[g].lines
      <4>1. l # x /\ cart[l] > CART_MAX_QUANTITY
        BY <2>2, <3>1, CartLimits
      <4>2. PICK g \in Handlers : job[g].at = "CAP" /\ l \in job[g].lines
        BY <2>2, <3>1, <4>1, StaysExcused DEF CartInv
      <4> QED BY <2>1, <2>3, <4>1, <4>2
    <3> QED BY <3>1 DEF CappedLines
  <2>7. RoomForLines'
    <3>1. \A g \in Handlers : job'[g].at \in {"UPSERT", "MERGE"} => job'[g] = job[g]
      BY <2>3, CartRequestShape
    <3> QED BY <2>2, <2>4, <3>1, RoomStays DEF CartInv
  <2> QED BY <2>5, <2>6, <2>7 DEF CartInv
<1> QED BY <1>1, <1>2, <1>3, <1>4

(* Merging takes no more new lines than there is room for. *)
LEMMA MergeReadStep ==
    ASSUME CartInv, NEW h \in Handlers, NEW wanted \in SUBSET Lines,
           NEW q \in 0..CART_MAX_QUANTITY, Cart!MergeRead(h, wanted, q)
    PROVE  CartInv'
<1>1. PICK old, new :
         /\ old \subseteq Cart!In(cart) /\ new \in SUBSET Lines
         /\ Cart!Cardinality(new) <= (IF Cart!AtLimit THEN 0
                                      ELSE CART_MAX_LINES - Cart!Cardinality(Cart!In(cart)))
         /\ job' = [job EXCEPT ![h] = CartRequestOf("MERGE", old \cup new, q)]
         /\ UNCHANGED <<cart, selling, crowded, uncapped>>
  <2>1. PICK lines, old : lines = wanted \cap selling /\ old = lines \cap Cart!In(cart)
    OBVIOUS
  <2>2. PICK new \in SUBSET (lines \ old) :
          /\ Cart!Cardinality(new) <= (IF Cart!AtLimit THEN 0
                                       ELSE CART_MAX_LINES - Cart!Cardinality(Cart!In(cart)))
          /\ job' = [job EXCEPT ![h] = CartRequestOf("MERGE", old \cup new, q)]
    BY <2>1 DEF Cart!MergeRead, Cart!Set, CartRequestOf
  <2>3. UNCHANGED <<cart, selling, crowded, uncapped>>
    BY DEF Cart!MergeRead
  <2> QED BY <2>1, <2>2, <2>3
<1>2. PICK j : j = CartRequestOf("MERGE", old \cup new, q)
  OBVIOUS
<1>3. j \in CartRequests /\ j.at = "MERGE" /\ j.lines = old \cup new /\ old \cup new \subseteq Lines
  <2>1. old \cup new \in SUBSET Lines /\ "MERGE" \in CartStages
    BY <1>1, InCart DEF CartStages
  <2> QED BY <1>2, <2>1, CartRequestShape
<1>4. \A g \in Handlers : job'[g] = IF g = h THEN j ELSE job[g]
  BY <1>1, <1>2 DEF CartInv, CartRows
<1>5. CartRows'
  BY <1>1, <1>2, <1>3, <1>4 DEF CartInv, CartRows
<1>6. job[h].at = "IDLE"
  BY CartRequestShape DEF Cart!MergeRead
<1>7. CappedLines'
  BY <1>1, <1>4, <1>6 DEF CartInv, CappedLines
<1>8. RoomForLines'
  <2>1. PICK I, T : I = Cart!In(cart) /\ T = Cart!In(cart) \cup new
    OBVIOUS
  <2>2. /\ IsFiniteSet(I) /\ IsFiniteSet(new) /\ Cardinality(I) \in Nat /\ Cardinality(new) \in Nat
        /\ CART_MAX_LINES \in Nat
    BY <1>1, <2>1, InCart, FS_Subset, FS_CardinalityType, CartLimits
  <2>3. Cardinality(T) <= Cardinality(I) + Cardinality(new) /\ Cardinality(T) \in Nat
    <3>1. /\ IsFiniteSet(T) /\ IsFiniteSet(I \cap new)
          /\ Cardinality(I \cup new) = Cardinality(I) + Cardinality(new) - Cardinality(I \cap new)
      BY <2>1, <2>2, FS_Union, FS_Intersection
    <3>2. Cardinality(I \cap new) \in Nat
      BY <3>1, FS_CardinalityType
    <3>3. T = I \cup new
      BY <2>1
    <3>4. PICK k, m, n \in Nat : /\ k = Cardinality(I) /\ m = Cardinality(new)
                                 /\ n = Cardinality(I \cap new)
      BY <2>2, <3>2
    <3>5. Cardinality(T) = k + m - n /\ Cardinality(T) \in Nat
      BY <3>1, <3>3, <3>4, FS_CardinalityType
    <3>6. k + m - n <= k + m
      OBVIOUS
    <3> QED BY <3>4, <3>5, <3>6
  <2>4. Cart!In(cart) \cup j.lines = T
    BY <1>1, <1>3, <2>1
  <2>5. CASE Cart!AtLimit
    <3>1. Cardinality(new) = 0
      BY <1>1, <2>2, <2>5, CartCardinality
    <3>2. new = {}
      BY <2>2, <3>1, FS_EmptySet
    <3>3. j.lines \subseteq Cart!In(cart)
      BY <1>1, <1>3, <3>2
    <3>4. \A g \in Handlers : job'[g].at \in {"UPSERT", "MERGE"} =>
             job'[g] = job[g] \/ job'[g].lines \subseteq Cart!In(cart)
      BY <1>4, <3>3
    <3> QED BY <1>1, <3>4, RoomStays DEF CartInv
  <2>6. CASE ~Cart!AtLimit
    <3>1. Cardinality(new) <= CART_MAX_LINES - Cardinality(I)
      BY <1>1, <2>1, <2>6, CartCardinality
    <3>2. Cardinality(Cart!In(cart) \cup j.lines) <= CART_MAX_LINES
      <4>1. Cardinality(T) <= CART_MAX_LINES
        BY <2>2, <2>3, <3>1
      <4> QED BY <2>4, <4>1
    <3>3. \A g \in Handlers : job'[g].at \in {"UPSERT", "MERGE"} =>
             \/ job'[g] = job[g]
             \/ /\ job'[g].lines \subseteq Lines
                /\ Cardinality(Cart!In(cart) \cup job'[g].lines) <= CART_MAX_LINES
      BY <1>3, <1>4, <3>2
    <3> QED BY <1>1, <3>3, RoomStays DEF CartInv
  <2> QED BY <2>5, <2>6
<1> QED BY <1>5, <1>7, <1>8 DEF CartInv

LEMMA MergeWriteStep ==
    ASSUME CartInv, NEW h \in Handlers, Cart!MergeWrite(h)
    PROVE  CartInv'
<1> DEFINE c == [l \in Lines |-> IF l \in job[h].lines THEN Cart!Greatest(cart[l], job[h].quantity)
                                 ELSE cart[l]]
<1>1. /\ job[h].at = "MERGE" /\ Cart!Write(h, c) /\ Cart!Becomes(c) /\ cart' = c
      /\ selling' = selling /\ job' = [job EXCEPT ![h] = Cart!NoJob]
  BY DEF Cart!MergeWrite, Cart!Write, Cart!Becomes, Cart!At, Cart!Done
<1>2. /\ cart \in [Lines -> Nat] /\ job[h] \in CartRequests /\ job[h].quantity \in 0..CART_MAX_QUANTITY
      /\ job \in [Handlers -> CartRequests] /\ CART_MAX_QUANTITY \in Nat
  BY CartLimits DEF CartInv, CartRows, CartRequests
<1>3. /\ c \in [Lines -> Nat] /\ \A l \in Lines : l \notin job[h].lines => c[l] = cart[l]
      /\ \A l \in Lines : c[l] >= cart[l]
      /\ \A l \in Lines : c[l] > CART_MAX_QUANTITY => c[l] = cart[l]
  BY <1>2 DEF Cart!Greatest
<1> HIDE DEF c
<1>4. \A g \in Handlers : job'[g] = IF g = h THEN Cart!NoJob ELSE job[g]
  BY <1>1, <1>2
<1>5. Cart!In(cart) \subseteq Cart!In(cart') /\ Cart!In(c) \subseteq Cart!In(cart) \cup job[h].lines
  BY <1>1, <1>2, <1>3 DEF Cart!In
<1>6. CartRows'
  BY <1>1, <1>3, <1>4, <1>5, CartRequestShape DEF CartInv, CartRows
<1>7. CappedLines'
  <2>1. ASSUME NEW l \in Lines, cart'[l] > CART_MAX_QUANTITY, l \notin uncapped'
        PROVE  \E g \in Handlers : job'[g].at = "CAP" /\ l \in job'[g].lines
    <3>1. PICK g \in Handlers : job[g].at = "CAP" /\ l \in job[g].lines
      BY <1>1, <1>3, <2>1, StaysExcused DEF CartInv
    <3> QED BY <1>1, <1>4, <3>1
  <2> QED BY <2>1 DEF CappedLines
<1>8. RoomForLines'
  <2>1. job'[h].at = "IDLE" /\ \A g \in Handlers : g # h => job'[g] = job[g]
    BY <1>4, CartRequestShape
  <2> QED BY <1>1, <1>5, <2>1, RoomForWrite DEF CartInv
<1> QED BY <1>6, <1>7, <1>8 DEF CartInv

(* Lines only leave the cart, and the requests that would have capped them end. *)
LEMMA ShrinkStep ==
    ASSUME CartInv, NEW c \in [Lines -> Nat], Cart!Shrink(c),
           \A l \in Lines : c[l] <= cart[l]
    PROVE  CartInv'
<1>1. /\ cart' = c /\ Cart!Becomes(c) /\ UNCHANGED <<selling, crowded>>
      /\ job' = [h \in Handlers |-> IF job[h].at = "CAP" /\ job[h].lines \cap Cart!In(c) = {}
                                    THEN Cart!NoJob ELSE job[h]]
  BY DEF Cart!Shrink, Cart!Becomes, Cart!At
<1>2. /\ cart \in [Lines -> Nat] /\ job \in [Handlers -> CartRequests] /\ selling \in SUBSET Lines
      /\ \A h \in Handlers : job[h].at \in {"COUNT", "UPSERT", "CAP"}
                                => \E l \in Lines : job[h].lines = {l}
      /\ CART_MAX_QUANTITY \in Nat
  BY CartLimits DEF CartInv, CartRows
<1>3. Cart!In(cart') \subseteq Cart!In(cart)
  BY <1>1, <1>2 DEF Cart!In
<1>4. \A h \in Handlers : job'[h] = job[h] \/ job'[h] = Cart!NoJob
  BY <1>1
<1>5. CartRows'
  <2>1. job' \in [Handlers -> CartRequests]
    BY <1>1, <1>2, CartRequestShape
  <2>2. \A h \in Handlers : job'[h].at \in {"COUNT", "UPSERT", "CAP"}
                                => \E l \in Lines : job'[h].lines = {l}
    BY <1>2, <1>4, CartRequestShape
  <2>3. \A h \in Handlers : job'[h].at = "CAP" => job'[h].lines \subseteq Cart!In(cart')
    <3>1. ASSUME NEW h \in Handlers, job'[h].at = "CAP"
          PROVE  job'[h].lines \subseteq Cart!In(cart')
      <4>1. job'[h] = job[h] /\ job[h].lines \cap Cart!In(c) # {}
        BY <1>1, <3>1, CartRequestShape
      <4>2. PICK l \in Lines : job[h].lines = {l}
        BY <1>2, <3>1, <4>1
      <4> QED BY <1>1, <4>1, <4>2
    <3> QED BY <3>1
  <2> QED BY <1>1, <1>2, <2>1, <2>2, <2>3 DEF CartRows
<1>6. CappedLines'
  <2>1. ASSUME NEW l \in Lines, cart'[l] > CART_MAX_QUANTITY, l \notin uncapped'
        PROVE  \E h \in Handlers : job'[h].at = "CAP" /\ l \in job'[h].lines
    <3>1. cart[l] > CART_MAX_QUANTITY /\ l \in Cart!In(c)
      BY <1>1, <1>2, <2>1 DEF Cart!In
    <3>2. PICK h \in Handlers : job[h].at = "CAP" /\ l \in job[h].lines
      BY <1>1, <2>1, <3>1, StaysExcused DEF CartInv
    <3> QED BY <1>1, <3>1, <3>2
  <2> QED BY <2>1 DEF CappedLines
<1>7. RoomForLines'
  <2>1. \A h \in Handlers : job'[h].at \in {"UPSERT", "MERGE"} => job'[h] = job[h]
    BY <1>4, CartRequestShape
  <2> QED BY <1>1, <1>3, <2>1, RoomStays DEF CartInv
<1> QED BY <1>5, <1>6, <1>7 DEF CartInv

LEMMA StatementSteps ==
    ASSUME CartInv, NEW l \in Lines, NEW q \in Cart!Amounts,
           \/ Cart!updateQuantity(l, q) \/ Cart!removePurchasedItems({l}, q)
           \/ Cart!removeItem(l) \/ Cart!SellOrNot(l) \/ Cart!clear \/ UNCHANGED Cart!vars
    PROVE  CartInv'
<1>1. q \in Nat \ {0} /\ q <= CART_MAX_QUANTITY /\ CART_MAX_QUANTITY \in Nat
      /\ cart \in [Lines -> Nat]
  BY CartLimits DEF Cart!Amounts, CartInv, CartRows
<1>2. CASE Cart!updateQuantity(l, q)
  <2>1. PICK c : /\ cart[l] > 0 /\ c = [cart EXCEPT ![l] = q] /\ cart' = c /\ Cart!Becomes(c)
                 /\ UNCHANGED <<selling, job, crowded>>
    BY <1>2 DEF Cart!updateQuantity, Cart!Becomes
  <2>2. cart' \in [Lines -> Nat] /\ Cart!In(cart') = Cart!In(cart)
    BY <1>1, <2>1 DEF Cart!In
  <2>3. CartRows'
    BY <2>1, <2>2 DEF CartInv, CartRows
  <2>4. CappedLines'
    <3>1. ASSUME NEW x \in Lines, cart'[x] > CART_MAX_QUANTITY
          PROVE  x \in uncapped' \/ \E h \in Handlers : job[h].at = "CAP" /\ x \in job[h].lines
      <4>1. cart[x] > CART_MAX_QUANTITY
        BY <1>1, <2>1, <3>1
      <4> QED BY <2>1, <3>1, <4>1, StaysExcused DEF CartInv
    <3> QED BY <2>1, <3>1 DEF CappedLines
  <2>5. RoomForLines'
    BY <2>1, <2>2 DEF CartInv, RoomForLines
  <2> QED BY <2>3, <2>4, <2>5 DEF CartInv
<1>3. CASE Cart!removePurchasedItems({l}, q)
  <2>1. PICK c : c = [x \in Lines |-> IF x \notin {l} THEN cart[x]
                                      ELSE IF cart[x] > q THEN cart[x] - q ELSE 0]
    OBVIOUS
  <2>2. c \in [Lines -> Nat] /\ \A x \in Lines : c[x] <= cart[x]
    BY <1>1, <2>1
  <2>3. Cart!Shrink(c)
    BY <1>3, <2>1 DEF Cart!removePurchasedItems
  <2> QED BY <2>2, <2>3, ShrinkStep
<1>4. CASE Cart!removeItem(l)
  <2>1. PICK c : c = [cart EXCEPT ![l] = 0]
    OBVIOUS
  <2>2. c \in [Lines -> Nat] /\ \A x \in Lines : c[x] <= cart[x]
    BY <1>1, <2>1
  <2>3. Cart!Shrink(c)
    BY <1>4, <2>1 DEF Cart!removeItem
  <2> QED BY <2>2, <2>3, ShrinkStep
<1>5. CASE Cart!clear
  <2>1. PICK c : c = [x \in Lines |-> 0]
    OBVIOUS
  <2>2. c \in [Lines -> Nat] /\ \A x \in Lines : c[x] <= cart[x]
    BY <1>1, <2>1
  <2>3. Cart!Shrink(c)
    BY <1>5, <2>1 DEF Cart!clear
  <2> QED BY <2>2, <2>3, ShrinkStep
<1>6. CASE Cart!SellOrNot(l)
  <2>1. selling' \in SUBSET Lines /\ UNCHANGED <<cart, job, crowded, uncapped>>
    BY <1>6 DEF Cart!SellOrNot, CartInv, CartRows
  <2> QED BY <2>1 DEF CartInv, CartRows, CappedLines, RoomForLines
<1>7. CASE UNCHANGED Cart!vars
  BY <1>7 DEF Cart!vars, CartInv, CartRows, CappedLines, RoomForLines
<1> QED BY <1>2, <1>3, <1>4, <1>5, <1>6, <1>7

(* A request that dies leaves its line as it is. *)
LEMMA CartCrash ==
    ASSUME CartInv, NEW h \in Handlers, Cart!Crash(h)
    PROVE  CartInv'
<1>1. /\ job' = [job EXCEPT ![h] = Cart!NoJob] /\ UNCHANGED <<cart, selling, crowded>>
      /\ uncapped' = uncapped \cup {l \in job[h].lines : /\ job[h].at = "CAP"
                                                        /\ cart[l] > CART_MAX_QUANTITY}
  BY DEF Cart!Crash, Cart!Done, Cart!At
<1>2. \A g \in Handlers : job'[g] = IF g = h THEN Cart!NoJob ELSE job[g]
  BY <1>1 DEF CartInv, CartRows
<1>3. CartRows'
  BY <1>1, <1>2, CartRequestShape DEF CartInv, CartRows
<1>4. CappedLines'
  <2>1. ASSUME NEW l \in Lines, cart[l] > CART_MAX_QUANTITY, l \notin uncapped'
        PROVE  \E g \in Handlers : job'[g].at = "CAP" /\ l \in job'[g].lines
    <3>1. PICK g \in Handlers : job[g].at = "CAP" /\ l \in job[g].lines
      BY <1>1, <2>1 DEF CartInv, CappedLines
    <3> QED BY <1>1, <1>2, <2>1, <3>1
  <2> QED BY <1>1, <2>1 DEF CappedLines
<1>5. RoomForLines'
  <2>1. \A g \in Handlers : job'[g].at \in {"UPSERT", "MERGE"} => job'[g] = job[g]
    BY <1>2, CartRequestShape
  <2> QED BY <1>1, <2>1, RoomStays DEF CartInv
<1> QED BY <1>3, <1>4, <1>5 DEF CartInv

LEMMA CartStart == Cart!Init => CartInv
<1> SUFFICES ASSUME Cart!Init PROVE CartInv
  OBVIOUS
<1>1. CartRows /\ CappedLines
  BY CartRequestShape, CartLimits DEF Cart!Init, CartRows, CappedLines
<1>2. Cart!In(cart) = {}
  BY DEF Cart!Init, Cart!In
<1>3. RoomForLines
  <2>1. Cardinality(Cart!In(cart)) <= CART_MAX_LINES
    BY <1>2, FS_EmptySet, CartLimits
  <2>2. \A h \in Handlers : job[h].at = "IDLE"
    BY CartRequestShape DEF Cart!Init
  <2> QED BY <2>1, <2>2 DEF RoomForLines
<1> QED BY <1>1, <1>3 DEF CartInv

LEMMA CartStep == ASSUME CartInv, [Cart!Next]_(Cart!vars) PROVE CartInv'
<1>1. ASSUME NEW h \in Handlers, NEW q \in Cart!Amounts, NEW ls \in SUBSET Lines,
             Cart!MergeRead(h, ls, q)
      PROVE  CartInv'
  <2>1. q \in 0..CART_MAX_QUANTITY
    BY CartLimits DEF Cart!Amounts
  <2> QED BY <1>1, <2>1, MergeReadStep
<1>2. ASSUME NEW h \in Handlers, Cart!MergeWrite(h) PROVE CartInv'
  BY <1>2, MergeWriteStep
<1>3. ASSUME NEW h \in Handlers,
             \/ \E l \in Lines, q \in Cart!Amounts : Cart!FindLine(h, l, q)
             \/ Cart!CountLines(h) \/ Cart!Upsert(h) \/ Cart!Cap(h)
      PROVE  CartInv'
  BY <1>3, AddSteps
<1>4. ASSUME NEW l \in Lines, NEW q \in Cart!Amounts,
             Cart!updateQuantity(l, q) \/ Cart!removePurchasedItems({l}, q)
      PROVE  CartInv'
  BY <1>4, StatementSteps
<1>5. ASSUME NEW l \in Lines, Cart!removeItem(l) \/ Cart!SellOrNot(l) PROVE CartInv'
  <2>1. 1 \in Cart!Amounts
    BY CartLimits DEF Cart!Amounts
  <2> QED BY <1>5, <2>1, StatementSteps
<1>6. CASE Cart!clear
  <2>1. PICK l \in Lines : TRUE
    BY <1>6 DEF Cart!clear, Cart!In
  <2>2. 1 \in Cart!Amounts
    BY CartLimits DEF Cart!Amounts
  <2> QED BY <1>6, <2>1, <2>2, StatementSteps
<1>7. CASE UNCHANGED Cart!vars
  BY <1>7 DEF Cart!vars, CartInv, CartRows, CappedLines, RoomForLines
<1>8. ASSUME NEW h \in Handlers, Cart!Crash(h) PROVE CartInv'
  BY <1>8, CartCrash
<1> QED BY <1>1, <1>2, <1>3, <1>4, <1>5, <1>6, <1>7, <1>8 DEF Cart!Next

LEMMA CartShown == CartInv => Cart!CartFitsAnOrder
<1> SUFFICES ASSUME CartInv PROVE Cart!CartFitsAnOrder
  OBVIOUS
<1>1. IsFiniteSet(Cart!In(cart)) /\ Cardinality(Cart!In(cart)) \in Nat /\ CART_MAX_LINES \in Nat
  BY InCart, FS_Subset, FS_CardinalityType, CartLimits
<1> QED BY <1>1, CartCardinality
       DEF CartInv, CappedLines, RoomForLines, Cart!CartFitsAnOrder, Cart!OverLimit, Cart!At

(* The whole cart can be put in one order, for any number of devices, lines and limits: a line
   is above its limit only while the request that added to it is about to bring it down, or
   since that request died between its two statements, and the cart has too many lines only
   if two requests were about to add at one time (cart.service.ts). *)
THEOREM CartFitsAnOrderHolds == Spec => []CartFitsAnOrder
<1>1. Init => (scope = "Cart" => CartInv)
  BY CartStart DEF Init
<1>2. (scope = "Cart" => CartInv) /\ [Next]_vars => (scope = "Cart" => CartInv)'
  <2>1. [Next]_vars /\ scope' = "Cart" => scope = "Cart" /\ [Cart!Next]_(Cart!vars)
    BY DEF Next, vars, shared, carts, Cart!vars
  <2> QED BY <2>1, CartStep
<1>3. (scope = "Cart" => CartInv) => CartFitsAnOrder
  BY CartShown DEF CartFitsAnOrder
<1> QED BY <1>1, <1>2, <1>3, PTL DEF Spec

-----------------------------------------------------------------------------
(* AddressBook: one default *)

\* A book of addresses with ids of their own up to c, one of them the default.
Spots == Places \cup {AddressBook!NoPlace}
Addresses == [id : Nat, place : Spots, default : BOOLEAN, version : Nat]
OneDefaultIn(b) == b # <<>> => \E n \in 1..Len(b) : \A m \in 1..Len(b) : b[m].default <=> m = n
Book(b, c) ==
    /\ b \in Seq(Addresses)
    /\ \A n \in 1..Len(b) : b[n].id \in 1..c
    /\ \A n, m \in 1..Len(b) : b[n].id = b[m].id => n = m
    /\ OneDefaultIn(b)

AddressOps == {"NONE", "CREATE", "UPDATE", "REMOVE", "SET_DEFAULT"}
AddressRequests ==
    [at : {"IDLE", "PROBE", "LOCK", "WRITE"}, op : AddressOps, id : Nat,
     place : Spots, default : BOOLEAN, expected : Nat,
     seen : Seq(Addresses)]

\* The request that writes holds the customer's row, and the book is the one it read.
AddressInv ==
    /\ created \in Nat /\ Book(book, created)
    /\ job \in [Handlers -> AddressRequests]
    /\ \A h \in Handlers : job[h].at # "IDLE" => job[h].op # "NONE"
    /\ \A h \in Handlers : job[h].at = "WRITE" => lock = h /\ job[h].seen = book

(* Two books of one length that agree on ids, and the places of the defaults. *)
LEMMA SameIds ==
    ASSUME NEW b, NEW c, Book(b, c), NEW t \in Seq(Addresses), Len(t) = Len(b),
           \A n \in 1..Len(b) : t[n].id = b[n].id, OneDefaultIn(t)
    PROVE  Book(t, c)
BY DEF Book

MarkedAs(a, d) == [a EXCEPT !.default = d, !.version = @ + 1]
WrittenAs(a, p, d) == [a EXCEPT !.place = p, !.default = d, !.version = @ + 1]
LEMMA AddressMarked ==
    ASSUME NEW a \in Addresses, NEW d \in BOOLEAN,
           NEW x, x = MarkedAs(a, d)
    PROVE  x \in Addresses /\ x.id = a.id /\ x.default = d
<1>1. PICK y : y = [a EXCEPT !.default = d]
  OBVIOUS
<1>2. PICK v \in Nat : v = a.version + 1
  BY DEF Addresses
<1>3. x = [y EXCEPT !.version = v]
  BY <1>1, <1>2 DEF MarkedAs
<1>4. y \in Addresses
  BY <1>1 DEF Addresses
<1>5. y.id = a.id
  BY <1>1 DEF Addresses
<1>6. y.default = d
  BY <1>1 DEF Addresses
<1>7. x \in Addresses
  BY <1>3, <1>4 DEF Addresses
<1>8. x.id = y.id
  BY <1>3, <1>4 DEF Addresses
<1>9. x.default = y.default
  BY <1>3, <1>4 DEF Addresses
<1> QED BY <1>5, <1>6, <1>7, <1>8, <1>9

LEMMA AddressWritten ==
    ASSUME NEW a \in Addresses, NEW p \in Spots, NEW d \in BOOLEAN,
           NEW x, x = WrittenAs(a, p, d)
    PROVE  x \in Addresses /\ x.id = a.id /\ x.default = d
<1>1. PICK y : y = [a EXCEPT !.place = p]
  OBVIOUS
<1>2. y \in Addresses
  BY <1>1 DEF Addresses
<1>3. y.id = a.id
  BY <1>1 DEF Addresses
<1>4. y.version = a.version
  BY <1>1 DEF Addresses
<1>5. x = MarkedAs(y, d)
  BY <1>1, <1>4 DEF WrittenAs, MarkedAs
<1> QED BY <1>2, <1>3, <1>5, AddressMarked

LEMMA DemotedIs ==
    ASSUME NEW b \in Seq(Addresses), NEW id
    PROVE  /\ AddressBook!Demoted(b, id) \in Seq(Addresses)
           /\ Len(AddressBook!Demoted(b, id)) = Len(b)
           /\ \A n \in 1..Len(b) :
                 /\ AddressBook!Demoted(b, id)[n].id = b[n].id
                 /\ AddressBook!Demoted(b, id)[n].default <=> b[n].default /\ b[n].id = id
<1>1. DOMAIN b = 1..Len(b) /\ Len(b) \in Nat /\ \A n \in 1..Len(b) : b[n] \in Addresses
  OBVIOUS
<1>2. PICK t : t = AddressBook!Demoted(b, id)
  OBVIOUS
<1>3. ASSUME NEW n \in 1..Len(b)
      PROVE  t[n] \in Addresses /\ t[n].id = b[n].id /\ (t[n].default <=> b[n].default /\ b[n].id = id)
  <2>1. PICK a : a = b[n]
    OBVIOUS
  <2>2. a \in Addresses
    BY <1>1, <2>1
  <2>3. t[n] = IF a.default /\ a.id # id THEN [a EXCEPT !.default = FALSE, !.version = @ + 1] ELSE a
    BY <1>1, <1>2, <2>1 DEF AddressBook!Demoted
  <2>4. CASE a.default /\ a.id # id
    <3>1. t[n] = [a EXCEPT !.default = FALSE, !.version = @ + 1]
      BY <2>3, <2>4
    <3>2. t[n] \in Addresses /\ t[n].id = a.id /\ ~t[n].default
      <4>1. PICK d \in BOOLEAN : d = FALSE
        OBVIOUS
      <4>2. PICK x : x = MarkedAs(a, d)
        OBVIOUS
      <4>3. x \in Addresses /\ x.id = a.id /\ x.default = d
        BY <2>2, <4>2, AddressMarked
      <4>4. t[n] = x
        BY <3>1, <4>1, <4>2 DEF MarkedAs
      <4> QED BY <4>1, <4>3, <4>4
    <3> QED BY <2>1, <2>4, <3>2
  <2>5. CASE ~(a.default /\ a.id # id)
    BY <2>1, <2>2, <2>3, <2>5
  <2> QED BY <2>4, <2>5
<1>4. t \in [1..Len(b) -> Addresses]
  BY <1>1, <1>2, <1>3 DEF AddressBook!Demoted
<1>5. t \in Seq(Addresses) /\ Len(t) = Len(b)
  BY <1>1, <1>4
<1> QED BY <1>2, <1>3, <1>5

LEMMA ChangedIs ==
    ASSUME NEW b \in Seq(Addresses), NEW id, NEW a \in Addresses
    PROVE  /\ AddressBook!Changed(b, id, a) \in Seq(Addresses)
           /\ Len(AddressBook!Changed(b, id, a)) = Len(b)
           /\ \A n \in 1..Len(b) : AddressBook!Changed(b, id, a)[n] = IF b[n].id = id THEN a ELSE b[n]
<1>1. DOMAIN b = 1..Len(b) /\ Len(b) \in Nat /\ \A n \in 1..Len(b) : b[n] \in Addresses
  OBVIOUS
<1>2. PICK t : t = AddressBook!Changed(b, id, a)
  OBVIOUS
<1>3. t \in [1..Len(b) -> Addresses]
      /\ \A n \in 1..Len(b) : t[n] = IF b[n].id = id THEN a ELSE b[n]
  BY <1>1, <1>2 DEF AddressBook!Changed
<1>4. t \in Seq(Addresses) /\ Len(t) = Len(b)
  BY <1>1, <1>3
<1> QED BY <1>2, <1>3, <1>4

LEMMA EntryIs ==
    ASSUME NEW b \in Seq(Addresses), NEW id, id \in AddressBook!Ids(b)
    PROVE  \E n \in 1..Len(b) : n = (CHOOSE m \in DOMAIN b : b[m].id = id) /\ b[n].id = id
                                /\ AddressBook!Entry(b, id) = b[n]
<1>1. DOMAIN b = 1..Len(b)
  OBVIOUS
<1>2. PICK n : n = (CHOOSE m \in DOMAIN b : b[m].id = id)
  OBVIOUS
<1>3. \E m \in DOMAIN b : b[m].id = id
  BY DEF AddressBook!Ids
<1>4. n \in DOMAIN b /\ b[n].id = id
  BY <1>2, <1>3
<1> QED BY <1>1, <1>2, <1>4 DEF AddressBook!Entry

(* The book a request writes has one default again. *)
LEMMA CreatedBook ==
    ASSUME AddressInv, NEW j \in AddressRequests, j.seen = book
    PROVE  Book(AddressBook!Created(j), created + 1)
<1> DEFINE d == j.seen = <<>> \/ j.default
           b == IF d THEN AddressBook!Demoted(book, 0) ELSE book
<1>0. PICK e \in BOOLEAN : e = d
  BY DEF AddressRequests
<1>1. PICK a : a = [id |-> created + 1, place |-> j.place, default |-> e, version |-> 1]
  OBVIOUS
<1>2. /\ a \in Addresses /\ a.id = created + 1 /\ (a.default <=> d)
      /\ created \in Nat /\ book \in Seq(Addresses) /\ Len(book) \in Nat /\ Book(book, created)
  <2>1. created + 1 \in Nat /\ 1 \in Nat /\ j.place \in Spots
    BY DEF AddressInv, AddressRequests
  <2>2. a \in Addresses
    BY <1>1, <2>1 DEF Addresses
  <2>3. a.id = created + 1
    BY <1>1
  <2>4. a.default <=> e
    BY <1>1
  <2>5. a.default <=> d
    BY <1>0, <2>4
  <2>6. created \in Nat /\ Book(book, created)
    BY DEF AddressInv
  <2>7. book \in Seq(Addresses) /\ Len(book) \in Nat
    BY <2>6 DEF Book
  <2> QED BY <2>2, <2>3, <2>5, <2>6, <2>7
<1>3. /\ b \in Seq(Addresses) /\ Len(b) = Len(book)
      /\ \A n \in 1..Len(book) : b[n].id = book[n].id
      /\ d => \A n \in 1..Len(book) : ~b[n].default
      /\ ~d => b = book
  <2>1. CASE d
    <3>1. PICK s : s = AddressBook!Demoted(book, 0)
      OBVIOUS
    <3>2. /\ s \in Seq(Addresses) /\ Len(s) = Len(book)
          /\ \A n \in 1..Len(book) : s[n].id = book[n].id /\ (s[n].default => book[n].id = 0)
      BY <1>2, <3>1, DemotedIs
    <3>3. \A n \in 1..Len(book) : book[n].id # 0
      BY <1>2 DEF Book
    <3>4. b = s
      BY <2>1, <3>1
    <3> HIDE DEF d, b
    <3> QED BY <2>1, <3>2, <3>3, <3>4
  <2>2. CASE ~d
    BY <1>2, <2>2
  <2> QED BY <2>1, <2>2
<1>4. AddressBook!Created(j) = Append(b, a)
  BY <1>0, <1>1 DEF AddressBook!Created
<1>5. PICK t : t = Append(b, a)
  OBVIOUS
<1>6. d => j.seen = <<>> \/ j.default
  OBVIOUS
<1>7. ~d => book # <<>>
  OBVIOUS
<1> HIDE DEF d, b
<1>8. PICK k \in Nat : k = Len(book)
  BY <1>2
<1>9. /\ t \in Seq(Addresses) /\ Len(t) = k + 1 /\ t[k + 1] = a
      /\ \A n \in 1..k : t[n] = b[n]
  <2>1. b \in Seq(Addresses) /\ Len(b) = k /\ a \in Addresses
    BY <1>2, <1>3, <1>8
  <2>2. Append(b, a) \in Seq(Addresses) /\ Len(Append(b, a)) = k + 1
    BY <2>1, AppendProperties
  <2>3. Append(b, a)[k + 1] = a /\ \A n \in 1..k : Append(b, a)[n] = b[n]
    BY <2>1, AppendProperties
  <2> QED BY <1>5, <2>2, <2>3
<1>10. \A n \in 1..(k + 1) : n = k + 1 \/ n \in 1..k
  BY <1>8
<1>11. \A n \in 1..k : t[n].id \in 1..created /\ t[n].id # created + 1
  <2>1. \A n \in 1..k : t[n].id = book[n].id
    BY <1>3, <1>8, <1>9
  <2>2. \A n \in 1..k : book[n].id \in 1..created
    BY <1>2, <1>8 DEF Book
  <2>3. \A i \in 1..created : i # created + 1
    BY <1>2
  <2> QED BY <2>1, <2>2, <2>3
<1>12. \A n \in 1..Len(t) : t[n].id \in 1..(created + 1)
  BY <1>2, <1>9, <1>10, <1>11
<1>13. ASSUME NEW n \in 1..Len(t), NEW m \in 1..Len(t), t[n].id = t[m].id PROVE n = m
  <2>1. CASE n \in 1..k /\ m \in 1..k
    BY <1>2, <1>3, <1>8, <1>9, <1>13, <2>1 DEF Book
  <2>2. CASE n = k + 1 \/ m = k + 1
    BY <1>2, <1>9, <1>10, <1>11, <1>13, <2>2
  <2> QED BY <1>9, <1>10, <2>1, <2>2
<1>14. OneDefaultIn(t)
  <2>1. CASE d
    <3>1. \A n \in 1..k : ~t[n].default
      BY <1>3, <1>8, <1>9, <2>1
    <3>2. \A m \in 1..Len(t) : t[m].default <=> m = k + 1
      BY <1>2, <1>9, <1>10, <2>1, <3>1
    <3> QED BY <1>9, <3>2 DEF OneDefaultIn
  <2>2. CASE ~d
    <3>1. PICK n \in 1..k : \A m \in 1..k : book[m].default <=> m = n
      BY <1>2, <1>7, <1>8, <2>2 DEF Book, OneDefaultIn
    <3>2. \A m \in 1..Len(t) : t[m].default <=> m = n
      BY <1>2, <1>3, <1>9, <1>10, <2>2, <3>1
    <3>3. n \in 1..Len(t)
      BY <1>9, <3>1
    <3> QED BY <3>2, <3>3 DEF OneDefaultIn
  <2> QED BY <2>1, <2>2
<1> QED BY <1>4, <1>5, <1>9, <1>12, <1>13, <1>14 DEF Book

LEMMA MadeDefaultBook ==
    ASSUME NEW b, NEW c, Book(b, c), NEW id \in AddressBook!Ids(b), NEW a \in Addresses,
           a.id = id, a.default
    PROVE  Book(AddressBook!Changed(AddressBook!Demoted(b, id), id, a), c)
<1>1. b \in Seq(Addresses)
  BY DEF Book
<1>2. PICK s : s = AddressBook!Demoted(b, id)
  OBVIOUS
<1>3. /\ s \in Seq(Addresses) /\ Len(s) = Len(b)
      /\ \A n \in 1..Len(b) : s[n].id = b[n].id /\ (s[n].default <=> b[n].default /\ b[n].id = id)
  BY <1>1, <1>2, DemotedIs
<1>4. PICK t : t = AddressBook!Changed(s, id, a)
  OBVIOUS
<1>5. /\ t \in Seq(Addresses) /\ Len(t) = Len(b)
      /\ \A n \in 1..Len(b) : t[n] = IF s[n].id = id THEN a ELSE s[n]
  BY <1>3, <1>4, ChangedIs
<1>6. PICK n \in 1..Len(b) : b[n].id = id
  BY <1>1, EntryIs
<1>7. \A m \in 1..Len(b) : t[m].id = b[m].id /\ (t[m].default <=> m = n)
  BY <1>3, <1>5, <1>6 DEF Book
<1>8. OneDefaultIn(t)
  BY <1>5, <1>7 DEF OneDefaultIn
<1> QED BY <1>2, <1>4, <1>5, <1>7, <1>8, SameIds

LEMMA UpdatedBook ==
    ASSUME AddressInv, NEW j \in AddressRequests, j.seen = book, j.id \in AddressBook!Ids(book)
    PROVE  Book(AddressBook!Updated(j), created)
<1>1. PICK n \in 1..Len(book) : book[n].id = j.id /\ AddressBook!Entry(book, j.id) = book[n]
  BY EntryIs DEF AddressInv, Book
<1>2. PICK was : was = book[n]
  OBVIOUS
<1>3. /\ was \in Addresses /\ was.id = j.id /\ AddressBook!Entry(j.seen, j.id) = was
      /\ book \in Seq(Addresses) /\ Book(book, created)
  BY <1>1, <1>2 DEF AddressInv, Book
<1>4. PICK d \in BOOLEAN : d = (j.default \/ was.default)
  BY DEF AddressRequests
<1>5. PICK a : a = [was EXCEPT !.place = j.place, !.default = d, !.version = @ + 1]
  OBVIOUS
<1>6. a \in Addresses /\ a.id = j.id /\ (a.default <=> d) /\ d \in BOOLEAN
  <2>1. j.place \in Spots
    BY DEF AddressRequests
  <2>2. PICK q \in Spots : q = j.place
    BY <2>1
  <2>3. was \in Addresses /\ a = WrittenAs(was, q, d)
    BY <1>3, <1>5, <2>2 DEF WrittenAs
  <2>4. a \in Addresses /\ a.id = was.id /\ a.default = d
    BY <2>3, AddressWritten
  <2> QED BY <1>3, <2>4
<1>7. AddressBook!Updated(j) = AddressBook!Changed(IF d THEN AddressBook!Demoted(book, j.id) ELSE book,
                                                   j.id, a)
  BY <1>3, <1>4, <1>5 DEF AddressBook!Updated
<1>8. CASE d
  BY <1>3, <1>6, <1>7, <1>8, MadeDefaultBook
<1>9. CASE ~d
  <2>1. PICK t : t = AddressBook!Changed(book, j.id, a)
    OBVIOUS
  <2>2. /\ t \in Seq(Addresses) /\ Len(t) = Len(book)
        /\ \A m \in 1..Len(book) : t[m] = IF book[m].id = j.id THEN a ELSE book[m]
    BY <1>3, <1>6, <2>1, ChangedIs
  <2>3. \A m \in 1..Len(book) : book[m].id = j.id => m = n
    BY <1>1, <1>3 DEF Book
  <2>4. ~book[n].default
    BY <1>2, <1>4, <1>9
  <2>5. \A m \in 1..Len(book) : t[m].id = book[m].id /\ (t[m].default <=> book[m].default)
    <3>1. ASSUME NEW m \in 1..Len(book)
          PROVE  t[m].id = book[m].id /\ (t[m].default <=> book[m].default)
      <4>1. CASE book[m].id = j.id
        BY <1>6, <1>9, <2>2, <2>3, <2>4, <4>1
      <4>2. CASE book[m].id # j.id
        BY <2>2, <4>2
      <4> QED BY <4>1, <4>2
    <3> QED BY <3>1
  <2>6. OneDefaultIn(t)
    <3>1. book # <<>> /\ OneDefaultIn(book)
      BY <1>1, <1>3 DEF Book
    <3>2. PICK x \in 1..Len(book) : \A m \in 1..Len(book) : book[m].default <=> m = x
      BY <3>1 DEF OneDefaultIn
    <3>3. x \in 1..Len(t) /\ \A m \in 1..Len(t) : t[m].default <=> m = x
      BY <2>2, <2>5, <3>2
    <3> QED BY <3>3 DEF OneDefaultIn
  <2> QED BY <1>3, <1>7, <1>9, <2>1, <2>2, <2>5, <2>6, SameIds
<1> QED BY <1>8, <1>9, <1>6

LEMMA SetDefaultBook ==
    ASSUME AddressInv, NEW j \in AddressRequests, j.seen = book, j.id \in AddressBook!Ids(book)
    PROVE  Book(AddressBook!MadeDefault(j), created)
<1>1. PICK n \in 1..Len(book) : book[n].id = j.id /\ AddressBook!Entry(book, j.id) = book[n]
  BY EntryIs DEF AddressInv, Book
<1>2. PICK was : was = book[n]
  OBVIOUS
<1>3. /\ was \in Addresses /\ was.id = j.id /\ AddressBook!Entry(j.seen, j.id) = was
      /\ Book(book, created)
  BY <1>1, <1>2 DEF AddressInv, Book
<1>4. PICK a : a = MarkedAs(was, TRUE)
  OBVIOUS
<1>5. a \in Addresses /\ a.id = j.id /\ a.default = TRUE
  <2>1. PICK d \in BOOLEAN : d = TRUE
    OBVIOUS
  <2>2. a = MarkedAs(was, d)
    BY <1>4, <2>1
  <2> QED BY <1>3, <2>1, <2>2, AddressMarked
<1>6. AddressBook!MadeDefault(j) = AddressBook!Changed(AddressBook!Demoted(book, j.id), j.id, a)
  BY <1>3, <1>4 DEF AddressBook!MadeDefault, MarkedAs
<1> QED BY <1>3, <1>5, <1>6, MadeDefaultBook

LEMMA WithoutIs ==
    ASSUME NEW b \in Seq(Addresses), NEW id \in AddressBook!Ids(b)
    PROVE  \E k \in 1..Len(b), t \in Seq(Addresses) :
               /\ b[k].id = id /\ AddressBook!Entry(b, id) = b[k]
               /\ t = AddressBook!Without(b, id) /\ Len(t) = Len(b) - 1
               /\ \A m \in 1..Len(t) : t[m] = IF m < k THEN b[m] ELSE b[m + 1]
<1>1. PICK k \in 1..Len(b) : k = (CHOOSE m \in DOMAIN b : b[m].id = id) /\ b[k].id = id
                             /\ AddressBook!Entry(b, id) = b[k]
  BY EntryIs
<1>2. PICK l \in Nat : l = Len(b)
  OBVIOUS
<1>3. AddressBook!Without(b, id) = SubSeq(b, 1, k - 1) \o SubSeq(b, k + 1, l)
  BY <1>1, <1>2 DEF AddressBook!Without, AddressBook!RemoveAt
<1>4. PICK p, q : p = SubSeq(b, 1, k - 1) /\ q = SubSeq(b, k + 1, l)
  OBVIOUS
<1>5. /\ p \in Seq(Addresses) /\ Len(p) = k - 1 /\ \A m \in 1..(k - 1) : p[m] = b[m]
      /\ q \in Seq(Addresses) /\ Len(q) = l - k /\ \A m \in 1..(l - k) : q[m] = b[k + m]
  <2>1. k \in 1..l /\ l \in Nat /\ k - 1 \in 0..l /\ k + 1 \in 1..(l + 1)
    BY <1>1, <1>2
  <2>2. p \in Seq(Addresses) /\ Len(p) = k - 1 /\ \A m \in 1..(k - 1) : p[m] = b[m]
    BY <1>2, <1>4, <2>1, SubSeqProperties
  <2>3. q \in Seq(Addresses) /\ Len(q) = l - k /\ \A m \in 1..(l - k) : q[m] = b[k + m]
    BY <1>2, <1>4, <2>1, SubSeqProperties
  <2> QED BY <2>2, <2>3
<1>6. PICK t : t = p \o q
  OBVIOUS
<1>7. /\ t \in Seq(Addresses) /\ Len(t) = l - 1
      /\ \A m \in 1..(l - 1) : t[m] = IF m <= k - 1 THEN p[m] ELSE q[m - (k - 1)]
  <2>1. PICK i, n \in Nat : i = Len(p) /\ n = Len(q)
    BY <1>5
  <2>2. /\ t \in Seq(Addresses) /\ Len(t) = i + n
        /\ \A m \in 1..(i + n) : t[m] = IF m <= i THEN p[m] ELSE q[m - i]
    <3>1. Len(p \o q) = i + n /\ p \o q \in Seq(Addresses)
      BY <1>5, <2>1, ConcatProperties
    <3>2. \A m \in 1..(i + n) : (p \o q)[m] = IF m <= i THEN p[m] ELSE q[m - i]
      BY <1>5, <2>1, ConcatProperties
    <3> QED BY <1>6, <3>1, <3>2
  <2>3. i = k - 1 /\ n = l - k
    BY <1>5, <2>1
  <2>4. k \in Nat /\ l \in Nat
    BY <1>1, <1>2
  <2>5. i + n = l - 1
    BY <2>1, <2>3, <2>4
  <2> QED BY <2>2, <2>3, <2>5
<1>8. ASSUME NEW m \in 1..(l - 1) PROVE t[m] = IF m < k THEN b[m] ELSE b[m + 1]
  <2>1. CASE m < k
    BY <1>1, <1>2, <1>5, <1>7, <2>1
  <2>2. CASE ~(m < k)
    <3>1. PICK i \in 1..(l - k) : i = m - (k - 1)
      <4>1. k \in 1..l /\ m - (k - 1) \in 1..(l - k)
        BY <1>1, <1>2, <2>2
      <4> QED BY <4>1
    <3>2. q[i] = b[k + i] /\ k + i = m + 1
      BY <1>1, <1>2, <1>5, <3>1
    <3>3. t[m] = q[i]
      <4>1. ~(m <= k - 1) /\ m \in 1..(l - 1)
        BY <1>1, <1>2, <2>2
      <4> QED BY <1>7, <3>1, <4>1
    <3> QED BY <2>2, <3>2, <3>3
  <2> QED BY <2>1, <2>2
<1>9. t = AddressBook!Without(b, id) /\ t \in Seq(Addresses)
  BY <1>3, <1>4, <1>6, <1>7
<1>10. Len(t) = Len(b) - 1
  BY <1>2, <1>7
<1>11. \A m \in 1..Len(t) : t[m] = IF m < k THEN b[m] ELSE b[m + 1]
  BY <1>7, <1>8
<1> QED BY <1>1, <1>9, <1>10, <1>11

LEMMA RemovedBook ==
    ASSUME AddressInv, NEW j \in AddressRequests, j.seen = book, j.id \in AddressBook!Ids(book)
    PROVE  Book(AddressBook!Removed(j), created)
<1>1. PICK b : b = book /\ Book(b, created) /\ b \in Seq(Addresses) /\ created \in Nat
  BY DEF AddressInv, Book
<1>2. PICK k \in 1..Len(b), t \in Seq(Addresses) :
               /\ b[k].id = j.id /\ AddressBook!Entry(b, j.id) = b[k]
               /\ t = AddressBook!Without(b, j.id) /\ Len(t) = Len(b) - 1
               /\ \A m \in 1..Len(t) : t[m] = IF m < k THEN b[m] ELSE b[m + 1]
  BY <1>1, WithoutIs
<1>3. PICK l \in Nat : l = Len(t) /\ Len(b) = l + 1
  <2>1. PICK l, n \in Nat : l = Len(t) /\ n = Len(b)
    BY <1>1, <1>2
  <2>2. n = l + 1
    BY <1>2, <2>1
  <2> QED BY <2>1, <2>2
<1>4. ASSUME NEW m \in 1..l
      PROVE  \E n \in 1..(l + 1) : n # k /\ t[m] = b[n] /\ n = IF m < k THEN m ELSE m + 1
  BY <1>2, <1>3
<1>5. \A m \in 1..l : t[m].id \in 1..created
  BY <1>1, <1>3, <1>4 DEF Book
<1>6. ASSUME NEW m \in 1..l, NEW i \in 1..l, t[m].id = t[i].id PROVE m = i
  <2>1. PICK n \in 1..(l + 1) : n # k /\ t[m] = b[n] /\ n = IF m < k THEN m ELSE m + 1
    BY <1>4
  <2>2. PICK o \in 1..(l + 1) : o # k /\ t[i] = b[o] /\ o = IF i < k THEN i ELSE i + 1
    BY <1>4
  <2>3. n = o
    BY <1>1, <1>3, <1>6, <2>1, <2>2 DEF Book
  <2> QED BY <2>1, <2>2, <2>3
<1>7. PICK x \in 1..(l + 1) : \A n \in 1..(l + 1) : b[n].default <=> n = x
  <2>1. b # <<>>
    BY <1>1, <1>2
  <2> QED BY <1>1, <1>3, <2>1 DEF Book, OneDefaultIn
<1>8. CASE ~b[k].default
  <2>1. AddressBook!Removed(j) = t
    BY <1>1, <1>2, <1>8 DEF AddressBook!Removed
  <2>2. x # k
    BY <1>2, <1>3, <1>7, <1>8
  <2>3. PICK y \in 1..l : y = IF x < k THEN x ELSE x - 1
    BY <1>2, <1>3, <2>2
  <2>4. \A m \in 1..l : t[m].default <=> m = y
    <3>1. ASSUME NEW m \in 1..l PROVE t[m].default <=> m = y
      <4>1. PICK n \in 1..(l + 1) : n # k /\ t[m] = b[n] /\ n = IF m < k THEN m ELSE m + 1
        BY <1>4
      <4>2. t[m].default <=> n = x
        BY <1>7, <4>1
      <4>3. n = x <=> m = y
        BY <1>2, <1>3, <2>2, <2>3, <4>1
      <4> QED BY <4>2, <4>3
    <3> QED BY <3>1
  <2>5. OneDefaultIn(t)
    BY <1>3, <2>3, <2>4 DEF OneDefaultIn
  <2> QED BY <1>2, <1>3, <1>5, <1>6, <2>1, <2>5 DEF Book
<1>9. CASE b[k].default
  <2>1. AddressBook!Removed(j) = AddressBook!Promoted(t) /\ x = k
    BY <1>1, <1>2, <1>3, <1>7, <1>9 DEF AddressBook!Removed
  <2>2. \A m \in 1..l : ~t[m].default
    BY <1>4, <1>7, <2>1
  <2>3. CASE t = <<>>
    <3>1. AddressBook!Promoted(t) = t /\ l = 0 /\ OneDefaultIn(t)
      BY <1>3, <2>3 DEF AddressBook!Promoted, OneDefaultIn
    <3> QED BY <1>2, <1>3, <1>5, <1>6, <2>1, <3>1 DEF Book
  <2>4. CASE t # <<>>
    <3>1. PICK s : s = AddressBook!Promoted(t)
      OBVIOUS
    <3>2. PICK a : a = MarkedAs(t[1], TRUE)
      OBVIOUS
    <3>3. 1 \in 1..l /\ t[1] \in Addresses /\ DOMAIN t = 1..l
      BY <1>2, <1>3, <2>4
    <3>4. a \in Addresses /\ a.id = t[1].id /\ a.default = TRUE
      <4>1. PICK d \in BOOLEAN : d = TRUE
        OBVIOUS
      <4>2. PICK c \in Addresses : c = t[1] /\ a = MarkedAs(c, d)
        BY <3>2, <3>3, <4>1
      <4> QED BY <4>1, <4>2, AddressMarked
    <3>5. s = [t EXCEPT ![1] = a]
      BY <2>4, <3>1, <3>2, <3>3 DEF AddressBook!Promoted, MarkedAs
    <3>6. s \in Seq(Addresses) /\ Len(s) = l
      <4>1. t \in [1..l -> Addresses]
        BY <1>2, <1>3
      <4>2. s \in [1..l -> Addresses]
        BY <3>3, <3>4, <3>5, <4>1
      <4> QED BY <1>3, <4>2
    <3>7. \A m \in 1..l : s[m].id = t[m].id /\ (s[m].default <=> m = 1)
      BY <2>2, <3>3, <3>4, <3>5
    <3>8. OneDefaultIn(s)
      BY <3>3, <3>6, <3>7 DEF OneDefaultIn
    <3> QED BY <1>5, <1>6, <2>1, <3>1, <3>6, <3>7, <3>8 DEF Book
  <2> QED BY <2>3, <2>4
<1> QED BY <1>8, <1>9

(* What a step does to one request, when the book stays. *)
LEMMA AddressKeeps ==
    ASSUME AddressInv, NEW h \in Handlers, NEW j \in AddressRequests,
           job' = [job EXCEPT ![h] = j], j.at # "IDLE" => j.op # "NONE",
           UNCHANGED <<book, created>>,
           \A g \in Handlers : job[g].at = "WRITE" => lock' = lock,
           j.at = "WRITE" => lock' = h /\ j.seen = book /\ \A g \in Handlers : job[g].at # "WRITE"
    PROVE  AddressInv'
<1>1. job' \in [Handlers -> AddressRequests]
  BY DEF AddressInv
<1>2. job'[h] = j /\ \A g \in Handlers : g # h => job'[g] = job[g]
  BY DEF AddressInv
<1>3. created' \in Nat /\ Book(book', created')
  BY DEF AddressInv
<1>4. \A g \in Handlers : job'[g].at # "IDLE" => job'[g].op # "NONE"
  BY <1>2 DEF AddressInv
<1>5. ASSUME NEW g \in Handlers, job'[g].at = "WRITE" PROVE lock' = g /\ job'[g].seen = book'
  <2>1. CASE g = h
    BY <1>2, <1>5, <2>1
  <2>2. CASE g # h
    BY <1>2, <1>5, <2>2 DEF AddressInv
  <2> QED BY <2>1, <2>2
<1> QED BY <1>1, <1>3, <1>4, <1>5 DEF AddressInv

LEMMA AddressIdle ==
    /\ AddressBook!NoJob \in AddressRequests
    /\ AddressBook!NoJob.at = "IDLE"
BY DEF AddressBook!NoJob, AddressRequests, AddressOps, Spots

AddressRequest(at, op, id, p, d, e) ==
    [AddressBook!NoJob EXCEPT !.at = at, !.op = op, !.id = id, !.place = p, !.default = d,
                              !.expected = e]
LEMMA NoAddressJob ==
    \E f \in BOOLEAN :
        /\ f = FALSE
        /\ AddressBook!NoJob = [at |-> "IDLE", op |-> "NONE", id |-> 0, place |-> AddressBook!NoPlace,
                               default |-> f, expected |-> 0, seen |-> <<>>]
<1>1. PICK f \in BOOLEAN : f = FALSE
  OBVIOUS
<1> QED BY <1>1 DEF AddressBook!NoJob

LEMMA AddressRequestIs ==
    ASSUME NEW at \in {"PROBE", "LOCK"}, NEW op \in AddressOps \ {"NONE"}, NEW id \in Nat,
           NEW p \in Spots, NEW d \in BOOLEAN, NEW e \in Nat
    PROVE  /\ AddressRequest(at, op, id, p, d, e) \in AddressRequests
           /\ AddressRequest(at, op, id, p, d, e).at = at
           /\ AddressRequest(at, op, id, p, d, e).op = op
           /\ AddressRequest(at, op, id, p, d, e) =
                 [at |-> at, op |-> op, id |-> id, place |-> p, default |-> d, expected |-> e,
                  seen |-> <<>>]
<1>1. AddressRequest(at, op, id, p, d, e) =
        [at |-> at, op |-> op, id |-> id, place |-> p, default |-> d, expected |-> e, seen |-> <<>>]
  <2>1. PICK f, n :
          /\ f \in BOOLEAN /\ f = FALSE /\ n = AddressBook!NoJob
          /\ n = [at |-> "IDLE", op |-> "NONE", id |-> 0, place |-> AddressBook!NoPlace, default |-> f,
                  expected |-> 0, seen |-> <<>>]
    BY NoAddressJob
  <2>2. AddressRequest(at, op, id, p, d, e) =
          [n EXCEPT !.at = at, !.op = op, !.id = id, !.place = p, !.default = d, !.expected = e]
    BY <2>1 DEF AddressRequest
  <2>3. n = [at |-> "IDLE", op |-> "NONE", id |-> 0, place |-> AddressBook!NoPlace, default |-> f,
             expected |-> 0, seen |-> <<>>]
    BY <2>1
  <2> QED BY <2>2, <2>3
<1>2. <<>> \in Seq(Addresses)
  OBVIOUS
<1> QED BY <1>1, <1>2 DEF AddressRequests

LEMMA AddressAsked ==
    ASSUME AddressInv, NEW h \in Handlers, NEW at \in {"PROBE", "LOCK"},
           NEW op \in AddressOps \ {"NONE"}, NEW id \in Nat,
           NEW p \in Spots, NEW d \in BOOLEAN, NEW e \in Nat,
           job' = [job EXCEPT ![h] = AddressRequest(at, op, id, p, d, e)],
           UNCHANGED <<book, created, lock>>
    PROVE  AddressInv'
<1>1. PICK j : j = AddressRequest(at, op, id, p, d, e)
  OBVIOUS
<1>2. j \in AddressRequests /\ j.at = at /\ j.op = op
  BY <1>1, AddressRequestIs
<1>3. job' = [job EXCEPT ![h] = j] /\ j.at # "WRITE" /\ j.op # "NONE"
  BY <1>1, <1>2
<1> QED BY <1>2, <1>3, AddressKeeps

LEMMA AddressAsks ==
    ASSUME AddressInv, NEW h \in Handlers,
           \/ \E place \in Places, default \in BOOLEAN :
                 \/ AddressBook!create(h, place, default)
                 \/ \E id \in 1..created, v \in 0..1 : AddressBook!update(h, id, place, default, v)
           \/ \E id \in 1..created, op \in {"REMOVE", "SET_DEFAULT"} :
                 AddressBook!removeOrSetDefault(h, op, id)
    PROVE  AddressInv'
<1>0. 0 \in Nat /\ FALSE \in BOOLEAN /\ created \in Nat /\ AddressBook!NoPlace \in Spots
      /\ Places \subseteq Spots
  BY DEF AddressInv, Spots
<1>1. ASSUME NEW place \in Places, NEW default \in BOOLEAN, AddressBook!create(h, place, default)
      PROVE  AddressInv'
  <2>0. PICK f, n :
          /\ f \in BOOLEAN /\ f = FALSE /\ n = AddressBook!NoJob
          /\ n = [at |-> "IDLE", op |-> "NONE", id |-> 0, place |-> AddressBook!NoPlace, default |-> f,
                  expected |-> 0, seen |-> <<>>]
    BY NoAddressJob
  <2>2. PICK j : j = [n EXCEPT !.at = "PROBE", !.op = "CREATE", !.place = place, !.default = default]
    OBVIOUS
  <2>3. n = [at |-> "IDLE", op |-> "NONE", id |-> 0, place |-> AddressBook!NoPlace, default |-> f,
             expected |-> 0, seen |-> <<>>]
    BY <2>0
  <2>4. j = [at |-> "PROBE", op |-> "CREATE", id |-> 0, place |-> place, default |-> default,
             expected |-> 0, seen |-> <<>>]
    BY <2>2, <2>3
  <2>5. j = AddressRequest("PROBE", "CREATE", 0, place, default, 0)
    BY <1>0, <2>4, AddressRequestIs DEF AddressOps
  <2>6. job' = [job EXCEPT ![h] = j] /\ UNCHANGED <<book, created, lock>>
    BY <1>1, <2>0, <2>2 DEF AddressBook!create
  <2>1. /\ job' = [job EXCEPT ![h] = AddressRequest("PROBE", "CREATE", 0, place, default, 0)]
        /\ UNCHANGED <<book, created, lock>>
    BY <2>5, <2>6
  <2> QED BY <1>0, <2>1, AddressAsked DEF AddressOps
<1>2. ASSUME NEW place \in Places, NEW default \in BOOLEAN, NEW id \in 1..created, NEW v \in 0..1,
             AddressBook!update(h, id, place, default, v)
      PROVE  AddressInv'
  <2>1. PICK at \in {"PROBE", "LOCK"} :
          /\ job' = [job EXCEPT ![h] = AddressRequest(at, "UPDATE", id, place, default, v)]
          /\ UNCHANGED <<book, created, lock>>
    BY <1>2 DEF AddressBook!update, AddressRequest, AddressBook!NoJob
  <2>2. id \in Nat /\ v \in Nat
    BY <1>0
  <2> QED BY <1>0, <2>1, <2>2, AddressAsked DEF AddressOps
<1>3. ASSUME NEW id \in 1..created, NEW op \in {"REMOVE", "SET_DEFAULT"},
             AddressBook!removeOrSetDefault(h, op, id)
      PROVE  AddressInv'
  <2>0. PICK f, n :
          /\ f \in BOOLEAN /\ f = FALSE /\ n = AddressBook!NoJob
          /\ n = [at |-> "IDLE", op |-> "NONE", id |-> 0, place |-> AddressBook!NoPlace, default |-> f,
                  expected |-> 0, seen |-> <<>>]
    BY NoAddressJob
  <2>2. id \in Nat /\ op \in AddressOps \ {"NONE"}
    BY <1>0 DEF AddressOps
  <2>3. PICK j : j = [n EXCEPT !.at = "LOCK", !.op = op, !.id = id]
    OBVIOUS
  <2>4. n = [at |-> "IDLE", op |-> "NONE", id |-> 0, place |-> AddressBook!NoPlace, default |-> f,
             expected |-> 0, seen |-> <<>>]
    BY <2>0
  <2>5. j = [at |-> "LOCK", op |-> op, id |-> id, place |-> AddressBook!NoPlace, default |-> f,
             expected |-> 0, seen |-> <<>>]
    BY <2>3, <2>4
  <2>8. f \in BOOLEAN
    BY <2>0
  <2>6. j = AddressRequest("LOCK", op, id, AddressBook!NoPlace, f, 0)
    BY <1>0, <2>2, <2>5, <2>8, AddressRequestIs
  <2>7. job' = [job EXCEPT ![h] = j] /\ UNCHANGED <<book, created, lock>>
    BY <1>3, <2>0, <2>3 DEF AddressBook!removeOrSetDefault
  <2>1. /\ job' = [job EXCEPT ![h] = AddressRequest("LOCK", op, id, AddressBook!NoPlace, f, 0)]
        /\ UNCHANGED <<book, created, lock>>
    BY <2>6, <2>7
  <2> QED BY <1>0, <2>1, <2>2, <2>8, AddressAsked
<1> QED BY <1>1, <1>2, <1>3

LEMMA AddressProbed ==
    ASSUME AddressInv, NEW h \in Handlers, AddressBook!probeDeliverability(h)
    PROVE  AddressInv'
<1>1. PICK was : was = job[h] /\ was \in AddressRequests /\ was.at = "PROBE" /\ was.op # "NONE"
  BY DEF AddressInv, AddressBook!probeDeliverability, AddressBook!At
<1>2. CASE AddressBook!Go(h, "LOCK")
  <2>1. PICK j : j = [was EXCEPT !.at = "LOCK"]
    OBVIOUS
  <2>2. j \in AddressRequests /\ j.at = "LOCK" /\ j.op # "NONE"
    BY <1>1, <2>1 DEF AddressRequests
  <2>3. job' = [job EXCEPT ![h] = j] /\ UNCHANGED <<book, created, lock>>
    BY <1>1, <1>2, <2>1 DEF AddressBook!Go, AddressBook!probeDeliverability, AddressInv
  <2> QED BY <2>2, <2>3, AddressKeeps
<1>3. CASE AddressBook!Done(h)
  <2>1. PICK j : j = AddressBook!NoJob /\ j \in AddressRequests /\ j.at = "IDLE"
    BY AddressIdle
  <2>2. job' = [job EXCEPT ![h] = j] /\ UNCHANGED <<book, created, lock>>
    BY <1>3, <2>1 DEF AddressBook!Done, AddressBook!probeDeliverability
  <2> QED BY <2>1, <2>2, AddressKeeps
<1> QED BY <1>2, <1>3 DEF AddressBook!probeDeliverability

LEMMA AddressBegun ==
    ASSUME AddressInv, NEW h \in Handlers, AddressBook!Begin(h)
    PROVE  AddressInv'
<1>1. PICK was : was = job[h] /\ was \in AddressRequests /\ was.at = "LOCK" /\ was.op # "NONE"
  BY DEF AddressInv, AddressBook!Begin, AddressBook!lockUser
<1>2. \A g \in Handlers : job[g].at # "WRITE"
  BY ServicesAssumption DEF AddressInv, AddressBook!Begin, AddressBook!lockUser
<1>3. PICK j : j = [was EXCEPT !.at = "WRITE", !.seen = book]
  OBVIOUS
<1>4. book \in Seq(Addresses)
  BY DEF AddressInv, Book
<1>5. j \in AddressRequests /\ j.at = "WRITE" /\ j.op # "NONE" /\ j.seen = book
  BY <1>1, <1>3, <1>4 DEF AddressRequests
<1>6. /\ job' = [job EXCEPT ![h] = j] /\ UNCHANGED <<book, created>> /\ lock' = h
  BY <1>1, <1>3 DEF AddressBook!Begin, AddressBook!lockUser, AddressInv
<1> QED BY <1>2, <1>5, <1>6, AddressKeeps

LEMMA AddressWrites ==
    ASSUME AddressInv, NEW j \in AddressRequests, j.seen = book, j.op # "NONE",
           ~AddressBook!Refused(j)
    PROVE  Book(AddressBook!Written(j), IF j.op = "CREATE" THEN created + 1 ELSE created)
<1>1. j.op \in {"CREATE", "UPDATE", "REMOVE", "SET_DEFAULT"}
  BY DEF AddressRequests, AddressOps
<1>2. CASE j.op = "CREATE"
  <2>1. AddressBook!Written(j) = AddressBook!Created(j)
    BY <1>2 DEF AddressBook!Written
  <2> QED BY <1>2, <2>1, CreatedBook
<1>3. CASE j.op = "UPDATE"
  <2>1. AddressBook!Written(j) = AddressBook!Updated(j) /\ j.id \in AddressBook!Ids(book)
    BY <1>3 DEF AddressBook!Written, AddressBook!Refused
  <2> QED BY <1>3, <2>1, UpdatedBook
<1>4. CASE j.op = "REMOVE"
  <2>1. AddressBook!Written(j) = AddressBook!Removed(j) /\ j.id \in AddressBook!Ids(book)
    BY <1>4 DEF AddressBook!Written, AddressBook!Refused
  <2> QED BY <1>4, <2>1, RemovedBook
<1>5. CASE j.op = "SET_DEFAULT"
  <2>1. AddressBook!Written(j) = AddressBook!MadeDefault(j) /\ j.id \in AddressBook!Ids(book)
    BY <1>5 DEF AddressBook!Written, AddressBook!Refused
  <2> QED BY <1>5, <2>1, SetDefaultBook
<1> QED BY <1>1, <1>2, <1>3, <1>4, <1>5

LEMMA AddressCommitted ==
    ASSUME AddressInv, NEW h \in Handlers, AddressBook!Commit(h)
    PROVE  AddressInv'
<1>1. PICK was : was = job[h] /\ was \in AddressRequests /\ was.at = "WRITE" /\ was.op # "NONE"
                 /\ was.seen = book
  BY DEF AddressInv, AddressBook!Commit, AddressBook!At
<1>2. \A g \in Handlers \ {h} : job[g].at # "WRITE"
  BY <1>1 DEF AddressInv
<1>3. created' \in Nat /\ Book(book', created')
  <2>1. CASE AddressBook!Refused(was)
    <3>1. UNCHANGED <<book, created>>
      BY <1>1, <2>1 DEF AddressBook!Commit
    <3> QED BY <3>1 DEF AddressInv
  <2>2. CASE ~AddressBook!Refused(was)
    <3>1. /\ book' = AddressBook!Written(was)
          /\ created' = IF was.op = "CREATE" THEN created + 1 ELSE created
      BY <1>1, <2>2 DEF AddressBook!Commit
    <3>2. Book(book', created')
      BY <1>1, <2>2, <3>1, AddressWrites
    <3> QED BY <3>1, <3>2 DEF AddressInv
  <2> QED BY <2>1, <2>2
<1>4. PICK j : j = AddressBook!NoJob /\ j \in AddressRequests /\ j.at = "IDLE"
  BY AddressIdle
<1>5. job' = [job EXCEPT ![h] = j]
  BY <1>4 DEF AddressBook!Commit, AddressBook!Done
<1>6. /\ job' \in [Handlers -> AddressRequests] /\ job'[h] = j
      /\ \A g \in Handlers \ {h} : job'[g] = job[g]
  BY <1>4, <1>5 DEF AddressInv
<1>7. \A g \in Handlers : job'[g].at # "WRITE" /\ (job'[g].at # "IDLE" => job'[g].op # "NONE")
  BY <1>2, <1>4, <1>6 DEF AddressInv
<1> QED BY <1>3, <1>6, <1>7 DEF AddressInv

LEMMA AddressBookStart == AddressBook!Init => AddressInv
<1> SUFFICES ASSUME AddressBook!Init PROVE AddressInv
  OBVIOUS
<1>1. created \in Nat /\ Book(book, created)
  BY DEF AddressBook!Init, Book, OneDefaultIn
<1>2. job \in [Handlers -> AddressRequests] /\ \A h \in Handlers : job[h].at = "IDLE"
  BY AddressIdle DEF AddressBook!Init
<1> QED BY <1>1, <1>2 DEF AddressInv

LEMMA AddressBookStep == ASSUME AddressInv, [AddressBook!Next]_(AddressBook!vars) PROVE AddressInv'
<1>1. CASE UNCHANGED AddressBook!vars
  BY <1>1 DEF AddressBook!vars, AddressInv
<1>2. ASSUME NEW h \in Handlers, AddressBook!probeDeliverability(h) PROVE AddressInv'
  BY <1>2, AddressProbed
<1>3. ASSUME NEW h \in Handlers, AddressBook!Begin(h) PROVE AddressInv'
  BY <1>3, AddressBegun
<1>4. ASSUME NEW h \in Handlers, AddressBook!Commit(h) PROVE AddressInv'
  BY <1>4, AddressCommitted
<1>5. ASSUME NEW h \in Handlers,
             \/ \E place \in Places, default \in BOOLEAN :
                   \/ AddressBook!create(h, place, default)
                   \/ \E id \in 1..created, v \in 0..1 : AddressBook!update(h, id, place, default, v)
             \/ \E id \in 1..created, op \in {"REMOVE", "SET_DEFAULT"} :
                   AddressBook!removeOrSetDefault(h, op, id)
      PROVE  AddressInv'
  BY <1>5, AddressAsks
<1> QED BY <1>1, <1>2, <1>3, <1>4, <1>5 DEF AddressBook!Next

LEMMA AddressBookShown == AddressInv => AddressBook!OneDefault
<1> SUFFICES ASSUME AddressInv PROVE AddressBook!OneDefault
  OBVIOUS
<1>1. book \in Seq(Addresses) /\ OneDefaultIn(book)
  BY DEF AddressInv, Book
<1>2. DOMAIN book = 1..Len(book)
  BY <1>1
<1> QED BY <1>1, <1>2 DEF OneDefaultIn, AddressBook!OneDefault

(* Whatever a customer's devices do at once, an address book with an address in it has exactly
   one default, for any number of requests, places and addresses (user-addresses.service.ts). *)
THEOREM OneDefaultHolds == Spec => []OneDefault
<1>1. Init => (scope = "AddressBook" => AddressInv)
  BY AddressBookStart DEF Init
<1>2. (scope = "AddressBook" => AddressInv) /\ [Next]_vars => (scope = "AddressBook" => AddressInv)'
  <2>1. [Next]_vars /\ scope' = "AddressBook" => scope = "AddressBook" /\ [AddressBook!Next]_(AddressBook!vars)
    BY DEF Next, vars, shared, AddressBook!vars
  <2> QED BY <2>1, AddressBookStep
<1>3. (scope = "AddressBook" => AddressInv) => OneDefault
  BY AddressBookShown DEF OneDefault
<1> QED BY <1>1, <1>2, <1>3, PTL DEF Spec

-----------------------------------------------------------------------------
(* OrderChat: what is unread is counted *)

LEMMA ChatCardinality == \A S : OrderChat!Cardinality(S) = Cardinality(S)
BY DEF OrderChat!Cardinality, Cardinality

Sides == OrderChat!Roles
ChatStages == {"IDLE", "SEND", "MARK", "SUBTRACT"}
ChatRequests == [at : ChatStages, role : Sides, client : ClientIds \cup {"NONE"}, message : Nat,
                 upTo : Nat, count : Nat]
ChatMessages == [from : Sides, client : ClientIds, there : BOOLEAN, read : BOOLEAN]

\* What a side has not read, and its requests that have counted it.
UnreadBy(r) == OrderChat!Unread(r, Len(messages))
UnreadByUpTo(r, h) == OrderChat!Unread(r, job[h].upTo)
ReadsNow(h, r) == job[h].at \in {"MARK", "SUBTRACT"} /\ job[h].role = r
SendsNow(h) == job[h].at = "SEND"

\* Each request that sends has a message of its own, which is not there yet.
ChatRows ==
    /\ messages \in Seq(ChatMessages) /\ unread \in [Sides -> Nat]
    /\ job \in [Handlers -> ChatRequests] /\ forgotten \in [Sides -> Nat]
    /\ \A n \in 1..Len(messages) : messages[n].read => messages[n].there
    /\ \A h \in Handlers : SendsNow(h) => /\ job[h].message \in 1..Len(messages)
                                       /\ ~messages[job[h].message].there
                                       /\ messages[job[h].message].from = job[h].role
    /\ \A g, h \in Handlers : SendsNow(g) /\ SendsNow(h) /\ job[g].message = job[h].message => g = h

\* A side that is not blurred is read by one request at a time; the counter is what is left
\* and what dead readings have marked, and between the marks and the subtraction it still
\* counts what was marked.
UnreadCounted(r) ==
    /\ \A g, h \in Handlers : ReadsNow(g, r) /\ ReadsNow(h, r) => g = h
    /\ (\A h \in Handlers : ReadsNow(h, r) => job[h].at = "MARK") =>
           unread[r] = Cardinality(UnreadBy(r)) + forgotten[r]
    /\ \A h \in Handlers : ReadsNow(h, r) /\ job[h].at = "MARK" =>
           /\ job[h].upTo <= Len(messages)
           /\ job[h].count = Cardinality(UnreadByUpTo(r, h))
           /\ \A g \in Handlers : SendsNow(g) /\ OrderChat!Other(job[g].role) = r
                                      => job[g].message > job[h].upTo
    /\ \A h \in Handlers : ReadsNow(h, r) /\ job[h].at = "SUBTRACT" =>
           unread[r] = Cardinality(UnreadBy(r)) + job[h].count + forgotten[r]
ChatInv == ChatRows /\ \A r \in Sides \ blurred : UnreadCounted(r)

(* What a side has not read of a sequence of messages, up to one of them. *)
UnreadOf(s, r, last) ==
    {n \in DOMAIN s : s[n].from = OrderChat!Other(r) /\ s[n].there /\ ~s[n].read /\ n <= last}
LEMMA UnreadIs ==
    ASSUME NEW r, NEW last
    PROVE  /\ OrderChat!Unread(r, last) = UnreadOf(messages, r, last)
           /\ OrderChat!Unread(r, last)' = UnreadOf(messages', r, last)
           /\ UnreadBy(r) = UnreadOf(messages, r, Len(messages))
           /\ UnreadBy(r)' = UnreadOf(messages', r, Len(messages'))
BY DEF UnreadBy, OrderChat!Unread, OrderChat!Numbers, UnreadOf

LEMMA UnreadOfExtended ==
    ASSUME NEW s \in Seq(ChatMessages), NEW t \in Seq(ChatMessages), Len(s) <= Len(t),
           \A n \in 1..Len(s) : t[n] = s[n],
           \A n \in 1..Len(t) : n > Len(s) => ~t[n].there,
           NEW r, NEW last
    PROVE  UnreadOf(t, r, last) = UnreadOf(s, r, last)
           /\ UnreadOf(t, r, Len(t)) = UnreadOf(s, r, Len(s))
<1>1. DOMAIN s = 1..Len(s) /\ DOMAIN t = 1..Len(t) /\ Len(s) \in Nat /\ Len(t) \in Nat
  OBVIOUS
<1>2. ASSUME NEW l, NEW n \in 1..Len(t), n \in UnreadOf(t, r, l)
      PROVE  n \in 1..Len(s) /\ n \in UnreadOf(s, r, l)
  <2>1. t[n].there
    BY <1>2 DEF UnreadOf
  <2>2. n <= Len(s)
    BY <1>1, <2>1
  <2>3. n \in 1..Len(s) /\ t[n] = s[n]
    BY <1>1, <2>2
  <2> QED BY <1>1, <1>2, <2>3 DEF UnreadOf
<1>3. ASSUME NEW l, NEW n \in 1..Len(s), n \in UnreadOf(s, r, l) PROVE n \in UnreadOf(t, r, l)
  <2>1. t[n] = s[n] /\ n \in 1..Len(t)
    BY <1>1
  <2> QED BY <1>1, <1>3, <2>1 DEF UnreadOf
<1>4. \A l : UnreadOf(t, r, l) \subseteq 1..Len(t) /\ UnreadOf(s, r, l) \subseteq 1..Len(s)
  BY <1>1 DEF UnreadOf
<1>5. ASSUME NEW l PROVE UnreadOf(t, r, l) = UnreadOf(s, r, l)
  <2>1. UnreadOf(t, r, l) \subseteq UnreadOf(s, r, l)
    BY <1>2, <1>4
  <2>2. UnreadOf(s, r, l) \subseteq UnreadOf(t, r, l)
    BY <1>3, <1>4
  <2> QED BY <2>1, <2>2
<1>6. UnreadOf(s, r, Len(t)) = UnreadOf(s, r, Len(s))
  BY <1>1 DEF UnreadOf
<1> QED BY <1>5, <1>6

LEMMA IdleRequest ==
    OrderChat!NoJob \in ChatRequests /\ OrderChat!NoJob.at = "IDLE"
BY DEF OrderChat!NoJob, ChatRequests, ChatStages, Sides, OrderChat!Roles

LEMMA UnreadIsFinite ==
    ASSUME ChatRows, NEW r, NEW last
    PROVE  /\ IsFiniteSet(OrderChat!Unread(r, last))
           /\ Cardinality(OrderChat!Unread(r, last)) \in Nat
           /\ OrderChat!Unread(r, last) \subseteq 1..Len(messages)
<1>1. DOMAIN messages = 1..Len(messages) /\ Len(messages) \in Nat
  BY DEF ChatRows
<1>2. OrderChat!Unread(r, last) \subseteq 1..Len(messages)
  BY <1>1 DEF OrderChat!Unread, OrderChat!Numbers
<1>3. IsFiniteSet(1..Len(messages))
  BY <1>1, FS_Interval
<1> QED BY <1>2, <1>3, FS_Subset, FS_CardinalityType

(* A step of one request that changes nothing a side has to read. *)
LEMMA RequestOfChat ==
    ASSUME ChatInv, NEW h \in Handlers, NEW j \in ChatRequests, job' = [job EXCEPT ![h] = j],
           messages' \in Seq(ChatMessages), Len(messages) <= Len(messages'),
           UNCHANGED <<unread, forgotten>>, blurred \subseteq blurred',
           \A n \in 1..Len(messages) : messages'[n] = messages[n],
           \A n \in 1..Len(messages') : n > Len(messages) =>
               ~messages'[n].there /\ ~messages'[n].read,
           ~ReadsNow(h, "CUSTOMER"), ~ReadsNow(h, "ADMIN"),
           \/ j.at = "IDLE"
           \/ /\ j.at = "SEND" /\ j.message = Len(messages) + 1 /\ Len(messages') = Len(messages) + 1
              /\ messages'[Len(messages) + 1].from = j.role
           \/ /\ j.at = "MARK" /\ j.upTo <= Len(messages)
              /\ j.count = Cardinality(OrderChat!Unread(j.role, j.upTo))
              /\ \/ j.role \in blurred'
                 \/ /\ \A g \in Handlers : ~ReadsNow(g, j.role)
                    /\ \A g \in Handlers : SendsNow(g) /\ OrderChat!Other(job[g].role) = j.role
                                              => job[g].message > j.upTo
    PROVE  ChatInv'
<1>1. \A g \in Handlers : job'[g] = IF g = h THEN j ELSE job[g]
  BY DEF ChatInv, ChatRows
<1>2. ChatRows'
  <2> USE DEF ChatInv, ChatRows, SendsNow
  <2>1. job' \in [Handlers -> ChatRequests]
    OBVIOUS
  <2>2. \A n \in 1..Len(messages') : messages'[n].read => messages'[n].there
    OBVIOUS
  <2>3. \A g \in Handlers : SendsNow(g)' => /\ job'[g].message \in 1..Len(messages')
                                         /\ ~messages'[job'[g].message].there
                                         /\ messages'[job'[g].message].from = job'[g].role
    <3>1. ASSUME NEW g \in Handlers, SendsNow(g)', g # h
          PROVE  /\ job'[g].message \in 1..Len(messages')
                 /\ ~messages'[job'[g].message].there
                 /\ messages'[job'[g].message].from = job'[g].role
      BY <1>1, <3>1
    <3>2. ASSUME SendsNow(h)'
          PROVE  /\ job'[h].message \in 1..Len(messages')
                 /\ ~messages'[job'[h].message].there
                 /\ messages'[job'[h].message].from = job'[h].role
      <4>1. j.at = "SEND" /\ job'[h] = j
        BY <1>1, <3>2
      <4> QED BY <4>1
    <3> QED BY <3>1, <3>2
  <2>4. \A g, i \in Handlers : SendsNow(g)' /\ SendsNow(i)' /\ job'[g].message = job'[i].message => g = i
    BY <1>1
  <2> QED BY <2>1, <2>2, <2>3, <2>4
<1>3. ASSUME NEW r, NEW last
      PROVE  UnreadOf(messages', r, last) = UnreadOf(messages, r, last)
             /\ UnreadOf(messages', r, Len(messages')) = UnreadOf(messages, r, Len(messages))
  <2>1. \A n \in 1..Len(messages') : n > Len(messages) => ~messages'[n].there
    OBVIOUS
  <2>2. PICK s, t : s = messages /\ t = messages'
    OBVIOUS
  <2>3. /\ s \in Seq(ChatMessages) /\ t \in Seq(ChatMessages) /\ Len(s) <= Len(t)
        /\ \A n \in 1..Len(s) : t[n] = s[n]
        /\ \A n \in 1..Len(t) : n > Len(s) => ~t[n].there
    BY <2>1, <2>2 DEF ChatInv, ChatRows
  <2>4. /\ UnreadOf(t, r, last) = UnreadOf(s, r, last)
        /\ UnreadOf(t, r, Len(t)) = UnreadOf(s, r, Len(s))
    BY <2>3, UnreadOfExtended
  <2> QED BY <2>2, <2>4
<1>4. ASSUME NEW r PROVE UnreadBy(r)' = UnreadBy(r)
  BY <1>3, UnreadIs
<1>5. ASSUME NEW r \in Sides \ blurred' PROVE UnreadCounted(r)'
  <2>1. UnreadCounted(r) /\ ~ReadsNow(h, r)
    BY <1>5 DEF ChatInv, Sides, OrderChat!Roles
  <2>2. \A g \in Handlers : g # h => (ReadsNow(g, r)' <=> ReadsNow(g, r)) /\ job'[g] = job[g]
    BY <1>1 DEF ReadsNow
  <2>3. ReadsNow(h, r)' => /\ j.at = "MARK" /\ j.role = r /\ job'[h] = j
                        /\ \A g \in Handlers : ~ReadsNow(g, r)
    BY <1>1, <1>5 DEF ReadsNow
  <2>4. \A g, i \in Handlers : ReadsNow(g, r)' /\ ReadsNow(i, r)' => g = i
    BY <2>1, <2>2, <2>3 DEF UnreadCounted
  <2>5. (\A g \in Handlers : ReadsNow(g, r)' => job'[g].at = "MARK")
          => unread'[r] = Cardinality(UnreadBy(r)') + forgotten'[r]
    <3>1. ASSUME \A g \in Handlers : ReadsNow(g, r)' => job'[g].at = "MARK"
          PROVE  \A g \in Handlers : ReadsNow(g, r) => job[g].at = "MARK"
      BY <2>1, <2>2, <3>1
    <3> QED BY <1>4, <2>1, <3>1 DEF UnreadCounted
  <2>6. ASSUME NEW g \in Handlers, ReadsNow(g, r)', job'[g].at = "MARK"
        PROVE  /\ job'[g].upTo <= Len(messages')
               /\ job'[g].count = Cardinality(UnreadByUpTo(r, g)')
               /\ \A i \in Handlers : SendsNow(i)' /\ OrderChat!Other(job'[i].role) = r
                                      => job'[i].message > job'[g].upTo
    <3>1. CASE g = h
      <4>1. /\ j.upTo <= Len(messages) /\ j.role = r
            /\ j.count = Cardinality(OrderChat!Unread(r, j.upTo))
            /\ \A i \in Handlers : SendsNow(i) /\ OrderChat!Other(job[i].role) = r
                                              => job[i].message > j.upTo
        BY <1>5, <2>3, <2>6, <3>1
      <4>2. j \in ChatRequests /\ Len(messages) \in Nat /\ Len(messages') \in Nat /\ j.upTo \in Nat
        BY DEF ChatInv, ChatRows, ChatRequests
      <4>3. \A i \in Handlers : SendsNow(i)' => i # h /\ SendsNow(i) /\ job'[i] = job[i]
        BY <1>1, <2>3, <2>6, <3>1 DEF SendsNow
      <4>4. OrderChat!Unread(r, j.upTo)' = OrderChat!Unread(r, j.upTo)
        BY <1>3, UnreadIs
      <4>5. UnreadByUpTo(r, g)' = OrderChat!Unread(r, j.upTo)
        BY <2>3, <2>6, <3>1, <4>4 DEF UnreadByUpTo
      <4> QED BY <2>3, <2>6, <3>1, <4>1, <4>2, <4>3, <4>5
    <3>2. CASE g # h
      <4>1. ReadsNow(g, r) /\ job'[g] = job[g] /\ job[g].at = "MARK" /\ job[g].upTo \in Nat
        BY <2>2, <2>6, <3>2 DEF ChatInv, ChatRows, ChatRequests
      <4>2. /\ job[g].upTo <= Len(messages)
            /\ job[g].count = Cardinality(UnreadByUpTo(r, g))
            /\ \A i \in Handlers : SendsNow(i) /\ OrderChat!Other(job[i].role) = r
                                      => job[i].message > job[g].upTo
        BY <2>1, <4>1 DEF UnreadCounted
      <4>3. UnreadByUpTo(r, g)' = UnreadByUpTo(r, g)
        <5>1. PICK k : k = job[g].upTo
          OBVIOUS
        <5>2. OrderChat!Unread(r, k)' = OrderChat!Unread(r, k)
          BY <1>3, UnreadIs
        <5> QED BY <4>1, <5>1, <5>2 DEF UnreadByUpTo
      <4>4. Len(messages) \in Nat /\ Len(messages') \in Nat
        BY DEF ChatInv, ChatRows
      <4>5. ASSUME NEW i \in Handlers, SendsNow(i)', OrderChat!Other(job'[i].role) = r
            PROVE  job'[i].message > job[g].upTo
        <5>1. CASE i = h
          <6>1. j.message = Len(messages) + 1
            BY <1>1, <4>5, <5>1 DEF SendsNow
          <6> QED BY <1>1, <4>1, <4>2, <4>4, <5>1, <6>1
        <5>2. CASE i # h
          BY <1>1, <4>2, <4>5, <5>2 DEF SendsNow
        <5> QED BY <5>1, <5>2
      <4> QED BY <4>1, <4>2, <4>3, <4>4, <4>5
    <3> QED BY <3>1, <3>2
  <2>7. ASSUME NEW g \in Handlers, ReadsNow(g, r)', job'[g].at = "SUBTRACT"
        PROVE  unread'[r] = Cardinality(UnreadBy(r)') + job'[g].count + forgotten'[r]
    <3>1. g # h /\ ReadsNow(g, r) /\ job'[g] = job[g]
      BY <2>2, <2>3, <2>7
    <3> QED BY <1>4, <2>1, <2>7, <3>1 DEF UnreadCounted
  <2> QED BY <2>4, <2>5, <2>6, <2>7 DEF UnreadCounted
<1> QED BY <1>2, <1>5 DEF ChatInv

(* A side nobody sends to, marks or subtracts from in the step. *)
LEMMA OtherSide ==
    ASSUME ChatRows, NEW r, UnreadCounted(r), Len(messages') = Len(messages), unread'[r] = unread[r],
           forgotten'[r] = forgotten[r],
           \A g \in Handlers : ReadsNow(g, r)' <=> ReadsNow(g, r),
           \A g \in Handlers : ReadsNow(g, r) => job'[g] = job[g],
           \A g \in Handlers : SendsNow(g)' => SendsNow(g) /\ job'[g] = job[g],
           \A last : UnreadOf(messages', r, last) = UnreadOf(messages, r, last)
    PROVE  UnreadCounted(r)'
<1>1. UnreadBy(r)' = UnreadBy(r)
  BY UnreadIs
<1>2. ASSUME NEW g \in Handlers, ReadsNow(g, r) PROVE UnreadByUpTo(r, g)' = UnreadByUpTo(r, g)
  <2>1. PICK k : k = job[g].upTo
    OBVIOUS
  <2>2. OrderChat!Unread(r, k)' = OrderChat!Unread(r, k)
    BY UnreadIs
  <2> QED BY <1>2, <2>1, <2>2 DEF UnreadByUpTo
<1> QED BY <1>1, <1>2 DEF UnreadCounted

SentIn(s, m) == [s EXCEPT ![m].there = TRUE]
LEMMA UnreadOfSent ==
    ASSUME NEW s \in Seq(ChatMessages), NEW m \in 1..Len(s), ~s[m].there, ~s[m].read,
           NEW t, t = SentIn(s, m)
    PROVE  /\ t \in Seq(ChatMessages) /\ Len(t) = Len(s)
           /\ \A n \in 1..Len(s) : n # m => t[n] = s[n]
           /\ t[m].there /\ ~t[m].read /\ t[m].from = s[m].from
           /\ \A r, last : ~(OrderChat!Other(r) = s[m].from /\ m <= last)
                  => UnreadOf(t, r, last) = UnreadOf(s, r, last)
           /\ \A r : OrderChat!Other(r) = s[m].from
                  => /\ UnreadOf(t, r, Len(s)) = UnreadOf(s, r, Len(s)) \cup {m}
                     /\ m \notin UnreadOf(s, r, Len(s))
<1>1. DOMAIN s = 1..Len(s) /\ Len(s) \in Nat /\ s[m] \in ChatMessages
  OBVIOUS
<1>2. PICK a : a = [s[m] EXCEPT !.there = TRUE]
  OBVIOUS
<1>3. a \in ChatMessages /\ a.there /\ a.read = s[m].read /\ a.from = s[m].from
  BY <1>1, <1>2 DEF ChatMessages
<1>4. t = [s EXCEPT ![m] = a]
  BY <1>2 DEF SentIn
<1>5. t \in Seq(ChatMessages) /\ Len(t) = Len(s) /\ DOMAIN t = DOMAIN s
  <2>1. s \in [1..Len(s) -> ChatMessages]
    BY <1>1
  <2>2. t \in [1..Len(s) -> ChatMessages]
    BY <1>3, <1>4, <2>1
  <2> QED BY <1>1, <2>2
<1>6. t[m] = a /\ \A n \in DOMAIN s : n # m => t[n] = s[n]
  BY <1>1, <1>4
<1>7. ASSUME NEW r, NEW last, ~(OrderChat!Other(r) = s[m].from /\ m <= last)
      PROVE  UnreadOf(t, r, last) = UnreadOf(s, r, last)
  <2>1. \A n \in DOMAIN s : n # m => (n \in UnreadOf(t, r, last) <=> n \in UnreadOf(s, r, last))
    BY <1>5, <1>6 DEF UnreadOf
  <2>2. m \notin UnreadOf(t, r, last) /\ m \notin UnreadOf(s, r, last)
    BY <1>3, <1>6, <1>7 DEF UnreadOf
  <2>3. UnreadOf(t, r, last) \subseteq DOMAIN s /\ UnreadOf(s, r, last) \subseteq DOMAIN s
    BY <1>5 DEF UnreadOf
  <2>4. UnreadOf(t, r, last) \subseteq UnreadOf(s, r, last)
    BY <2>1, <2>2, <2>3
  <2>5. UnreadOf(s, r, last) \subseteq UnreadOf(t, r, last)
    BY <2>1, <2>2, <2>3
  <2> QED BY <2>4, <2>5
<1>8. ASSUME NEW r, OrderChat!Other(r) = s[m].from
      PROVE  /\ UnreadOf(t, r, Len(s)) = UnreadOf(s, r, Len(s)) \cup {m}
             /\ m \notin UnreadOf(s, r, Len(s))
  <2>1. \A n \in DOMAIN s : n # m => (n \in UnreadOf(t, r, Len(s)) <=> n \in UnreadOf(s, r, Len(s)))
    BY <1>5, <1>6 DEF UnreadOf
  <2>2. m \in UnreadOf(t, r, Len(s)) /\ m \notin UnreadOf(s, r, Len(s))
    BY <1>1, <1>3, <1>5, <1>6, <1>8 DEF UnreadOf
  <2>3. UnreadOf(t, r, Len(s)) \subseteq DOMAIN s /\ UnreadOf(s, r, Len(s)) \subseteq DOMAIN s
    BY <1>5 DEF UnreadOf
  <2> QED BY <2>1, <2>2, <2>3
<1> QED BY <1>1, <1>3, <1>5, <1>6, <1>7, <1>8

MarkedIn(s, M) == [n \in DOMAIN s |-> IF n \in M THEN [s[n] EXCEPT !.read = TRUE] ELSE s[n]]
LEMMA UnreadOfMarked ==
    ASSUME NEW s \in Seq(ChatMessages), NEW r \in Sides, NEW l \in Nat, l <= Len(s), NEW t,
           t = MarkedIn(s, UnreadOf(s, r, l))
    PROVE  /\ t \in Seq(ChatMessages) /\ Len(t) = Len(s)
           /\ \A n \in 1..Len(s) : t[n].there = s[n].there /\ t[n].from = s[n].from
                                   /\ (t[n].read => s[n].read \/ s[n].there)
           /\ UnreadOf(s, r, l) \subseteq UnreadOf(s, r, Len(s))
           /\ UnreadOf(t, r, Len(s)) = UnreadOf(s, r, Len(s)) \ UnreadOf(s, r, l)
           /\ \A q \in Sides : q # r => \A last : UnreadOf(t, q, last) = UnreadOf(s, q, last)
<1>1. DOMAIN s = 1..Len(s) /\ Len(s) \in Nat /\ \A n \in DOMAIN s : s[n] \in ChatMessages
  OBVIOUS
<1>2. ASSUME NEW n \in DOMAIN s
      PROVE  /\ t[n] \in ChatMessages /\ t[n].from = s[n].from /\ t[n].there = s[n].there
             /\ n \in UnreadOf(s, r, l) => t[n].read
             /\ n \notin UnreadOf(s, r, l) => t[n] = s[n]
  <2>1. CASE n \in UnreadOf(s, r, l)
    <3>1. t[n] = [s[n] EXCEPT !.read = TRUE] /\ s[n] \in ChatMessages
      BY <1>1, <2>1 DEF MarkedIn
    <3> QED BY <2>1, <3>1 DEF ChatMessages
  <2>2. CASE n \notin UnreadOf(s, r, l)
    <3>1. t[n] = s[n] /\ s[n] \in ChatMessages
      BY <1>1, <2>2 DEF MarkedIn
    <3> QED BY <2>2, <3>1
  <2> QED BY <2>1, <2>2
<1>3. t \in Seq(ChatMessages) /\ Len(t) = Len(s) /\ DOMAIN t = DOMAIN s
  <2>1. t \in [1..Len(s) -> ChatMessages]
    BY <1>1, <1>2 DEF MarkedIn
  <2> QED BY <1>1, <2>1
<1>4. ASSUME NEW n \in 1..Len(s)
      PROVE  t[n].there = s[n].there /\ t[n].from = s[n].from /\ (t[n].read => s[n].read \/ s[n].there)
  BY <1>1, <1>2 DEF UnreadOf
<1>5. UnreadOf(s, r, l) \subseteq UnreadOf(s, r, Len(s))
  BY <1>1 DEF UnreadOf
<1>6. UnreadOf(t, r, Len(s)) = UnreadOf(s, r, Len(s)) \ UnreadOf(s, r, l)
  <2>1. ASSUME NEW n \in DOMAIN s
        PROVE  n \in UnreadOf(t, r, Len(s))
                 <=> n \in UnreadOf(s, r, Len(s)) /\ n \notin UnreadOf(s, r, l)
    <3>1. CASE n \in UnreadOf(s, r, l)
      <4>1. t[n].read
        BY <1>2, <3>1
      <4> QED BY <3>1, <4>1 DEF UnreadOf
    <3>2. CASE n \notin UnreadOf(s, r, l)
      <4>1. t[n] = s[n]
        BY <1>2, <3>2
      <4> QED BY <1>3, <3>2, <4>1 DEF UnreadOf
    <3> QED BY <3>1, <3>2
  <2>2. UnreadOf(t, r, Len(s)) \subseteq DOMAIN s /\ UnreadOf(s, r, Len(s)) \subseteq DOMAIN s
    BY <1>3 DEF UnreadOf
  <2> QED BY <2>1, <2>2
<1>7. ASSUME NEW q \in Sides, q # r, NEW last PROVE UnreadOf(t, q, last) = UnreadOf(s, q, last)
  <2>1. ASSUME NEW n \in DOMAIN s
        PROVE  n \in UnreadOf(t, q, last) <=> n \in UnreadOf(s, q, last)
    <3>1. CASE n \in UnreadOf(s, r, l)
      <4>1. s[n].from = OrderChat!Other(r) /\ t[n].from = s[n].from
        BY <1>2, <3>1 DEF UnreadOf
      <4>2. OrderChat!Other(q) # OrderChat!Other(r)
        BY <1>7 DEF OrderChat!Other, Sides, OrderChat!Roles
      <4> QED BY <4>1, <4>2 DEF UnreadOf
    <3>2. CASE n \notin UnreadOf(s, r, l)
      <4>1. t[n] = s[n]
        BY <1>2, <3>2
      <4> QED BY <1>3, <4>1 DEF UnreadOf
    <3> QED BY <3>1, <3>2
  <2>2. UnreadOf(t, q, last) \subseteq DOMAIN s /\ UnreadOf(s, q, last) \subseteq DOMAIN s
    BY <1>3 DEF UnreadOf
  <2> QED BY <2>1, <2>2
<1> QED BY <1>3, <1>4, <1>5, <1>6, <1>7

LEMMA ChatRequestSteps ==
    ASSUME ChatInv, NEW h \in Handlers,
           \/ \E r \in Sides, c \in ClientIds : OrderChat!Begin(h, r, c)
           \/ OrderChat!SendAgain(h)
           \/ \E r \in Sides, last \in DOMAIN messages : OrderChat!Count(h, r, last)
    PROVE  ChatInv'
<1>1. /\ messages \in Seq(ChatMessages) /\ Len(messages) \in Nat /\ DOMAIN messages = 1..Len(messages)
      /\ OrderChat!NoJob \in ChatRequests /\ OrderChat!NoJob.at = "IDLE"
  BY IdleRequest DEF ChatInv, ChatRows
<1>2. ASSUME NEW r \in Sides, NEW c \in ClientIds, OrderChat!Begin(h, r, c) PROVE ChatInv'
  <2>1. PICK m : m = [from |-> r, client |-> c, there |-> FALSE, read |-> FALSE]
    OBVIOUS
  <2>2. m \in ChatMessages /\ m.from = r /\ ~m.there /\ ~m.read
    BY <2>1 DEF ChatMessages
  <2>3. messages' = Append(messages, m) /\ UNCHANGED <<unread, blurred, forgotten>> /\ job[h] = OrderChat!NoJob
    BY <1>2, <2>1 DEF OrderChat!Begin, OrderChat!histories
  <2>4. /\ messages' \in Seq(ChatMessages) /\ Len(messages') = Len(messages) + 1
        /\ \A n \in 1..Len(messages) : messages'[n] = messages[n]
        /\ messages'[Len(messages) + 1] = m
    BY <1>1, <2>2, <2>3
  <2>5. PICK k \in Nat : k = Len(messages')
    BY <1>1, <2>4
  <2>6. PICK j : j = [OrderChat!NoJob EXCEPT !.at = "SEND", !.role = r, !.client = c, !.message = k]
    OBVIOUS
  <2>7. j \in ChatRequests /\ j.at = "SEND" /\ j.message = k /\ j.role = r
    BY <2>5, <2>6 DEF OrderChat!NoJob, ChatRequests, ChatStages
  <2>8. job' = [job EXCEPT ![h] = j]
    BY <1>2, <2>5, <2>6 DEF OrderChat!Begin
  <2>9. ~ReadsNow(h, "CUSTOMER") /\ ~ReadsNow(h, "ADMIN")
    BY <1>1, <2>3 DEF ReadsNow
  <2>10. \A n \in 1..Len(messages') : n > Len(messages) => ~messages'[n].there /\ ~messages'[n].read
    BY <1>1, <2>2, <2>4
  <2>11. Len(messages) <= Len(messages') /\ j.message = Len(messages) + 1
    BY <1>1, <2>4, <2>5, <2>7
  <2> QED BY <2>2, <2>3, <2>4, <2>7, <2>8, <2>9, <2>10, <2>11, RequestOfChat
<1>3. CASE OrderChat!SendAgain(h)
  <2>1. /\ job[h].at = "SEND" /\ job' = [job EXCEPT ![h] = OrderChat!NoJob]
        /\ UNCHANGED <<messages, unread, blurred, forgotten>>
    BY <1>3 DEF OrderChat!SendAgain, OrderChat!At, OrderChat!Done, OrderChat!histories
  <2>2. ~ReadsNow(h, "CUSTOMER") /\ ~ReadsNow(h, "ADMIN")
    BY <2>1 DEF ReadsNow
  <2>3. /\ messages' \in Seq(ChatMessages) /\ Len(messages) <= Len(messages')
        /\ \A n \in 1..Len(messages) : messages'[n] = messages[n]
        /\ \A n \in 1..Len(messages') : n > Len(messages) => ~messages'[n].there /\ ~messages'[n].read
    BY <1>1, <2>1
  <2> QED BY <1>1, <2>1, <2>2, <2>3, RequestOfChat
<1>4. ASSUME NEW r \in Sides, NEW last \in DOMAIN messages, OrderChat!Count(h, r, last)
      PROVE  ChatInv'
  <2>1. PICK k \in Nat : k = Cardinality(OrderChat!Unread(r, last))
    BY UnreadIsFinite DEF ChatInv
  <2>2. PICK j : j = [OrderChat!NoJob EXCEPT !.at = "MARK", !.role = r, !.upTo = last, !.count = k]
    OBVIOUS
  <2>3. j \in ChatRequests /\ j.at = "MARK" /\ j.role = r /\ j.upTo = last /\ j.count = k
    <3>1. last \in Nat
      BY <1>1
    <3> QED BY <2>1, <2>2, <3>1 DEF OrderChat!NoJob, ChatRequests, ChatStages
  <2>4. /\ job' = [job EXCEPT ![h] = j] /\ job[h] = OrderChat!NoJob
        /\ UNCHANGED <<messages, unread, forgotten>>
    BY <1>4, <2>1, <2>2, ChatCardinality DEF OrderChat!Count
  <2>5. blurred' = IF OrderChat!Reading(r) \/ \E g \in Handlers : /\ OrderChat!At(g, "SEND")
                                                                 /\ job[g].message <= last
                                                                 /\ job[g].role = OrderChat!Other(r)
                   THEN blurred \cup {r} ELSE blurred
    BY <1>4 DEF OrderChat!Count
  <2>6. \/ r \in blurred'
        \/ /\ \A g \in Handlers : ~ReadsNow(g, r)
           /\ \A g \in Handlers : SendsNow(g) /\ OrderChat!Other(job[g].role) = r
                                     => job[g].message > last
    <3>1. \A g \in Handlers : OrderChat!Other(job[g].role) = r => job[g].role = OrderChat!Other(r)
      BY DEF ChatInv, ChatRows, ChatRequests, OrderChat!Other, Sides, OrderChat!Roles
    <3>2. \A g \in Handlers : job[g].message \in Nat /\ last \in Nat
      <4>1. job \in [Handlers -> ChatRequests]
        BY DEF ChatInv, ChatRows
      <4> QED BY <1>1, <4>1, SMTT(30) DEF ChatRequests
    <3> QED BY <2>5, <3>1, <3>2 DEF OrderChat!Reading, OrderChat!At, ReadsNow, SendsNow
  <2>7. ~ReadsNow(h, "CUSTOMER") /\ ~ReadsNow(h, "ADMIN")
    BY <1>1, <2>4 DEF ReadsNow
  <2>8. /\ messages' \in Seq(ChatMessages) /\ Len(messages) <= Len(messages')
        /\ \A n \in 1..Len(messages) : messages'[n] = messages[n]
        /\ \A n \in 1..Len(messages') : n > Len(messages) => ~messages'[n].there /\ ~messages'[n].read
    BY <1>1, <2>4
  <2>9. j.upTo <= Len(messages) /\ j.count = Cardinality(OrderChat!Unread(j.role, j.upTo))
    BY <1>1, <2>1, <2>3
  <2>10. blurred \subseteq blurred'
    BY <2>5
  <2> QED BY <2>3, <2>4, <2>6, <2>7, <2>8, <2>9, <2>10, RequestOfChat
<1> QED BY <1>1, <1>2, <1>3, <1>4

LEMMA SendStep ==
    ASSUME ChatInv, NEW h \in Handlers, OrderChat!Send(h)
    PROVE  ChatInv'
<1>1. PICK m, R : m = job[h].message /\ R = job[h].role
  OBVIOUS
<1>2. /\ job[h].at = "SEND" /\ job' = [job EXCEPT ![h] = OrderChat!NoJob]
      /\ messages' = [messages EXCEPT ![m].there = TRUE]
      /\ unread' = [unread EXCEPT ![OrderChat!Other(R)] = @ + 1]
      /\ blurred' = blurred /\ forgotten' = forgotten
  BY <1>1 DEF OrderChat!Send, OrderChat!At, OrderChat!Done, OrderChat!histories
<1>3. /\ messages \in Seq(ChatMessages) /\ m \in 1..Len(messages) /\ R \in Sides
      /\ ~messages[m].there /\ ~messages[m].read /\ messages[m].from = R
      /\ unread \in [Sides -> Nat] /\ Len(messages) \in Nat
  <2>1. m \in 1..Len(messages) /\ ~messages[m].there /\ messages[m].from = R
    BY <1>1, <1>2 DEF ChatInv, ChatRows, SendsNow
  <2> QED BY <1>1, <2>1 DEF ChatInv, ChatRows, ChatRequests
<1>4. PICK s, t : s = messages /\ t = messages'
  OBVIOUS
<1>5. /\ t \in Seq(ChatMessages) /\ Len(t) = Len(s)
      /\ \A n \in 1..Len(s) : n # m => t[n] = s[n]
      /\ t[m].there /\ ~t[m].read /\ t[m].from = s[m].from
      /\ \A r, last : ~(OrderChat!Other(r) = s[m].from /\ m <= last)
             => UnreadOf(t, r, last) = UnreadOf(s, r, last)
      /\ \A r : OrderChat!Other(r) = s[m].from
             => /\ UnreadOf(t, r, Len(s)) = UnreadOf(s, r, Len(s)) \cup {m}
                /\ m \notin UnreadOf(s, r, Len(s))
  <2>1. s \in Seq(ChatMessages) /\ m \in 1..Len(s) /\ ~s[m].there /\ ~s[m].read
    BY <1>3, <1>4
  <2>2. t = SentIn(s, m)
    BY <1>2, <1>4 DEF SentIn
  <2> QED BY <2>1, <2>2, UnreadOfSent
<1>6. \A g \in Handlers : job'[g] = IF g = h THEN OrderChat!NoJob ELSE job[g]
  BY <1>2 DEF ChatInv, ChatRows
<1>7. \A g \in Handlers : (SendsNow(g)' => g # h /\ SendsNow(g) /\ job'[g] = job[g])
  BY <1>6, IdleRequest DEF SendsNow
<1>8. \A g \in Handlers : \A r : /\ ReadsNow(g, r)' <=> ReadsNow(g, r)
                                 /\ ReadsNow(g, r) => g # h /\ job'[g] = job[g]
  BY <1>2, <1>6, IdleRequest DEF ReadsNow
<1>9. ChatRows'
  <2>1. \A n \in 1..Len(messages') : messages'[n].read => messages'[n].there
    BY <1>4, <1>5 DEF ChatInv, ChatRows
  <2>2. \A g \in Handlers : SendsNow(g)' => job'[g].message # m
    BY <1>1, <1>2, <1>7 DEF ChatInv, ChatRows, SendsNow
  <2>3. unread' \in [Sides -> Nat]
    BY <1>2, <1>3 DEF OrderChat!Other, Sides, OrderChat!Roles
  <2>4. job' \in [Handlers -> ChatRequests]
    BY <1>2, IdleRequest DEF ChatInv, ChatRows
  <2>5. \A g \in Handlers : SendsNow(g)' => /\ job'[g].message \in 1..Len(messages')
                                         /\ ~messages'[job'[g].message].there
                                         /\ messages'[job'[g].message].from = job'[g].role
    BY <1>4, <1>5, <1>7, <2>2 DEF ChatInv, ChatRows
  <2>6. \A g, i \in Handlers : SendsNow(g)' /\ SendsNow(i)' /\ job'[g].message = job'[i].message => g = i
    BY <1>7 DEF ChatInv, ChatRows
  <2> QED BY <1>2, <1>4, <1>5, <2>1, <2>3, <2>4, <2>5, <2>6 DEF ChatInv, ChatRows
<1>10. ASSUME NEW r \in Sides \ blurred' PROVE UnreadCounted(r)'
  <2>1. UnreadCounted(r) /\ ChatRows
    BY <1>2, <1>10 DEF ChatInv
  <2>2. CASE OrderChat!Other(r) # R
    <3>1. \A last : UnreadOf(messages', r, last) = UnreadOf(messages, r, last)
      BY <1>3, <1>4, <1>5, <2>2
    <3>2. unread'[r] = unread[r]
      BY <1>2, <1>3, <2>2 DEF OrderChat!Other, Sides, OrderChat!Roles
    <3>3. Len(messages') = Len(messages) /\ forgotten'[r] = forgotten[r]
      BY <1>2, <1>4, <1>5
    <3>4. \A g \in Handlers : SendsNow(g)' => SendsNow(g) /\ job'[g] = job[g]
      BY <1>7
    <3>5. \A g \in Handlers : /\ ReadsNow(g, r)' <=> ReadsNow(g, r)
                              /\ ReadsNow(g, r) => job'[g] = job[g]
      BY <1>8
    <3> QED BY <2>1, <3>1, <3>2, <3>3, <3>4, <3>5, OtherSide
  <2>3. CASE OrderChat!Other(r) = R
    <3>1. r = OrderChat!Other(R) /\ unread'[r] = unread[r] + 1 /\ unread[r] \in Nat
      BY <1>2, <1>3, <2>3 DEF OrderChat!Other, Sides, OrderChat!Roles
    <3>2. /\ Cardinality(UnreadBy(r)') = Cardinality(UnreadBy(r)) + 1
          /\ Cardinality(UnreadBy(r)) \in Nat /\ forgotten'[r] = forgotten[r] /\ forgotten[r] \in Nat
      <4>1. PICK S : S = UnreadOf(s, r, Len(s))
        OBVIOUS
      <4>2. UnreadBy(r) = S /\ UnreadBy(r)' = S \cup {m} /\ m \notin S
        BY <1>3, <1>4, <1>5, <2>3, <4>1, UnreadIs
      <4>3. IsFiniteSet(S) /\ Cardinality(S) \in Nat
        BY <2>1, <4>2, UnreadIsFinite DEF UnreadBy
      <4>4. forgotten'[r] = forgotten[r] /\ forgotten[r] \in Nat
        BY <1>2, <1>10, <2>1 DEF ChatRows
      <4> QED BY <4>2, <4>3, <4>4, FS_AddElement
    <3>3. \A g, i \in Handlers : ReadsNow(g, r)' /\ ReadsNow(i, r)' => g = i
      BY <1>8, <2>1 DEF UnreadCounted
    <3>4. (\A g \in Handlers : ReadsNow(g, r)' => job'[g].at = "MARK")
            => unread'[r] = Cardinality(UnreadBy(r)') + forgotten'[r]
      <4>1. (\A g \in Handlers : ReadsNow(g, r)' => job'[g].at = "MARK")
              => \A g \in Handlers : ReadsNow(g, r) => job[g].at = "MARK"
        BY <1>8
      <4> QED BY <2>1, <3>1, <3>2, <4>1 DEF UnreadCounted
    <3>5. ASSUME NEW g \in Handlers, ReadsNow(g, r)', job'[g].at = "MARK"
          PROVE  /\ job'[g].upTo <= Len(messages')
                 /\ job'[g].count = Cardinality(UnreadByUpTo(r, g)')
                 /\ \A i \in Handlers : SendsNow(i)' /\ OrderChat!Other(job'[i].role) = r
                                        => job'[i].message > job'[g].upTo
      <4>1. ReadsNow(g, r) /\ job'[g] = job[g] /\ job[g].upTo \in Nat
        BY <1>8, <3>5 DEF ChatInv, ChatRows, ChatRequests
      <4>2. /\ job[g].upTo <= Len(messages) /\ job[g].count = Cardinality(UnreadByUpTo(r, g))
            /\ \A i \in Handlers : SendsNow(i) /\ OrderChat!Other(job[i].role) = r
                                        => job[i].message > job[g].upTo
        BY <2>1, <3>5, <4>1 DEF UnreadCounted
      <4>3. PICK k \in Nat : k = job[g].upTo
        BY <4>1
      <4>4. m > k
        BY <1>1, <1>2, <3>1, <4>2, <4>3 DEF SendsNow
      <4>5. ~(m <= k)
        BY <1>3, <4>3, <4>4
      <4>6. OrderChat!Unread(r, k)' = OrderChat!Unread(r, k)
        BY <1>4, <1>5, <4>5, UnreadIs
      <4>7. UnreadByUpTo(r, g)' = UnreadByUpTo(r, g)
        BY <4>1, <4>3, <4>6 DEF UnreadByUpTo
      <4> QED BY <1>4, <1>5, <1>7, <4>1, <4>2, <4>7
    <3>6. ASSUME NEW g \in Handlers, ReadsNow(g, r)', job'[g].at = "SUBTRACT"
          PROVE  unread'[r] = Cardinality(UnreadBy(r)') + job'[g].count + forgotten'[r]
      <4>1. ReadsNow(g, r) /\ job'[g] = job[g] /\ job[g].count \in Nat
        BY <1>8, <3>6 DEF ChatInv, ChatRows, ChatRequests
      <4>2. unread[r] = Cardinality(UnreadBy(r)) + job[g].count + forgotten[r]
        BY <2>1, <3>6, <4>1 DEF UnreadCounted
      <4> QED BY <3>1, <3>2, <4>1, <4>2
    <3> QED BY <3>3, <3>4, <3>5, <3>6 DEF UnreadCounted
  <2> QED BY <2>2, <2>3
<1> QED BY <1>9, <1>10 DEF ChatInv

LEMMA MarkStep ==
    ASSUME ChatInv, NEW h \in Handlers, OrderChat!Mark(h)
    PROVE  ChatInv'
<1>1. PICK R \in Sides, l \in Nat : R = job[h].role /\ l = job[h].upTo
  BY DEF ChatInv, ChatRows, ChatRequests
<1>2. PICK j : j = [job[h] EXCEPT !.at = "SUBTRACT"]
  OBVIOUS
<1>3. /\ j \in ChatRequests /\ j.at = "SUBTRACT" /\ j.role = R /\ j.count = job[h].count
      /\ j.count \in Nat
  BY <1>1, <1>2 DEF ChatInv, ChatRows, ChatRequests, ChatStages
<1>4. /\ job[h].at = "MARK" /\ job' = [job EXCEPT ![h] = j]
      /\ UNCHANGED <<unread, blurred, forgotten>>
      /\ messages' = MarkedIn(messages, UnreadOf(messages, R, l))
  BY <1>1, <1>2, UnreadIs
     DEF OrderChat!Mark, OrderChat!At, OrderChat!Numbers, OrderChat!histories, MarkedIn
<1>5. \A g \in Handlers : job'[g] = IF g = h THEN j ELSE job[g]
  BY <1>4 DEF ChatInv, ChatRows
<1>6. PICK s, t, M : s = messages /\ t = messages' /\ M = UnreadOf(messages, R, l)
  OBVIOUS
<1>7. s \in Seq(ChatMessages) /\ Len(s) \in Nat /\ t = MarkedIn(s, UnreadOf(s, R, l))
  BY <1>4, <1>6 DEF ChatInv, ChatRows
<1>8. /\ \A g \in Handlers : SendsNow(g)' => g # h /\ SendsNow(g) /\ job'[g] = job[g]
      /\ \A g \in Handlers : \A r : ReadsNow(g, r)' <=> ReadsNow(g, r)
  BY <1>1, <1>3, <1>4, <1>5 DEF SendsNow, ReadsNow
<1>9. t \in Seq(ChatMessages) /\ Len(t) = Len(s)
      /\ \A n \in 1..Len(s) : t[n].there = s[n].there /\ t[n].from = s[n].from
                                 /\ (t[n].read => s[n].read \/ s[n].there)
  <2>1. CASE l <= Len(s)
    BY <1>7, <2>1, UnreadOfMarked
  <2>2. CASE ~(l <= Len(s))
    <3>1. PICK k \in Nat : k = Len(s)
      BY <1>7
    <3>2. UnreadOf(s, R, l) = UnreadOf(s, R, k)
      BY <1>7, <2>2, <3>1 DEF UnreadOf
    <3> QED BY <1>7, <3>1, <3>2, UnreadOfMarked
  <2> QED BY <2>1, <2>2
<1>10. ChatRows'
  <2>1. job' \in [Handlers -> ChatRequests]
    BY <1>3, <1>4 DEF ChatInv, ChatRows
  <2>2. \A n \in 1..Len(messages') : messages'[n].read => messages'[n].there
    BY <1>6, <1>9 DEF ChatInv, ChatRows
  <2>3. \A g \in Handlers : SendsNow(g)' => /\ job'[g].message \in 1..Len(messages')
                                         /\ ~messages'[job'[g].message].there
                                         /\ messages'[job'[g].message].from = job'[g].role
    BY <1>6, <1>8, <1>9 DEF ChatInv, ChatRows
  <2>4. \A g, i \in Handlers : SendsNow(g)' /\ SendsNow(i)' /\ job'[g].message = job'[i].message => g = i
    BY <1>8 DEF ChatInv, ChatRows
  <2> QED BY <1>4, <1>6, <1>9, <2>1, <2>2, <2>3, <2>4 DEF ChatInv, ChatRows
<1>11. ASSUME NEW r \in Sides \ blurred' PROVE UnreadCounted(r)'
  <2>1. UnreadCounted(r) /\ ChatRows
    BY <1>4, <1>11 DEF ChatInv
  <2>2. CASE r # R
    <3>1. \A last : UnreadOf(messages', r, last) = UnreadOf(messages, r, last)
      <4>1. CASE l <= Len(s)
        BY <1>6, <1>7, <1>11, <2>2, <4>1, UnreadOfMarked
      <4>2. CASE ~(l <= Len(s))
        <5>1. PICK k \in Nat : k = Len(s)
          BY <1>7
        <5>2. UnreadOf(s, R, l) = UnreadOf(s, R, k)
          BY <1>7, <4>2, <5>1 DEF UnreadOf
        <5> QED BY <1>6, <1>7, <1>11, <2>2, <5>1, <5>2, UnreadOfMarked
      <4> QED BY <4>1, <4>2
    <3>2. \A g \in Handlers : ReadsNow(g, r) => job'[g] = job[g]
      BY <1>1, <1>5, <2>2 DEF ReadsNow
    <3> QED BY <1>4, <1>6, <1>8, <1>9, <2>1, <3>1, <3>2, OtherSide
  <2>3. CASE r = R
    <3>1. /\ ReadsNow(h, r) /\ \A g \in Handlers : ReadsNow(g, r) => g = h
          /\ \A g \in Handlers : ReadsNow(g, r) => job[g].at = "MARK"
      BY <1>1, <1>4, <2>1, <2>3 DEF UnreadCounted, ReadsNow
    <3>2. /\ unread[r] = Cardinality(UnreadBy(r)) + forgotten[r] /\ l <= Len(s)
          /\ j.count = Cardinality(UnreadByUpTo(r, h))
      BY <1>1, <1>3, <1>4, <1>6, <2>1, <3>1 DEF UnreadCounted
    <3>3. PICK S, T : S = UnreadOf(s, r, Len(s)) /\ T = UnreadOf(t, r, Len(s))
      OBVIOUS
    <3>4. UnreadBy(r) = S /\ UnreadBy(r)' = T /\ UnreadByUpTo(r, h) = M
      BY <1>1, <1>6, <1>9, <2>3, <3>3, UnreadIs DEF UnreadByUpTo
    <3>5. M \subseteq S /\ T = S \ M
      BY <1>6, <1>7, <2>3, <3>2, <3>3, UnreadOfMarked
    <3>6. /\ IsFiniteSet(S) /\ IsFiniteSet(T) /\ IsFiniteSet(M) /\ Cardinality(S) \in Nat
          /\ Cardinality(T) \in Nat /\ Cardinality(M) \in Nat
          /\ Cardinality(T) = Cardinality(S) - Cardinality(M)
      <4>1. IsFiniteSet(S) /\ Cardinality(S) \in Nat
        BY <2>1, <3>4, UnreadIsFinite DEF UnreadBy
      <4>2. /\ IsFiniteSet(T) /\ IsFiniteSet(M) /\ S \cap M = M
            /\ Cardinality(S \ M) = Cardinality(S) - Cardinality(S \cap M)
        BY <3>5, <4>1, FS_Subset, FS_Difference
      <4> QED BY <3>5, <4>1, <4>2, FS_CardinalityType
    <3>7. unread'[r] = Cardinality(UnreadBy(r)') + j.count + forgotten'[r]
      <4>1. /\ unread'[r] = Cardinality(S) + forgotten[r] /\ j.count = Cardinality(M)
            /\ Cardinality(UnreadBy(r)') = Cardinality(T) /\ forgotten'[r] = forgotten[r]
        BY <1>4, <3>2, <3>4
      <4>2. forgotten[r] \in Nat
        BY <1>11, <2>1 DEF ChatRows
      <4> QED BY <3>6, <4>1, <4>2
    <3>8. \A g \in Handlers : ReadsNow(g, r)' => g = h /\ job'[g] = j
      BY <1>5, <1>8, <3>1
    <3>9. ReadsNow(h, r)' /\ job'[h] = j
      BY <1>5, <1>8, <3>1
    <3> QED BY <1>3, <3>7, <3>8, <3>9 DEF UnreadCounted
  <2> QED BY <2>2, <2>3
<1> QED BY <1>4, <1>10, <1>11 DEF ChatInv

LEMMA SubtractStep ==
    ASSUME ChatInv, NEW h \in Handlers, OrderChat!Subtract(h)
    PROVE  ChatInv'
<1>1. PICK R \in Sides, k \in Nat : R = job[h].role /\ k = job[h].count
  BY DEF ChatInv, ChatRows, ChatRequests
<1>2. /\ job[h].at = "SUBTRACT" /\ job' = [job EXCEPT ![h] = OrderChat!NoJob]
      /\ UNCHANGED <<messages, blurred, forgotten>>
      /\ unread' = [unread EXCEPT ![R] = IF @ > k THEN @ - k ELSE 0]
  BY <1>1 DEF OrderChat!Subtract, OrderChat!At, OrderChat!Done, OrderChat!histories
<1>3. \A g \in Handlers : job'[g] = IF g = h THEN OrderChat!NoJob ELSE job[g]
  BY <1>2 DEF ChatInv, ChatRows
<1>4. /\ \A g \in Handlers : SendsNow(g)' => g # h /\ SendsNow(g) /\ job'[g] = job[g]
      /\ \A g \in Handlers : \A r : ReadsNow(g, r)' <=> g # h /\ ReadsNow(g, r)
  BY <1>3, IdleRequest DEF SendsNow, ReadsNow
<1>5. unread \in [Sides -> Nat]
  BY DEF ChatInv, ChatRows
<1>6. unread' \in [Sides -> Nat]
  BY <1>1, <1>2, <1>5
<1>7. ChatRows'
  <2>1. job' \in [Handlers -> ChatRequests]
    BY <1>2, IdleRequest DEF ChatInv, ChatRows
  <2> QED BY <1>2, <1>4, <1>6, <2>1 DEF ChatInv, ChatRows
<1>8. ASSUME NEW r \in Sides \ blurred' PROVE UnreadCounted(r)'
  <2>1. UnreadCounted(r) /\ ChatRows
    BY <1>2, <1>8 DEF ChatInv
  <2>2. CASE r # R
    <3>1. unread'[r] = unread[r]
      BY <1>2, <1>5, <2>2
    <3>2. \A g \in Handlers : (ReadsNow(g, r)' <=> ReadsNow(g, r)) /\ (ReadsNow(g, r) => job'[g] = job[g])
      BY <1>1, <1>3, <1>4, <2>2 DEF ReadsNow
    <3> QED BY <1>2, <1>4, <2>1, <3>1, <3>2, OtherSide
  <2>3. CASE r = R
    <3>1. ReadsNow(h, r) /\ \A g \in Handlers : ReadsNow(g, r) => g = h
      BY <1>1, <1>2, <2>1, <2>3 DEF UnreadCounted, ReadsNow
    <3>2. unread[r] = Cardinality(UnreadBy(r)) + k + forgotten[r]
      BY <1>1, <1>2, <2>1, <3>1 DEF UnreadCounted
    <3>3. Cardinality(UnreadBy(r)) \in Nat /\ UnreadBy(r)' = UnreadBy(r)
      BY <1>2, <2>1, UnreadIsFinite, UnreadIs DEF UnreadBy
    <3>4. unread'[r] = Cardinality(UnreadBy(r)') + forgotten'[r]
      <4>1. forgotten[r] \in Nat /\ forgotten'[r] = forgotten[r]
        BY <1>2, <1>8, <2>1 DEF ChatRows
      <4> QED BY <4>1, <1>1, <1>2, <1>5, <2>3, <3>2, <3>3
    <3>5. \A g \in Handlers : ~ReadsNow(g, r)'
      BY <1>4, <3>1
    <3> QED BY <3>4, <3>5 DEF UnreadCounted
  <2> QED BY <2>2, <2>3
<1> QED BY <1>7, <1>8 DEF ChatInv

(* What a reading that dies has marked stays in the counter. *)
LEMMA ChatCrash ==
    ASSUME ChatInv, NEW h \in Handlers, OrderChat!Crash(h)
    PROVE  ChatInv'
<1>1. PICK R \in Sides, k \in Nat : R = job[h].role /\ k = job[h].count
  BY DEF ChatInv, ChatRows, ChatRequests
<1>2. /\ job' = [job EXCEPT ![h] = OrderChat!NoJob] /\ UNCHANGED <<messages, unread, blurred>>
      /\ job[h].at = "SUBTRACT" => forgotten' = [forgotten EXCEPT ![R] = @ + k]
      /\ job[h].at # "SUBTRACT" => forgotten' = forgotten
  BY <1>1 DEF OrderChat!Crash, OrderChat!At, OrderChat!Done
<1>3. \A g \in Handlers : job'[g] = IF g = h THEN OrderChat!NoJob ELSE job[g]
  BY <1>2 DEF ChatInv, ChatRows
<1>4. /\ \A g \in Handlers : SendsNow(g)' => g # h /\ SendsNow(g) /\ job'[g] = job[g]
      /\ \A g \in Handlers : \A r : ReadsNow(g, r)' <=> g # h /\ ReadsNow(g, r)
  BY <1>3, IdleRequest DEF SendsNow, ReadsNow
<1>5. forgotten \in [Sides -> Nat] /\ forgotten' \in [Sides -> Nat]
  BY <1>1, <1>2 DEF ChatInv, ChatRows
<1>6. ChatRows'
  <2>1. job' \in [Handlers -> ChatRequests]
    BY <1>2, IdleRequest DEF ChatInv, ChatRows
  <2> QED BY <1>2, <1>4, <1>5, <2>1 DEF ChatInv, ChatRows
<1>7. ASSUME NEW r \in Sides \ blurred' PROVE UnreadCounted(r)'
  <2>1. UnreadCounted(r) /\ ChatRows
    BY <1>2, <1>7 DEF ChatInv
  <2>2. CASE ~ReadsNow(h, r)
    <3>1. forgotten'[r] = forgotten[r]
      BY <1>1, <1>2, <1>5, <2>2 DEF ReadsNow
    <3>2. \A g \in Handlers : (ReadsNow(g, r)' <=> ReadsNow(g, r)) /\ (ReadsNow(g, r) => job'[g] = job[g])
      BY <1>3, <1>4, <2>2
    <3> QED BY <1>2, <1>4, <2>1, <3>1, <3>2, OtherSide
  <2>3. CASE ReadsNow(h, r)
    <3>1. /\ \A g \in Handlers : ReadsNow(g, r) => g = h
          /\ r = R /\ job[h].at \in {"MARK", "SUBTRACT"}
      BY <1>1, <2>1, <2>3 DEF UnreadCounted, ReadsNow
    <3>2. Cardinality(UnreadBy(r)) \in Nat /\ UnreadBy(r)' = UnreadBy(r)
      BY <1>2, <2>1, UnreadIsFinite, UnreadIs DEF UnreadBy
    <3>3. unread'[r] = Cardinality(UnreadBy(r)') + forgotten'[r]
      <4>1. CASE job[h].at = "MARK"
        BY <1>2, <2>1, <3>1, <3>2, <4>1 DEF UnreadCounted
      <4>2. CASE job[h].at = "SUBTRACT"
        <5>1. unread[r] = Cardinality(UnreadBy(r)) + k + forgotten[r]
          BY <1>1, <2>1, <2>3, <4>2 DEF UnreadCounted
        <5>2. forgotten'[r] = forgotten[r] + k /\ forgotten[r] \in Nat
          BY <1>1, <1>2, <1>5, <3>1, <4>2
        <5> QED BY <1>1, <1>2, <3>2, <5>1, <5>2
      <4> QED BY <3>1, <4>1, <4>2
    <3>4. \A g \in Handlers : ~ReadsNow(g, r)'
      BY <1>4, <3>1
    <3> QED BY <3>3, <3>4 DEF UnreadCounted
  <2> QED BY <2>2, <2>3
<1> QED BY <1>6, <1>7 DEF ChatInv

LEMMA OrderChatStart == OrderChat!Init => ChatInv
<1> SUFFICES ASSUME OrderChat!Init PROVE ChatInv
  OBVIOUS
<1>1. /\ messages = <<>> /\ blurred = {} /\ unread = [r \in Sides |-> 0]
      /\ forgotten = [r \in Sides |-> 0]
      /\ job = [h \in Handlers |-> OrderChat!NoJob]
  BY DEF OrderChat!Init, Sides
<1>2. \A h \in Handlers : job[h].at = "IDLE" /\ job[h] \in ChatRequests
  BY <1>1, IdleRequest
<1>3. ChatRows
  BY <1>1, <1>2 DEF ChatRows, SendsNow
<1>4. ASSUME NEW r \in Sides PROVE UnreadCounted(r)
  <2>1. UnreadBy(r) = {}
    BY <1>1 DEF UnreadBy, OrderChat!Unread, OrderChat!Numbers
  <2>2. \A h \in Handlers : ~ReadsNow(h, r)
    BY <1>2 DEF ReadsNow
  <2>3. unread[r] = Cardinality(UnreadBy(r)) + forgotten[r]
    BY <1>1, <2>1, FS_EmptySet
  <2> QED BY <2>2, <2>3 DEF UnreadCounted
<1> QED BY <1>3, <1>4 DEF ChatInv

LEMMA OrderChatStep == ASSUME ChatInv, [OrderChat!Next]_(OrderChat!vars) PROVE ChatInv'
<1>1. ASSUME NEW h \in Handlers, NEW r \in OrderChat!Roles,
             \/ \E c \in ClientIds : OrderChat!Begin(h, r, c)
             \/ \E last \in OrderChat!Numbers : OrderChat!Count(h, r, last)
      PROVE  ChatInv'
  BY <1>1, ChatRequestSteps DEF OrderChat!Numbers, Sides
<1>2. ASSUME NEW h \in Handlers, \/ OrderChat!Send(h) \/ OrderChat!SendAgain(h)
                                 \/ OrderChat!Mark(h) \/ OrderChat!Subtract(h)
                                 \/ OrderChat!Crash(h)
      PROVE  ChatInv'
  BY <1>2, SendStep, MarkStep, SubtractStep, ChatCrash, ChatRequestSteps
<1>3. CASE OrderChat!Close \/ OrderChat!Minute \/ UNCHANGED OrderChat!vars
  <2>1. UNCHANGED <<messages, unread, job, blurred, forgotten>>
    BY <1>3 DEF OrderChat!Close, OrderChat!Minute, OrderChat!vars, OrderChat!histories
  <2>2. ChatRows'
    BY <2>1 DEF ChatInv, ChatRows, SendsNow
  <2>3. ASSUME NEW r \in Sides \ blurred' PROVE UnreadCounted(r)'
    <3>1. UnreadCounted(r) /\ ChatRows
      BY <2>1, <2>3 DEF ChatInv
    <3> QED BY <2>1, <3>1, OtherSide DEF ReadsNow, SendsNow
  <2> QED BY <2>2, <2>3 DEF ChatInv
<1> QED BY <1>1, <1>2, <1>3 DEF OrderChat!Next

LEMMA OrderChatShown == ChatInv => OrderChat!UnreadIsCounted
<1> SUFFICES ASSUME ChatInv, NEW r \in Sides \ blurred, ~OrderChat!Reading(r)
             PROVE  unread[r] = Cardinality(UnreadBy(r)) + forgotten[r]
  BY ChatCardinality DEF OrderChat!UnreadIsCounted, UnreadBy, Sides
<1>1. \A h \in Handlers : ~ReadsNow(h, r)
  BY DEF OrderChat!Reading, ReadsNow
<1> QED BY <1>1 DEF ChatInv, UnreadCounted

(* A counter that is not being read is the number of messages of the other side that are there
   and not read, and what readings that died between their two statements had marked, for any
   number of messages and requests, unless two readings overlap or a message is dated before
   the reading that does not find it (order-chat.service.ts). *)
THEOREM UnreadIsCountedHolds == Spec => []UnreadIsCounted
<1>1. Init => (scope = "OrderChat" => ChatInv)
  BY OrderChatStart DEF Init
<1>2. (scope = "OrderChat" => ChatInv) /\ [Next]_vars => (scope = "OrderChat" => ChatInv)'
  <2>1. [Next]_vars /\ scope' = "OrderChat" => scope = "OrderChat" /\ [OrderChat!Next]_(OrderChat!vars)
    BY DEF Next, vars, shared, chats, OrderChat!vars
  <2> QED BY <2>1, OrderChatStep
<1>3. (scope = "OrderChat" => ChatInv) => UnreadIsCounted
  BY OrderChatShown DEF UnreadIsCounted
<1> QED BY <1>1, <1>2, <1>3, PTL DEF Spec

-----------------------------------------------------------------------------
(* Reviews: the rating shown is at most one change behind *)

LEMMA ReviewCardinality == \A S : Reviews!Cardinality(S) = Cardinality(S)
BY DEF Reviews!Cardinality, Cardinality

Behind == {o \in Orders : shown[o] # reviews[o]}

\* A request with all its fields.
ReviewFields == {"op", "at", "order", "rating", "was", "stats"}
Whole(j) == j = [x \in ReviewFields |-> j[x]]

ReviewRows ==
    /\ reviews = [o \in Orders |-> reviews[o]]
    /\ job = [h \in Handlers |-> job[h]] /\ \A h \in Handlers : Whole(job[h])
    /\ \A h \in Handlers : Reviews!Writing(h) => job[h].order \in Orders

\* While no two requests change ratings at one time, one of them at most has read the
\* statistics, which are still those of the reviews, and nothing but the last change is missing
\* from what is shown.
StatisticsInv ==
    ~overlapped =>
        /\ \E x : Behind \subseteq {x}
        /\ \A h \in Handlers : job[h].at = "COMMIT" => job[h].stats = {reviews}
        /\ \A g, h \in Handlers : job[g].at = "COMMIT" /\ job[h].at = "COMMIT" => g = h
        /\ \A h \in Handlers : Reviews!Writing(h) =>
               reviews[job[h].order] = job[h].was \/ Behind \subseteq {job[h].order}
        /\ \A g, h \in Handlers : g # h /\ job[g].at = "COMMIT" /\ job[h].at = "WRITE"
               => reviews[job[h].order] = job[h].was
ReviewInv == ReviewRows /\ StatisticsInv

LEMMA WholeNoJob == Whole(Reviews!NoJob) /\ Reviews!NoJob.at = "IDLE"
BY DEF Whole, ReviewFields, Reviews!NoJob

LEMMA OneStatistic == \A r : (CHOOSE s \in {r} : TRUE) = r
OBVIOUS

(* A step of one request that changes no review. *)
LEMMA ReviewRequestGoesOn ==
    ASSUME ReviewInv, NEW h \in Handlers, NEW j, Whole(j), job' = [job EXCEPT ![h] = j],
           UNCHANGED <<reviews, shown>>, overlapped => overlapped',
           \/ j.at = "IDLE"
           \/ /\ j.at = "WRITE" /\ j.order \in Orders /\ reviews[j.order] = j.was
           \/ /\ j.at = "COMMIT" /\ job[h].at = "WRITE" /\ j.stats = {reviews}
              /\ j.order = job[h].order /\ j.was = job[h].was
              /\ overlapped' \/ \A g \in Handlers : g # h => ~Reviews!Writing(g)
    PROVE  ReviewInv'
<1>1. \A g \in Handlers : job'[g] = IF g = h THEN j ELSE job[g]
  BY DEF ReviewInv, ReviewRows
<1>2. ReviewRows'
  BY <1>1 DEF ReviewInv, ReviewRows, Reviews!Writing
<1>3. Behind' = Behind
  BY DEF Behind
<1>4. ASSUME ~overlapped'
      PROVE  /\ \A g \in Handlers : job'[g].at = "COMMIT" => job'[g].stats = {reviews}
             /\ \A g, i \in Handlers : job'[g].at = "COMMIT" /\ job'[i].at = "COMMIT" => g = i
             /\ \A g \in Handlers : Reviews!Writing(g)' =>
                    reviews[job'[g].order] = job'[g].was \/ Behind \subseteq {job'[g].order}
             /\ \A g, i \in Handlers : g # i /\ job'[g].at = "COMMIT" /\ job'[i].at = "WRITE"
                    => reviews[job'[i].order] = job'[i].was
  <2>1. CASE j.at = "IDLE"
    BY <1>1, <1>4, <2>1 DEF ReviewInv, StatisticsInv, Reviews!Writing
  <2>2. CASE j.at = "WRITE" /\ j.order \in Orders /\ reviews[j.order] = j.was
    BY <1>1, <1>4, <2>2 DEF ReviewInv, StatisticsInv, Reviews!Writing
  <2>3. CASE /\ j.at = "COMMIT" /\ job[h].at = "WRITE" /\ j.stats = {reviews}
             /\ j.order = job[h].order /\ j.was = job[h].was
             /\ \A g \in Handlers : g # h => ~Reviews!Writing(g)
    BY <1>1, <1>4, <2>3 DEF ReviewInv, StatisticsInv, Reviews!Writing
  <2> QED BY <1>4, <2>1, <2>2, <2>3
<1>5. StatisticsInv'
  BY <1>3, <1>4 DEF ReviewInv, StatisticsInv
<1> QED BY <1>2, <1>5 DEF ReviewInv

CheckedJob(op, o, r) ==
    [Reviews!NoJob EXCEPT !.op = op, !.at = "WRITE", !.order = o, !.rating = r, !.was = reviews[o]]
LEMMA ReviewJobShape ==
    ASSUME NEW op, NEW o, NEW r
    PROVE  /\ Whole(CheckedJob(op, o, r)) /\ CheckedJob(op, o, r).at = "WRITE"
           /\ CheckedJob(op, o, r).order = o /\ CheckedJob(op, o, r).was = reviews[o]
BY DEF Whole, ReviewFields, CheckedJob, Reviews!NoJob

LEMMA CheckStep ==
    ASSUME ReviewInv, NEW h \in Handlers, NEW op, NEW o \in Orders, NEW r, Reviews!Check(h, op, o, r)
    PROVE  ReviewInv'
<1>1. job' = [job EXCEPT ![h] = CheckedJob(op, o, r)]
      /\ UNCHANGED <<reviews, shown, overlapped>>
  BY DEF Reviews!Check, Reviews!Set, CheckedJob
<1>2. PICK j : j = CheckedJob(op, o, r)
  OBVIOUS
<1>3. Whole(j) /\ j.at = "WRITE" /\ j.order = o /\ j.was = reviews[o]
  BY <1>2, ReviewJobShape
<1> QED BY <1>1, <1>2, <1>3, ReviewRequestGoesOn

LEMMA StatsStep ==
    ASSUME ReviewInv, NEW h \in Handlers, Reviews!getProductStats(h)
    PROVE  ReviewInv'
<1>1. /\ job[h].at = "WRITE" /\ UNCHANGED <<reviews, shown>> /\ (overlapped => overlapped')
      /\ overlapped' \/ \A g \in Handlers : g # h => ~Reviews!Writing(g)
  BY DEF Reviews!getProductStats, Reviews!At
<1>2. CASE Reviews!Possible(job[h])
  <2>1. PICK j : j = [job[h] EXCEPT !.at = "COMMIT", !.stats = {reviews}]
    OBVIOUS
  <2>2. job' = [job EXCEPT ![h] = j]
    BY <1>2, <2>1 DEF Reviews!getProductStats, Reviews!Set
  <2>3. Whole(job[h])
    BY DEF ReviewInv, ReviewRows
  <2>4. /\ Whole(j) /\ j.at = "COMMIT" /\ j.stats = {reviews} /\ j.order = job[h].order
        /\ j.was = job[h].was
    BY <2>1, <2>3 DEF Whole, ReviewFields
  <2> QED BY <1>1, <2>2, <2>4, ReviewRequestGoesOn
<1>3. CASE ~Reviews!Possible(job[h])
  <2>1. job' = [job EXCEPT ![h] = Reviews!NoJob]
    BY <1>3 DEF Reviews!getProductStats, Reviews!Set, Reviews!Done
  <2> QED BY <1>1, <2>1, WholeNoJob, ReviewRequestGoesOn
<1> QED BY <1>2, <1>3

LEMMA CommitStep ==
    ASSUME ReviewInv, NEW h \in Handlers, Reviews!Commit(h)
    PROVE  ReviewInv'
<1>1. job[h].at = "COMMIT" /\ job' = [job EXCEPT ![h] = Reviews!NoJob] /\ overlapped' = overlapped
  BY DEF Reviews!Commit, Reviews!At, Reviews!Done, Reviews!Set
<1>2. CASE ~Reviews!Possible(job[h])
  <2>1. UNCHANGED <<reviews, shown>>
    BY <1>2 DEF Reviews!Commit
  <2> QED BY <1>1, <2>1, WholeNoJob, ReviewRequestGoesOn
<1>3. CASE Reviews!Possible(job[h])
  <2>1. PICK o \in Orders : o = job[h].order
    BY <1>1 DEF ReviewInv, ReviewRows, Reviews!Writing
  <2>2. reviews' = [reviews EXCEPT ![o] = job[h].rating]
    BY <1>3, <2>1 DEF Reviews!Commit
  <2>3. shown' = IF Reviews!Counted(job[h]) THEN CHOOSE s \in job[h].stats : TRUE ELSE shown
    BY <1>3 DEF Reviews!Commit, Reviews!updateProductRating
  <2>4. \A g \in Handlers : job'[g] = IF g = h THEN Reviews!NoJob ELSE job[g]
    BY <1>1 DEF ReviewInv, ReviewRows
  <2>5. reviews' = [x \in Orders |-> reviews'[x]] /\ \A x \in Orders : x # o => reviews'[x] = reviews[x]
    BY <2>2 DEF ReviewInv, ReviewRows
  <2>6. ASSUME ~overlapped
        PROVE  \/ Behind' \subseteq {o}
               \/ UNCHANGED <<reviews, shown>>
    <3>1. CASE Reviews!Counted(job[h])
      <4>1. shown' = reviews
        BY <1>1, <2>3, <2>6, <3>1, OneStatistic DEF ReviewInv, StatisticsInv
      <4> QED BY <2>5, <4>1 DEF Behind
    <3>2. CASE ~Reviews!Counted(job[h])
      <4>1. shown' = shown /\ job[h].rating = job[h].was
        BY <2>3, <3>2 DEF Reviews!Counted
      <4>2. CASE reviews[o] = job[h].was
        <5>1. reviews' = reviews
          BY <2>2, <4>1, <4>2 DEF ReviewInv, ReviewRows
        <5> QED BY <4>1, <5>1
      <4>3. CASE Behind \subseteq {o}
        BY <2>5, <4>1, <4>3 DEF Behind
      <4> QED BY <1>1, <2>1, <2>6, <4>2, <4>3 DEF ReviewInv, StatisticsInv, Reviews!Writing
    <3> QED BY <3>1, <3>2
  <2>7. ReviewRows'
    BY <1>1, <2>4, <2>5, WholeNoJob DEF ReviewInv, ReviewRows, Reviews!Writing
  <2>8. ASSUME ~overlapped'
        PROVE  /\ \E x : Behind' \subseteq {x}
               /\ \A g \in Handlers : job'[g].at # "COMMIT"
               /\ \A g \in Handlers : Reviews!Writing(g)' =>
                     reviews'[job'[g].order] = job'[g].was \/ Behind' \subseteq {job'[g].order}
    <3>1. \A g \in Handlers : job'[g].at # "COMMIT"
      BY <1>1, <2>4, <2>8, WholeNoJob DEF ReviewInv, StatisticsInv
    <3>2. \E x : Behind' \subseteq {x}
      <4>1. CASE UNCHANGED <<reviews, shown>>
        BY <1>1, <2>8, <4>1 DEF ReviewInv, StatisticsInv, Behind
      <4> QED BY <1>1, <2>6, <2>8, <4>1
    <3>3. ASSUME NEW g \in Handlers, Reviews!Writing(g)'
          PROVE  reviews'[job'[g].order] = job'[g].was \/ Behind' \subseteq {job'[g].order}
      <4>1. /\ g # h /\ job'[g] = job[g] /\ job[g].at = "WRITE" /\ job[g].order \in Orders
            /\ reviews[job[g].order] = job[g].was
        BY <1>1, <2>4, <2>8, <3>1, <3>3, WholeNoJob
           DEF ReviewInv, ReviewRows, StatisticsInv, Reviews!Writing
      <4>2. CASE job[g].order = o
        BY <1>1, <2>6, <2>8, <4>1, <4>2
      <4>3. CASE job[g].order # o
        BY <2>5, <4>1, <4>3
      <4> QED BY <4>2, <4>3
    <3> QED BY <3>1, <3>2, <3>3
  <2>9. StatisticsInv'
    BY <2>8 DEF StatisticsInv
  <2> QED BY <2>7, <2>9 DEF ReviewInv
<1> QED BY <1>2, <1>3

LEMMA ReviewsStart == Reviews!Init => ReviewInv
<1> SUFFICES ASSUME Reviews!Init PROVE ReviewInv
  OBVIOUS
<1>1. \A h \in Handlers : Whole(job[h]) /\ job[h].at = "IDLE"
  BY WholeNoJob DEF Reviews!Init
<1>2. Behind = {}
  BY DEF Reviews!Init, Behind
<1> QED BY <1>1, <1>2 DEF Reviews!Init, ReviewInv, ReviewRows, StatisticsInv, Reviews!Writing

LEMMA ReviewsStep == ASSUME ReviewInv, [Reviews!Next]_(Reviews!vars) PROVE ReviewInv'
<1>1. CASE UNCHANGED Reviews!vars
  BY <1>1 DEF Reviews!vars, ReviewInv, ReviewRows, StatisticsInv, Reviews!Writing, Behind
<1> QED BY <1>1, CheckStep, StatsStep, CommitStep DEF Reviews!Next

LEMMA ReviewsShown == ReviewInv => Reviews!RatingIsOneBehind
<1> SUFFICES ASSUME ReviewInv, ~overlapped PROVE Cardinality(Behind) <= 1
  BY ReviewCardinality DEF Reviews!RatingIsOneBehind, Behind
<1>1. PICK x : Behind \subseteq {x}
  BY DEF ReviewInv, StatisticsInv
<1>2. Behind = {} \/ Behind = {x}
  BY <1>1
<1>3. Cardinality({x}) = 1 /\ Cardinality({}) = 0
  BY FS_EmptySet, FS_Singleton
<1> QED BY <1>2, <1>3

(* The rating shown with a product lacks one review at most, for any number of orders and
   requests, while no two requests change its ratings at one time (reviews.service.ts). *)
THEOREM RatingIsOneBehindHolds == Spec => []RatingIsOneBehind
<1>1. Init => (scope = "Reviews" => ReviewInv)
  BY ReviewsStart DEF Init
<1>2. (scope = "Reviews" => ReviewInv) /\ [Next]_vars => (scope = "Reviews" => ReviewInv)'
  <2>1. [Next]_vars /\ scope' = "Reviews" => scope = "Reviews" /\ [Reviews!Next]_(Reviews!vars)
    BY DEF Next, vars, shared, ratings, Reviews!vars
  <2> QED BY <2>1, ReviewsStep
<1>3. (scope = "Reviews" => ReviewInv) => RatingIsOneBehind
  BY ReviewsShown DEF RatingIsOneBehind
<1> QED BY <1>1, <1>2, <1>3, PTL DEF Spec

=============================================================================
