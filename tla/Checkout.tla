------------------------------- MODULE Checkout -------------------------------
(***************************************************************************)
(* From the cart to the order: a customer asks for a quote, gets a signed  *)
(* token that stands for it, and places the order with the token and an    *)
(* idempotency key, while the shop changes the price, starts or ends a     *)
(* sale, withdraws the product or the coupon, and the customer edits the   *)
(* address.  One customer, one product in several colors, one address and  *)
(* one coupon; a request is cut where the code awaits.                     *)
(*                                                                         *)
(* A request that dies before its transaction leaves what a refused one    *)
(* leaves, nothing, and one that dies after it what an answered one does.   *)
(* The transaction of create is one step: its two writes that can meet     *)
(* those of another one, the key's row and the coupon's, are locked till   *)
(* it commits, and what it reads after them it reads afterwards.           *)
(***************************************************************************)
EXTENDS Naturals, Sequences, FiniteSets, Functions, TLC

CONSTANTS
    Handlers,          \* requests at one time
    Keys, NoKey,       \* idempotency keys of the client; a request without one
    Colors,            \* a line of an order is the product in one color
    Quantities,        \* pieces a request may ask for in a line
    ListPrices,        \* prices the shop gives the product
    SalePercent, CouponPercent, MaxDiscount, MinOrder,
    UsageLimit, UsageLimitPerUser,
    MaxOrders, MaxEdits                \* edits: orders, changes of the shop or the address

VARIABLES
    product,           \* its price, whether it is on sale and ACTIVE
    coupon,            \* ACTIVE, INACTIVE or REMOVED, and used_count
    redemptions,       \* orders of the customer that redeemed it
    address,           \* version, and whether it is still there
    token,             \* quote token in the client's hands
    orders,            \* what was ordered, by number
    idempotency,       \* order_idempotency_keys: order of each key, 0 without
    job, edits,
    together           \* history: keys sent twice at one time

vars == <<product, coupon, redemptions, address, token, orders, idempotency, job, edits,
          together>>

shop    == <<product, coupon, address>>
placed  == <<redemptions, orders, idempotency>>

\* Pieces of each color; at least one line is asked for.
Pieces(lines) == FoldFunction(+, 0, lines)
Nothing  == [c \in Colors |-> 0]
Requests == [Colors -> Quantities \cup {0}] \ {Nothing}

NoToken == [lines |-> Nothing, coupon |-> FALSE, version |-> 0, total |-> 0]
Expired == [NoToken EXCEPT !.coupon = TRUE]
NoJob   == [at |-> "IDLE", kind |-> "NONE", key |-> NoKey, lines |-> Nothing,
            coupon |-> FALSE, version |-> 0, unitPrice |-> 0, lineTotal |-> 0, items |-> 0,
            discount |-> 0, quoted |-> NoToken]

Init ==
    /\ product \in [price : ListPrices, onSale : {FALSE}, selling : {TRUE}]
    /\ coupon = [state |-> "ACTIVE", used |-> 0]
    /\ redemptions = {} /\ address = [version |-> 1, kept |-> TRUE]
    /\ token = NoToken /\ orders = <<>>
    /\ idempotency = [k \in Keys |-> 0]
    /\ job = [h \in Handlers |-> NoJob]
    /\ edits = 0 /\ together = {}

At(h, s) == job[h].at = s
Done(h)  == job' = [job EXCEPT ![h] = NoJob]
Go(h, s) == job' = [job EXCEPT ![h].at = s]

-----------------------------------------------------------------------------
(* buildOrderPricing *)

Rounded(n, percent) == (n * percent + 50) \div 100
Least(a, b) == IF a < b THEN a ELSE b

resolveSalePrice(listPrice, percent) == Rounded(listPrice, 100 - percent)

UnitPrice == IF product.onSale THEN resolveSalePrice(product.price, SalePercent) ELSE product.price

\* The parcel weighs 500 g a piece; the carrier's fee rises with it.
ShippingFee(quantity) == quantity

\* The limits are read here before the transaction, and again inside it.
CouponApplies(items) ==
    /\ coupon.state = "ACTIVE" /\ items >= MinOrder
    /\ coupon.used < UsageLimit /\ Cardinality(redemptions) < UsageLimitPerUser

resolveDiscountAmount(items) == Least(Rounded(items, CouponPercent), MaxDiscount)

Total(j) == j.items + ShippingFee(Pieces(j.lines)) - j.discount

-----------------------------------------------------------------------------
(* quote, create: what both do first *)

\* resolveOrderAddress reads the address, whose version the rest of the request is about.
Receive(h, kind, key, lines, useCoupon, quoted) ==
    /\ job' = [job EXCEPT ![h] = [at |-> IF key # NoKey THEN "KEY" ELSE "PRICE",
                                  kind |-> kind, key |-> key, lines |-> lines,
                                  coupon |-> useCoupon, version |-> address.version,
                                  unitPrice |-> 0, lineTotal |-> 0, items |-> 0,
                                  discount |-> 0, quoted |-> quoted]]
    /\ together' = IF key # NoKey /\ \E g \in Handlers : job[g].key = key
                   THEN together \cup {key} ELSE together
    /\ UNCHANGED <<shop, placed, token, edits>>

quote(h) ==
    /\ At(h, "IDLE") /\ address.kept /\ token = NoToken
    /\ \E lines \in Requests, useCoupon \in BOOLEAN :
          Receive(h, "QUOTE", NoKey, lines, useCoupon, NoToken)

\* A client that goes on from its quote sends what the quote was for, or not.
create(h) ==
    /\ At(h, "IDLE") /\ address.kept
    /\ \E key \in Keys \cup {NoKey}, lines \in Requests, useCoupon \in BOOLEAN,
       quoted \in {token, NoToken} :
        Receive(h, "CREATE", key, lines, useCoupon, quoted)

\* A key whose order exists is answered with it, whatever else is asked for.
FindKey(h) ==
    /\ At(h, "KEY")
    /\ IF idempotency[job[h].key] # 0 THEN Done(h) ELSE Go(h, "PRICE")
    /\ UNCHANGED <<shop, placed, token, edits, together>>

\* The product is ACTIVE and sold in the colors asked for, and the customer's measurements
\* say what the garment needs.
Orderable == product.selling

\* The total of a line is kept by product: the one of the last line stands for all.
ReadPrice(h) ==
    /\ At(h, "PRICE")
    /\ IF Orderable
       THEN \E last \in Colors :
               /\ job[h].lines[last] > 0
               /\ job' = [job EXCEPT ![h].unitPrice = UnitPrice,
                                     ![h].lineTotal = UnitPrice * job[h].lines[last],
                                     ![h].items = UnitPrice * Pieces(job[h].lines),
                                     ![h].at = "COUPON"]
       ELSE Done(h)
    /\ UNCHANGED <<shop, placed, token, edits, together>>

ReadCoupon(h) ==
    /\ At(h, "COUPON")
    /\ IF job[h].coupon /\ ~CouponApplies(job[h].items) THEN Done(h)
       ELSE job' = [job EXCEPT ![h].at = "WRITE",
                      ![h].discount = IF job[h].coupon
                                      THEN resolveDiscountAmount(job[h].items) ELSE 0]
    /\ UNCHANGED <<shop, placed, token, edits, together>>

-----------------------------------------------------------------------------
(* The token, the transaction *)

Fingerprint(j) == [lines |-> j.lines, coupon |-> j.coupon, version |-> j.version]

signQuote(h) ==
    /\ At(h, "WRITE") /\ job[h].kind = "QUOTE"
    /\ token' = Fingerprint(job[h]) @@ [total |-> Total(job[h])]
    /\ Done(h)
    /\ UNCHANGED <<shop, placed, edits, together>>

assertQuoteToken(j) ==
    j.quoted # NoToken => j.quoted = Fingerprint(j) @@ [total |-> Total(j)]

TrustEarlierCount == coupon.state = "ACTIVE" /\ coupon.used < UsageLimit

\* The coupon's row is updated where the limits still hold, then the customer's are counted.
ClaimsCoupon ==
    /\ coupon.state = "ACTIVE" /\ coupon.used < UsageLimit
    /\ Cardinality(redemptions) < UsageLimitPerUser

Accepted(j) ==
    /\ assertQuoteToken(j) /\ Total(j) > 0
    /\ address.kept /\ address.version = j.version
    /\ j.coupon => ClaimsCoupon

ForgetKey(j) == UNCHANGED idempotency

RememberKey(j) ==
    idempotency' = IF j.key = NoKey THEN idempotency
                   ELSE [idempotency EXCEPT ![j.key] = Len(orders')]

Place(h) ==
    LET j == job[h] IN
    /\ At(h, "WRITE") /\ j.kind = "CREATE" /\ Accepted(j)
    /\ Len(orders) < MaxOrders
    /\ orders' = Append(orders, [key |-> j.key, discount |-> j.discount, lines |-> j.lines,
                                 unitPrice |-> j.unitPrice, lineTotal |-> j.lineTotal])
    /\ RememberKey(j)
    /\ IF j.coupon
       THEN /\ coupon' = [coupon EXCEPT !.used = @ + 1]
            /\ redemptions' = redemptions \cup {Len(orders')}
       ELSE UNCHANGED <<coupon, redemptions>>
    /\ Done(h)
    /\ UNCHANGED <<product, address, token, edits, together>>

Reject(h) ==
    /\ At(h, "WRITE") /\ job[h].kind = "CREATE" /\ ~Accepted(job[h])
    /\ Done(h)
    /\ UNCHANGED <<shop, placed, token, edits, together>>

-----------------------------------------------------------------------------
(* The shop, the customer's address, time *)

Edit == edits < MaxEdits /\ edits' = edits + 1 /\ UNCHANGED <<placed, together>>

EditProduct ==
    /\ Edit
    /\ \/ \E p \in ListPrices : product' = [product EXCEPT !.price = p]
       \/ product' = [product EXCEPT !.onSale = ~@]
       \/ product' = [product EXCEPT !.selling = ~@]
    /\ UNCHANGED <<coupon, address, token, job>>

EditCoupon ==
    /\ Edit
    /\ coupon.state # "REMOVED"
    /\ coupon' = [coupon EXCEPT !.state = IF @ = "ACTIVE" THEN "INACTIVE" ELSE "ACTIVE"]
    /\ UNCHANGED <<product, address, token, job>>

\* Only a coupon nobody redeemed is deleted (foreign key of the redemptions).
RemoveCoupon ==
    /\ Edit
    /\ coupon.state # "REMOVED" /\ redemptions = {}
    /\ coupon' = [coupon EXCEPT !.state = "REMOVED"]
    /\ UNCHANGED <<product, address, token, job>>

EditAddress ==
    /\ Edit
    /\ address' \in {[address EXCEPT !.version = @ + 1], [address EXCEPT !.kept = FALSE]}
    /\ UNCHANGED <<product, coupon, token, job>>

\* The token in the client's hands expires, and so does one a request already carries.
QuoteExpires ==
    /\ Edit /\ token # NoToken
    /\ token' = NoToken
    /\ job' = [h \in Handlers |-> [job[h] EXCEPT !.quoted = IF @ = NoToken THEN @ ELSE Expired]]
    /\ UNCHANGED shop

Next ==
    \/ \E h \in Handlers : \/ quote(h) \/ create(h) \/ FindKey(h) \/ ReadPrice(h)
                           \/ ReadCoupon(h) \/ signQuote(h) \/ Place(h) \/ Reject(h)
    \/ EditProduct \/ EditCoupon \/ RemoveCoupon \/ EditAddress \/ QuoteExpires

Spec == Init /\ [][Next]_vars

-----------------------------------------------------------------------------
(* Properties *)

\* A client that does not get its answer sends the order again under the same key and
\* gets the order it already has, whatever happened to the first answer: a key has one
\* order, unless two requests carried it at one time (both miss the key, create,
\* orders.service.ts:182).
OneOrderPerKey ==
    \A k \in Keys \ together : Cardinality({n \in DOMAIN orders : orders[n].key = k}) <= 1

\* The limits of a coupon are read long before the order is written and count again
\* inside its transaction: however requests interleave, an order with a discount has its
\* redemption, the coupon's counter is what was redeemed, and neither its own limit nor
\* the customer's is passed.
DiscountIsClaimed ==
    /\ \A n \in DOMAIN orders : orders[n].discount > 0 => n \in redemptions
    /\ coupon.used = Cardinality(redemptions)
    /\ Cardinality(redemptions) <= UsageLimitPerUser /\ coupon.used <= UsageLimit

\* What is written on a line of the order, and refunded when the line has an issue, is
\* "unitPriceVnd * quantity" (FE_HANDOFF_SPRINT2.md:62), also when the product is ordered
\* in two colors.
LineIsItsPieces ==
    \A n \in DOMAIN orders, c \in Colors :
        orders[n].lines[c] > 0 => orders[n].lineTotal = orders[n].unitPrice * orders[n].lines[c]
===============================================================================
