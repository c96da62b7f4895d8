---------------------------- MODULE RefundProofs ----------------------------
(***************************************************************************)
(* Theorems about Refunds for any number of cron rounds, payments, issues, *)
(* refunds, errors and crashes: its types and that the shop's record of a  *)
(* gateway refund is the gateway's, for any number of administrators; no   *)
(* payment is paid back twice, an order shown as refunded was, and an      *)
(* approved issue is resolved last, for one administrator at a time.  (Two *)
(* who record the same transfer at once are not stopped by the code.)      *)
(*                                                                         *)
(* The inductive invariant TruthInv says which rows of the refunds table   *)
(* are true of the gateway, and what every request in progress knows of    *)
(* the row it works on.  Steps are grouped by what they write: a step that *)
(* writes no table (LocalStep), only the order (OrderStep), the status of  *)
(* a row (StatusStep), a new row (RowAdded), or the gateway's own decision *)
(* (ProviderStep).  What a step makes of the request is a "Follows" lemma. *)
(*                                                                         *)
(* They rest on lemmas about sums over the refunds table, given first:     *)
(* what Total and the sums of the rows of some parties in some statuses do *)
(* when a row changes its status or amount, when a row is added, and when  *)
(* the rows summed are more.                                               *)
(***************************************************************************)
EXTENDS Refunds, WellFoundedInduction, FiniteSetTheorems, TLAPS

-----------------------------------------------------------------------------
(* Sums *)

(* A set of naturals with 0 and with the successor of each member is all of them. *)
LEMMA Induction ==
    ASSUME NEW S, 0 \in S, \A n \in Nat : n \in S => n + 1 \in S
    PROVE  \A n \in Nat : n \in S
<1> SUFFICES ASSUME \E n \in Nat : n \notin S PROVE FALSE
  OBVIOUS
<1> DEFINE T == {n \in Nat : n \notin S}
<1>1. T \subseteq Nat /\ T # {}
  OBVIOUS
<1>2. PICK x \in T : \A y \in T : ~(<<y, x>> \in OpToRel(<, Nat))
  BY <1>1, NatLessThanWellFounded, WFMin
<1>3. x # 0 /\ x \in Nat
  OBVIOUS
<1>4. x - 1 \in Nat /\ x - 1 < x /\ x - 1 + 1 = x
  BY <1>3
<1>5. x - 1 \notin T
  BY <1>2, <1>4 DEF OpToRel
<1> QED BY <1>4, <1>5

\* What row n of table t adds to a sum over ids.
Weight(t, ids, n) == IF n \in ids THEN t[n].amt ELSE 0

\* f holds the sums of the first rows of t.
Sums(f, t, ids) ==
    /\ f \in [0..Len(t) -> Nat]
    /\ f[0] = 0
    /\ \A n \in 1..Len(t) : f[n] = f[n - 1] + Weight(t, ids, n)

\* f holds the sums of the first m values of w.
Adds(f, w, m) == /\ f \in [0..m -> Nat]
                 /\ f[0] = 0
                 /\ \A n \in 1..m : f[n] = f[n - 1] + w[n]

(* Prefix sums of naturals exist. *)
LEMMA PrefixSums ==
    ASSUME NEW len \in Nat, NEW w \in [1..len -> Nat]
    PROVE  \E f : Adds(f, w, len)
<1> DEFINE S == {m \in Nat : m <= len => \E f : Adds(f, w, m)}
<1>1. 0 \in S
  <2> DEFINE f == [n \in 0..0 |-> 0]
  <2>1. f \in [0..0 -> Nat] /\ f[0] = 0
    OBVIOUS
  <2>2. 1..0 = {}
    OBVIOUS
  <2> HIDE DEF f
  <2>3. Adds(f, w, 0)
    BY <2>1, <2>2 DEF Adds
  <2> QED BY <2>3
<1>2. ASSUME NEW m \in Nat, m \in S PROVE m + 1 \in S
  <2>1. SUFFICES ASSUME m + 1 <= len PROVE \E f : Adds(f, w, m + 1)
    <3>1. m + 1 \in Nat
      OBVIOUS
    <3> QED BY <3>1
  <2>2. PICK f : Adds(f, w, m)
    BY <1>2, <2>1
  <2> DEFINE g == [n \in 0..(m + 1) |-> IF n = m + 1 THEN f[m] + w[m + 1] ELSE f[n]]
  <2>3. w[m + 1] \in Nat /\ f[m] \in Nat
    BY <2>1, <2>2 DEF Adds
  <2>4. ASSUME NEW n \in 0..(m + 1) PROVE g[n] \in Nat
    BY <2>2, <2>3 DEF Adds
  <2>5. g \in [0..(m + 1) -> Nat]
    BY <2>4
  <2>6. g[0] = 0
    BY <2>2 DEF Adds
  <2>7. ASSUME NEW n \in 1..(m + 1) PROVE g[n] = g[n - 1] + w[n]
    <3>1. CASE n = m + 1
      <4>1. g[n] = f[m] + w[m + 1] /\ g[m] = f[m] /\ n - 1 = m
        BY <3>1
      <4> QED BY <4>1, <3>1
    <3>2. CASE n \in 1..m
      <4>1. g[n] = f[n] /\ g[n - 1] = f[n - 1]
        BY <3>2
      <4> QED BY <4>1, <2>2, <3>2 DEF Adds
    <3>3. n = m + 1 \/ n \in 1..m
      OBVIOUS
    <3> QED BY <3>1, <3>2, <3>3
  <2> HIDE DEF g
  <2>8. Adds(g, w, m + 1)
    BY <2>5, <2>6, <2>7 DEF Adds
  <2> QED BY <2>8
<1>3. len \in S
  <2> HIDE DEF S
  <2> QED BY <1>1, <1>2, Induction
<1> QED BY <1>3

(* Total is the last of the sums of the first rows. *)
LEMMA TotalIsSum ==
    ASSUME NEW t \in Seq(Refund), NEW ids
    PROVE  \E f : Sums(f, t, ids) /\ Total(t, ids) = f[Len(t)]
<1> DEFINE sum == CHOOSE f : f = [n \in 0..Len(t) |->
                    IF n = 0 THEN 0 ELSE f[n - 1] + (IF n \in ids THEN t[n].amt ELSE 0)]
           w == [n \in 1..Len(t) |-> Weight(t, ids, n)]
<1>1. Len(t) \in Nat
  OBVIOUS
<1>2. ASSUME NEW n \in 1..Len(t) PROVE Weight(t, ids, n) \in Nat
  <2>1. t[n] \in Refund
    OBVIOUS
  <2>2. t[n].amt \in Nat
    BY <2>1 DEF Refund
  <2> QED BY <2>2 DEF Weight
<1>3. w \in [1..Len(t) -> Nat]
  BY <1>2
<1>4. PICK f : Adds(f, w, Len(t))
  <2> HIDE DEF w
  <2> QED BY <1>1, <1>3, PrefixSums
<1>5. Sums(f, t, ids)
  BY <1>4 DEF Adds, Sums
<1>6. f = [n \in 0..Len(t) |->
             IF n = 0 THEN 0 ELSE f[n - 1] + (IF n \in ids THEN t[n].amt ELSE 0)]
  <2>1. \A n \in 0..Len(t) : f[n] = IF n = 0 THEN 0
                       ELSE f[n - 1] + (IF n \in ids THEN t[n].amt ELSE 0)
    BY <1>1, <1>5 DEF Sums, Weight
  <2>2. f \in [0..Len(t) -> Nat]
    BY <1>5 DEF Sums
  <2> QED BY <2>1, <2>2
<1>7. sum = [n \in 0..Len(t) |->
             IF n = 0 THEN 0 ELSE sum[n - 1] + (IF n \in ids THEN t[n].amt ELSE 0)]
  BY <1>6
<1>8. Total(t, ids) = sum[Len(t)]
  BY DEF Total
<1>9. ASSUME NEW g, g = [n \in 0..Len(t) |->
             IF n = 0 THEN 0 ELSE g[n - 1] + (IF n \in ids THEN t[n].amt ELSE 0)]
      PROVE  Sums(g, t, ids)
  <2>1. \A n \in 0..Len(t) : g[n] = f[n]
    <3> DEFINE S == {n \in Nat : n <= Len(t) => g[n] = f[n]}
    <3>1. 0 \in S
      BY <1>1, <1>5, <1>9 DEF Sums
    <3>2. ASSUME NEW n \in Nat, n \in S PROVE n + 1 \in S
      <4>1. SUFFICES ASSUME n + 1 <= Len(t) PROVE g[n + 1] = f[n + 1]
        <5>1. n + 1 \in Nat
          OBVIOUS
        <5> QED BY <5>1
      <4>2. n + 1 \in 1..Len(t) /\ n + 1 \in 0..Len(t) /\ n + 1 # 0 /\ (n + 1) - 1 = n
        BY <1>1, <4>1
      <4>3. g[n + 1] = g[n] + Weight(t, ids, n + 1)
        BY <1>9, <4>2 DEF Weight
      <4>4. f[n + 1] = f[n] + Weight(t, ids, n + 1)
        BY <1>5, <4>2 DEF Sums
      <4>5. g[n] = f[n]
        BY <1>1, <3>2, <4>1
      <4> QED BY <4>3, <4>4, <4>5
    <3>3. \A n \in Nat : n \in S
      <4> HIDE DEF S
      <4> QED BY <3>1, <3>2, Induction
    <3> QED BY <1>1, <3>3
  <2>2. g = f
    BY <1>5, <1>9, <2>1 DEF Sums
  <2> QED BY <1>5, <2>2
<1> HIDE DEF sum
<1> QED BY <1>7, <1>8, <1>9

LEMMA WeightType ==
    ASSUME NEW t \in Seq(Refund), NEW ids, NEW n \in 1..Len(t)
    PROVE  Weight(t, ids, n) \in Nat
<1>1. t[n] \in Refund
  OBVIOUS
<1>2. t[n].amt \in Nat
  BY <1>1 DEF Refund
<1> QED BY <1>2 DEF Weight

LEMMA TotalType ==
    ASSUME NEW t \in Seq(Refund), NEW ids
    PROVE  Total(t, ids) \in Nat
<1>1. PICK f : Sums(f, t, ids) /\ Total(t, ids) = f[Len(t)]
  BY TotalIsSum
<1>2. Len(t) \in 0..Len(t)
  OBVIOUS
<1> QED BY <1>1, <1>2 DEF Sums

(* A table whose rows add no less has no smaller total. *)
LEMMA TotalMonotone ==
    ASSUME NEW t \in Seq(Refund), NEW s \in Seq(Refund), NEW ids, NEW jds,
           Len(t) = Len(s),
           \A n \in 1..Len(t) : Weight(t, ids, n) <= Weight(s, jds, n)
    PROVE  Total(t, ids) <= Total(s, jds)
<1>1. PICK f : Sums(f, t, ids) /\ Total(t, ids) = f[Len(t)]
  BY TotalIsSum
<1>2. PICK g : Sums(g, s, jds) /\ Total(s, jds) = g[Len(s)]
  BY TotalIsSum
<1> DEFINE S == {n \in Nat : n <= Len(t) => f[n] <= g[n]}
<1>3. 0 \in S
  BY <1>1, <1>2 DEF Sums
<1>4. ASSUME NEW n \in Nat, n \in S PROVE n + 1 \in S
  <2>1. SUFFICES ASSUME n + 1 <= Len(t) PROVE f[n + 1] <= g[n + 1]
    <3>1. n + 1 \in Nat
      OBVIOUS
    <3> QED BY <3>1
  <2>2. n + 1 \in 1..Len(t) /\ n + 1 \in 1..Len(s) /\ (n + 1) - 1 = n /\ n \in 0..Len(t)
    BY <2>1
  <2>3. f[n + 1] = f[n] + Weight(t, ids, n + 1) /\ g[n + 1] = g[n] + Weight(s, jds, n + 1)
    BY <1>1, <1>2, <2>2 DEF Sums
  <2>4. f[n] \in Nat /\ g[n] \in Nat
    BY <1>1, <1>2, <2>2 DEF Sums
  <2>5. Weight(t, ids, n + 1) \in Nat /\ Weight(s, jds, n + 1) \in Nat
    BY <2>2, WeightType
  <2>6. f[n] <= g[n]
    BY <1>4, <2>1
  <2> QED BY <2>2, <2>3, <2>4, <2>5, <2>6
<1>5. Len(t) \in S
  <2> HIDE DEF S
  <2> QED BY <1>3, <1>4, Induction
<1> QED BY <1>1, <1>2, <1>5

(* When no row but r adds anything else, the totals differ by what r adds. *)
LEMMA TotalChange ==
    ASSUME NEW t \in Seq(Refund), NEW s \in Seq(Refund), NEW ids, NEW jds,
           Len(t) = Len(s), NEW r \in 1..Len(t),
           \A n \in 1..Len(t) : n # r => Weight(t, ids, n) = Weight(s, jds, n)
    PROVE  Total(s, jds) + Weight(t, ids, r) = Total(t, ids) + Weight(s, jds, r)
<1>1. PICK f : Sums(f, t, ids) /\ Total(t, ids) = f[Len(t)]
  BY TotalIsSum
<1>2. PICK g : Sums(g, s, jds) /\ Total(s, jds) = g[Len(s)]
  BY TotalIsSum
<1>3. PICK a \in Nat, b \in Nat : a = Weight(t, ids, r) /\ b = Weight(s, jds, r)
  BY WeightType
<1> DEFINE S == {n \in Nat : n <= Len(t) => IF n < r THEN g[n] = f[n] ELSE g[n] + a = f[n] + b}
<1>4. 0 \in S
  BY <1>1, <1>2 DEF Sums
<1>5. ASSUME NEW n \in Nat, n \in S PROVE n + 1 \in S
  <2>1. SUFFICES ASSUME n + 1 <= Len(t)
                 PROVE  IF n + 1 < r THEN g[n + 1] = f[n + 1] ELSE g[n + 1] + a = f[n + 1] + b
    <3>1. n + 1 \in Nat
      OBVIOUS
    <3> QED BY <3>1
  <2>2. n + 1 \in 1..Len(t) /\ n + 1 \in 1..Len(s) /\ (n + 1) - 1 = n /\ n \in 0..Len(t)
    BY <2>1
  <2>3. f[n + 1] = f[n] + Weight(t, ids, n + 1) /\ g[n + 1] = g[n] + Weight(s, jds, n + 1)
    BY <1>1, <1>2, <2>2 DEF Sums
  <2>4. f[n] \in Nat /\ g[n] \in Nat
    BY <1>1, <1>2, <2>2 DEF Sums
  <2>5. Weight(t, ids, n + 1) \in Nat /\ Weight(s, jds, n + 1) \in Nat
    BY <2>2, WeightType
  <2>6. IF n < r THEN g[n] = f[n] ELSE g[n] + a = f[n] + b
    BY <1>5, <2>1
  <2>7. CASE n + 1 = r
    BY <1>3, <2>3, <2>4, <2>6, <2>7
  <2>8. CASE n + 1 # r
    <3>1. Weight(t, ids, n + 1) = Weight(s, jds, n + 1)
      BY <2>2, <2>8
    <3>2. n + 1 < r <=> n < r
      BY <2>8
    <3>3. CASE n < r
      BY <2>3, <2>6, <3>1, <3>2, <3>3
    <3>4. CASE ~(n < r)
      <4>1. PICK x \in Nat, y \in Nat, v \in Nat :
              x = f[n] /\ y = g[n] /\ v = Weight(t, ids, n + 1)
        BY <2>4, <2>5
      <4>2. y + a = x + b
        BY <2>6, <3>4, <4>1
      <4>3. f[n + 1] = x + v /\ g[n + 1] = y + v
        BY <2>3, <3>1, <4>1
      <4>4. (y + v) + a = (x + v) + b
        BY <4>2
      <4> QED BY <3>2, <3>4, <4>3, <4>4
    <3> QED BY <3>3, <3>4
  <2> QED BY <2>7, <2>8
<1>6. Len(t) \in S
  <2> HIDE DEF S
  <2> QED BY <1>4, <1>5, Induction
<1> QED BY <1>1, <1>2, <1>3, <1>6

(* A row added at the end adds its own amount. *)
LEMMA TotalAppend ==
    ASSUME NEW t \in Seq(Refund), NEW x \in Refund, NEW ids, NEW jds,
           NEW s \in Seq(Refund), Len(s) = Len(t) + 1, s[Len(t) + 1] = x,
           \A n \in 1..Len(t) : s[n] = t[n],
           \A n \in 1..Len(t) : n \in ids <=> n \in jds
    PROVE  Total(s, jds) = Total(t, ids) + (IF Len(t) + 1 \in jds THEN x.amt ELSE 0)
<1>1. s \in Seq(Refund) /\ Len(s) = Len(t) + 1 /\ s[Len(t) + 1] = x
  OBVIOUS
<1>2. \A n \in 1..Len(t) : s[n] = t[n]
  OBVIOUS
<1>3. PICK f : Sums(f, t, ids) /\ Total(t, ids) = f[Len(t)]
  BY TotalIsSum
<1>4. PICK g : Sums(g, s, jds) /\ Total(s, jds) = g[Len(s)]
  BY <1>1, TotalIsSum
<1> DEFINE S == {n \in Nat : n <= Len(t) => f[n] = g[n]}
<1>5. 0 \in S
  BY <1>3, <1>4 DEF Sums
<1>6. ASSUME NEW n \in Nat, n \in S PROVE n + 1 \in S
  <2>1. SUFFICES ASSUME n + 1 <= Len(t) PROVE f[n + 1] = g[n + 1]
    <3>1. n + 1 \in Nat
      OBVIOUS
    <3> QED BY <3>1
  <2>2. n + 1 \in 1..Len(t) /\ n + 1 \in 1..Len(s) /\ (n + 1) - 1 = n /\ n \in 0..Len(t)
    BY <1>1, <2>1
  <2>3. f[n + 1] = f[n] + Weight(t, ids, n + 1) /\ g[n + 1] = g[n] + Weight(s, jds, n + 1)
    BY <1>3, <1>4, <2>2 DEF Sums
  <2>4. Weight(t, ids, n + 1) = Weight(s, jds, n + 1)
    BY <1>2, <2>2 DEF Weight
  <2> QED BY <1>6, <2>1, <2>3, <2>4
<1>7. Len(t) \in S
  <2> HIDE DEF S
  <2> QED BY <1>5, <1>6, Induction
<1>8. f[Len(t)] = g[Len(t)]
  BY <1>7
<1>9. g[Len(s)] = g[Len(t)] + Weight(s, jds, Len(t) + 1)
  <2>1. Len(t) + 1 \in 1..Len(s) /\ (Len(t) + 1) - 1 = Len(t)
    BY <1>1
  <2> QED BY <1>1, <1>4, <2>1 DEF Sums
<1>10. Weight(s, jds, Len(t) + 1) = IF Len(t) + 1 \in jds THEN x.amt ELSE 0
  BY <1>1 DEF Weight
<1> QED BY <1>3, <1>4, <1>8, <1>9, <1>10

(* Totals over sets with no row in common add up. *)
LEMMA TotalOfUnion ==
    ASSUME NEW t \in Seq(Refund), NEW ids, NEW jds, ids \cap jds = {}
    PROVE  Total(t, ids \cup jds) = Total(t, ids) + Total(t, jds)
<1>1. PICK f : Sums(f, t, ids) /\ Total(t, ids) = f[Len(t)]
  BY TotalIsSum
<1>2. PICK g : Sums(g, t, jds) /\ Total(t, jds) = g[Len(t)]
  BY TotalIsSum
<1>3. PICK k : Sums(k, t, ids \cup jds) /\ Total(t, ids \cup jds) = k[Len(t)]
  BY TotalIsSum
<1> DEFINE S == {n \in Nat : n <= Len(t) => k[n] = f[n] + g[n]}
<1>4. 0 \in S
  BY <1>1, <1>2, <1>3 DEF Sums
<1>5. ASSUME NEW n \in Nat, n \in S PROVE n + 1 \in S
  <2>1. SUFFICES ASSUME n + 1 <= Len(t) PROVE k[n + 1] = f[n + 1] + g[n + 1]
    <3>1. n + 1 \in Nat
      OBVIOUS
    <3> QED BY <3>1
  <2>2. n + 1 \in 1..Len(t) /\ (n + 1) - 1 = n /\ n \in 0..Len(t)
    BY <2>1
  <2>3. /\ f[n + 1] = f[n] + Weight(t, ids, n + 1)
        /\ g[n + 1] = g[n] + Weight(t, jds, n + 1)
        /\ k[n + 1] = k[n] + Weight(t, ids \cup jds, n + 1)
    BY <1>1, <1>2, <1>3, <2>2 DEF Sums
  <2>4. f[n] \in Nat /\ g[n] \in Nat /\ k[n] \in Nat
    BY <1>1, <1>2, <1>3, <2>2 DEF Sums
  <2>5. /\ Weight(t, ids, n + 1) \in Nat /\ Weight(t, jds, n + 1) \in Nat
        /\ Weight(t, ids \cup jds, n + 1) = Weight(t, ids, n + 1) + Weight(t, jds, n + 1)
    <3>1. t[n + 1].amt \in Nat
      <4>1. t[n + 1] \in Refund
        BY <2>2
      <4> QED BY <4>1 DEF Refund
    <3> QED BY <3>1 DEF Weight
  <2>6. k[n] = f[n] + g[n]
    BY <1>5, <2>1
  <2> QED BY <2>3, <2>4, <2>5, <2>6
<1>6. Len(t) \in S
  <2> HIDE DEF S
  <2> QED BY <1>4, <1>5, Induction
<1> QED BY <1>1, <1>2, <1>3, <1>6

\* What the rows for the parties S in one of the statuses add up to, and one row's part.
SumOf(t, S, statuses) == Total(t, Ids(t, S, statuses))
Part(x, S, statuses)  == IF x.by \in S /\ x.status \in statuses THEN x.amt ELSE 0

LEMMA PartIsWeight ==
    ASSUME NEW t \in Seq(Refund), NEW S, NEW statuses, NEW n \in 1..Len(t)
    PROVE  Weight(t, Ids(t, S, statuses), n) = Part(t[n], S, statuses)
<1>1. n \in DOMAIN t
  OBVIOUS
<1> QED BY <1>1 DEF Weight, Ids, Part

LEMMA SumType ==
    ASSUME NEW t \in Seq(Refund), NEW S, NEW statuses
    PROVE  SumOf(t, S, statuses) \in Nat
BY TotalType DEF SumOf

(* Replacing one row replaces its part. *)
LEMMA SumChange ==
    ASSUME NEW t \in Seq(Refund), NEW r \in 1..Len(t), NEW S, NEW statuses,
           NEW s \in Seq(Refund), Len(s) = Len(t),
           \A n \in 1..Len(t) : n # r => s[n] = t[n]
    PROVE  SumOf(s, S, statuses) + Part(t[r], S, statuses)
             = SumOf(t, S, statuses) + Part(s[r], S, statuses)
<1>1. Len(s) = Len(t) /\ \A n \in 1..Len(t) : n # r => s[n] = t[n]
  OBVIOUS
<1>2. ASSUME NEW n \in 1..Len(t), n # r
      PROVE  Weight(t, Ids(t, S, statuses), n) = Weight(s, Ids(s, S, statuses), n)
  <2>1. n \in 1..Len(s)
    BY <1>1
  <2> QED BY <1>1, <1>2, <2>1, PartIsWeight
<1>3. Total(s, Ids(s, S, statuses)) + Weight(t, Ids(t, S, statuses), r)
        = Total(t, Ids(t, S, statuses)) + Weight(s, Ids(s, S, statuses), r)
  BY <1>1, <1>2, TotalChange
<1>4. r \in 1..Len(s)
  BY <1>1
<1>5. Weight(t, Ids(t, S, statuses), r) = Part(t[r], S, statuses)
  BY PartIsWeight
<1>6. Weight(s, Ids(s, S, statuses), r) = Part(s[r], S, statuses)
  BY <1>4, PartIsWeight
<1> QED BY <1>3, <1>5, <1>6 DEF SumOf

(* A row added at the end adds its part. *)
LEMMA SumAppend ==
    ASSUME NEW t \in Seq(Refund), NEW x \in Refund, NEW S, NEW statuses,
           NEW s \in Seq(Refund), Len(s) = Len(t) + 1, s[Len(t) + 1] = x,
           \A n \in 1..Len(t) : s[n] = t[n]
    PROVE  SumOf(s, S, statuses) = SumOf(t, S, statuses) + Part(x, S, statuses)
<1>1. /\ s \in Seq(Refund) /\ Len(s) = Len(t) + 1 /\ s[Len(t) + 1] = x
      /\ \A n \in 1..Len(t) : s[n] = t[n] /\ n \in DOMAIN t /\ n \in DOMAIN s
      /\ Len(t) + 1 \in DOMAIN s
  OBVIOUS
<1>2. \A n \in 1..Len(t) : n \in Ids(t, S, statuses) <=> n \in Ids(s, S, statuses)
  BY <1>1 DEF Ids
<1>3. Total(s, Ids(s, S, statuses)) = Total(t, Ids(t, S, statuses))
        + (IF Len(t) + 1 \in Ids(s, S, statuses) THEN x.amt ELSE 0)
  BY <1>1, <1>2, TotalAppend
<1>4. (IF Len(t) + 1 \in Ids(s, S, statuses) THEN x.amt ELSE 0) = Part(x, S, statuses)
  BY <1>1 DEF Ids, Part
<1> QED BY <1>3, <1>4 DEF SumOf

(* Rows of more parties or statuses add up to no less. *)
LEMMA SumMonotone ==
    ASSUME NEW t \in Seq(Refund), NEW S, NEW T, NEW statuses, NEW others,
           S \subseteq T, statuses \subseteq others
    PROVE  SumOf(t, S, statuses) <= SumOf(t, T, others)
<1>1. ASSUME NEW n \in 1..Len(t)
      PROVE  Weight(t, Ids(t, S, statuses), n) <= Weight(t, Ids(t, T, others), n)
  <2>1. t[n] \in Refund
    OBVIOUS
  <2>2. t[n].amt \in Nat
    BY <2>1 DEF Refund
  <2>3. Part(t[n], S, statuses) <= Part(t[n], T, others)
    BY <2>2 DEF Part
  <2>4. /\ Weight(t, Ids(t, S, statuses), n) = Part(t[n], S, statuses)
        /\ Weight(t, Ids(t, T, others), n) = Part(t[n], T, others)
    BY PartIsWeight
  <2> QED BY <2>3, <2>4
<1> QED BY <1>1, TotalMonotone DEF SumOf

LEMMA SumOfParties ==
    ASSUME NEW t \in Seq(Refund), NEW S, NEW T, NEW statuses, S \cap T = {}
    PROVE  SumOf(t, S \cup T, statuses) = SumOf(t, S, statuses) + SumOf(t, T, statuses)
<1>1. /\ Ids(t, S \cup T, statuses) = Ids(t, S, statuses) \cup Ids(t, T, statuses)
      /\ Ids(t, S, statuses) \cap Ids(t, T, statuses) = {}
  BY DEF Ids
<1>2. Total(t, Ids(t, S, statuses) \cup Ids(t, T, statuses))
        = Total(t, Ids(t, S, statuses)) + Total(t, Ids(t, T, statuses))
  BY <1>1, TotalOfUnion
<1> QED BY <1>1, <1>2 DEF SumOf

-----------------------------------------------------------------------------
(* The greatest of a set of row numbers is one of them. *)
LEMMA MaxIsIn ==
    ASSUME NEW n \in Nat, NEW T \in SUBSET (1..n), T # {}
    PROVE  Max(T) \in T
<1> DEFINE HasMax(U) == \E x \in U : \A y \in U : x >= y
           S == {m \in Nat : \A U \in SUBSET (1..m) : U # {} => HasMax(U)}
<1>1. 0 \in S
  <2>1. 1..0 = {}
    OBVIOUS
  <2> QED BY <2>1
<1>2. ASSUME NEW m \in Nat, m \in S PROVE m + 1 \in S
  <2>1. SUFFICES ASSUME NEW U \in SUBSET (1..(m + 1)), U # {} PROVE HasMax(U)
    <3>1. m + 1 \in Nat
      OBVIOUS
    <3> QED BY <3>1
  <2>2. CASE m + 1 \in U
    <3>1. \A y \in U : m + 1 >= y
      OBVIOUS
    <3> QED BY <2>2, <3>1
  <2>3. CASE m + 1 \notin U
    <3>1. U \in SUBSET (1..m)
      BY <2>3
    <3> QED BY <1>2, <2>1, <3>1
  <2> QED BY <2>2, <2>3
<1>3. n \in S
  <2> HIDE DEF S
  <2> QED BY <1>1, <1>2, Induction
<1>4. HasMax(T)
  BY <1>3
<1> QED BY <1>4 DEF Max

-----------------------------------------------------------------------------
(* What is known of the rows of gateway refunds, and by the requests in progress *)

GatewayRow(r) == r \in DOMAIN refund /\ refund[r].by \in Payments
ManualRow(r)  == r \in DOMAIN refund /\ refund[r].by = "MANUAL"

\* No request is about to ask the gateway for r.
Unsent(r) == \A g \in Handlers : job[g].at = "SEND" => job[g].rf # r
Failed(r) == provider[r] = "REFUSED" \/ (provider[r] = "NONE" /\ Unsent(r))

\* The status s would be true of r.
True(r, s) == /\ s \in {"PENDING", "PROCESSING", "COMPLETED", "FAILED"}
              /\ s = "COMPLETED" => provider[r] = "MOVED"
              /\ s = "FAILED" => Failed(r)

Callers  == {"IDLE", "SHIPPING", "RETURN", "NOW", "LOOP"}
Asking   == {"SEND", "WAIT", "UNDO", "PAID_BACK"}
Settling == {"FINALIZE", "FINALIZE_COMMIT"}

\* What a request keeps of the rows it read.
JobTruth(j) ==
    /\ j.then \in Callers
    /\ j.at \in {"TX", "WRITE", "COMMIT"} => j.target \in RefundStatus \ {"PENDING"}
    /\ j.at \in {"WRITE", "COMMIT"} => j.rf = 0 \/ ManualRow(j.rf)
    /\ j.at \in {"REOPEN_WRITE", "REOPEN_COMMIT", "RESEND"} => ManualRow(j.rf)
    /\ j.at \in Asking => GatewayRow(j.rf) /\ refund[j.rf].by = j.p
    /\ j.at \in Settling => /\ GatewayRow(j.rf)
                            /\ j.target \in {"COMPLETED", "FAILED"}
                            /\ True(j.rf, j.target)
    /\ j.at = "SEND" => provider[j.rf] = "NONE"
    /\ j.at = "PAID_BACK" => provider[j.rf] = "MOVED"
    /\ \A r \in j.list : GatewayRow(r)
    /\ j.at \notin {"QUERY"} \cup Settling => j.list = {}

OrderTypes ==
    /\ orderStatus \in Phase
    /\ paymentStatus \in RefundedRow
    /\ refundStatus \in RefundStatus \cup {"NONE"}
    /\ amountRefunded \in Nat
    /\ row \in [Payments -> RefundedRow]
    /\ issue \in [Issues -> {"NONE", "PENDING", "APPROVED", "REJECTED", "RESOLVED"}]

RefundTypes ==
    /\ gateway \in [Payments -> {"MOMO", "ZALOPAY"}]
    /\ refund \in Seq(Refund)
    /\ completions \in Seq(DOMAIN refund)
    /\ provider \in [1..MaxRefunds -> {"NONE", "ASKED", "MOVED", "REFUSED"}]

Creators == {h \in Handlers : Creating(job[h])}

RowsTrue == \A r \in DOMAIN refund : GatewayRow(r) => True(r, refund[r].status)
AskedRow == \A r \in 1..MaxRefunds : provider[r] # "NONE" => GatewayRow(r)
RoomKept == Len(refund) + Cardinality(Creators) <= MaxRefunds
SentOnce == \A g, h \in Handlers : /\ g # h
                                   /\ job[g].at = "SEND" /\ job[h].at = "SEND"
                                   => job[g].rf # job[h].rf

TruthInv ==
    /\ OrderTypes /\ RefundTypes /\ errors \in 0..MaxErrors
    /\ RowsTrue /\ AskedRow /\ RoomKept /\ SentOnce
    /\ job \in [Handlers -> Job] /\ \A h \in Handlers : JobTruth(job[h])

LEMMA Constants ==
    /\ MaxRefunds \in Nat /\ MaxErrors \in Nat /\ Price \in Nat /\ Price > 0
    /\ ItemPrice \in Nat /\ ShippingFee \in Nat /\ ItemPrice > 0
    /\ "MANUAL" \notin Payments /\ IsFiniteSet(Handlers)
    /\ Administrators \cap Crons = {}
    /\ \A target \in Targets : target \in RefundStatus \ {"PENDING"}
<1>1. MaxRefunds \in Nat /\ MaxErrors \in Nat /\ Price \in Nat /\ Price > 0
      /\ ItemPrice \in Nat /\ ShippingFee \in Nat /\ ItemPrice > 0
  BY RefundsAssumption
<1>2. "MANUAL" \notin Payments /\ Administrators \cap Crons = {}
  BY RefundsAssumption DEF Payments
<1>3. IsFiniteSet(Handlers)
  BY RefundsAssumption, FS_Union DEF Handlers
<1>4. \A target \in Targets : target \in RefundStatus \ {"PENDING"}
  BY RefundsAssumption DEF RefundStatus
<1> QED BY <1>1, <1>2, <1>3, <1>4

-----------------------------------------------------------------------------
(* Requests *)

LEMMA NoJobTyped == NoJob \in Job
<1>1. Main \in Payments /\ NoIssue \in Issues \cup {NoIssue} /\ 0 \in 0..MaxRefunds
  BY Constants DEF Payments
<1> QED BY <1>1 DEF NoJob, Job, Stage, Kinds, RefundedRow

LEMMA NoJobTrue == JobTruth(NoJob) /\ NoJob.at = "IDLE" /\ NoJob.list = {}
BY DEF NoJob, JobTruth, Callers, Asking, Settling

LEMMA NoJobIdle == ~Creating(NoJob)
BY NoJobTrue DEF Creating

(* What must hold of the request that h goes on with, when no row is added. *)
Follows(h, k) ==
    /\ k \in Job /\ JobTruth(k) /\ k.at # "SEND"
    /\ Creating(k) => Creating(job[h]) \/ Room

LEMMA NoJobFollows == ASSUME NEW h PROVE Follows(h, NoJob)
BY NoJobTyped, NoJobTrue, NoJobIdle DEF Follows

\* A request between two calls.
Quiet == {"IDLE", "REVIEW", "REOPEN", "GOODS", "SHIPPING", "RETURN", "NOW", "LOOP",
          "ROLLBACK", "QUERY"}

LEMMA QuietFollows ==
    ASSUME NEW h, NEW k \in Job, k.at \in Quiet, k.then \in Callers,
           \A r \in k.list : GatewayRow(r), k.at = "QUERY" \/ k.list = {}
    PROVE  Follows(h, k)
BY DEF Follows, Quiet, JobTruth, Creating, Asking, Settling

Resumed(j, at) == [NoJob EXCEPT !.at = at, !.issue = j.issue, !.now = j.now, !.left = j.left]

LEMMA ResumedTyped ==
    ASSUME NEW j \in Job, NEW at \in Stage
    PROVE  /\ Resumed(j, at) \in Job /\ Resumed(j, at).at = at
           /\ Resumed(j, at).then = "IDLE" /\ Resumed(j, at).list = {}
           /\ Resumed(j, at).issue = j.issue
<1>1. j.issue \in Issues \cup {NoIssue} /\ j.now \in BOOLEAN /\ j.left \in SUBSET Kinds
  BY DEF Job
<1>2. Resumed(j, at) \in Job
  BY <1>1, NoJobTyped DEF Resumed, Job
<1>3. NoJob.then = "IDLE" /\ NoJob.list = {}
  BY DEF NoJob
<1> QED BY <1>2, <1>3, NoJobTyped DEF Resumed, Job

Undone(j) == [NoJob EXCEPT !.at = "ROLLBACK", !.issue = j.issue]

LEMMA UndoneTyped ==
    ASSUME NEW j \in Job
    PROVE  /\ Undone(j) \in Job /\ Undone(j).at = "ROLLBACK"
           /\ Undone(j).then = "IDLE" /\ Undone(j).list = {}
<1>1. j.issue \in Issues \cup {NoIssue} /\ "ROLLBACK" \in Stage
  BY DEF Job, Stage
<1>2. Undone(j) \in Job
  BY <1>1, NoJobTyped DEF Undone, Job
<1>3. NoJob.then = "IDLE" /\ NoJob.list = {}
  BY DEF NoJob
<1> QED BY <1>2, <1>3, NoJobTyped DEF Undone, Job

\* The request is not in a transaction, and holds no row.
AtRest(k) == k \in Job /\ k.at \in Quiet /\ k.then \in Callers /\ k.list = {}

LEMMA NoJobAtRest == AtRest(NoJob)
BY NoJobTyped DEF AtRest, NoJob, Quiet, Callers

LEMMA ReturnedAtRest ==
    ASSUME NEW j \in Job, j.then \in Callers
    PROVE  AtRest(Returned(j))
<1>1. CASE j.then = "IDLE"
  BY <1>1, NoJobAtRest DEF Returned
<1>2. CASE j.then # "IDLE"
  <2>1. j.then \in Stage /\ j.then \in Quiet
    BY DEF Callers, Stage, Quiet
  <2>2. Returned(j) = Resumed(j, j.then)
    BY <1>2 DEF Returned, Resumed
  <2> QED BY <2>1, <2>2, ResumedTyped DEF AtRest, Callers
<1> QED BY <1>1, <1>2

LEMMA ThrownAtRest ==
    ASSUME NEW j \in Job
    PROVE  AtRest(Thrown(j))
<1>1. CASE j.then \in {"SHIPPING", "RETURN", "NOW"}
  <2>1. Thrown(j) = Undone(j)
    BY <1>1 DEF Thrown, Undone
  <2> QED BY <2>1, UndoneTyped DEF AtRest, Quiet, Callers
<1>2. CASE j.then \notin {"SHIPPING", "RETURN", "NOW"}
  BY <1>2, NoJobAtRest DEF Thrown
<1> QED BY <1>1, <1>2

LEMMA AtRestFollows ==
    ASSUME NEW h, NEW k, AtRest(k)
    PROVE  Follows(h, k)
BY QuietFollows DEF AtRest

-----------------------------------------------------------------------------
(* Steps that add no row *)

LEMMA CreatorsFinite ==
    /\ IsFiniteSet(Creators) /\ Cardinality(Creators) \in Nat
    /\ (IsFiniteSet(Creators) /\ Cardinality(Creators) \in Nat)'
<1>1. IsFiniteSet(Handlers)
  BY Constants
<1>2. Creators \subseteq Handlers /\ Creators' \subseteq Handlers
  BY DEF Creators
<1>3. IsFiniteSet(Creators) /\ IsFiniteSet(Creators')
  BY <1>1, <1>2, FS_Subset
<1> QED BY <1>3, FS_CardinalityType

(* Only h enters or leaves the requests that are about to add a row. *)
LEMMA CreatorsChange ==
    ASSUME NEW h \in Handlers, NEW k, job \in [Handlers -> Job], Set(h, k)
    PROVE  /\ Cardinality(Creators') <= Cardinality(Creators) + 1
           /\ Creating(job[h]) \/ ~Creating(k) => Cardinality(Creators') <= Cardinality(Creators)
           /\ Creating(job[h]) /\ ~Creating(k) => Cardinality(Creators') + 1 <= Cardinality(Creators)
<1>1. /\ job'[h] = k
      /\ \A g \in Handlers : g # h => job'[g] = job[g]
  BY DEF Set
<1>2. \A g \in Handlers : /\ g \in Creators <=> Creating(job[g])
                          /\ g \in Creators' <=> Creating(job'[g])
  BY DEF Creators
<1>3. Creators \subseteq Handlers /\ Creators' \subseteq Handlers
  BY DEF Creators
<1>4. IsFiniteSet(Creators) /\ Cardinality(Creators) \in Nat /\ Cardinality(Creators') \in Nat
  BY CreatorsFinite
<1>5. Creators' \subseteq Creators \cup {h}
  BY <1>1, <1>2, <1>3
<1>6. /\ IsFiniteSet(Creators \cup {h})
      /\ Cardinality(Creators \cup {h}) <= Cardinality(Creators) + 1
      /\ Cardinality(Creators \cup {h}) \in Nat
  <2>1. IsFiniteSet(Creators \cup {h})
    BY <1>4, FS_AddElement
  <2>2. Cardinality(Creators \cup {h}) =
          IF h \in Creators THEN Cardinality(Creators) ELSE Cardinality(Creators) + 1
    BY <1>4, FS_AddElement
  <2> QED BY <1>4, <2>1, <2>2, FS_CardinalityType
<1>7. Cardinality(Creators') <= Cardinality(Creators \cup {h})
  BY <1>5, <1>6, FS_Subset
<1>8. Cardinality(Creators') <= Cardinality(Creators) + 1
  BY <1>4, <1>6, <1>7
<1>9. ASSUME Creating(job[h]) \/ ~Creating(k)
      PROVE  Cardinality(Creators') <= Cardinality(Creators)
  <2>1. Creators' \subseteq Creators
    BY <1>1, <1>2, <1>3, <1>9
  <2> QED BY <1>4, <2>1, FS_Subset
<1>10. ASSUME Creating(job[h]), ~Creating(k)
       PROVE  Cardinality(Creators') + 1 <= Cardinality(Creators)
  <2>1. Creators' \subseteq Creators \ {h} /\ h \in Creators
    BY <1>1, <1>2, <1>3, <1>10
  <2>2. /\ IsFiniteSet(Creators \ {h})
        /\ Cardinality(Creators \ {h}) = Cardinality(Creators) - 1
    BY <1>4, <2>1, FS_RemoveElement
  <2>3. Cardinality(Creators') <= Cardinality(Creators \ {h})
    BY <2>1, <2>2, FS_Subset
  <2> QED BY <1>4, <2>2, <2>3
<1> QED BY <1>8, <1>9, <1>10

(* A status that is true of a row stays true while the gateway does nothing and nobody
   starts to ask it of that row. *)
LEMMA StaysTrue ==
    ASSUME NEW h \in Handlers, NEW k, k.at = "SEND" => k.rf \notin DOMAIN refund,
           job \in [Handlers -> Job], Set(h, k), provider' = provider,
           NEW r \in DOMAIN refund, NEW s, True(r, s)
    PROVE  True(r, s)'
<1>1. /\ job'[h] = k
      /\ \A g \in Handlers : g # h => job'[g] = job[g]
  BY DEF Set
<1>2. Unsent(r) => Unsent(r)'
  BY <1>1 DEF Unsent
<1> QED BY <1>2 DEF True, Failed

(* What a request knows stays true while no row disappears or changes party. *)
LEMMA StaysKnown ==
    ASSUME NEW h \in Handlers, NEW k, k.at = "SEND" => k.rf \notin DOMAIN refund,
           job \in [Handlers -> Job], Set(h, k), provider' = provider,
           NEW j, JobTruth(j),
           \A r \in DOMAIN refund : r \in DOMAIN refund' /\ refund'[r].by = refund[r].by
    PROVE  JobTruth(j)'
<1>1. ASSUME NEW r PROVE /\ GatewayRow(r) => GatewayRow(r)' /\ refund'[r].by = refund[r].by
                         /\ ManualRow(r) => ManualRow(r)'
  BY DEF GatewayRow, ManualRow
<1>2. ASSUME NEW s, GatewayRow(j.rf), True(j.rf, s) PROVE True(j.rf, s)'
  <2>1. j.rf \in DOMAIN refund
    BY <1>2 DEF GatewayRow
  <2> QED BY <1>2, <2>1, StaysTrue
<1> QED BY <1>1, <1>2 DEF JobTruth

(* The invariant is kept by a step of h that changes no row but the status of manual
   ones, and of gateway ones to what is true. *)
LEMMA RowsKept ==
    ASSUME TruthInv, NEW h \in Handlers, NEW k, Follows(h, k), Set(h, k), OrderTypes',
           UNCHANGED <<provider, gateway>>, errors' \in 0..MaxErrors,
           refund' \in Seq(Refund), Len(refund') = Len(refund),
           completions' \in Seq(DOMAIN refund),
           \A r \in DOMAIN refund :
             /\ refund'[r].by = refund[r].by
             /\ \/ refund'[r].status = refund[r].status
                \/ ManualRow(r)
                \/ True(r, refund'[r].status)
    PROVE  TruthInv'
<1>1. job \in [Handlers -> Job] /\ k \in Job /\ k.at # "SEND"
  BY DEF TruthInv, Follows
<1>2. job' \in [Handlers -> Job] /\ job'[h] = k /\ \A g \in Handlers : g # h => job'[g] = job[g]
  BY <1>1 DEF Set
<1>3. refund \in Seq(Refund)
  BY DEF TruthInv, RefundTypes
<1>4. DOMAIN refund' = DOMAIN refund
  BY <1>3
<1>5. RefundTypes'
  BY <1>4 DEF TruthInv, RefundTypes
<1>6. \A r : GatewayRow(r)' <=> GatewayRow(r)
  BY <1>4 DEF GatewayRow
<1>7. RowsTrue'
  <2>1. ASSUME NEW r \in DOMAIN refund, GatewayRow(r)
        PROVE  True(r, refund[r].status)'
    <3>1. ~ManualRow(r)
      BY <2>1, Constants DEF GatewayRow, ManualRow
    <3>2. True(r, refund[r].status)
      BY <2>1 DEF TruthInv, RowsTrue
    <3>3. True(r, refund'[r].status)
      BY <3>1, <3>2
    <3>4. ASSUME NEW s, True(r, s) PROVE True(r, s)'
      BY <1>1, <3>4, StaysTrue
    <3> QED BY <3>3, <3>4
  <2> QED BY <1>4, <1>6, <2>1 DEF RowsTrue
<1>8. AskedRow'
  BY <1>6 DEF TruthInv, AskedRow
<1>9. RoomKept'
  <2>1. Room => Len(refund) + Cardinality(Creators) < MaxRefunds
    BY DEF Room, Creators
  <2>2. Len(refund) \in Nat /\ Cardinality(Creators) \in Nat /\ Cardinality(Creators') \in Nat
    BY <1>3, CreatorsFinite
  <2>3. Len(refund) + Cardinality(Creators) <= MaxRefunds
    BY DEF TruthInv, RoomKept
  <2>4. Len(refund) + Cardinality(Creators') <= MaxRefunds
    <3>1. CASE Creating(job[h]) \/ ~Creating(k)
      <4>1. Cardinality(Creators') <= Cardinality(Creators)
        BY <1>1, <3>1, CreatorsChange
      <4> QED BY <2>2, <2>3, <4>1, Constants
    <3>2. CASE ~(Creating(job[h]) \/ ~Creating(k))
      <4>1. Room
        BY <3>2 DEF Follows
      <4>2. Cardinality(Creators') <= Cardinality(Creators) + 1
        BY <1>1, CreatorsChange
      <4> QED BY <2>1, <2>2, <4>1, <4>2, Constants
    <3> QED BY <3>1, <3>2
  <2> QED BY <2>4 DEF RoomKept
<1>10. SentOnce'
  BY <1>1, <1>2 DEF TruthInv, SentOnce
<1>11. ASSUME NEW g \in Handlers PROVE JobTruth(job[g])'
  <2>1. JobTruth(job'[g])
    BY <1>2 DEF TruthInv, Follows
  <2>2. ASSUME NEW j, JobTruth(j) PROVE JobTruth(j)'
    BY <1>1, <1>4, <2>2, StaysKnown
  <2> QED BY <2>1, <2>2
<1> QED BY <1>2, <1>5, <1>7, <1>8, <1>9, <1>10, <1>11 DEF TruthInv

(* A step of h that touches no table. *)
LEMMA LocalStep ==
    ASSUME TruthInv, NEW h \in Handlers, NEW k, Follows(h, k), Set(h, k),
           UNCHANGED <<tables, provider>>, errors' \in 0..MaxErrors
    PROVE  TruthInv'
<1>1. UNCHANGED <<orderStatus, paymentStatus, refundStatus, amountRefunded, gateway, row,
                  refund, completions, issue, provider>>
  BY DEF tables, orderVars
<1>2. OrderTypes'
  BY <1>1 DEF TruthInv, OrderTypes
<1>3. refund \in Seq(Refund) /\ completions \in Seq(DOMAIN refund)
  BY DEF TruthInv, RefundTypes
<1> QED BY <1>1, <1>2, <1>3, RowsKept

(* A step of h that touches neither the refunds nor the payments' providers. *)
LEMMA OrderStep ==
    ASSUME TruthInv, NEW h \in Handlers, NEW k, Follows(h, k), Set(h, k), OrderTypes',
           UNCHANGED <<gateway, refund, completions, provider, errors>>
    PROVE  TruthInv'
<1>1. refund \in Seq(Refund) /\ completions \in Seq(DOMAIN refund) /\ errors \in 0..MaxErrors
  BY DEF TruthInv, RefundTypes
<1> QED BY <1>1, RowsKept

LEMMA JobKnown ==
    ASSUME TruthInv, NEW h \in Handlers
    PROVE  job[h] \in Job /\ JobTruth(job[h])
BY DEF TruthInv

LEMMA RefundsTyped ==
    ASSUME TruthInv
    PROVE  /\ refund \in Seq(Refund) /\ Len(refund) \in Nat /\ DOMAIN refund = 1..Len(refund)
           /\ Len(refund) <= MaxRefunds /\ DOMAIN refund \subseteq 1..MaxRefunds
           /\ \A r \in DOMAIN refund : /\ refund[r] \in Refund
                                       /\ refund[r].amt \in Nat /\ refund[r].kind \in Kinds
                                       /\ refund[r].by \in Payments \cup {"MANUAL"}
                                       /\ refund[r].status \in RefundStatus
<1>1. refund \in Seq(Refund)
  BY DEF TruthInv, RefundTypes
<1>2. Len(refund) \in Nat /\ DOMAIN refund = 1..Len(refund)
  BY <1>1
<1>3. Len(refund) <= MaxRefunds
  BY <1>2, CreatorsFinite, Constants DEF TruthInv, RoomKept
<1>4. DOMAIN refund \subseteq 1..MaxRefunds
  BY <1>2, <1>3, Constants
<1>5. \A r \in DOMAIN refund : refund[r] \in Refund
  BY <1>1, <1>2
<1>6. \A x \in Refund : /\ x.amt \in Nat /\ x.kind \in Kinds
                        /\ x.by \in Payments \cup {"MANUAL"} /\ x.status \in RefundStatus
  BY DEF Refund
<1> QED BY <1>1, <1>2, <1>3, <1>4, <1>5, <1>6

-----------------------------------------------------------------------------
(* updateRefund *)

Calling(j, then, target, kind, requested, read, sum) ==
    [j EXCEPT !.at = "TX", !.then = then, !.target = target, !.kind = kind,
              !.amt = requested, !.read = read, !.byGateway = sum]

LEMMA CallingTyped ==
    ASSUME NEW j \in Job, NEW then \in Stage, NEW target \in RefundStatus, NEW kind \in Kinds,
           NEW requested \in Nat, NEW read \in RefundedRow, NEW sum \in Nat
    PROVE  Calling(j, then, target, kind, requested, read, sum) \in Job
<1>1. "TX" \in Stage
  BY DEF Stage
<1> QED BY <1>1 DEF Calling, Job

LEMMA CallingHolds ==
    ASSUME NEW j \in Job, NEW then, NEW target, NEW kind, NEW requested, NEW read, NEW sum,
           NEW k, k = Calling(j, then, target, kind, requested, read, sum)
    PROVE  /\ k.at = "TX" /\ k.then = then /\ k.target = target /\ k.read = read
           /\ k.byGateway = sum /\ k.list = j.list /\ k.kind = kind /\ k.amt = requested
BY DEF Calling, Job

\* What StartRefund leaves behind: the call was refused, or it is in its transaction.
Called(h, then, target) ==
    \E k \in Job :
      /\ Set(h, k)
      /\ \/ AtRest(k)
         \/ /\ k.at = "TX" /\ k.then = then /\ k.target = target /\ k.read = paymentStatus
            /\ k.byGateway = Completed(refund, {Main}) /\ k.list = {}
            /\ target \in {"COMPLETED", "PROCESSING"} => AtGateway = {}

LEMMA CompletedType ==
    ASSUME NEW t \in Seq(Refund), NEW S
    PROVE  Completed(t, S) \in Nat
BY TotalType DEF Completed

LEMMA StartRefundCalls ==
    ASSUME TruthInv, NEW h \in Handlers, NEW j \in Job, NEW target \in RefundStatus,
           NEW kind \in Kinds, NEW requested \in Nat, NEW then \in Callers, j.list = {},
           StartRefund(h, j, target, kind, requested, then)
    PROVE  Called(h, then, target)
<1> DEFINE k == Calling(j, then, target, kind, requested, paymentStatus,
                        Completed(refund, {Main}))
<1>1. then \in Stage /\ paymentStatus \in RefundedRow /\ Completed(refund, {Main}) \in Nat
  BY CompletedType, RefundsTyped DEF Callers, Stage, TruthInv, OrderTypes
<1>2. k \in Job
  BY <1>1, CallingTyped
<1>3. /\ k.at = "TX" /\ k.then = then /\ k.target = target /\ k.read = paymentStatus
      /\ k.byGateway = Completed(refund, {Main}) /\ k.list = {}
  BY CallingHolds
<1>4. \/ Set(h, Thrown(k))
      \/ Set(h, k) /\ (target \in {"COMPLETED", "PROCESSING"} => AtGateway = {})
  BY DEF StartRefund, Calling
<1> HIDE DEF k
<1>5. CASE Set(h, Thrown(k))
  <2>1. AtRest(Thrown(k))
    BY <1>1, <1>2, <1>3, ThrownAtRest
  <2> QED BY <1>5, <2>1 DEF Called, AtRest
<1>6. CASE Set(h, k) /\ (target \in {"COMPLETED", "PROCESSING"} => AtGateway = {})
  BY <1>2, <1>3, <1>6 DEF Called
<1> QED BY <1>4, <1>5, <1>6

LEMMA CalledKeepsTruth ==
    ASSUME TruthInv, NEW h \in Handlers, NEW then \in Callers, NEW target,
           target \in RefundStatus \ {"PENDING"}, Called(h, then, target),
           UNCHANGED <<tables, provider, errors>>
    PROVE  TruthInv'
<1>1. PICK k \in Job : /\ Set(h, k)
                       /\ \/ AtRest(k)
                          \/ /\ k.at = "TX" /\ k.then = then /\ k.target = target
                             /\ k.list = {}
  BY DEF Called
<1>2. Follows(h, k)
  <2>1. CASE AtRest(k)
    BY <2>1, AtRestFollows
  <2>2. CASE k.at = "TX" /\ k.then = then /\ k.target = target /\ k.list = {}
    <3>1. JobTruth(k)
      BY <2>2 DEF JobTruth, Asking, Settling
    <3>2. ~Creating(k)
      BY <2>2 DEF Creating
    <3> QED BY <2>2, <3>1, <3>2 DEF Follows
  <2> QED BY <1>1, <2>1, <2>2
<1>3. errors' \in 0..MaxErrors
  BY DEF TruthInv
<1> QED BY <1>1, <1>2, <1>3, LocalStep

LEMMA UpdateRefundKeepsTruth ==
    ASSUME TruthInv, NEW h \in Handlers, UpdateRefund(h)
    PROVE  TruthInv'
<1>1. job[h].at = "IDLE" /\ UNCHANGED <<tables, provider, errors>>
  BY DEF UpdateRefund
<1>2. PICK target \in Targets, kind \in Kinds, requested \in 0..Price :
        StartRefund(h, job[h], target, kind, requested, "IDLE")
  BY DEF UpdateRefund
<1>3. job[h] \in Job /\ job[h].list = {}
  BY <1>1, JobKnown DEF JobTruth, Settling
<1>4. requested \in Nat /\ target \in RefundStatus \ {"PENDING"} /\ "IDLE" \in Callers
  BY Constants DEF Callers
<1>5. Called(h, "IDLE", target)
  BY <1>2, <1>3, <1>4, StartRefundCalls
<1> QED BY <1>1, <1>4, <1>5, CalledKeepsTruth

LEMMA MinIsOne == ASSUME NEW a \in Nat, NEW b \in Nat PROVE Min({a, b}) \in {a, b}
<1>1. \E x \in {a, b} : \A y \in {a, b} : x <= y
  <2>1. CASE a <= b
    BY <2>1
  <2>2. CASE ~(a <= b)
    BY <2>2
  <2> QED BY <2>1, <2>2
<1> QED BY <1>1 DEF Min

LEMMA AmountType ==
    ASSUME NEW requested \in Nat, NEW approved \in Nat, NEW remaining \in Nat
    PROVE  resolveManualRefundAmount(requested, approved, remaining) \in Nat
BY MinIsOne DEF resolveManualRefundAmount

Chosen(j, rf, amt) == [j EXCEPT !.at = "WRITE", !.rf = rf, !.amt = amt]

LEMMA ChosenTyped ==
    ASSUME NEW j \in Job, NEW rf \in 0..MaxRefunds, NEW amt \in Nat
    PROVE  Chosen(j, rf, amt) \in Job
<1>1. "WRITE" \in Stage
  BY DEF Stage
<1> QED BY <1>1 DEF Chosen, Job

LEMMA ChosenHolds ==
    ASSUME NEW j \in Job, NEW rf, NEW amt, NEW k, k = Chosen(j, rf, amt)
    PROVE  /\ k.at = "WRITE" /\ k.rf = rf /\ k.amt = amt /\ k.then = j.then
           /\ k.target = j.target /\ k.list = j.list /\ k.read = j.read
           /\ k.byGateway = j.byGateway /\ k.kind = j.kind
BY DEF Chosen, Job

\* The open row of this kind that the transaction of j works on, if there is one.
OpenOfKind(j) == {r \in OpenManual(refund) : refund[r].kind = j.kind}
RowOf(j) == IF OpenOfKind(j) = {} THEN 0 ELSE Max(OpenOfKind(j))

LEMMA RowOfType ==
    ASSUME TruthInv, NEW j
    PROVE  /\ RowOf(j) \in 0..MaxRefunds
           /\ RowOf(j) # 0 => RowOf(j) \in OpenManual(refund) /\ ManualRow(RowOf(j))
           /\ (IF RowOf(j) = 0 THEN 0 ELSE refund[RowOf(j)].amt) \in Nat
<1>1. /\ Len(refund) \in Nat /\ DOMAIN refund = 1..Len(refund)
      /\ DOMAIN refund \subseteq 1..MaxRefunds
      /\ \A r \in DOMAIN refund : refund[r].amt \in Nat
  BY RefundsTyped
<1>2. CASE OpenOfKind(j) = {}
  BY <1>2, Constants DEF RowOf
<1>3. CASE OpenOfKind(j) # {}
  <2>1. /\ OpenOfKind(j) \in SUBSET (1..Len(refund)) /\ OpenOfKind(j) \subseteq OpenManual(refund)
        /\ \A r \in OpenManual(refund) : ManualRow(r)
    BY <1>1 DEF OpenOfKind, OpenManual, Ids, Manual, ManualRow
  <2>2. RowOf(j) \in OpenOfKind(j)
    BY <1>1, <1>3, <2>1, MaxIsIn DEF RowOf
  <2>3. RowOf(j) \in DOMAIN refund /\ RowOf(j) \in 1..MaxRefunds
    BY <1>1, <2>1, <2>2
  <2> QED BY <1>1, <2>1, <2>2, <2>3, Constants
<1> QED BY <1>2, <1>3

\* What is left to pay back of the order's price, as the transaction of j sees it.
RestOf(j) == LET done == Completed(refund, Manual) + j.byGateway
             IN  IF done < Price THEN Price - done ELSE 0
AmountOf(j) == resolveManualRefundAmount(
                   j.amt, IF RowOf(j) = 0 THEN 0 ELSE refund[RowOf(j)].amt, RestOf(j))

LEMMA AmountOfType ==
    ASSUME TruthInv, NEW j \in Job
    PROVE  RestOf(j) \in Nat /\ AmountOf(j) \in Nat
<1>1. Completed(refund, Manual) \in Nat /\ j.byGateway \in Nat /\ j.amt \in Nat
  BY CompletedType, RefundsTyped DEF Job
<1>2. RestOf(j) \in Nat
  BY <1>1, Constants DEF RestOf
<1> QED BY <1>1, <1>2, RowOfType, AmountType DEF AmountOf

(* The transaction goes on with a row it may write, or the call threw. *)
LEMMA ReadRefundsEffect ==
    ASSUME TruthInv, NEW h \in Handlers, ReadRefunds(h)
    PROVE  LET j == job[h] IN
           /\ j.at = "TX" /\ UNCHANGED <<tables, provider, errors>>
           /\ \/ Set(h, Thrown(j))
              \/ /\ Set(h, Chosen(j, RowOf(j), IF Pays(j.target) THEN AmountOf(j) ELSE 0))
                 /\ RowOf(j) = 0 /\ Pays(j.target) => Room
                 /\ Pays(j.target) => AmountOf(j) # 0
                 /\ j.target = "COMPLETED" => ~(AmountOf(j) > RestOf(j))
BY DEF ReadRefunds, RowOf, OpenOfKind, AmountOf, RestOf, Chosen

LEMMA ReadRefundsKeepsTruth ==
    ASSUME TruthInv, NEW h \in Handlers, ReadRefunds(h)
    PROVE  TruthInv'
<1> DEFINE j == job[h]
           amt == IF Pays(j.target) THEN AmountOf(j) ELSE 0
           k == Chosen(j, RowOf(j), amt)
<1>1. /\ j.at = "TX" /\ UNCHANGED <<tables, provider, errors>>
      /\ \/ Set(h, Thrown(j))
         \/ Set(h, k) /\ (RowOf(j) = 0 /\ Pays(j.target) => Room)
  BY ReadRefundsEffect
<1>2. j \in Job /\ JobTruth(j)
  BY JobKnown
<1>3. errors' \in 0..MaxErrors
  BY <1>1 DEF TruthInv
<1>4. amt \in Nat /\ RowOf(j) \in 0..MaxRefunds /\ (RowOf(j) # 0 => ManualRow(RowOf(j)))
  BY <1>2, AmountOfType, RowOfType
<1>5. /\ k \in Job /\ k.at = "WRITE" /\ k.rf = RowOf(j) /\ k.then = j.then
      /\ k.target = j.target /\ k.list = j.list
  BY <1>2, <1>4, ChosenTyped, ChosenHolds
<1> HIDE DEF k, amt, j
<1>6. CASE Set(h, Thrown(j))
  <2>1. Follows(h, Thrown(j))
    BY <1>2, ThrownAtRest, AtRestFollows
  <2> QED BY <1>1, <1>3, <1>6, <2>1, LocalStep
<1>7. CASE Set(h, k) /\ (RowOf(j) = 0 /\ Pays(j.target) => Room)
  <2>1. JobTruth(k)
    BY <1>1, <1>2, <1>4, <1>5 DEF JobTruth, Asking, Settling
  <2>2. Creating(k) => Room
    BY <1>5, <1>7 DEF Creating
  <2>3. Follows(h, k)
    BY <1>5, <2>1, <2>2 DEF Follows
  <2> QED BY <1>1, <1>3, <1>7, <2>3, LocalStep
<1> QED BY <1>1, <1>6, <1>7

(* The invariant is kept by a step of h that adds a row it had room for: one of a refund
   by hand, or one of a refund that it is about to ask the gateway for. *)
LEMMA RowAdded ==
    ASSUME TruthInv, NEW h \in Handlers, NEW k \in Job, Set(h, k), NEW x \in Refund,
           Creating(job[h]), ~Creating(k), OrderTypes',
           UNCHANGED <<provider, gateway, errors>>,
           refund' = Append(refund, x), completions' \in Seq(1..(Len(refund) + 1)),
           \/ x.by = "MANUAL" /\ k.at # "SEND" /\ JobTruth(k)
           \/ /\ x.by \in Payments /\ x.status = "PENDING"
              /\ k.at = "SEND" /\ k.rf = Len(refund) + 1 /\ k.p = x.by
              /\ k.then \in Callers /\ k.list = {}
    PROVE  TruthInv'
<1> DEFINE new == Len(refund) + 1
<1>1. job \in [Handlers -> Job] /\ refund \in Seq(Refund)
  BY DEF TruthInv, RefundTypes
<1>2. job' \in [Handlers -> Job] /\ job'[h] = k /\ \A g \in Handlers : g # h => job'[g] = job[g]
  BY <1>1 DEF Set
<1>3. Len(refund) \in Nat /\ DOMAIN refund = 1..Len(refund)
  BY <1>1
<1>4. /\ refund' \in Seq(Refund) /\ Len(refund') = new /\ DOMAIN refund' = 1..new
      /\ refund'[new] = x /\ \A r \in DOMAIN refund : r \in 1..new /\ refund'[r] = refund[r]
      /\ new \notin DOMAIN refund
  BY <1>1, <1>3
<1>5. RoomKept' /\ Len(refund) + 1 <= MaxRefunds
  <2>1. Cardinality(Creators') + 1 <= Cardinality(Creators)
    BY <1>1, CreatorsChange
  <2>2. Cardinality(Creators) \in Nat /\ Cardinality(Creators') \in Nat
    BY CreatorsFinite
  <2>3. Len(refund) + Cardinality(Creators) <= MaxRefunds
    BY DEF TruthInv, RoomKept
  <2>4. (Len(refund) + 1) + Cardinality(Creators') <= MaxRefunds /\ Len(refund) + 1 <= MaxRefunds
    BY <1>3, <2>1, <2>2, <2>3, Constants
  <2> QED BY <1>4, <2>4 DEF RoomKept
<1>6. provider[new] = "NONE"
  <2>1. new \in 1..MaxRefunds
    BY <1>3, <1>5, Constants
  <2> QED BY <1>4, <2>1 DEF TruthInv, AskedRow, GatewayRow
<1>7. k.at = "SEND" => k.rf \notin DOMAIN refund
  BY <1>4
<1> HIDE DEF new
<1>8. RefundTypes'
  BY <1>4 DEF TruthInv, RefundTypes, new
<1>9. ASSUME NEW r PROVE /\ GatewayRow(r) => GatewayRow(r)'
                         /\ GatewayRow(r)' => GatewayRow(r) \/ (r = new /\ x.by \in Payments)
  <2>1. r \in 1..new => r = new \/ r \in DOMAIN refund
    BY <1>3 DEF new
  <2> QED BY <1>4, <2>1 DEF GatewayRow
<1>10. RowsTrue'
  <2>1. ASSUME NEW r \in DOMAIN refund', GatewayRow(r)'
        PROVE  True(r, refund[r].status)'
    <3>1. CASE GatewayRow(r)
      <4>1. r \in DOMAIN refund /\ True(r, refund[r].status) /\ refund'[r].status = refund[r].status
        BY <1>4, <3>1 DEF TruthInv, RowsTrue, GatewayRow
      <4>2. ASSUME NEW s, True(r, s) PROVE True(r, s)'
        BY <1>1, <1>7, <4>1, <4>2, StaysTrue
      <4>3. True(r, refund'[r].status)
        BY <4>1
      <4> QED BY <4>2, <4>3
    <3>2. CASE r = new /\ x.by \in Payments
      <4>1. refund'[r].status = "PENDING"
        BY <1>4, <3>2, Constants
      <4> QED BY <4>1 DEF True
    <3> QED BY <1>9, <2>1, <3>1, <3>2
  <2> QED BY <2>1 DEF RowsTrue
<1>11. AskedRow'
  BY <1>9 DEF TruthInv, AskedRow
<1>12. SentOnce'
  <2>1. \A g \in Handlers : job[g].at = "SEND" => job[g].rf \in DOMAIN refund
    BY DEF TruthInv, JobTruth, Asking, GatewayRow
  <2> QED BY <1>2, <1>7, <2>1 DEF TruthInv, SentOnce
<1>13. ASSUME NEW j, JobTruth(j) PROVE JobTruth(j)'
  BY <1>1, <1>4, <1>7, <1>13, StaysKnown
<1>14. JobTruth(k)'
  <2>1. CASE JobTruth(k)
    BY <1>13, <2>1
  <2>2. CASE /\ x.by \in Payments /\ k.at = "SEND" /\ k.rf = Len(refund) + 1
             /\ k.p = x.by /\ k.then \in Callers /\ k.list = {}
    <3>1. GatewayRow(k.rf)' /\ refund'[k.rf].by = k.p /\ provider'[k.rf] = "NONE"
      BY <1>4, <1>6, <2>2 DEF GatewayRow, new
    <3> QED BY <2>2, <3>1 DEF JobTruth, Asking, Settling
  <2> QED BY <2>1, <2>2
<1>15. ASSUME NEW g \in Handlers PROVE JobTruth(job[g])'
  <2>1. CASE g = h
    BY <1>2, <1>14, <2>1
  <2>2. CASE g # h
    <3>1. JobTruth(job'[g])
      BY <1>2, <2>2 DEF TruthInv
    <3> QED BY <1>13, <3>1
  <2> QED BY <2>1, <2>2
<1>16. errors' \in 0..MaxErrors
  BY DEF TruthInv
<1> QED BY <1>2, <1>5, <1>8, <1>10, <1>11, <1>12, <1>15, <1>16 DEF TruthInv

(* A row whose status changes keeps the rest. *)
LEMMA StatusChanged ==
    ASSUME NEW t \in Seq(Refund), NEW r \in DOMAIN t, NEW s \in RefundStatus
    PROVE  /\ [t[r] EXCEPT !.status = s] \in Refund
           /\ [t EXCEPT ![r].status = s] = [t EXCEPT ![r] = [t[r] EXCEPT !.status = s]]
           /\ [t EXCEPT ![r].status = s] \in Seq(Refund)
           /\ Len([t EXCEPT ![r].status = s]) = Len(t)
           /\ [t EXCEPT ![r].status = s][r] = [t[r] EXCEPT !.status = s]
           /\ \A n \in DOMAIN t : n # r => [t EXCEPT ![r].status = s][n] = t[n]
<1>1. t[r] \in Refund
  OBVIOUS
<1>2. [t[r] EXCEPT !.status = s] \in Refund
  BY <1>1 DEF Refund
<1> DEFINE x == [t[r] EXCEPT !.status = s]
<1>3. [t EXCEPT ![r].status = s] = [t EXCEPT ![r] = x]
  OBVIOUS
<1>4. x \in Refund
  BY <1>2
<1> HIDE DEF x
<1>5. /\ [t EXCEPT ![r] = x] \in Seq(Refund) /\ Len([t EXCEPT ![r] = x]) = Len(t)
      /\ [t EXCEPT ![r] = x][r] = x
      /\ \A n \in DOMAIN t : n # r => [t EXCEPT ![r] = x][n] = t[n]
  BY <1>4
<1> QED BY <1>2, <1>3, <1>5 DEF x

LEMMA RowWithStatus ==
    ASSUME NEW x \in Refund, NEW s \in RefundStatus, NEW y, y = [x EXCEPT !.status = s]
    PROVE  y \in Refund /\ y.status = s /\ y.by = x.by /\ y.amt = x.amt /\ y.kind = x.kind
BY DEF Refund

Closed(x, s, amt) == [x EXCEPT !.status = s, !.amt = amt]

LEMMA ClosedTyped ==
    ASSUME NEW x \in Refund, NEW s \in RefundStatus, NEW amt \in Nat
    PROVE  /\ Closed(x, s, amt) \in Refund /\ Closed(x, s, amt).by = x.by
           /\ Closed(x, s, amt).status = s /\ Closed(x, s, amt).amt = amt
           /\ Closed(x, s, amt).kind = x.kind
BY DEF Closed, Refund

NewRow(j) == [by |-> "MANUAL", kind |-> j.kind, amt |-> j.amt, status |-> j.target]

LEMMA NewRowTyped ==
    ASSUME NEW j \in Job, j.target \in RefundStatus
    PROVE  /\ NewRow(j) \in Refund /\ NewRow(j).by = "MANUAL"
           /\ NewRow(j).status = j.target /\ NewRow(j).amt = j.amt
BY DEF NewRow, Refund, Job

(* The table as the transaction of j sees it after its write. *)
LEMMA WithWriteIs ==
    ASSUME TruthInv, NEW j \in Job, j.target \in RefundStatus,
           j.rf = 0 \/ ManualRow(j.rf)
    PROVE  \/ /\ ManualRow(j.rf) /\ j.rf # 0
              /\ WithWrite(j) = [refund EXCEPT ![j.rf] =
                     Closed(refund[j.rf], j.target,
                            IF Pays(j.target) THEN j.amt ELSE refund[j.rf].amt)]
              /\ Closed(refund[j.rf], j.target,
                        IF Pays(j.target) THEN j.amt ELSE refund[j.rf].amt) \in Refund
              /\ WithWrite(j) \in Seq(Refund) /\ Len(WithWrite(j)) = Len(refund)
              /\ \A r \in DOMAIN refund : /\ WithWrite(j)[r].by = refund[r].by
                                          /\ r # j.rf => WithWrite(j)[r] = refund[r]
           \/ j.rf = 0 /\ Pays(j.target) /\ WithWrite(j) = Append(refund, NewRow(j))
           \/ j.rf = 0 /\ ~Pays(j.target) /\ WithWrite(j) = refund
<1>1. refund \in Seq(Refund)
      /\ (\A n \in DOMAIN refund : refund[n] \in Refund)
      /\ DOMAIN refund = 1..Len(refund)
      /\ (\A r \in DOMAIN refund : refund[r].amt \in Nat)
  BY RefundsTyped
<1>2. CASE j.rf = 0
  BY <1>2 DEF WithWrite, NewRow
<1>3. CASE j.rf # 0
  <2>1. j.rf \in DOMAIN refund
    BY <1>3 DEF ManualRow
  <2> DEFINE amt == IF Pays(j.target) THEN j.amt ELSE refund[j.rf].amt
             x == Closed(refund[j.rf], j.target, amt)
  <2>2. amt \in Nat
    BY <1>1, <2>1 DEF Job
  <2>3. WithWrite(j) = [refund EXCEPT ![j.rf] = x]
    BY <1>3 DEF WithWrite, Closed
  <2>4. refund[j.rf] \in Refund
    BY <1>1, <2>1
  <2> HIDE DEF amt
  <2>5. x \in Refund /\ x.by = refund[j.rf].by
    BY <2>2, <2>4, ClosedTyped
  <2> HIDE DEF x
  <2>6. /\ [refund EXCEPT ![j.rf] = x] \in Seq(Refund)
        /\ Len([refund EXCEPT ![j.rf] = x]) = Len(refund)
        /\ [refund EXCEPT ![j.rf] = x][j.rf] = x
        /\ \A r \in DOMAIN refund : r # j.rf => [refund EXCEPT ![j.rf] = x][r] = refund[r]
    BY <1>1, <2>1, <2>5
  <2>7. /\ WithWrite(j) \in Seq(Refund) /\ Len(WithWrite(j)) = Len(refund)
        /\ \A r \in DOMAIN refund : /\ WithWrite(j)[r].by = refund[r].by
                                    /\ r # j.rf => WithWrite(j)[r] = refund[r]
    BY <2>3, <2>5, <2>6
  <2> QED BY <1>3, <2>3, <2>5, <2>7 DEF x, amt
<1> QED BY <1>2, <1>3

LEMMA WithWriteType ==
    ASSUME TruthInv, NEW j \in Job, j.target \in RefundStatus, j.rf = 0 \/ ManualRow(j.rf)
    PROVE  WithWrite(j) \in Seq(Refund)
<1>1. refund \in Seq(Refund)
  BY RefundsTyped
<1>2. NewRow(j) \in Refund
  BY NewRowTyped
<1>3. Append(refund, NewRow(j)) \in Seq(Refund)
  BY <1>1, <1>2
<1> QED BY <1>1, <1>3, WithWriteIs

Written(j, total, open) == [j EXCEPT !.at = "COMMIT", !.total = total, !.open = open]

LEMMA WrittenTyped ==
    ASSUME NEW j \in Job, NEW total \in Nat, NEW open \in BOOLEAN
    PROVE  Written(j, total, open) \in Job
<1>1. "COMMIT" \in Stage
  BY DEF Stage
<1> QED BY <1>1 DEF Written, Job

LEMMA WrittenHolds ==
    ASSUME NEW j \in Job, NEW total, NEW open \in BOOLEAN, NEW k, k = Written(j, total, open)
    PROVE  /\ k.at = "COMMIT" /\ k.total = total /\ k.open = open /\ k.rf = j.rf
           /\ k.then = j.then /\ k.target = j.target /\ k.list = j.list /\ k.amt = j.amt
           /\ k.read = j.read /\ k.byGateway = j.byGateway /\ k.kind = j.kind
BY DEF Written, Job

LEMMA WriteRefundEffect ==
    ASSUME TruthInv, NEW h \in Handlers, WriteRefund(h)
    PROVE  LET j == job[h] IN
           /\ j.at = "WRITE" /\ UNCHANGED <<tables, provider, errors>>
           /\ j.rf # 0 => Unlocked(h, j.rf)
           /\ Completed(WithWrite(j), Manual) + j.byGateway \in Nat
           /\ (OpenManual(WithWrite(j)) # {}) \in BOOLEAN
           /\ Set(h, Written(j, Completed(WithWrite(j), Manual) + j.byGateway,
                             OpenManual(WithWrite(j)) # {}))
<1>1. job[h] \in Job /\ JobTruth(job[h])
  BY JobKnown
<1>2. job[h].at = "WRITE"
  BY DEF WriteRefund
<1>3. WithWrite(job[h]) \in Seq(Refund)
  BY <1>1, <1>2, WithWriteType DEF JobTruth
<1>4. Completed(WithWrite(job[h]), Manual) \in Nat /\ job[h].byGateway \in Nat
  BY <1>1, <1>3, CompletedType DEF Job
<1>5. Completed(WithWrite(job[h]), Manual) + job[h].byGateway \in Nat
  BY <1>4
<1> QED BY <1>5 DEF WriteRefund, Written

LEMMA WriteRefundKeepsTruth ==
    ASSUME TruthInv, NEW h \in Handlers, WriteRefund(h)
    PROVE  TruthInv'
<1> DEFINE j == job[h]
           total == Completed(WithWrite(j), Manual) + j.byGateway
           open == OpenManual(WithWrite(j)) # {}
           k == Written(j, total, open)
<1>1. /\ j.at = "WRITE" /\ UNCHANGED <<tables, provider, errors>>
      /\ total \in Nat /\ open \in BOOLEAN /\ Set(h, k)
  BY WriteRefundEffect
<1>2. j \in Job /\ JobTruth(j)
  BY JobKnown
<1> HIDE DEF total, open, j
<1>3. k \in Job
  BY <1>1, <1>2, WrittenTyped
<1>4. k.at = "COMMIT" /\ k.rf = j.rf /\ k.then = j.then /\ k.target = j.target /\ k.list = j.list
  BY <1>1, <1>2, WrittenHolds
<1> HIDE DEF k
<1>5. JobTruth(k)
  BY <1>1, <1>2, <1>4 DEF JobTruth, Asking, Settling
<1>6. Creating(k) => Creating(j)
  BY <1>1, <1>4 DEF Creating
<1>7. Follows(h, k)
  BY <1>3, <1>4, <1>5, <1>6 DEF Follows, j
<1>8. errors' \in 0..MaxErrors
  BY <1>1 DEF TruthInv
<1> QED BY <1>1, <1>7, <1>8, LocalStep

LEMMA CommittedTypes ==
    ASSUME TruthInv, NEW j \in Job, j.target \in RefundStatus \ {"PENDING"}
    PROVE  PaymentStatusAfter(j) \in RefundedRow /\ OrderRefundStatus(j) \in RefundStatus
<1>1. j.read \in RefundedRow
  BY DEF Job
<1>2. resolveRefundPaymentStatus(j.total) \in RefundedRow
  BY DEF resolveRefundPaymentStatus, RefundedRow
<1> QED BY <1>1, <1>2 DEF PaymentStatusAfter, OrderRefundStatus, RefundedRow, RefundStatus

LEMMA CommitRefundKeepsTruth ==
    ASSUME TruthInv, NEW h \in Handlers, CommitRefund(h)
    PROVE  TruthInv'
<1> DEFINE j == job[h]
           k == Returned(j)
<1>1. /\ j.at = "COMMIT" /\ refund' = WithWrite(j) /\ Set(h, k)
      /\ UNCHANGED <<gateway, provider, errors>>
  BY DEF CommitRefund
<1>2. j \in Job /\ JobTruth(j)
  BY JobKnown
<1>3. AtRest(k)
  BY <1>2, ReturnedAtRest DEF JobTruth
<1>4. Follows(h, k)
  BY <1>3, AtRestFollows
<1>5. j.target \in RefundStatus \ {"PENDING"} /\ (j.rf = 0 \/ ManualRow(j.rf))
  BY <1>1, <1>2 DEF JobTruth
<1>6. OrderTypes'
  <2>1. PaymentStatusAfter(j) \in RefundedRow /\ OrderRefundStatus(j) \in RefundStatus
    BY <1>2, <1>5, CommittedTypes
  <2>2. j.total \in Nat
    BY <1>2 DEF Job
  <2>3. /\ refundStatus' = OrderRefundStatus(j) /\ paymentStatus' = PaymentStatusAfter(j)
        /\ row' = [p \in Payments |-> PaymentStatusAfter(j)]
        /\ amountRefunded' = IF j.target \in {"COMPLETED", "FAILED"} THEN j.total
                             ELSE amountRefunded
        /\ issue' = [i \in Issues |-> IF ResolvesIssues(j) /\ issue[i] = "APPROVED"
                                      THEN "RESOLVED" ELSE issue[i]]
        /\ orderStatus' = orderStatus
    BY DEF CommitRefund
  <2>4. issue' \in [Issues -> {"NONE", "PENDING", "APPROVED", "REJECTED", "RESOLVED"}]
    BY <2>3 DEF TruthInv, OrderTypes
  <2>5. row' \in [Payments -> RefundedRow]
    BY <2>1, <2>3
  <2>6. amountRefunded' \in Nat
    BY <2>2, <2>3 DEF TruthInv, OrderTypes
  <2> QED BY <2>1, <2>3, <2>4, <2>5, <2>6 DEF TruthInv, OrderTypes
<1>7. completions' \in Seq(1..(Len(refund) + 1))
      /\ (j.rf # 0 \/ j.target # "COMPLETED" => completions' \in Seq(DOMAIN refund))
  <2>1. completions \in Seq(DOMAIN refund) /\ DOMAIN refund = 1..Len(refund)
        /\ Len(refund) \in Nat
    BY RefundsTyped DEF TruthInv, RefundTypes
  <2>2. completions \in Seq(1..(Len(refund) + 1))
    BY <2>1
  <2>3. completions' = IF j.target # "COMPLETED" THEN completions
                       ELSE Append(completions, IF j.rf = 0 THEN Len(refund) + 1 ELSE j.rf)
    BY DEF CommitRefund, Processed
  <2>4. j.rf # 0 => j.rf \in DOMAIN refund
    BY <1>5 DEF ManualRow
  <2>5. j.rf # 0 => Append(completions, j.rf) \in Seq(DOMAIN refund)
                    /\ Append(completions, j.rf) \in Seq(1..(Len(refund) + 1))
    BY <2>1, <2>2, <2>4
  <2>6. Append(completions, Len(refund) + 1) \in Seq(1..(Len(refund) + 1))
    BY <2>1, <2>2
  <2>7. CASE j.target # "COMPLETED"
    BY <2>1, <2>2, <2>3, <2>7
  <2>8. CASE j.target = "COMPLETED"
    BY <2>3, <2>5, <2>6, <2>8
  <2> QED BY <2>7, <2>8
<1>8. errors' \in 0..MaxErrors /\ refund \in Seq(Refund)
  BY <1>1, RefundsTyped DEF TruthInv
<1> HIDE DEF j, k
<1>9. CASE j.rf # 0 /\ ManualRow(j.rf)
  <2>1. /\ refund' \in Seq(Refund) /\ Len(refund') = Len(refund)
        /\ \A r \in DOMAIN refund : /\ refund'[r].by = refund[r].by
                                    /\ r # j.rf => refund'[r] = refund[r]
    BY <1>1, <1>2, <1>5, <1>9, WithWriteIs
  <2>2. \A r \in DOMAIN refund : refund'[r].status = refund[r].status \/ ManualRow(r)
    BY <1>9, <2>1
  <2>3. completions' \in Seq(DOMAIN refund)
    BY <1>7, <1>9
  <2> QED BY <1>1, <1>4, <1>6, <1>8, <2>1, <2>2, <2>3, RowsKept
<1>10. CASE j.rf = 0 /\ ~Pays(j.target)
  <2>1. refund' = refund
    BY <1>1, <1>10 DEF WithWrite
  <2>2. j.target # "COMPLETED"
    BY <1>10 DEF Pays
  <2> QED BY <1>1, <1>4, <1>6, <1>7, <1>8, <2>1, <2>2, RowsKept
<1>11. CASE j.rf = 0 /\ Pays(j.target)
  <2>1. refund' = Append(refund, NewRow(j))
    BY <1>1, <1>11 DEF WithWrite, NewRow
  <2>2. NewRow(j) \in Refund /\ NewRow(j).by = "MANUAL"
    BY <1>2, <1>5, NewRowTyped
  <2>3. Creating(job[h]) /\ ~Creating(k) /\ k.at # "SEND" /\ JobTruth(k) /\ k \in Job
    BY <1>1, <1>3, <1>4, <1>11 DEF Creating, Follows, AtRest, Quiet, j
  <2> QED BY <1>1, <1>6, <1>7, <2>1, <2>2, <2>3, RowAdded
<1> QED BY <1>5, <1>9, <1>10, <1>11

LEMMA DatabaseErrorKeepsTruth ==
    ASSUME TruthInv, NEW h \in Handlers, DatabaseError(h)
    PROVE  TruthInv'
<1>1. /\ Set(h, Thrown(job[h])) /\ UNCHANGED <<tables, provider>>
      /\ errors < MaxErrors /\ errors' = errors + 1
  BY DEF DatabaseError
<1>2. Follows(h, Thrown(job[h]))
  BY JobKnown, ThrownAtRest, AtRestFollows
<1>3. errors' \in 0..MaxErrors
  BY <1>1, Constants DEF TruthInv
<1> QED BY <1>1, <1>2, <1>3, LocalStep

-----------------------------------------------------------------------------
(* Review of an issue *)


MovedTo(j, at) == [j EXCEPT !.at = at]

LEMMA MovedToTyped ==
    ASSUME NEW j \in Job, NEW at \in Stage
    PROVE  MovedTo(j, at) \in Job
BY DEF MovedTo, Job

LEMMA MovedToHolds ==
    ASSUME NEW j \in Job, NEW at, NEW k, k = MovedTo(j, at)
    PROVE  /\ k.at = at /\ k.then = j.then /\ k.list = j.list /\ k.rf = j.rf /\ k.p = j.p
           /\ k.target = j.target /\ k.amt = j.amt /\ k.left = j.left /\ k.issue = j.issue
           /\ k.total = j.total /\ k.ofPayment = j.ofPayment
BY DEF MovedTo, Job

LEMMA MovedToRest ==
    ASSUME NEW j \in Job, JobTruth(j), j.list = {}, NEW at \in Quiet
    PROVE  AtRest(MovedTo(j, at))
<1>1. at \in Stage
  BY DEF Quiet, Stage
<1> QED BY <1>1, MovedToTyped, MovedToHolds DEF AtRest, JobTruth

LEMMA EmptyList ==
    ASSUME TruthInv, NEW h \in Handlers, job[h].at \notin {"QUERY"} \cup Settling
    PROVE  job[h].list = {}
BY JobKnown DEF JobTruth

LEMMA IssueTyped ==
    ASSUME TruthInv, NEW i, NEW s \in {"NONE", "PENDING", "APPROVED", "REJECTED", "RESOLVED"},
           issue' = [issue EXCEPT ![i] = s],
           UNCHANGED <<paymentStatus, refundStatus, amountRefunded, row>>,
           orderStatus' \in Phase
    PROVE  OrderTypes'
BY DEF TruthInv, OrderTypes

\* A step of h between two calls, which may write the order or the issue.
RestStep(h) ==
    /\ \E k : AtRest(k) /\ Set(h, k)
    /\ OrderTypes' /\ UNCHANGED <<gateway, refund, completions, provider, errors>>

LEMMA RestStepKeepsTruth ==
    ASSUME TruthInv, NEW h \in Handlers, RestStep(h)
    PROVE  TruthInv'
<1>1. PICK k : AtRest(k) /\ Set(h, k)
  BY DEF RestStep
<1>2. Follows(h, k)
  BY <1>1, AtRestFollows
<1> QED BY <1>1, <1>2, OrderStep DEF RestStep

LEMMA TypesKept ==
    ASSUME TruthInv, UNCHANGED tables
    PROVE  OrderTypes' /\ UNCHANGED <<gateway, refund, completions>>
BY DEF TruthInv, OrderTypes, tables, orderVars

Reviewing(i, now) == [NoJob EXCEPT !.at = "REVIEW", !.issue = i, !.now = now]

LEMMA ReviewingAtRest ==
    ASSUME NEW i \in Issues, NEW now \in BOOLEAN
    PROVE  AtRest(Reviewing(i, now))
<1>1. "REVIEW" \in Stage
  BY DEF Stage
<1>2. Reviewing(i, now) \in Job
  BY <1>1, NoJobTyped DEF Reviewing, Job
<1>3. NoJob.then = "IDLE" /\ NoJob.list = {}
  BY DEF NoJob
<1>4. Reviewing(i, now).at = "REVIEW" /\ Reviewing(i, now).then = "IDLE"
      /\ Reviewing(i, now).list = {}
  BY <1>3, NoJobTyped DEF Reviewing, Job
<1> QED BY <1>2, <1>4 DEF AtRest, Quiet, Callers

LEMMA ReviewReadRests ==
    ASSUME TruthInv, NEW h \in Handlers, NEW i \in Issues, ReviewRead(h, i)
    PROVE  RestStep(h)
<1>1. PICK now \in BOOLEAN : Set(h, Reviewing(i, now))
  BY DEF ReviewRead, Reviewing
<1>2. UNCHANGED <<tables, provider, errors>>
  BY DEF ReviewRead
<1> QED BY <1>1, <1>2, ReviewingAtRest, TypesKept DEF RestStep

LEMMA ReviewRejectRests ==
    ASSUME TruthInv, NEW h \in Handlers, ReviewReject(h)
    PROVE  RestStep(h)
<1>1. OrderTypes'
  BY IssueTyped DEF ReviewReject, orderVars, TruthInv, OrderTypes
<1> QED BY <1>1, NoJobAtRest DEF ReviewReject, RestStep

LEMMA ReviewRollbackRests ==
    ASSUME TruthInv, NEW h \in Handlers, ReviewRollback(h)
    PROVE  RestStep(h)
<1>1. OrderTypes'
  BY IssueTyped DEF ReviewRollback, orderVars, TruthInv, OrderTypes
<1> QED BY <1>1, NoJobAtRest DEF ReviewRollback, RestStep

LEMMA ReviewApproveRests ==
    ASSUME TruthInv, NEW h \in Handlers, ReviewApprove(h)
    PROVE  RestStep(h)
<1> DEFINE at == IF job[h].issue \in Complaints THEN "REOPEN" ELSE "GOODS"
<1>1. /\ job[h].at = "REVIEW" /\ Set(h, MovedTo(job[h], at))
      /\ UNCHANGED <<gateway, refund, completions, provider, errors>>
  BY DEF ReviewApprove, MovedTo
<1>2. OrderTypes'
  BY IssueTyped DEF ReviewApprove, orderVars, TruthInv, OrderTypes
<1>3. at \in Quiet
  BY DEF Quiet
<1>4. job[h].list = {} /\ job[h] \in Job /\ JobTruth(job[h])
  BY <1>1, EmptyList, JobKnown DEF Settling
<1>5. AtRest(MovedTo(job[h], at))
  BY <1>3, <1>4, MovedToRest
<1> QED BY <1>1, <1>2, <1>5 DEF RestStep

LEMMA MoveOrderTypes ==
    ASSUME TruthInv, NEW to \in Phase, MoveOrder(to),
           UNCHANGED <<paymentStatus, amountRefunded, row, issue>>
    PROVE  OrderTypes'
BY DEF MoveOrder, TruthInv, OrderTypes, RefundStatus

LEMMA ReviewReturnRests ==
    ASSUME TruthInv, NEW h \in Handlers, ReviewReturn(h)
    PROVE  RestStep(h)
<1> DEFINE to == IF job[h].now THEN "RETURNED" ELSE "RETURN_APPROVED"
<1>1. /\ job[h].at = "RETURN" /\ Set(h, MovedTo(job[h], "NOW"))
      /\ UNCHANGED <<paymentStatus, amountRefunded, gateway, row, refund, completions,
                     issue, provider, errors>>
      /\ MoveOrder(to) \/ UNCHANGED <<orderStatus, refundStatus>>
  BY DEF ReviewReturn, MovedTo
<1>2. to \in Phase
  BY DEF Phase
<1>3. OrderTypes'
  BY <1>1, <1>2, MoveOrderTypes DEF TruthInv, OrderTypes
<1>4. job[h].list = {} /\ job[h] \in Job /\ JobTruth(job[h])
  BY <1>1, EmptyList, JobKnown DEF Settling
<1>5. AtRest(MovedTo(job[h], "NOW"))
  BY <1>4, MovedToRest DEF Quiet
<1> QED BY <1>1, <1>3, <1>5 DEF RestStep

Looping(j, left) == [j EXCEPT !.at = "LOOP", !.left = left]

LEMMA LoopingTyped ==
    ASSUME NEW j \in Job, NEW left \in SUBSET Kinds
    PROVE  Looping(j, left) \in Job
<1>1. "LOOP" \in Stage
  BY DEF Stage
<1> QED BY <1>1 DEF Looping, Job

LEMMA LoopingHolds ==
    ASSUME NEW j \in Job, NEW left, NEW k, k = Looping(j, left)
    PROVE  k.at = "LOOP" /\ k.then = j.then /\ k.list = j.list
BY DEF Looping, Job

LEMMA ReviewNowRests ==
    ASSUME TruthInv, NEW h \in Handlers, ReviewNow(h)
    PROVE  RestStep(h)
<1> DEFINE left == {refund[r].kind : r \in OpenManual(refund)}
<1>1. /\ job[h].at = "NOW" /\ UNCHANGED <<tables, provider, errors>>
      /\ Set(h, Looping(job[h], left)) \/ Set(h, NoJob)
  BY DEF ReviewNow, Looping
<1>2. left \in SUBSET Kinds
  BY RefundsTyped DEF OpenManual, Ids
<1> HIDE DEF left
<1>3. job[h].list = {} /\ job[h] \in Job /\ JobTruth(job[h])
  BY <1>1, EmptyList, JobKnown DEF Settling
<1>4. AtRest(Looping(job[h], left))
  BY <1>2, <1>3, LoopingTyped, LoopingHolds DEF AtRest, Quiet, JobTruth
<1> QED BY <1>1, <1>4, NoJobAtRest, TypesKept DEF RestStep

LEMMA GoodsAmountType ==
    ASSUME TruthInv
    PROVE  approvedGoodsRefundVnd \in Nat
<1> DEFINE goods == {r \in OpenManual(refund) : refund[r].kind = "GOODS"}
<1>1. /\ Len(refund) \in Nat /\ DOMAIN refund = 1..Len(refund)
      /\ \A r \in DOMAIN refund : refund[r].amt \in Nat
  BY RefundsTyped
<1>2. goods \in SUBSET (1..Len(refund))
  BY <1>1 DEF OpenManual, Ids
<1>3. goods # {} => Max(goods) \in goods
  <2> HIDE DEF goods
  <2> QED BY <1>1, <1>2, MaxIsIn
<1>4. (IF goods = {} THEN 0 ELSE refund[Max(goods)].amt) \in Nat
  <2> HIDE DEF goods
  <2> QED BY <1>1, <1>2, <1>3
<1> QED BY <1>4, Constants DEF approvedGoodsRefundVnd

LEMMA ReviewGoodsCalls ==
    ASSUME TruthInv, NEW h \in Handlers, ReviewGoods(h)
    PROVE  Called(h, "SHIPPING", "REQUIRED") /\ UNCHANGED <<tables, provider, errors>>
<1>1. /\ job[h].at = "GOODS" /\ UNCHANGED <<tables, provider, errors>>
      /\ StartRefund(h, job[h], "REQUIRED", "GOODS", approvedGoodsRefundVnd, "SHIPPING")
  BY DEF ReviewGoods
<1>2. job[h] \in Job /\ job[h].list = {}
  BY <1>1, JobKnown, EmptyList DEF Settling
<1>3. "REQUIRED" \in RefundStatus /\ "GOODS" \in Kinds /\ "SHIPPING" \in Callers
  BY DEF RefundStatus, Kinds, Callers
<1> QED BY <1>1, <1>2, <1>3, GoodsAmountType, StartRefundCalls

LEMMA ReviewShippingCalls ==
    ASSUME TruthInv, NEW h \in Handlers, ReviewShipping(h)
    PROVE  \/ Called(h, "RETURN", "REQUIRED") /\ UNCHANGED <<tables, provider, errors>>
           \/ RestStep(h)
<1>1. job[h].at = "SHIPPING" /\ UNCHANGED <<tables, provider, errors>>
  BY DEF ReviewShipping
<1>2. job[h] \in Job /\ job[h].list = {} /\ JobTruth(job[h])
  BY <1>1, JobKnown, EmptyList DEF Settling
<1>3. CASE StartRefund(h, job[h], "REQUIRED", "SHIPPING", ShippingFee, "RETURN")
  <2>1. "REQUIRED" \in RefundStatus /\ "SHIPPING" \in Kinds /\ "RETURN" \in Callers
    BY DEF RefundStatus, Kinds, Callers
  <2> QED BY <1>1, <1>2, <1>3, <2>1, Constants, StartRefundCalls
<1>4. CASE Set(h, MovedTo(job[h], "RETURN"))
  <2>1. AtRest(MovedTo(job[h], "RETURN"))
    BY <1>2, MovedToRest DEF Quiet
  <2> QED BY <1>1, <1>4, <2>1, TypesKept DEF RestStep
<1> QED BY <1>3, <1>4 DEF ReviewShipping, MovedTo

Without(j, kind) == [j EXCEPT !.left = @ \ {kind}]

LEMMA WithoutTyped ==
    ASSUME NEW j \in Job, NEW kind
    PROVE  Without(j, kind) \in Job /\ Without(j, kind).list = j.list
<1>1. j.left \ {kind} \in SUBSET Kinds
  BY DEF Job
<1> QED BY <1>1 DEF Without, Job

LEMMA CompleteOpenRefundsCalls ==
    ASSUME TruthInv, NEW h \in Handlers, CompleteOpenRefunds(h)
    PROVE  \/ Called(h, "LOOP", "COMPLETED") /\ UNCHANGED <<tables, provider, errors>>
           \/ RestStep(h)
<1> DEFINE kind == IF "GOODS" \in job[h].left THEN "GOODS" ELSE "SHIPPING"
<1>1. /\ job[h].at = "LOOP" /\ UNCHANGED <<tables, provider, errors>>
      /\ \/ Set(h, NoJob)
         \/ StartRefund(h, Without(job[h], kind), "COMPLETED", kind, 0, "LOOP")
  BY DEF CompleteOpenRefunds, Without
<1>2. job[h] \in Job /\ job[h].list = {}
  BY <1>1, JobKnown, EmptyList DEF Settling
<1>3. CASE Set(h, NoJob)
  BY <1>1, <1>3, NoJobAtRest, TypesKept DEF RestStep
<1>4. CASE StartRefund(h, Without(job[h], kind), "COMPLETED", kind, 0, "LOOP")
  <2>1. "COMPLETED" \in RefundStatus /\ kind \in Kinds /\ "LOOP" \in Callers
    BY DEF RefundStatus, Kinds, Callers
  <2>2. Without(job[h], kind) \in Job /\ Without(job[h], kind).list = {}
    BY <1>2, WithoutTyped
  <2> QED BY <1>1, <1>4, <2>1, <2>2, StartRefundCalls
<1> QED BY <1>1, <1>3, <1>4

Denying(j, rf) == [j EXCEPT !.then = "NOW", !.at = "REOPEN_WRITE", !.rf = rf]

LEMMA DenyingTyped ==
    ASSUME NEW j \in Job, NEW rf \in 0..MaxRefunds
    PROVE  Denying(j, rf) \in Job
<1>1. "REOPEN_WRITE" \in Stage /\ "NOW" \in Stage
  BY DEF Stage
<1> QED BY <1>1 DEF Denying, Job

LEMMA DenyingHolds ==
    ASSUME NEW j \in Job, NEW rf, NEW k, k = Denying(j, rf)
    PROVE  k.at = "REOPEN_WRITE" /\ k.rf = rf /\ k.then = "NOW" /\ k.list = j.list
BY DEF Denying, Job

CallingBack(j) == [j EXCEPT !.then = "NOW"]

LEMMA CallingBackTyped ==
    ASSUME NEW j \in Job
    PROVE  CallingBack(j) \in Job
<1>1. "NOW" \in Stage
  BY DEF Stage
<1> QED BY <1>1 DEF CallingBack, Job

\* The refund whose completion was recorded last, of those that are still completed.
DoneOnes == {k \in DOMAIN completions : refund[completions[k]].status = "COMPLETED"}
LastDone == completions[Max(DoneOnes)]

LEMMA LastDoneType ==
    ASSUME TruthInv, DoneOnes # {}
    PROVE  LastDone \in DOMAIN refund /\ refund[LastDone].status = "COMPLETED"
           /\ LastDone \in 0..MaxRefunds
<1>1. completions \in Seq(DOMAIN refund)
  BY DEF TruthInv, RefundTypes
<1>2. Len(completions) \in Nat /\ DOMAIN completions = 1..Len(completions)
  BY <1>1
<1>3. DoneOnes \in SUBSET (1..Len(completions))
  BY <1>2 DEF DoneOnes
<1>4. Max(DoneOnes) \in DoneOnes
  BY <1>2, <1>3, MaxIsIn
<1>5. Max(DoneOnes) \in DOMAIN completions /\ refund[LastDone].status = "COMPLETED"
  BY <1>4 DEF DoneOnes, LastDone
<1>6. LastDone \in DOMAIN refund
  BY <1>1, <1>5 DEF LastDone
<1>7. DOMAIN refund \subseteq 1..MaxRefunds
  BY RefundsTyped
<1> QED BY <1>5, <1>6, <1>7, Constants

LEMMA ReopenReadEffect ==
    ASSUME TruthInv, NEW h \in Handlers, ReopenRead(h)
    PROVE  /\ job[h].at = "REOPEN" /\ UNCHANGED <<tables, provider, errors>>
           /\ \/ Set(h, Thrown(CallingBack(job[h])))
              \/ /\ DoneOnes # {} /\ refund[LastDone].by = "MANUAL"
                 /\ Set(h, Denying(job[h], LastDone))
<1>1. [CallingBack(job[h]) EXCEPT !.at = "REOPEN_WRITE", !.rf = LastDone]
        = Denying(job[h], LastDone)
  BY JobKnown DEF CallingBack, Denying, Job
<1> QED BY <1>1 DEF ReopenRead, CallingBack, DoneOnes, LastDone

LEMMA ReopenReadKeepsTruth ==
    ASSUME TruthInv, NEW h \in Handlers, ReopenRead(h)
    PROVE  TruthInv'
<1>1. job[h].at = "REOPEN" /\ UNCHANGED <<tables, provider, errors>>
  BY ReopenReadEffect
<1>2. job[h] \in Job /\ job[h].list = {}
  BY <1>1, JobKnown, EmptyList DEF Settling
<1>3. errors' \in 0..MaxErrors
  BY <1>1 DEF TruthInv
<1>4. CASE Set(h, Thrown(CallingBack(job[h])))
  <2>1. Follows(h, Thrown(CallingBack(job[h])))
    BY <1>2, CallingBackTyped, ThrownAtRest, AtRestFollows
  <2> QED BY <1>1, <1>3, <1>4, <2>1, LocalStep
<1>5. CASE /\ DoneOnes # {} /\ refund[LastDone].by = "MANUAL"
           /\ Set(h, Denying(job[h], LastDone))
  <2> DEFINE k == Denying(job[h], LastDone)
  <2>1. LastDone \in 0..MaxRefunds /\ ManualRow(LastDone)
    BY <1>5, LastDoneType DEF ManualRow
  <2>2. /\ k \in Job /\ k.at = "REOPEN_WRITE" /\ k.rf = LastDone /\ k.then = "NOW"
        /\ k.list = {}
    BY <1>2, <2>1, DenyingTyped, DenyingHolds
  <2> HIDE DEF k
  <2>3. JobTruth(k)
    BY <2>1, <2>2 DEF JobTruth, Callers, Asking, Settling
  <2>4. Follows(h, k)
    BY <2>2, <2>3 DEF Follows, Creating
  <2>5. Set(h, k)
    BY <1>5 DEF k
  <2> QED BY <1>1, <1>3, <2>4, <2>5, LocalStep
<1> QED BY <1>4, <1>5, ReopenReadEffect

Counted(j, at, total) == [j EXCEPT !.at = at, !.total = total]

LEMMA CountedTyped ==
    ASSUME NEW j \in Job, NEW at \in Stage, NEW total \in Nat
    PROVE  Counted(j, at, total) \in Job
BY DEF Counted, Job

LEMMA CountedHolds ==
    ASSUME NEW j \in Job, NEW at, NEW total, NEW k, k = Counted(j, at, total)
    PROVE  /\ k.at = at /\ k.total = total /\ k.rf = j.rf /\ k.then = j.then
           /\ k.list = j.list /\ k.p = j.p
BY DEF Counted, Job

LEMMA CountedFollows ==
    ASSUME TruthInv, NEW h \in Handlers, NEW total \in Nat,
           NEW at \in {"REOPEN_COMMIT", "RESEND"},
           job[h].at \in {"REOPEN_WRITE", "REOPEN_COMMIT"}
    PROVE  Follows(h, Counted(job[h], at, total))
<1> DEFINE k == Counted(job[h], at, total)
<1>1. job[h] \in Job /\ JobTruth(job[h])
  BY JobKnown
<1>2. at \in Stage
  BY DEF Stage
<1>3. /\ k \in Job /\ k.at = at /\ k.rf = job[h].rf /\ k.then = job[h].then
      /\ k.list = job[h].list
  BY <1>1, <1>2, CountedTyped, CountedHolds
<1> HIDE DEF k
<1>4. JobTruth(k)
  BY <1>1, <1>3 DEF JobTruth, Asking, Settling
<1>5. Follows(h, k)
  BY <1>3, <1>4 DEF Follows, Creating
<1> QED BY <1>5 DEF k

LEMMA ReopenedType ==
    ASSUME TruthInv, NEW r, ManualRow(r)
    PROVE  /\ Reopened(r) \in Seq(Refund) /\ Len(Reopened(r)) = Len(refund)
           /\ \A n \in DOMAIN refund : n # r => Reopened(r)[n] = refund[n]
           /\ Reopened(r)[r].by = refund[r].by
<1>1. refund \in Seq(Refund) /\ r \in DOMAIN refund /\ refund[r] \in Refund
  BY RefundsTyped DEF ManualRow
<1>2. "FAILED" \in RefundStatus
  BY DEF RefundStatus
<1>3. [refund[r] EXCEPT !.status = "FAILED"].by = refund[r].by
  BY <1>1, <1>2, RowWithStatus
<1> QED BY <1>1, <1>2, <1>3, StatusChanged DEF Reopened

LEMMA ReopenWriteKeepsTruth ==
    ASSUME TruthInv, NEW h \in Handlers, ReopenWrite(h)
    PROVE  TruthInv'
<1> DEFINE total == Completed(Reopened(job[h].rf), Manual)
<1>1. /\ job[h].at = "REOPEN_WRITE" /\ UNCHANGED <<tables, provider, errors>>
      /\ Set(h, Thrown(job[h])) \/ Set(h, Counted(job[h], "REOPEN_COMMIT", total))
  BY DEF ReopenWrite, Counted
<1>2. job[h] \in Job /\ ManualRow(job[h].rf)
  BY <1>1, JobKnown DEF JobTruth
<1>3. total \in Nat
  BY <1>2, ReopenedType, CompletedType
<1> HIDE DEF total
<1>4. Follows(h, Thrown(job[h])) /\ Follows(h, Counted(job[h], "REOPEN_COMMIT", total))
  BY <1>1, <1>2, <1>3, ThrownAtRest, AtRestFollows, CountedFollows
<1>5. errors' \in 0..MaxErrors
  BY <1>1 DEF TruthInv
<1> QED BY <1>1, <1>4, <1>5, LocalStep

LEMMA ReopenCommitKeepsTruth ==
    ASSUME TruthInv, NEW h \in Handlers, ReopenCommit(h)
    PROVE  TruthInv'
<1> DEFINE k == Counted(job[h], "RESEND", 0)
<1>1. /\ job[h].at = "REOPEN_COMMIT" /\ Set(h, k) /\ refund' = Reopened(job[h].rf)
      /\ UNCHANGED <<orderStatus, gateway, row, completions, issue, provider, errors>>
      /\ refundStatus' = "REQUIRED" /\ amountRefunded' = job[h].total
      /\ paymentStatus' = resolveRefundPaymentStatus(job[h].total)
  BY DEF ReopenCommit, Counted
<1>2. job[h] \in Job /\ ManualRow(job[h].rf)
  BY <1>1, JobKnown DEF JobTruth
<1>3. Follows(h, k)
  BY <1>1, CountedFollows
<1> HIDE DEF k
<1>4. OrderTypes'
  <2>1. job[h].total \in Nat
    BY <1>2 DEF Job
  <2>2. resolveRefundPaymentStatus(job[h].total) \in RefundedRow
    BY DEF resolveRefundPaymentStatus, RefundedRow
  <2> QED BY <1>1, <2>1, <2>2 DEF TruthInv, OrderTypes, RefundStatus
<1>5. /\ refund' \in Seq(Refund) /\ Len(refund') = Len(refund)
      /\ \A r \in DOMAIN refund : r # job[h].rf => refund'[r] = refund[r]
      /\ refund'[job[h].rf].by = refund[job[h].rf].by
  BY <1>1, <1>2, ReopenedType
<1>6. \A r \in DOMAIN refund : /\ refund'[r].by = refund[r].by
                               /\ refund'[r].status = refund[r].status \/ ManualRow(r)
  BY <1>2, <1>5
<1>7. completions' \in Seq(DOMAIN refund) /\ errors' \in 0..MaxErrors
  BY <1>1 DEF TruthInv, RefundTypes
<1> QED BY <1>1, <1>3, <1>4, <1>5, <1>6, <1>7, RowsKept

Forgetting(j) == [j EXCEPT !.rf = 0]

LEMMA ForgettingTyped ==
    ASSUME NEW j \in Job
    PROVE  Forgetting(j) \in Job /\ Forgetting(j).list = j.list
<1>1. 0 \in 0..MaxRefunds
  BY Constants
<1> QED BY <1>1 DEF Forgetting, Job

LEMMA ReviewResendCalls ==
    ASSUME TruthInv, NEW h \in Handlers, ReviewResend(h)
    PROVE  Called(h, "NOW", "REQUIRED") /\ UNCHANGED <<tables, provider, errors>>
<1> DEFINE x == refund[job[h].rf]
<1>1. /\ job[h].at = "RESEND" /\ UNCHANGED <<tables, provider, errors>>
      /\ StartRefund(h, Forgetting(job[h]), "REQUIRED", x.kind, x.amt, "NOW")
  BY DEF ReviewResend, Forgetting
<1>2. job[h] \in Job /\ job[h].list = {} /\ job[h].rf \in DOMAIN refund
  BY <1>1, JobKnown, EmptyList DEF Settling, JobTruth, ManualRow
<1>3. x.kind \in Kinds /\ x.amt \in Nat
  BY <1>2, RefundsTyped
<1>4. "REQUIRED" \in RefundStatus /\ "NOW" \in Callers
  BY DEF RefundStatus, Callers
<1>5. Forgetting(job[h]) \in Job /\ Forgetting(job[h]).list = {}
  BY <1>2, ForgettingTyped
<1> QED BY <1>1, <1>3, <1>4, <1>5, StartRefundCalls

-----------------------------------------------------------------------------
(* refundGatewayPayment *)

Reserving(p, amt) == [NoJob EXCEPT !.at = "RESERVE", !.p = p, !.amt = amt]

LEMMA ReservingTyped ==
    ASSUME NEW p \in Payments, NEW amt \in Nat
    PROVE  Reserving(p, amt) \in Job
<1>1. "RESERVE" \in Stage
  BY DEF Stage
<1> QED BY <1>1, NoJobTyped DEF Reserving, Job

LEMMA ReservingHolds ==
    ASSUME NEW p, NEW amt, NEW k, k = Reserving(p, amt)
    PROVE  k.at = "RESERVE" /\ k.p = p /\ k.amt = amt /\ k.then = "IDLE" /\ k.list = {}
<1>1. NoJob.then = "IDLE" /\ NoJob.list = {}
  BY DEF NoJob
<1> QED BY <1>1, NoJobTyped DEF Reserving, Job

LEMMA GatewayReadKeepsTruth ==
    ASSUME TruthInv, NEW h \in Handlers, NEW p \in Payments, NEW amt \in 1..Price,
           GatewayRead(h, p, amt)
    PROVE  TruthInv'
<1> DEFINE k == Reserving(p, amt)
<1>1. Set(h, k) /\ Room /\ UNCHANGED <<tables, provider, errors>>
  BY DEF GatewayRead, Reserving
<1>2. amt \in Nat
  BY Constants
<1>3. k \in Job /\ k.at = "RESERVE" /\ k.then = "IDLE" /\ k.list = {}
  BY <1>2, ReservingTyped, ReservingHolds
<1> HIDE DEF k
<1>4. JobTruth(k)
  BY <1>3 DEF JobTruth, Callers, Asking, Settling
<1>5. Follows(h, k) /\ errors' \in 0..MaxErrors
  BY <1>1, <1>3, <1>4 DEF Follows, TruthInv
<1> QED BY <1>1, <1>5, LocalStep

Sending(j, rf) == [j EXCEPT !.at = "SEND", !.rf = rf]

LEMMA SendingTyped ==
    ASSUME NEW j \in Job, NEW rf \in 0..MaxRefunds
    PROVE  Sending(j, rf) \in Job
<1>1. "SEND" \in Stage
  BY DEF Stage
<1> QED BY <1>1 DEF Sending, Job

LEMMA SendingHolds ==
    ASSUME NEW j \in Job, NEW rf, NEW k, k = Sending(j, rf)
    PROVE  k.at = "SEND" /\ k.rf = rf /\ k.then = j.then /\ k.list = j.list /\ k.p = j.p
BY DEF Sending, Job

Asked(j) == [by |-> j.p, kind |-> "GOODS", amt |-> j.amt, status |-> "PENDING"]

LEMMA AskedTyped ==
    ASSUME NEW j \in Job
    PROVE  /\ Asked(j) \in Refund /\ Asked(j).by = j.p /\ j.p \in Payments
           /\ Asked(j).status = "PENDING" /\ Asked(j).amt = j.amt
BY DEF Asked, Refund, Job, Kinds, RefundStatus

LEMMA GatewayReserveKeepsTruth ==
    ASSUME TruthInv, NEW h \in Handlers, GatewayReserve(h)
    PROVE  TruthInv'
<1> DEFINE j == job[h]
           k == Sending(j, Len(refund) + 1)
<1>1. /\ j.at = "RESERVE" /\ refund' = Append(refund, Asked(j)) /\ Set(h, k)
      /\ UNCHANGED <<orderStatus, amountRefunded, gateway, row, completions, issue,
                     provider, errors>>
      /\ \/ refundStatus' = "PROCESSING" /\ paymentStatus' = "REFUND_PENDING"
         \/ UNCHANGED <<refundStatus, paymentStatus>>
  BY DEF GatewayReserve, Asked, Sending
<1>2. j \in Job /\ JobTruth(j) /\ j.list = {}
  BY <1>1, JobKnown, EmptyList DEF Settling
<1>3. Creating(j)
  BY <1>1 DEF Creating
<1>4. Len(refund) + 1 \in 0..MaxRefunds
  <2>1. h \in Creators
    BY <1>3 DEF Creators
  <2>2. Cardinality(Creators) # 0 /\ Cardinality(Creators) \in Nat
    BY <2>1, CreatorsFinite, FS_EmptySet
  <2>3. Len(refund) + Cardinality(Creators) <= MaxRefunds /\ Len(refund) \in Nat
    BY RefundsTyped DEF TruthInv, RoomKept
  <2> QED BY <2>2, <2>3, Constants
<1>5. /\ k \in Job /\ k.at = "SEND" /\ k.rf = Len(refund) + 1 /\ k.then = j.then
      /\ k.list = {} /\ k.p = j.p
  BY <1>2, <1>4, SendingTyped, SendingHolds
<1> HIDE DEF k
<1>6. ~Creating(k)
  BY <1>5 DEF Creating
<1>7. OrderTypes'
  BY <1>1 DEF TruthInv, OrderTypes, RefundStatus, RefundedRow
<1>8. completions' \in Seq(1..(Len(refund) + 1))
  <2>1. completions \in Seq(DOMAIN refund) /\ DOMAIN refund = 1..Len(refund)
        /\ Len(refund) \in Nat
    BY RefundsTyped DEF TruthInv, RefundTypes
  <2> QED BY <1>1, <2>1
<1>9. /\ Asked(j) \in Refund /\ Asked(j).by \in Payments /\ k.p = Asked(j).by
      /\ Asked(j).status = "PENDING" /\ k.then \in Callers
  BY <1>2, <1>5, AskedTyped DEF JobTruth
<1> QED BY <1>1, <1>3, <1>5, <1>6, <1>7, <1>8, <1>9, RowAdded

(* What a change of the gateway's decision on row r leaves true. *)
LEMMA ProviderStep ==
    ASSUME TruthInv, NEW r \in DOMAIN refund, NEW s \in {"ASKED", "MOVED", "REFUSED"},
           UNCHANGED tables, GatewayRow(r), errors' = errors,
           provider' = [provider EXCEPT ![r] = s],
           job' \in [Handlers -> Job],
           \A g \in Handlers : Creating(job'[g]) => Creating(job[g]),
           \A g \in Handlers : job'[g].at = "SEND" => job'[g] = job[g] /\ job[g].rf # r,
           provider[r] = "NONE" => ~Unsent(r), provider[r] \in {"NONE", "ASKED"},
           \A g \in Handlers : JobTruth(job'[g])
    PROVE  TruthInv'
<1>1. r \in 1..MaxRefunds /\ DOMAIN provider = 1..MaxRefunds
  BY RefundsTyped DEF TruthInv, RefundTypes
<1>2. provider'[r] = s /\ \A n \in 1..MaxRefunds : n # r => provider'[n] = provider[n]
  BY <1>1
<1>3. refund' = refund /\ gateway' = gateway /\ completions' = completions
  BY DEF tables
<1>4. OrderTypes'
  BY TypesKept
<1>5. RefundTypes'
  BY <1>3 DEF TruthInv, RefundTypes
<1>6. \A n : (GatewayRow(n)' <=> GatewayRow(n)) /\ (ManualRow(n)' <=> ManualRow(n))
  BY <1>3 DEF GatewayRow, ManualRow
<1>7. ASSUME NEW n, NEW st, n \in 1..MaxRefunds, True(n, st) PROVE True(n, st)'
  <2>1. CASE n = r
    BY <1>2, <1>7, <2>1 DEF True, Failed
  <2>2. CASE n # r
    <3>1. Unsent(n) => Unsent(n)'
      BY DEF Unsent
    <3> QED BY <1>2, <1>7, <2>2, <3>1 DEF True, Failed
  <2> QED BY <2>1, <2>2
<1>8. \A n : GatewayRow(n) => n \in 1..MaxRefunds /\ n \in DOMAIN refund
  BY RefundsTyped DEF GatewayRow
<1>9. RowsTrue'
  <2>1. ASSUME NEW n \in DOMAIN refund, GatewayRow(n)
        PROVE  True(n, refund[n].status)'
    <3>1. True(n, refund'[n].status)
      BY <1>3, <2>1 DEF TruthInv, RowsTrue
    <3>2. ASSUME NEW st, True(n, st) PROVE True(n, st)'
      BY <1>7, <1>8, <2>1, <3>2
    <3> QED BY <3>1, <3>2
  <2> QED BY <1>3, <1>6, <2>1 DEF RowsTrue
<1>10. AskedRow'
  BY <1>2, <1>6 DEF TruthInv, AskedRow
<1>11. SentOnce'
  BY DEF TruthInv, SentOnce
<1>12. RoomKept'
  <2>1. Creators' \subseteq Creators
    BY DEF Creators
  <2>2. Cardinality(Creators') <= Cardinality(Creators)
    BY <2>1, CreatorsFinite, FS_Subset
  <2>3. Cardinality(Creators) \in Nat /\ Cardinality(Creators') \in Nat /\ Len(refund) \in Nat
    BY CreatorsFinite, RefundsTyped
  <2>4. Len(refund) + Cardinality(Creators) <= MaxRefunds
    BY DEF TruthInv, RoomKept
  <2>5. Len(refund) + Cardinality(Creators') <= MaxRefunds
    BY <2>2, <2>3, <2>4, Constants
  <2> QED BY <1>3, <2>5 DEF RoomKept
<1>13. ASSUME NEW j, JobTruth(j), j.at = "SEND" => j.rf # r PROVE JobTruth(j)'
  <2>1. GatewayRow(j.rf) => j.rf \in 1..MaxRefunds
    BY <1>8
  <2>2. ASSUME NEW st, GatewayRow(j.rf), True(j.rf, st) PROVE True(j.rf, st)'
    BY <1>7, <2>1, <2>2
  <2>3. j.at = "SEND" => provider'[j.rf] = "NONE"
    BY <1>2, <1>13, <2>1 DEF JobTruth, Asking
  <2>4. j.at = "PAID_BACK" => provider'[j.rf] = "MOVED"
    BY <1>2, <1>13, <2>1 DEF JobTruth, Asking
  <2>5. refund' = refund
    BY <1>3
  <2> QED BY <1>6, <1>13, <2>2, <2>3, <2>4, <2>5 DEF JobTruth
<1>14. ASSUME NEW g \in Handlers PROVE JobTruth(job[g])'
  <2>1. job'[g].at = "SEND" => job'[g].rf # r
    OBVIOUS
  <2> QED BY <1>13, <2>1
<1>15. errors' \in 0..MaxErrors
  BY DEF TruthInv
<1> QED BY <1>4, <1>5, <1>9, <1>10, <1>11, <1>12, <1>14, <1>15 DEF TruthInv

LEMMA GatewaySendKeepsTruth ==
    ASSUME TruthInv, NEW h \in Handlers, GatewaySend(h)
    PROVE  TruthInv'
<1> DEFINE r == job[h].rf
           k == MovedTo(job[h], "WAIT")
<1>1. /\ job[h].at = "SEND" /\ Set(h, k) /\ UNCHANGED <<tables, errors>>
      /\ provider' = [provider EXCEPT ![r] = "ASKED"]
  BY DEF GatewaySend, MovedTo
<1>2. job[h] \in Job /\ JobTruth(job[h]) /\ job[h].list = {}
  BY <1>1, JobKnown, EmptyList DEF Settling
<1>3. GatewayRow(r) /\ refund[r].by = job[h].p /\ provider[r] = "NONE" /\ r \in DOMAIN refund
  BY <1>1, <1>2 DEF JobTruth, Asking, GatewayRow
<1>4. "WAIT" \in Stage
  BY DEF Stage
<1>5. k \in Job /\ k.at = "WAIT" /\ k.then = job[h].then /\ k.list = {} /\ k.rf = r /\ k.p = job[h].p
  BY <1>2, <1>4, MovedToTyped, MovedToHolds
<1> HIDE DEF k
<1>6. JobTruth(k) /\ ~Creating(k)
  BY <1>2, <1>3, <1>5 DEF JobTruth, Asking, Settling, Creating
<1>7. job \in [Handlers -> Job]
  BY DEF TruthInv
<1>8. job' \in [Handlers -> Job] /\ job'[h] = k /\ \A g \in Handlers : g # h => job'[g] = job[g]
  BY <1>1, <1>5, <1>7 DEF Set
<1>9. \A g \in Handlers : Creating(job'[g]) => Creating(job[g])
  BY <1>6, <1>8
<1>10. \A g \in Handlers : job'[g].at = "SEND" => job'[g] = job[g] /\ job[g].rf # r
  BY <1>1, <1>5, <1>8 DEF TruthInv, SentOnce
<1>11. ~Unsent(r)
  BY <1>1 DEF Unsent
<1>12. \A g \in Handlers : JobTruth(job'[g])
  BY <1>6, <1>8 DEF TruthInv
<1> HIDE DEF r
<1> QED BY <1>1, <1>3, <1>8, <1>9, <1>10, <1>11, <1>12, ProviderStep

LEMMA DecideKeepsTruth ==
    ASSUME TruthInv, NEW r \in 1..MaxRefunds, Decide(r)
    PROVE  TruthInv'
<1>1. PICK s \in {"MOVED", "REFUSED"} : provider' = [provider EXCEPT ![r] = s]
  BY DEF Decide
<1>2. provider[r] = "ASKED" /\ UNCHANGED <<tables, job, errors>>
  BY DEF Decide
<1>3. GatewayRow(r) /\ r \in DOMAIN refund
  BY <1>2 DEF TruthInv, AskedRow, GatewayRow
<1>4. \A g \in Handlers : job[g].at = "SEND" => job[g].rf # r
  BY <1>2 DEF TruthInv, JobTruth
<1>5. job' \in [Handlers -> Job] /\ job' = job
  BY <1>2 DEF TruthInv
<1>6. \A g \in Handlers : JobTruth(job'[g])
  BY <1>5 DEF TruthInv
<1> QED BY <1>1, <1>2, <1>3, <1>4, <1>5, <1>6, ProviderStep

(* The row r of a gateway refund takes a status that is true. *)
LEMMA StatusStep ==
    ASSUME TruthInv, NEW h \in Handlers, NEW k, Follows(h, k), Set(h, k), OrderTypes',
           UNCHANGED <<provider, gateway>>, errors' = errors,
           NEW r, GatewayRow(r), NEW s \in {"PROCESSING", "COMPLETED", "FAILED"}, True(r, s),
           refund' = [refund EXCEPT ![r].status = s],
           completions' = completions \/ completions' = Processed(r)
    PROVE  TruthInv'
<1>1. r \in DOMAIN refund /\ refund \in Seq(Refund) /\ refund[r] \in Refund
  BY RefundsTyped DEF GatewayRow
<1>2. s \in RefundStatus
  BY DEF RefundStatus
<1>3. /\ refund' \in Seq(Refund) /\ Len(refund') = Len(refund)
      /\ refund'[r] = [refund[r] EXCEPT !.status = s]
      /\ \A n \in DOMAIN refund : n # r => refund'[n] = refund[n]
  BY <1>1, <1>2, StatusChanged
<1>4. refund'[r].status = s /\ refund'[r].by = refund[r].by
  BY <1>1, <1>2, <1>3, RowWithStatus
<1>5. completions' \in Seq(DOMAIN refund)
  <2>1. completions \in Seq(DOMAIN refund)
    BY DEF TruthInv, RefundTypes
  <2>2. Append(completions, r) \in Seq(DOMAIN refund)
    BY <1>1, <2>1
  <2> QED BY <2>1, <2>2 DEF Processed
<1>6. \A n \in DOMAIN refund : /\ refund'[n].by = refund[n].by
                               /\ \/ refund'[n].status = refund[n].status
                                  \/ True(n, refund'[n].status)
  BY <1>3, <1>4
<1>7. errors' \in 0..MaxErrors
  BY DEF TruthInv
<1> QED BY <1>3, <1>5, <1>6, <1>7, RowsKept

LEMMA AskingJob ==
    ASSUME TruthInv, NEW h \in Handlers, job[h].at \in Asking
    PROVE  /\ job[h] \in Job /\ JobTruth(job[h]) /\ GatewayRow(job[h].rf)
           /\ job[h].rf \in DOMAIN refund /\ refund[job[h].rf].by = job[h].p
           /\ job[h].list = {} /\ job[h].p \in Payments
BY JobKnown DEF JobTruth, Asking, Settling, GatewayRow

LEMMA OrderUnchanged ==
    ASSUME TruthInv, UNCHANGED <<orderVars, row, issue>>
    PROVE  OrderTypes'
BY DEF TruthInv, OrderTypes, orderVars

LEMMA AnswerTrue ==
    ASSUME NEW r, NEW s \in {"FAILED", "SUCCESS"}, Answer(r) = s
    PROVE  provider[r] = IF s = "FAILED" THEN "REFUSED" ELSE "MOVED"
<1>1. CASE provider[r] = "REFUSED"
  BY <1>1 DEF Answer
<1>2. CASE provider[r] # "REFUSED" /\ provider[r] = "MOVED" /\ gateway[refund[r].by] = "MOMO"
  BY <1>2 DEF Answer
<1>3. CASE provider[r] # "REFUSED" /\ ~(provider[r] = "MOVED" /\ gateway[refund[r].by] = "MOMO")
  <2>1. Answer(r) = "PENDING"
    BY <1>3 DEF Answer
  <2> QED BY <2>1
<1> QED BY <1>1, <1>2, <1>3

LEMMA GatewayPendingKeepsTruth ==
    ASSUME TruthInv, NEW h \in Handlers, GatewayPending(h)
    PROVE  TruthInv'
<1>1. /\ job[h].at = "WAIT" /\ Set(h, NoJob)
      /\ refund' = [refund EXCEPT ![job[h].rf].status = "PROCESSING"]
      /\ UNCHANGED <<orderVars, gateway, row, completions, issue, provider, errors>>
  BY DEF GatewayPending, Waiting
<1>2. GatewayRow(job[h].rf)
  BY <1>1, AskingJob DEF Asking
<1>3. True(job[h].rf, "PROCESSING")
  BY DEF True
<1>4. OrderTypes'
  BY <1>1, OrderUnchanged
<1> QED BY <1>1, <1>2, <1>3, <1>4, NoJobFollows, StatusStep

LEMMA GatewayErrorKeepsTruth ==
    ASSUME TruthInv, NEW h \in Handlers, GatewayError(h)
    PROVE  TruthInv'
<1>1. /\ job[h].at \in Asking /\ Set(h, NoJob)
      /\ refund' = [refund EXCEPT ![job[h].rf].status = "PROCESSING"]
      /\ UNCHANGED <<orderVars, gateway, row, completions, issue, provider, errors>>
  BY DEF GatewayError, Asking
<1>2. GatewayRow(job[h].rf)
  BY <1>1, AskingJob
<1>3. True(job[h].rf, "PROCESSING")
  BY DEF True
<1>4. OrderTypes'
  BY <1>1, OrderUnchanged
<1> QED BY <1>1, <1>2, <1>3, <1>4, NoJobFollows, StatusStep

LEMMA AskingFollows ==
    ASSUME TruthInv, NEW h \in Handlers, job[h].at \in Asking, NEW k \in Job,
           k.at \in {"WAIT", "UNDO", "PAID_BACK"}, k.rf = job[h].rf, k.p = job[h].p,
           k.then = job[h].then, k.list = job[h].list,
           k.at = "PAID_BACK" => provider[k.rf] = "MOVED"
    PROVE  Follows(h, k)
<1>1. JobTruth(k)
  BY AskingJob DEF JobTruth, Asking, Settling
<1> QED BY <1>1 DEF Follows, Creating

LEMMA GatewayRefusedKeepsTruth ==
    ASSUME TruthInv, NEW h \in Handlers, GatewayRefused(h)
    PROVE  TruthInv'
<1> DEFINE k == MovedTo(job[h], "UNDO")
<1>1. /\ job[h].at = "WAIT" /\ Answer(job[h].rf) = "FAILED"
      /\ Set(h, k) \/ Set(h, NoJob)
      /\ refund' = [refund EXCEPT ![job[h].rf].status = "FAILED"]
      /\ UNCHANGED <<orderVars, gateway, row, completions, issue, provider, errors>>
  BY DEF GatewayRefused, Waiting, MovedTo
<1>2. job[h] \in Job /\ GatewayRow(job[h].rf)
  BY <1>1, AskingJob DEF Asking
<1>3. True(job[h].rf, "FAILED")
  BY <1>1, AnswerTrue DEF True, Failed
<1>4. OrderTypes'
  BY <1>1, OrderUnchanged
<1>5. k \in Job /\ k.at = "UNDO" /\ k.rf = job[h].rf /\ k.p = job[h].p /\ k.then = job[h].then
      /\ k.list = job[h].list
  BY <1>2, MovedToTyped, MovedToHolds DEF Stage
<1> HIDE DEF k
<1>6. Follows(h, k)
  BY <1>1, <1>5, AskingFollows DEF Asking
<1>7. PICK n : Set(h, n) /\ Follows(h, n)
  BY <1>1, <1>6, NoJobFollows
<1> QED BY <1>1, <1>2, <1>3, <1>4, <1>7, StatusStep

LEMMA GatewayUndoKeepsTruth ==
    ASSUME TruthInv, NEW h \in Handlers, GatewayUndo(h)
    PROVE  TruthInv'
<1>1. OrderTypes'
  BY DEF GatewayUndo, TruthInv, OrderTypes, RefundStatus, RefundedRow
<1>2. RestStep(h)
  BY <1>1, NoJobAtRest DEF GatewayUndo, RestStep
<1> QED BY <1>2, RestStepKeepsTruth

Summed(j, at, total, ofPayment) == [j EXCEPT !.total = total, !.ofPayment = ofPayment, !.at = at]

LEMMA SummedTyped ==
    ASSUME NEW j \in Job, NEW at \in Stage, NEW total \in Nat, NEW ofPayment \in Nat
    PROVE  Summed(j, at, total, ofPayment) \in Job
BY DEF Summed, Job

LEMMA SummedHolds ==
    ASSUME NEW j \in Job, NEW at, NEW total, NEW ofPayment,
           NEW k, k = Summed(j, at, total, ofPayment)
    PROVE  /\ k.at = at /\ k.total = total /\ k.ofPayment = ofPayment /\ k.rf = j.rf
           /\ k.then = j.then /\ k.list = j.list /\ k.p = j.p /\ k.target = j.target
BY DEF Summed, Job

\* The sums that the transaction of j reads after it gave its row the status s.
AllDone(j, s)  == Completed([refund EXCEPT ![j.rf].status = s], Payments \cup Manual)
ThisDone(j, s) == Completed([refund EXCEPT ![j.rf].status = s], {refund[j.rf].by})

LEMMA WithSumsIs ==
    ASSUME TruthInv, NEW j \in Job, GatewayRow(j.rf), NEW s \in RefundStatus, NEW at \in Stage
    PROVE  /\ [WithSums(j, s) EXCEPT !.at = at] = Summed(j, at, AllDone(j, s), ThisDone(j, s))
           /\ AllDone(j, s) \in Nat /\ ThisDone(j, s) \in Nat
<1>1. [refund EXCEPT ![j.rf].status = s] \in Seq(Refund)
  BY RefundsTyped, StatusChanged DEF GatewayRow
<1>2. AllDone(j, s) \in Nat /\ ThisDone(j, s) \in Nat
  BY <1>1, CompletedType DEF AllDone, ThisDone
<1>3. WithSums(j, s) = [j EXCEPT !.total = AllDone(j, s), !.ofPayment = ThisDone(j, s)]
  BY DEF WithSums, AllDone, ThisDone
<1>4. [[j EXCEPT !.total = AllDone(j, s), !.ofPayment = ThisDone(j, s)] EXCEPT !.at = at]
        = Summed(j, at, AllDone(j, s), ThisDone(j, s))
  BY DEF Summed, Job
<1> QED BY <1>2, <1>3, <1>4

LEMMA GatewaySucceedsKeepsTruth ==
    ASSUME TruthInv, NEW h \in Handlers, GatewaySucceeds(h)
    PROVE  TruthInv'
<1> DEFINE j == job[h]
           k == Summed(j, "PAID_BACK", AllDone(j, "COMPLETED"), ThisDone(j, "COMPLETED"))
<1>1. /\ j.at = "WAIT" /\ Answer(j.rf) = "SUCCESS" /\ UNCHANGED <<tables, provider, errors>>
      /\ Set(h, [WithSums(j, "COMPLETED") EXCEPT !.at = "PAID_BACK"])
  BY DEF GatewaySucceeds, Waiting
<1>2. j \in Job /\ GatewayRow(j.rf)
  BY <1>1, AskingJob DEF Asking
<1>3. "COMPLETED" \in RefundStatus /\ "PAID_BACK" \in Stage
  BY DEF RefundStatus, Stage
<1>4. Set(h, k) /\ AllDone(j, "COMPLETED") \in Nat /\ ThisDone(j, "COMPLETED") \in Nat
  BY <1>1, <1>2, <1>3, WithSumsIs
<1>5. provider[j.rf] = "MOVED"
  BY <1>1, AnswerTrue
<1>6. /\ k \in Job /\ k.at = "PAID_BACK" /\ k.rf = j.rf /\ k.p = j.p /\ k.then = j.then
      /\ k.list = j.list
  BY <1>2, <1>3, <1>4, SummedTyped, SummedHolds
<1> HIDE DEF k
<1>7. Follows(h, k)
  BY <1>1, <1>5, <1>6, AskingFollows DEF Asking
<1>8. errors' \in 0..MaxErrors
  BY <1>1 DEF TruthInv
<1> QED BY <1>1, <1>4, <1>7, <1>8, LocalStep

LEMMA PaidBackTypes ==
    ASSUME TruthInv, NEW j \in Job, GatewayRow(j.rf), PaidBack(j), UNCHANGED <<orderStatus, issue>>
    PROVE  /\ OrderTypes' /\ completions' = Processed(j.rf)
           /\ refund' = [refund EXCEPT ![j.rf].status = "COMPLETED"]
<1>1. j.total \in Nat
  BY DEF Job
<1>2. resolveRefundPaymentStatus(j.total) \in RefundedRow
  BY DEF resolveRefundPaymentStatus, RefundedRow
<1>3. amountRefunded' \in Nat /\ refundStatus' \in RefundStatus \cup {"NONE"}
      /\ paymentStatus' \in RefundedRow
  BY <1>1, <1>2 DEF PaidBack, TruthInv, OrderTypes, RefundStatus
<1>4. row' \in [Payments -> RefundedRow]
  BY DEF PaidBack, TruthInv, OrderTypes, RefundedRow
<1> QED BY <1>3, <1>4 DEF PaidBack, TruthInv, OrderTypes

LEMMA GatewayPaidBackKeepsTruth ==
    ASSUME TruthInv, NEW h \in Handlers, GatewayPaidBack(h)
    PROVE  TruthInv'
<1>1. /\ job[h].at = "PAID_BACK" /\ PaidBack(job[h]) /\ Set(h, NoJob)
      /\ UNCHANGED <<orderStatus, gateway, issue, provider, errors>>
  BY DEF GatewayPaidBack
<1>2. job[h] \in Job /\ GatewayRow(job[h].rf) /\ JobTruth(job[h])
  BY <1>1, AskingJob DEF Asking
<1>3. True(job[h].rf, "COMPLETED")
  BY <1>1, <1>2 DEF JobTruth, True
<1>4. /\ OrderTypes' /\ completions' = Processed(job[h].rf)
      /\ refund' = [refund EXCEPT ![job[h].rf].status = "COMPLETED"]
  BY <1>1, <1>2, PaidBackTypes
<1> QED BY <1>1, <1>2, <1>3, <1>4, NoJobFollows, StatusStep


-----------------------------------------------------------------------------
(* finalizeGatewayRefund *)

Finalizing(r, list, target) ==
    [NoJob EXCEPT !.at = "FINALIZE", !.rf = r, !.list = list, !.target = target]

LEMMA FinalizingTyped ==
    ASSUME NEW r \in 0..MaxRefunds, NEW list \in SUBSET (1..MaxRefunds),
           NEW target \in RefundStatus
    PROVE  Finalizing(r, list, target) \in Job
<1>1. "FINALIZE" \in Stage
  BY DEF Stage
<1> QED BY <1>1, NoJobTyped DEF Finalizing, Job

LEMMA FinalizingHolds ==
    ASSUME NEW r, NEW list, NEW target, NEW k, k = Finalizing(r, list, target)
    PROVE  /\ k.at = "FINALIZE" /\ k.rf = r /\ k.list = list /\ k.target = target
           /\ k.then = "IDLE"
<1>1. NoJob.then = "IDLE"
  BY DEF NoJob
<1> QED BY <1>1, NoJobTyped DEF Finalizing, Job

Querying(list) == [NoJob EXCEPT !.at = "QUERY", !.list = list]

LEMMA QueryingFollows ==
    ASSUME NEW h, NEW list \in SUBSET (1..MaxRefunds), \A r \in list : GatewayRow(r)
    PROVE  Follows(h, Querying(list)) /\ Querying(list).at = "QUERY"
<1>1. "QUERY" \in Stage
  BY DEF Stage
<1>2. Querying(list) \in Job
  BY <1>1, NoJobTyped DEF Querying, Job
<1>3. NoJob.then = "IDLE"
  BY DEF NoJob
<1>4. /\ Querying(list).at = "QUERY" /\ Querying(list).then = "IDLE"
      /\ Querying(list).list = list
  BY <1>3, NoJobTyped DEF Querying, Job
<1> QED BY <1>2, <1>4, QuietFollows DEF Quiet, Callers

LEMMA ContinueFollows ==
    ASSUME NEW h, NEW list \in SUBSET (1..MaxRefunds), \A r \in list : GatewayRow(r)
    PROVE  Follows(h, Continue(list))
<1>1. CASE list = {}
  BY <1>1, NoJobFollows DEF Continue
<1>2. CASE list # {}
  <2>1. Continue(list) = Querying(list)
    BY <1>2 DEF Continue, Querying
  <2> QED BY <2>1, QueryingFollows
<1> QED BY <1>1, <1>2

\* The gateway has decided, or never will.
LEMMA OutcomeTrue ==
    ASSUME NEW r, Outcome(r) # "NONE"
    PROVE  Outcome(r) \in {"COMPLETED", "FAILED"} /\ True(r, Outcome(r))
<1>1. CASE provider[r] = "MOVED"
  <2>1. Outcome(r) = "COMPLETED"
    BY <1>1 DEF Outcome
  <2> QED BY <1>1, <2>1 DEF True
<1>2. CASE provider[r] = "REFUSED"
  <2>1. Outcome(r) = "FAILED"
    BY <1>2 DEF Outcome
  <2> QED BY <1>2, <2>1 DEF True, Failed
<1>3. CASE provider[r] \notin {"MOVED", "REFUSED"}
  BY <1>3 DEF Outcome
<1> QED BY <1>1, <1>2, <1>3

LEMMA FinalizingFollows ==
    ASSUME TruthInv, NEW h, NEW r, GatewayRow(r), NEW target \in {"COMPLETED", "FAILED"},
           True(r, target), NEW list \in SUBSET (1..MaxRefunds), \A n \in list : GatewayRow(n)
    PROVE  Follows(h, Finalizing(r, list, target))
<1> DEFINE k == Finalizing(r, list, target)
<1>1. r \in 0..MaxRefunds /\ target \in RefundStatus
  BY RefundsTyped, Constants DEF GatewayRow, RefundStatus
<1>2. /\ k \in Job /\ k.at = "FINALIZE" /\ k.rf = r /\ k.list = list /\ k.target = target
      /\ k.then = "IDLE"
  BY <1>1, FinalizingTyped, FinalizingHolds
<1> HIDE DEF k
<1>3. JobTruth(k)
  BY <1>2 DEF JobTruth, Asking, Settling, Callers
<1>4. ~Creating(k)
  BY <1>2 DEF Creating
<1>5. Follows(h, k)
  BY <1>2, <1>3, <1>4 DEF Follows
<1> QED BY <1>5 DEF k

LEMMA ListKnown ==
    ASSUME TruthInv, NEW h \in Handlers
    PROVE  /\ job[h].list \in SUBSET (1..MaxRefunds)
           /\ \A r \in job[h].list : GatewayRow(r)
BY JobKnown DEF JobTruth, Job

LEMMA CronTakeKeepsTruth ==
    ASSUME TruthInv, NEW h \in Handlers, CronTake(h)
    PROVE  TruthInv'
<1> DEFINE waiting == {r \in Ids(refund, Payments, Queried) :
                          gateway[refund[r].by] = "ZALOPAY"}
<1>1. Set(h, Querying(waiting)) /\ UNCHANGED <<tables, provider, errors>>
  BY DEF CronTake, Querying
<1>2. \A r \in waiting : GatewayRow(r)
  BY DEF Ids, GatewayRow
<1>3. waiting \in SUBSET (1..MaxRefunds)
  BY <1>2, RefundsTyped DEF GatewayRow
<1> HIDE DEF waiting
<1>4. Follows(h, Querying(waiting))
  BY <1>2, <1>3, QueryingFollows
<1>5. errors' \in 0..MaxErrors
  BY <1>1 DEF TruthInv
<1> QED BY <1>1, <1>4, <1>5, LocalStep

LEMMA CronQueryKeepsTruth ==
    ASSUME TruthInv, NEW h \in Handlers, CronQuery(h)
    PROVE  TruthInv'
<1>1. UNCHANGED <<tables, provider, errors>>
  BY DEF CronQuery
<1>2. PICK r \in job[h].list :
        Set(h, IF Outcome(r) = "NONE" THEN Continue(job[h].list \ {r})
               ELSE Finalizing(r, job[h].list \ {r}, Outcome(r)))
  BY DEF CronQuery, Finalizing
<1>3. /\ GatewayRow(r) /\ job[h].list \ {r} \in SUBSET (1..MaxRefunds)
      /\ \A n \in job[h].list \ {r} : GatewayRow(n)
  BY <1>2, ListKnown
<1>4. errors' \in 0..MaxErrors
  BY <1>1 DEF TruthInv
<1>5. CASE Outcome(r) = "NONE"
  <2>1. Follows(h, Continue(job[h].list \ {r}))
    BY <1>3, ContinueFollows
  <2> QED BY <1>1, <1>2, <1>4, <1>5, <2>1, LocalStep
<1>6. CASE Outcome(r) # "NONE"
  <2>1. Follows(h, Finalizing(r, job[h].list \ {r}, Outcome(r)))
    BY <1>3, <1>6, OutcomeTrue, FinalizingFollows
  <2> QED BY <1>1, <1>2, <1>4, <1>6, <2>1, LocalStep
<1> QED BY <1>5, <1>6

LEMMA FinalizeManuallyKeepsTruth ==
    ASSUME TruthInv, NEW h \in Handlers, NEW r \in DOMAIN refund, FinalizeManually(h, r)
    PROVE  TruthInv'
<1> DEFINE lost == provider[r] = "NONE" /\ Unsent(r)
           target == IF lost THEN "FAILED" ELSE Outcome(r)
<1>1. GatewayRow(r) /\ (Outcome(r) # "NONE" \/ lost)
      /\ UNCHANGED <<tables, provider, errors>>
  BY DEF FinalizeManually, GatewayRow, Unsent
<1>2. Set(h, [NoJob EXCEPT !.at = "FINALIZE", !.rf = r, !.target = target])
  BY DEF FinalizeManually, Unsent
<1>3. target \in {"COMPLETED", "FAILED"} /\ True(r, target)
  <2>1. CASE lost
    BY <2>1 DEF True, Failed
  <2>2. CASE ~lost
    BY <1>1, <2>2, OutcomeTrue
  <2> QED BY <2>1, <2>2
<1> HIDE DEF target
<1>4. [NoJob EXCEPT !.at = "FINALIZE", !.rf = r, !.target = target] = Finalizing(r, {}, target)
  <2>1. NoJob.list = {}
    BY DEF NoJob
  <2> QED BY <2>1, NoJobTyped DEF Finalizing, Job
<1>5. Follows(h, Finalizing(r, {}, target))
  BY <1>1, <1>3, FinalizingFollows
<1>6. errors' \in 0..MaxErrors
  BY <1>1 DEF TruthInv
<1> QED BY <1>1, <1>2, <1>4, <1>5, <1>6, LocalStep

LEMMA SettlingJob ==
    ASSUME TruthInv, NEW h \in Handlers, job[h].at \in Settling
    PROVE  /\ job[h] \in Job /\ job[h].then \in Callers /\ GatewayRow(job[h].rf)
           /\ job[h].target \in {"COMPLETED", "FAILED"} /\ True(job[h].rf, job[h].target)
BY JobKnown DEF JobTruth

LEMMA FinalizeClaimKeepsTruth ==
    ASSUME TruthInv, NEW h \in Handlers, FinalizeClaim(h)
    PROVE  TruthInv'
<1> DEFINE j == job[h]
           k == Summed(j, "FINALIZE_COMMIT", AllDone(j, j.target), ThisDone(j, j.target))
<1>1. /\ j.at = "FINALIZE" /\ UNCHANGED <<tables, provider, errors>>
      /\ \/ Set(h, [WithSums(j, j.target) EXCEPT !.at = "FINALIZE_COMMIT"])
         \/ Set(h, Continue(j.list))
  BY DEF FinalizeClaim
<1>2. /\ j \in Job /\ j.then \in Callers /\ GatewayRow(j.rf)
      /\ j.target \in {"COMPLETED", "FAILED"} /\ True(j.rf, j.target)
  BY <1>1, SettlingJob DEF Settling
<1>3. j.list \in SUBSET (1..MaxRefunds) /\ \A r \in j.list : GatewayRow(r)
  BY ListKnown
<1>4. errors' \in 0..MaxErrors
  BY <1>1 DEF TruthInv
<1>5. CASE Set(h, Continue(j.list))
  <2>1. Follows(h, Continue(j.list))
    BY <1>3, ContinueFollows
  <2> QED BY <1>1, <1>4, <1>5, <2>1, LocalStep
<1>6. CASE Set(h, [WithSums(j, j.target) EXCEPT !.at = "FINALIZE_COMMIT"])
  <2>1. j.target \in RefundStatus /\ "FINALIZE_COMMIT" \in Stage
    BY <1>2 DEF RefundStatus, Stage
  <2>2. Set(h, k) /\ AllDone(j, j.target) \in Nat /\ ThisDone(j, j.target) \in Nat
    BY <1>2, <1>6, <2>1, WithSumsIs
  <2>3. /\ k \in Job /\ k.at = "FINALIZE_COMMIT" /\ k.rf = j.rf /\ k.then = j.then
        /\ k.list = j.list /\ k.target = j.target
    BY <1>2, <2>1, <2>2, SummedTyped, SummedHolds
  <2> HIDE DEF k, j
  <2>4. JobTruth(k)
    BY <1>2, <1>3, <2>3 DEF JobTruth, Asking, Settling
  <2>5. Follows(h, k)
    BY <2>3, <2>4 DEF Follows, Creating
  <2> QED BY <1>1, <1>4, <2>2, <2>5, LocalStep
<1> QED BY <1>1, <1>5, <1>6

LEMMA FinalizeCompletedKeepsTruth ==
    ASSUME TruthInv, NEW h \in Handlers, FinalizeCompleted(h)
    PROVE  TruthInv'
<1>1. /\ job[h].at = "FINALIZE_COMMIT" /\ job[h].target = "COMPLETED" /\ PaidBack(job[h])
      /\ Set(h, Continue(job[h].list))
      /\ UNCHANGED <<orderStatus, gateway, issue, provider, errors>>
  BY DEF FinalizeCompleted
<1>2. job[h] \in Job /\ GatewayRow(job[h].rf) /\ True(job[h].rf, "COMPLETED")
  BY <1>1, SettlingJob DEF Settling
<1>3. /\ OrderTypes' /\ completions' = Processed(job[h].rf)
      /\ refund' = [refund EXCEPT ![job[h].rf].status = "COMPLETED"]
  BY <1>1, <1>2, PaidBackTypes
<1>4. Follows(h, Continue(job[h].list))
  BY ListKnown, ContinueFollows
<1> QED BY <1>1, <1>2, <1>3, <1>4, StatusStep

LEMMA FinalizeFailedKeepsTruth ==
    ASSUME TruthInv, NEW h \in Handlers, FinalizeFailed(h)
    PROVE  TruthInv'
<1> DEFINE j == job[h]
<1>1. /\ j.at = "FINALIZE_COMMIT" /\ j.target = "FAILED"
      /\ refund' = [refund EXCEPT ![j.rf].status = "FAILED"]
      /\ Set(h, Continue(j.list))
      /\ UNCHANGED <<orderStatus, amountRefunded, gateway, completions, issue, provider, errors>>
  BY DEF FinalizeFailed
<1>2. GatewayRow(j.rf) /\ True(j.rf, "FAILED")
  BY <1>1, SettlingJob DEF Settling
<1>3. OrderTypes'
  <2>1. \/ /\ row' = [row EXCEPT ![refund[j.rf].by] = "REFUND_REQUIRED"]
           /\ UNCHANGED <<refundStatus, paymentStatus>>
        \/ /\ refundStatus' = "FAILED" /\ UNCHANGED row
           /\ paymentStatus' = resolveRefundPaymentStatus(j.total)
    BY DEF FinalizeFailed
  <2>2. resolveRefundPaymentStatus(j.total) \in RefundedRow
    BY DEF resolveRefundPaymentStatus, RefundedRow
  <2>3. row' \in [Payments -> RefundedRow]
    BY <2>1 DEF TruthInv, OrderTypes, RefundedRow
  <2>4. refundStatus' \in RefundStatus \cup {"NONE"} /\ paymentStatus' \in RefundedRow
    BY <2>1, <2>2 DEF TruthInv, OrderTypes, RefundStatus
  <2> QED BY <1>1, <2>3, <2>4 DEF TruthInv, OrderTypes
<1>4. Follows(h, Continue(j.list))
  BY ListKnown, ContinueFollows
<1> QED BY <1>1, <1>2, <1>3, <1>4, StatusStep

LEMMA FinalizeErrorKeepsTruth ==
    ASSUME TruthInv, NEW h \in Handlers, FinalizeError(h)
    PROVE  TruthInv'
<1>1. /\ errors < MaxErrors /\ errors' = errors + 1 /\ UNCHANGED <<tables, provider>>
      /\ \/ \E r \in job[h].list : Set(h, Continue(job[h].list \ {r}))
         \/ Set(h, Continue(job[h].list))
  BY DEF FinalizeError
<1>2. errors' \in 0..MaxErrors
  BY <1>1, Constants DEF TruthInv
<1>3. PICK list : list \subseteq job[h].list /\ Set(h, Continue(list))
  BY <1>1
<1>4. Follows(h, Continue(list))
  BY <1>3, ListKnown, ContinueFollows
<1> QED BY <1>1, <1>2, <1>3, <1>4, LocalStep

-----------------------------------------------------------------------------
(* Steps of nobody's request *)

(* The customer, and the goods on their way back: no request takes part. *)
LEMMA OutsideStep ==
    ASSUME TruthInv, OrderTypes', UNCHANGED <<gateway, refund, completions, provider, job, errors>>
    PROVE  TruthInv'
<1>1. \A r : (GatewayRow(r)' <=> GatewayRow(r)) /\ (ManualRow(r)' <=> ManualRow(r))
  BY DEF GatewayRow, ManualRow
<1>2. \A r, s : True(r, s)' <=> True(r, s)
  BY DEF True, Failed, Unsent
<1>3. RefundTypes' /\ AskedRow' /\ SentOnce'
  BY <1>1 DEF TruthInv, RefundTypes, AskedRow, SentOnce
<1>4. RowsTrue'
  BY <1>1, <1>2 DEF TruthInv, RowsTrue
<1>5. RoomKept'
  BY DEF TruthInv, RoomKept, Creators
<1>6. \A j : JobTruth(j) => JobTruth(j)'
  BY <1>1, <1>2 DEF JobTruth
<1> QED BY <1>3, <1>4, <1>5, <1>6 DEF TruthInv

LEMMA CustomerKeepsTruth ==
    ASSUME TruthInv, Customer
    PROVE  TruthInv'
<1>1. ASSUME NEW i, ReportDefect(i) PROVE TruthInv'
  <2>1. OrderTypes'
    BY <1>1, IssueTyped DEF ReportDefect, TruthInv, OrderTypes, Phase
  <2> QED BY <1>1, <2>1, OutsideStep DEF ReportDefect
<1>2. ASSUME NEW i, ReportNotReceived(i) PROVE TruthInv'
  <2>1. OrderTypes'
    BY <1>2, IssueTyped DEF ReportNotReceived, TruthInv, OrderTypes, orderVars
  <2> QED BY <1>2, <2>1, OutsideStep DEF ReportNotReceived
<1> QED BY <1>1, <1>2 DEF Customer

LEMMA ReceiveGoodsKeepsTruth ==
    ASSUME TruthInv, ReceiveGoods
    PROVE  TruthInv'
<1>1. PICK to \in {"RETURN_APPROVED", "RETURNING", "RETURNED"} : MoveOrder(to)
  BY DEF ReceiveGoods
<1>2. OrderTypes'
  BY <1>1, MoveOrderTypes DEF ReceiveGoods, Phase
<1> QED BY <1>2, OutsideStep DEF ReceiveGoods

LEMMA CrashKeepsTruth ==
    ASSUME TruthInv, Crash
    PROVE  TruthInv'
<1>1. /\ errors < MaxErrors /\ errors' = errors + 1 /\ UNCHANGED <<tables, provider>>
      /\ job' = [h \in Handlers |-> NoJob]
  BY DEF Crash
<1>2. errors' \in 0..MaxErrors
  BY <1>1, Constants DEF TruthInv
<1>3. OrderTypes' /\ UNCHANGED <<gateway, refund, completions>>
  BY <1>1, TypesKept
<1>4. \A h \in Handlers : job'[h] = NoJob
  BY <1>1
<1>5. NoJob.at = "IDLE"
  BY NoJobTrue
<1>6. \A r : (GatewayRow(r)' <=> GatewayRow(r)) /\ (ManualRow(r)' <=> ManualRow(r))
  BY <1>3 DEF GatewayRow, ManualRow
<1>7. \A r, s : True(r, s) => True(r, s)'
  BY <1>1, <1>4, <1>5 DEF True, Failed, Unsent
<1>8. RefundTypes' /\ AskedRow'
  BY <1>1, <1>3, <1>6 DEF TruthInv, RefundTypes, AskedRow
<1>9. SentOnce'
  BY <1>4, <1>5 DEF SentOnce
<1>10. RowsTrue'
  <2>1. ASSUME NEW r \in DOMAIN refund, GatewayRow(r) PROVE True(r, refund[r].status)'
    <3>1. True(r, refund'[r].status)
      BY <1>3, <2>1 DEF TruthInv, RowsTrue
    <3> QED BY <1>7, <3>1
  <2> QED BY <1>3, <1>6, <1>7 DEF TruthInv, RowsTrue
<1>11. RoomKept'
  <2>1. Creators' = {}
    BY <1>4, NoJobIdle DEF Creators
  <2>2. Cardinality(Creators') = 0
    BY <2>1, FS_EmptySet
  <2>3. Len(refund') + Cardinality(Creators') <= MaxRefunds
    BY <1>3, <2>2, RefundsTyped
  <2> QED BY <2>3 DEF RoomKept
<1>12. \A h \in Handlers : JobTruth(job[h])'
  <2>1. JobTruth(NoJob)'
    BY DEF NoJob, JobTruth, Callers, Asking, Settling
  <2> QED BY <1>4, <2>1
<1>13. job' \in [Handlers -> Job]
  BY <1>1, NoJobTyped
<1> QED BY <1>2, <1>3, <1>8, <1>9, <1>10, <1>11, <1>12, <1>13 DEF TruthInv

-----------------------------------------------------------------------------
(* The whole *)

LEMMA InitIsTrue == Init => TruthInv
<1> SUFFICES ASSUME Init PROVE TruthInv
  OBVIOUS
<1>1. refund = <<>> /\ completions = <<>> /\ DOMAIN refund = {} /\ Len(refund) = 0
  BY DEF Init
<1>2. OrderTypes
  BY DEF Init, OrderTypes, Phase, RefundedRow
<1>3. RefundTypes
  BY <1>1 DEF Init, RefundTypes
<1>4. \A h \in Handlers : job[h] = NoJob
  BY DEF Init
<1>5. job \in [Handlers -> Job] /\ \A h \in Handlers : JobTruth(job[h])
  BY <1>4, NoJobTyped, NoJobTrue DEF Init
<1>6. Cardinality(Creators) = 0
  <2>1. Creators = {}
    BY <1>4, NoJobIdle DEF Creators
  <2> QED BY <2>1, FS_EmptySet
<1>7. RoomKept
  BY <1>1, <1>6, Constants DEF RoomKept
<1>8. RowsTrue /\ AskedRow /\ SentOnce
  BY <1>1, <1>4, NoJobTrue DEF Init, RowsTrue, AskedRow, SentOnce
<1>9. errors \in 0..MaxErrors
  BY Constants DEF Init
<1> QED BY <1>2, <1>3, <1>5, <1>7, <1>8, <1>9 DEF TruthInv

LEMMA ReviewKeepsTruth ==
    ASSUME TruthInv, NEW h \in Handlers, Review(h)
    PROVE  TruthInv'
<1>1. CASE \E i \in Issues : ReviewRead(h, i)
  BY <1>1, ReviewReadRests, RestStepKeepsTruth
<1>2. CASE ReviewReject(h) \/ ReviewApprove(h) \/ ReviewReturn(h) \/ ReviewNow(h)
           \/ ReviewRollback(h)
  BY <1>2, ReviewRejectRests, ReviewApproveRests, ReviewReturnRests, ReviewNowRests,
     ReviewRollbackRests, RestStepKeepsTruth
<1>3. "SHIPPING" \in Callers /\ "RETURN" \in Callers /\ "LOOP" \in Callers /\ "NOW" \in Callers
      /\ {"REQUIRED", "COMPLETED"} \subseteq RefundStatus \ {"PENDING"}
  BY DEF Callers, RefundStatus
<1>4. CASE ReviewGoods(h)
  BY <1>3, <1>4, ReviewGoodsCalls, CalledKeepsTruth
<1>5. CASE ReviewShipping(h)
  BY <1>3, <1>5, ReviewShippingCalls, CalledKeepsTruth, RestStepKeepsTruth
<1>6. CASE CompleteOpenRefunds(h)
  BY <1>3, <1>6, CompleteOpenRefundsCalls, CalledKeepsTruth, RestStepKeepsTruth
<1>7. CASE ReviewResend(h)
  BY <1>3, <1>7, ReviewResendCalls, CalledKeepsTruth
<1>8. CASE ReopenRead(h) \/ ReopenWrite(h) \/ ReopenCommit(h)
  BY <1>8, ReopenReadKeepsTruth, ReopenWriteKeepsTruth, ReopenCommitKeepsTruth
<1> QED BY <1>1, <1>2, <1>4, <1>5, <1>6, <1>7, <1>8 DEF Review

LEMMA StutterKeepsTruth == TruthInv /\ UNCHANGED vars => TruthInv'
<1> SUFFICES ASSUME TruthInv, UNCHANGED vars PROVE TruthInv'
  OBVIOUS
<1>1. UNCHANGED tables /\ UNCHANGED <<provider, job, errors>>
  BY DEF vars
<1> QED BY <1>1, TypesKept, OutsideStep

LEMMA NextKeepsTruth == TruthInv /\ [Next]_vars => TruthInv'
<1> SUFFICES ASSUME TruthInv, Next PROVE TruthInv'
  BY StutterKeepsTruth
<1>1. Administrators \subseteq Handlers /\ Crons \subseteq Handlers
  BY DEF Handlers
<1>2. ASSUME NEW h \in Handlers, RefundByHand(h) PROVE TruthInv'
  BY <1>2, UpdateRefundKeepsTruth, ReadRefundsKeepsTruth, WriteRefundKeepsTruth,
     CommitRefundKeepsTruth, DatabaseErrorKeepsTruth DEF RefundByHand
<1>3. ASSUME NEW h \in Handlers, RefundByGateway(h) PROVE TruthInv'
  BY <1>3, GatewayReadKeepsTruth, GatewayReserveKeepsTruth, GatewaySendKeepsTruth,
     GatewayPendingKeepsTruth, GatewayRefusedKeepsTruth, GatewayUndoKeepsTruth,
     GatewaySucceedsKeepsTruth, GatewayPaidBackKeepsTruth, GatewayErrorKeepsTruth
     DEF RefundByGateway
<1>4. ASSUME NEW h \in Handlers, Finalize(h) PROVE TruthInv'
  BY <1>4, FinalizeClaimKeepsTruth, FinalizeCompletedKeepsTruth, FinalizeFailedKeepsTruth
     DEF Finalize
<1>5. ASSUME NEW h \in Handlers, Reconcile(h) PROVE TruthInv'
  BY <1>4, <1>5, CronTakeKeepsTruth, CronQueryKeepsTruth DEF Reconcile
<1>6. CASE \E h \in Administrators :
             \/ RefundByHand(h) \/ Review(h) \/ RefundByGateway(h) \/ Finalize(h)
             \/ \E r \in DOMAIN refund : FinalizeManually(h, r)
  BY <1>1, <1>2, <1>3, <1>4, <1>6, ReviewKeepsTruth, FinalizeManuallyKeepsTruth
<1>7. CASE \E c \in Crons : Reconcile(c)
  BY <1>1, <1>5, <1>7
<1>8. CASE \E h \in Handlers : FinalizeError(h)
  BY <1>8, FinalizeErrorKeepsTruth
<1> QED BY <1>6, <1>7, <1>8, CustomerKeepsTruth, ReceiveGoodsKeepsTruth, DecideKeepsTruth,
           CrashKeepsTruth DEF Next

(* What the requests know of the refunds, and the rows of the refunds table, *)
(* stay true: the inductive invariant of the two theorems below.             *)
THEOREM TruthInvariant == Spec => []TruthInv
BY InitIsTrue, NextKeepsTruth, PTL DEF Spec

LEMMA SeqOfMore ==
    ASSUME NEW S, NEW T, S \subseteq T, NEW s \in Seq(S)
    PROVE  s \in Seq(T)
OBVIOUS

LEMMA TruthIsTyped == TruthInv => TypeOK
<1> SUFFICES ASSUME TruthInv PROVE TypeOK
  OBVIOUS
<1>1. refund \in Seq(Refund) /\ Len(refund) <= MaxRefunds /\ DOMAIN refund \subseteq 1..MaxRefunds
  BY RefundsTyped
<1>2. completions \in Seq(1..MaxRefunds)
  <2>1. completions \in Seq(DOMAIN refund)
    BY DEF TruthInv, RefundTypes
  <2> QED BY <1>1, <2>1, SeqOfMore
<1> QED BY <1>1, <1>2 DEF TruthInv, OrderTypes, RefundTypes, TypeOK

(* Every table of the refunds, and what every request keeps of it, has its   *)
(* type, and no run of requests adds more rows than the instance has room    *)
(* for: each row about to be added was counted when its request read.        *)
THEOREM TypeCorrect == Spec => []TypeOK
BY TruthInvariant, TruthIsTyped, PTL

LEMMA TruthIsTheGateways == TruthInv => GatewayTruth
<1> SUFFICES ASSUME TruthInv, NEW r \in Ids(refund, Payments, {"COMPLETED", "FAILED"})
             PROVE  (refund[r].status = "COMPLETED") <=> (provider[r] = "MOVED")
  BY DEF GatewayTruth
<1>1. GatewayRow(r) /\ r \in DOMAIN refund /\ refund[r].status \in {"COMPLETED", "FAILED"}
  BY DEF Ids, GatewayRow
<1>2. True(r, refund[r].status)
  BY <1>1 DEF TruthInv, RowsTrue
<1> QED BY <1>1, <1>2 DEF True, Failed

(* finalizeGatewayRefund, refundGatewayPayment and the reconcile cron never  *)
(* record a gateway refund as completed unless the gateway moved the money,  *)
(* nor as failed if it did: for any number of administrators, crons, payments, *)
(* refunds, errors and crashes.                                              *)
THEOREM GatewayTruthHolds == Spec => []GatewayTruth
BY TruthInvariant, TruthIsTheGateways, PTL

-----------------------------------------------------------------------------
(* Money: the invariant MoneyInv adds to TruthInv what the sums over the   *)
(* refunds table are bounded by, who holds which row, and which sums a     *)
(* request in progress has read that nobody else can change meanwhile.     *)

Alone == \A a, b \in Administrators : a = b

-----------------------------------------------------------------------------
(* The invariant *)

\* What the manual transfers recorded as made, and the completed refunds of the order's own
\* payment, add up to; what is paid back or promised of a payment.
HandPaid    == SumOf(refund, Manual, {"COMPLETED"})
Given       == SumOf(refund, {Main}, {"COMPLETED"})
Reserved(p) == SumOf(refund, {p}, ReservedStatuses)
Spent(p)    == Reserved(p) + (IF p = Main THEN HandPaid ELSE 0)

\* The payment status s would be true of the refunds.
StatusTrue(s) == /\ s # "REFUND_REQUIRED"
                 /\ s = "PAID" => HandPaid = 0
                 /\ s = "REFUNDED" /\ Extras = {} => HandPaid + Given >= Price

OrderMoney == /\ \A p \in Payments : Spent(p) <= Price
              /\ AtGateway # {} => HandPaid = 0
              /\ StatusTrue(paymentStatus)
              /\ row[Main] # "REFUND_REQUIRED"

Holding(j) == j.at \in Writing /\ j.rf # 0
Locks == \A g, h \in Handlers : g # h /\ Holding(job[g]) /\ Holding(job[h])
                                => job[g].rf # job[h].rf

\* A cron round works on refunds whose request was answered, or given up.
ByCron(j) == /\ j.at \in {"IDLE", "QUERY"} \cup Settling
             /\ \A r \in j.list : refund[r].status # "PENDING"
             /\ j.at \in Settling => refund[j.rf].status # "PENDING"

\* What a transaction that ends a gateway refund knows.
Promised(j) == IF j.at = "FINALIZE_COMMIT" /\ j.target = "FAILED" THEN 0 ELSE refund[j.rf].amt
Claimed(j) ==
    j.at \in {"PAID_BACK", "FINALIZE_COMMIT"} =>
        /\ refund[j.rf].status \in Claimable
        /\ Extras = {} => j.total <= Given + Promised(j)

\* What updateRefund and reopenRefundNotReceived know.
NowPaid(j) == IF j.target = "COMPLETED" THEN j.amt ELSE 0
Hand(j) ==
    /\ j.at \in {"TX", "WRITE", "COMMIT"} =>
        /\ StatusTrue(j.read) /\ j.byGateway <= Given
        /\ j.target = "COMPLETED" => AtGateway = {} /\ j.byGateway = Given
    /\ j.at \in {"WRITE", "COMMIT"} =>
        /\ j.rf # 0 => j.rf \in OpenManual(refund)
        /\ j.target = "COMPLETED" => j.amt + HandPaid + j.byGateway <= Price
    /\ j.at = "COMMIT" =>
        /\ j.total = HandPaid + NowPaid(j) + j.byGateway
        /\ ~j.open => OpenManual(refund) \subseteq {j.rf}
    /\ j.at = "REOPEN_COMMIT" =>
        /\ j.total < Price
        /\ j.total + Part(refund[j.rf], Manual, {"COMPLETED"}) = HandPaid

\* What refundGatewayPayment knows.
Asks(j) ==
    /\ j.at = "RESERVE" => /\ j.amt + Spent(j.p) <= Price
                           /\ j.p = Main => HandPaid = 0
    /\ j.at \in {"SEND", "WAIT", "PAID_BACK"} => refund[j.rf].status = "PENDING"
    /\ j.at = "UNDO" => /\ j.p = Main /\ refund[j.rf].status = "FAILED" /\ HandPaid = 0
                        /\ refund[j.rf].amt + Spent(Main) <= Price

JobMoney(j) == Claimed(j) /\ Hand(j) /\ Asks(j)

MoneyInv ==
    /\ OrderMoney /\ Locks
    /\ \A c \in Crons : ByCron(job[c])
    /\ \A h \in Handlers : JobMoney(job[h])

-----------------------------------------------------------------------------
(* Sums of the table *)

LEMMA SumsAre ==
    /\ ByHand = HandPaid /\ Completed(refund, {Main}) = Given
    /\ \A p : Total(refund, Ids(refund, {p}, ReservedStatuses)) = Reserved(p)
BY DEF ByHand, HandPaid, Given, Reserved, Completed, SumOf

LEMMA SumsTyped ==
    ASSUME TruthInv
    PROVE  HandPaid \in Nat /\ Given \in Nat /\ \A p : Reserved(p) \in Nat /\ Spent(p) \in Nat
<1>1. refund \in Seq(Refund)
  BY RefundsTyped
<1>2. HandPaid \in Nat /\ Given \in Nat /\ \A p : Reserved(p) \in Nat
  BY <1>1, SumType DEF HandPaid, Given, Reserved
<1> QED BY <1>2 DEF Spent

LEMMA SumsTypedNext ==
    ASSUME refund' \in Seq(Refund)
    PROVE  /\ HandPaid' \in Nat /\ Given' \in Nat
           /\ \A p : Reserved(p)' \in Nat /\ Spent(p)' \in Nat
<1>1. HandPaid' \in Nat /\ Given' \in Nat /\ \A p : Reserved(p)' \in Nat
  BY SumType DEF HandPaid, Given, Reserved
<1> QED BY <1>1 DEF Spent

LEMMA GivenIsReserved ==
    ASSUME TruthInv
    PROVE  Given <= Reserved(Main)
<1>1. refund \in Seq(Refund)
  BY RefundsTyped
<1>2. {"COMPLETED"} \subseteq ReservedStatuses
  BY DEF ReservedStatuses
<1> QED BY <1>1, <1>2, SumMonotone DEF Given, Reserved

(* Nothing at the gateway: all that is reserved of the order's payment is paid back. *)
LEMMA GivenIsAll ==
    ASSUME TruthInv, AtGateway = {}
    PROVE  Reserved(Main) = Given
<1>1. Ids(refund, {Main}, ReservedStatuses) = Ids(refund, {Main}, {"COMPLETED"})
  BY DEF AtGateway, Ids, ReservedStatuses
<1> QED BY <1>1 DEF Given, Reserved, SumOf

\* The table t is that of refunds with another row r, or with the row x added.
Replaced(t, r) == /\ r \in DOMAIN refund /\ t \in Seq(Refund) /\ Len(t) = Len(refund)
                  /\ \A n \in DOMAIN refund : n # r => t[n] = refund[n]
NewId == Len(refund) + 1
Added(t, x) == x \in Refund /\ t = Append(refund, x)

LEMMA RowReplaced ==
    ASSUME TruthInv, NEW r, NEW t, Replaced(t, r), NEW S, NEW statuses
    PROVE  SumOf(t, S, statuses) + Part(refund[r], S, statuses)
             = SumOf(refund, S, statuses) + Part(t[r], S, statuses)
<1>1. refund \in Seq(Refund) /\ r \in 1..Len(refund)
      /\ t \in Seq(Refund) /\ Len(t) = Len(refund)
      /\ \A n \in 1..Len(refund) : n # r => t[n] = refund[n]
  BY RefundsTyped DEF Replaced
<1> QED BY <1>1, SumChange

LEMMA RowAddedLast ==
    ASSUME TruthInv, NEW x, NEW t, Added(t, x)
    PROVE  /\ x \in Refund /\ t \in Seq(Refund)
           /\ DOMAIN t = DOMAIN refund \cup {NewId} /\ NewId \notin DOMAIN refund
           /\ t[NewId] = x /\ \A n \in DOMAIN refund : t[n] = refund[n]
<1>1. refund \in Seq(Refund) /\ DOMAIN refund = 1..Len(refund) /\ Len(refund) \in Nat
  BY RefundsTyped
<1> QED BY <1>1 DEF Added, NewId

LEMMA RowAddedSums ==
    ASSUME TruthInv, NEW x, NEW t, Added(t, x), NEW S, NEW statuses
    PROVE  SumOf(t, S, statuses) = SumOf(refund, S, statuses) + Part(x, S, statuses)
<1>1. refund \in Seq(Refund) /\ DOMAIN refund = 1..Len(refund)
  BY RefundsTyped
<1>2. /\ x \in Refund /\ t \in Seq(Refund) /\ Len(t) = Len(refund) + 1
      /\ t[Len(refund) + 1] = x /\ \A n \in DOMAIN refund : t[n] = refund[n]
  BY <1>1 DEF Added
<1>3. \A n \in 1..Len(refund) : t[n] = refund[n]
  BY <1>1, <1>2
<1> QED BY <1>1, <1>2, <1>3, SumAppend

\* The row r takes the status s.
Takes(r, s) == refund' = [refund EXCEPT ![r].status = s]

(* What the sums become when a gateway row takes another status. *)
LEMMA StatusSums ==
    ASSUME TruthInv, NEW r, GatewayRow(r), NEW s \in RefundStatus, Takes(r, s)
    PROVE  LET x == refund[r] IN
           /\ refund' \in Seq(Refund) /\ x \in Refund /\ x.amt \in Nat /\ r \in DOMAIN refund
           /\ DOMAIN refund' = DOMAIN refund
           /\ refund'[r].status = s /\ refund'[r].amt = x.amt /\ refund'[r].by = x.by
           /\ \A n \in DOMAIN refund : n # r => refund'[n] = refund[n]
           /\ HandPaid' = HandPaid
           /\ Given' + (IF x.by = Main /\ x.status = "COMPLETED" THEN x.amt ELSE 0)
                = Given + (IF x.by = Main /\ s = "COMPLETED" THEN x.amt ELSE 0)
           /\ \A p : Reserved(p)' + (IF x.by = p /\ x.status \in ReservedStatuses THEN x.amt ELSE 0)
                       = Reserved(p) + (IF x.by = p /\ s \in ReservedStatuses THEN x.amt ELSE 0)
<1> DEFINE x == refund[r]
           y == [x EXCEPT !.status = s]
<1>1. /\ refund \in Seq(Refund) /\ x \in Refund /\ x.amt \in Nat /\ r \in DOMAIN refund
      /\ DOMAIN refund = 1..Len(refund) /\ Len(refund) \in Nat
  BY RefundsTyped DEF GatewayRow
<1>2. /\ y \in Refund /\ refund' \in Seq(Refund) /\ Len(refund') = Len(refund) /\ refund'[r] = y
      /\ \A n \in DOMAIN refund : n # r => refund'[n] = refund[n]
  BY <1>1, StatusChanged DEF Takes
<1>3. y.status = s /\ y.by = x.by /\ y.amt = x.amt
  BY <1>1, RowWithStatus
<1>4. DOMAIN refund' = DOMAIN refund
  BY <1>1, <1>2
<1> HIDE DEF y
<1>5. ASSUME NEW S, NEW statuses
      PROVE  SumOf(refund', S, statuses) + Part(x, S, statuses)
               = SumOf(refund, S, statuses) + Part(y, S, statuses)
  <2>1. Replaced(refund', r)
    BY <1>1, <1>2 DEF Replaced
  <2>2. SumOf(refund', S, statuses) + Part(refund[r], S, statuses)
          = SumOf(refund, S, statuses) + Part(refund'[r], S, statuses)
    BY <2>1, RowReplaced
  <2> QED BY <1>2, <2>2
<1>6. HandPaid' = HandPaid
  <2>1. x.by \notin Manual
    BY Constants DEF GatewayRow, Manual
  <2>2. Part(x, Manual, {"COMPLETED"}) = 0 /\ Part(y, Manual, {"COMPLETED"}) = 0
    BY <1>3, <2>1 DEF Part
  <2>3. HandPaid' + 0 = HandPaid + 0
    BY <1>5, <2>2 DEF HandPaid
  <2>4. HandPaid' \in Nat /\ HandPaid \in Nat
    BY <1>2, SumsTyped, SumsTypedNext
  <2>5. \A a, b \in Nat : a + 0 = b + 0 => a = b
    OBVIOUS
  <2> QED BY <2>3, <2>4, <2>5
<1>7. Given' + (IF x.by = Main /\ x.status = "COMPLETED" THEN x.amt ELSE 0)
                = Given + (IF x.by = Main /\ s = "COMPLETED" THEN x.amt ELSE 0)
  <2>1. Part(x, {Main}, {"COMPLETED"}) = (IF x.by = Main /\ x.status = "COMPLETED" THEN x.amt ELSE 0)
        /\ Part(y, {Main}, {"COMPLETED"}) = (IF x.by = Main /\ s = "COMPLETED" THEN x.amt ELSE 0)
    BY <1>3 DEF Part
  <2> QED BY <1>5, <2>1 DEF Given
<1>8. ASSUME NEW p
      PROVE  Reserved(p)' + (IF x.by = p /\ x.status \in ReservedStatuses THEN x.amt ELSE 0)
               = Reserved(p) + (IF x.by = p /\ s \in ReservedStatuses THEN x.amt ELSE 0)
  <2>1. Part(x, {p}, ReservedStatuses) = (IF x.by = p /\ x.status \in ReservedStatuses THEN x.amt ELSE 0)
        /\ Part(y, {p}, ReservedStatuses) = (IF x.by = p /\ s \in ReservedStatuses THEN x.amt ELSE 0)
    BY <1>3 DEF Part
  <2>2. SumOf(refund', {p}, ReservedStatuses) + Part(x, {p}, ReservedStatuses)
          = SumOf(refund, {p}, ReservedStatuses) + Part(y, {p}, ReservedStatuses)
    BY <1>5
  <2>3. Reserved(p)' = SumOf(refund', {p}, ReservedStatuses)
        /\ Reserved(p) = SumOf(refund, {p}, ReservedStatuses)
    BY DEF Reserved
  <2> QED BY <2>1, <2>2, <2>3
<1> QED BY <1>1, <1>2, <1>3, <1>4, <1>6, <1>7, <1>8

-----------------------------------------------------------------------------
(* What the requests know stays true while others work *)

LEMMA OthersAreCrons ==
    ASSUME Alone, NEW h \in Administrators
    PROVE  h \in Handlers /\ h \notin Crons /\ \A g \in Handlers : g # h => g \in Crons
BY Constants DEF Alone, Handlers

LEMMA CronsAreHandlers == Crons \subseteq Handlers /\ Administrators \subseteq Handlers
BY DEF Handlers

LEMMA PromisedType ==
    ASSUME TruthInv, NEW j, GatewayRow(j.rf)
    PROVE  Promised(j) \in Nat /\ refund[j.rf].amt \in Nat
BY RefundsTyped DEF Promised, GatewayRow

(* A cron round works on while the refund it ends is left alone. *)
LEMMA CronKept ==
    ASSUME TruthInv, NEW j \in Job, JobTruth(j), ByCron(j), Claimed(j),
           \A r : GatewayRow(r) => /\ refund'[r].amt = refund[r].amt
                                   /\ refund'[r].status = "PENDING"
                                        => refund[r].status = "PENDING",
           j.at = "FINALIZE_COMMIT" => refund'[j.rf].status = refund[j.rf].status,
           Given' \in Nat, Given <= Given'
    PROVE  ByCron(j)' /\ JobMoney(j)'
<1>1. j.at \in {"IDLE", "QUERY"} \cup Settling /\ \A r \in j.list : GatewayRow(r)
  BY DEF ByCron, JobTruth
<1>2. j.at \in Settling => GatewayRow(j.rf)
  BY DEF JobTruth
<1>3. ByCron(j)'
  BY <1>1, <1>2 DEF ByCron
<1>4. Hand(j)' /\ Asks(j)'
  BY <1>1 DEF Hand, Asks, Settling
<1>5. Claimed(j)'
  <2>1. CASE j.at = "FINALIZE_COMMIT"
    <3>1. GatewayRow(j.rf)
      BY <1>2, <2>1 DEF Settling
    <3>2. refund'[j.rf].status \in Claimable
      BY <2>1 DEF Claimed
    <3>3. Promised(j)' = Promised(j)
      BY <3>1 DEF Promised
    <3>4. Promised(j) \in Nat /\ Given \in Nat /\ j.total \in Nat
      BY <3>1, PromisedType, SumsTyped DEF Job
    <3>5. Extras = {} => j.total <= Given + Promised(j)
      BY <2>1 DEF Claimed
    <3>6. Extras = {} => j.total <= Given' + Promised(j)
      BY <3>4, <3>5
    <3> QED BY <3>2, <3>3, <3>6 DEF Claimed
  <2>2. CASE j.at # "FINALIZE_COMMIT"
    BY <1>1, <2>2 DEF Claimed, Settling
  <2> QED BY <2>1, <2>2
<1> QED BY <1>3, <1>4, <1>5 DEF JobMoney

(* A gateway refund that was still open is ended or goes on: the transfers by hand are
   as they were, and no more is reserved than before. *)
LEMMA SettleSums ==
    ASSUME TruthInv, NEW r, GatewayRow(r), refund[r].status \in Claimable,
           NEW s \in {"PROCESSING", "COMPLETED", "FAILED"}, Takes(r, s)
    PROVE  /\ HandPaid' = HandPaid /\ Given' \in Nat /\ Given <= Given'
           /\ Given' = Given + (IF refund[r].by = Main /\ s = "COMPLETED"
                                THEN refund[r].amt ELSE 0)
           /\ \A p : Reserved(p)' <= Reserved(p) /\ Spent(p)' <= Spent(p)
           /\ s = "FAILED" => Spent(refund[r].by)' + refund[r].amt = Spent(refund[r].by)
           /\ OpenManual(refund') = OpenManual(refund)
           /\ AtGateway' \subseteq AtGateway
           /\ refund[r].by = Main => AtGateway # {}
           /\ refund' \in Seq(Refund)
           /\ refund'[r].status = s /\ refund'[r].amt = refund[r].amt
           /\ refund'[r].by = refund[r].by /\ refund[r].amt \in Nat
           /\ \A n \in DOMAIN refund : n # r => refund'[n] = refund[n]
<1> DEFINE x == refund[r]
<1>1. s \in RefundStatus
  BY DEF RefundStatus
<1>2. x.status \in {"PENDING", "PROCESSING"} /\ x.status \in ReservedStatuses
      /\ x.status # "COMPLETED" /\ (s \in ReservedStatuses <=> s # "FAILED")
  BY DEF Claimable, ReservedStatuses
<1>3. /\ refund' \in Seq(Refund) /\ x.amt \in Nat /\ r \in DOMAIN refund
      /\ DOMAIN refund' = DOMAIN refund
      /\ refund'[r].status = s /\ refund'[r].amt = x.amt /\ refund'[r].by = x.by
      /\ \A n \in DOMAIN refund : n # r => refund'[n] = refund[n]
      /\ HandPaid' = HandPaid
  BY <1>1, StatusSums
<1>4. /\ HandPaid \in Nat /\ Given \in Nat /\ Given' \in Nat
      /\ \A p : Reserved(p) \in Nat /\ Reserved(p)' \in Nat
  BY <1>3, SumsTyped, SumsTypedNext
<1>5. Given' = Given + (IF x.by = Main /\ s = "COMPLETED" THEN x.amt ELSE 0)
  <2>1. Given' + (IF x.by = Main /\ x.status = "COMPLETED" THEN x.amt ELSE 0)
          = Given + (IF x.by = Main /\ s = "COMPLETED" THEN x.amt ELSE 0)
    BY <1>1, StatusSums
  <2>2. Given' + 0 = Given + (IF x.by = Main /\ s = "COMPLETED" THEN x.amt ELSE 0)
    BY <1>2, <2>1
  <2>3. \A a \in Nat : a + 0 = a
    OBVIOUS
  <2> QED BY <1>4, <2>2, <2>3
<1>6. Given <= Given'
  <2>1. \A a, b \in Nat : a <= a + b /\ a <= a + 0
    OBVIOUS
  <2> QED BY <1>3, <1>4, <1>5, <2>1
<1>7. ASSUME NEW p
      PROVE  /\ Reserved(p)' <= Reserved(p)
             /\ s = "FAILED" /\ p = x.by => Reserved(p)' + x.amt = Reserved(p)
  <2>1. Reserved(p)' + (IF x.by = p /\ x.status \in ReservedStatuses THEN x.amt ELSE 0)
          = Reserved(p) + (IF x.by = p /\ s \in ReservedStatuses THEN x.amt ELSE 0)
    BY <1>1, StatusSums
  <2>2. Reserved(p)' + (IF x.by = p THEN x.amt ELSE 0)
          = Reserved(p) + (IF x.by = p /\ s # "FAILED" THEN x.amt ELSE 0)
    BY <1>2, <2>1
  <2>3. \A a, b, c \in Nat : /\ a + c = b + c => a <= b
                             /\ a + c = b + 0 => a <= b /\ a + c = b
                             /\ a + 0 = b + 0 => a <= b
    OBVIOUS
  <2> QED BY <1>3, <1>4, <2>2, <2>3
<1>8. ASSUME NEW p
      PROVE  /\ Spent(p)' <= Spent(p)
             /\ s = "FAILED" /\ p = x.by => Spent(p)' + x.amt = Spent(p)
  <2>1. /\ Spent(p) = Reserved(p) + (IF p = Main THEN HandPaid ELSE 0)
        /\ Spent(p)' = Reserved(p)' + (IF p = Main THEN HandPaid ELSE 0)
    BY <1>3 DEF Spent
  <2>2. \A a, b, c, d \in Nat : /\ a <= b => a + c <= b + c /\ a + 0 <= b + 0
                                /\ a + d = b => a + c + d = b + c /\ a + 0 + d = b + 0
    OBVIOUS
  <2> QED BY <1>3, <1>4, <1>7, <2>1, <2>2
<1>9. OpenManual(refund') = OpenManual(refund)
  <2>1. x.by \notin Manual
    BY Constants DEF GatewayRow, Manual
  <2> QED BY <1>3, <2>1 DEF OpenManual, Ids
<1>10. AtGateway' \subseteq AtGateway /\ (x.by = Main => AtGateway # {})
  BY <1>2, <1>3 DEF AtGateway, Ids
<1> QED BY <1>3, <1>4, <1>5, <1>6, <1>7, <1>8, <1>9, <1>10

(* A request that neither holds nor asks about the refund that another ends. *)
LEMMA RequestKept ==
    ASSUME TruthInv, NEW r, GatewayRow(r), refund[r].status \in Claimable,
           NEW s \in {"PROCESSING", "COMPLETED", "FAILED"}, Takes(r, s),
           NEW j \in Job, JobTruth(j), JobMoney(j), j.at \in Writing \cup Asking => j.rf # r
    PROVE  JobMoney(j)'
<1>1. /\ HandPaid' = HandPaid /\ Given' \in Nat /\ Given <= Given'
      /\ \A p : Spent(p)' <= Spent(p)
      /\ OpenManual(refund') = OpenManual(refund) /\ refund' \in Seq(Refund)
      /\ \A n \in DOMAIN refund : n # r => refund'[n] = refund[n]
  BY SettleSums
<1>2. /\ HandPaid \in Nat /\ Given \in Nat
      /\ \A p : Spent(p) \in Nat /\ Spent(p)' \in Nat
  BY <1>1, SumsTyped, SumsTypedNext
<1>3. AtGateway = {} => AtGateway' = {} /\ Given' = Given
  <2>1. AtGateway = {} => refund[r].by # Main /\ AtGateway' = {}
    BY SettleSums
  <2>2. Given' = Given + (IF refund[r].by = Main /\ s = "COMPLETED" THEN refund[r].amt ELSE 0)
    BY SettleSums
  <2> QED BY <1>2, <2>1, <2>2
<1>4. j.total \in Nat /\ j.byGateway \in Nat /\ j.amt \in Nat
  BY DEF Job
<1>5. Claimed(j)'
  <2>1. CASE j.at \in {"PAID_BACK", "FINALIZE_COMMIT"}
    <3>1. GatewayRow(j.rf) /\ j.rf # r /\ j.rf \in DOMAIN refund
      BY <2>1 DEF JobTruth, Asking, Settling, Writing, GatewayRow
    <3>2. refund'[j.rf] = refund[j.rf]
      BY <1>1, <3>1
    <3>3. Promised(j)' = Promised(j)
      BY <3>2 DEF Promised
    <3>4. Promised(j) \in Nat
      BY <3>1, PromisedType
    <3>5. refund[j.rf].status \in Claimable /\ (Extras = {} => j.total <= Given + Promised(j))
      BY <2>1 DEF JobMoney, Claimed
    <3>6. Extras = {} => j.total <= Given' + Promised(j)
      BY <1>1, <1>2, <1>4, <3>4, <3>5
    <3> QED BY <3>2, <3>3, <3>5, <3>6 DEF Claimed
  <2>2. CASE j.at \notin {"PAID_BACK", "FINALIZE_COMMIT"}
    BY <2>2 DEF Claimed
  <2> QED BY <2>1, <2>2
<1>6. Hand(j)'
  <2>1. Hand(j)
    BY DEF JobMoney
  <2>2. ASSUME NEW st, StatusTrue(st) PROVE StatusTrue(st)'
    <3>1. HandPaid + Given >= Price => HandPaid + Given' >= Price
      BY <1>1, <1>2, Constants
    <3> QED BY <1>1, <2>2, <3>1 DEF StatusTrue
  <2>3. j.byGateway <= Given => j.byGateway <= Given'
    BY <1>1, <1>2, <1>4
  <2>4. j.at = "REOPEN_COMMIT" => refund'[j.rf] = refund[j.rf]
    BY <1>1 DEF JobTruth, ManualRow, Writing
  <2>5. NowPaid(j)' = NowPaid(j)
    BY DEF NowPaid
  <2> QED BY <1>1, <1>3, <2>1, <2>2, <2>3, <2>4, <2>5 DEF Hand
<1>7. Asks(j)'
  <2>1. Asks(j)
    BY DEF JobMoney
  <2>2. j.at \in Asking => refund'[j.rf] = refund[j.rf] /\ refund[j.rf].amt \in Nat
    BY <1>1, RefundsTyped DEF JobTruth, GatewayRow
  <2>3. j.amt + Spent(j.p) <= Price => j.amt + Spent(j.p)' <= Price
    BY <1>1, <1>2, <1>4, Constants
  <2>4. ASSUME NEW a \in Nat, a + Spent(Main) <= Price PROVE a + Spent(Main)' <= Price
    BY <1>1, <1>2, <2>4, Constants
  <2> QED BY <1>1, <2>1, <2>2, <2>3, <2>4 DEF Asks, Asking
<1> QED BY <1>5, <1>6, <1>7 DEF JobMoney

-----------------------------------------------------------------------------
(* Steps, by what they write *)

\* The stages at which a request knows nothing of the money.
Loose == Quiet \cup {"RESEND", "REOPEN_WRITE", "FINALIZE"}

LEMMA LooseKnows ==
    ASSUME NEW k, k.at \in Loose
    PROVE  JobMoney(k) /\ JobMoney(k)' /\ ~Holding(k)
BY DEF Loose, Quiet, JobMoney, Claimed, Hand, Asks, Holding, Writing

LEMMA NoJobByCron == ByCron(NoJob) /\ ByCron(NoJob)' /\ NoJob.at \in Loose
BY NoJobTrue DEF ByCron, Settling, Loose, Quiet

LEMMA MoneyKnown ==
    ASSUME MoneyInv, NEW h \in Handlers
    PROVE  /\ JobMoney(job[h]) /\ (h \in Crons => ByCron(job[h]))
           /\ \A g \in Handlers : g # h /\ Holding(job[g]) /\ Holding(job[h])
                                    => job[g].rf # job[h].rf
BY DEF MoneyInv, Locks

(* The sums are the same while the table of refunds is. *)
LEMMA SameTable ==
    ASSUME refund' = refund
    PROVE  /\ \A s : StatusTrue(s)' <=> StatusTrue(s)
           /\ \A j : JobMoney(j) => JobMoney(j)'
           /\ \A j : ByCron(j) => ByCron(j)'
           /\ HandPaid' = HandPaid /\ AtGateway' = AtGateway /\ \A p : Spent(p)' = Spent(p)
<1>1. /\ HandPaid' = HandPaid /\ Given' = Given /\ AtGateway' = AtGateway
      /\ \A p : Reserved(p)' = Reserved(p)
  BY DEF HandPaid, Given, AtGateway, Reserved
<1>2. \A p : Spent(p)' = Spent(p)
  BY <1>1 DEF Spent
<1>3. \A s : StatusTrue(s)' <=> StatusTrue(s)
  BY <1>1 DEF StatusTrue
<1>4. \A j : Claimed(j) => Claimed(j)'
  BY <1>1 DEF Claimed, Promised
<1>5. \A j : Hand(j) => Hand(j)'
  BY <1>1, <1>3 DEF Hand, NowPaid
<1>6. \A j : Asks(j) => Asks(j)'
  BY <1>1, <1>2 DEF Asks
<1>7. \A j : ByCron(j) => ByCron(j)'
  BY DEF ByCron
<1> QED BY <1>1, <1>2, <1>3, <1>4, <1>5, <1>6, <1>7 DEF JobMoney

(* Who holds what after a step of h. *)
LEMMA LocksKept ==
    ASSUME MoneyInv, NEW h \in Handlers, NEW k, Set(h, k), job \in [Handlers -> Job],
           Holding(k) => \A g \in Handlers \ {h} : Holding(job[g]) => job[g].rf # k.rf
    PROVE  Locks'
<1>1. job'[h] = k /\ \A g \in Handlers : g # h => job'[g] = job[g]
  BY DEF Set
<1>2. \A g \in Handlers : Holding(job[g])' <=> Holding(job'[g])
  BY DEF Holding
<1>3. ASSUME NEW a \in Handlers, NEW b \in Handlers, a # b, Holding(job'[a]), Holding(job'[b])
      PROVE  job'[a].rf # job'[b].rf
  <2>1. CASE a = h
    BY <1>1, <1>3, <2>1
  <2>2. CASE b = h
    BY <1>1, <1>3, <2>2
  <2>3. CASE a # h /\ b # h
    BY <1>1, <1>3, <2>3 DEF MoneyInv, Locks
  <2> QED BY <2>1, <2>2, <2>3
<1> QED BY <1>2, <1>3 DEF Locks

(* A step of h that does not touch the refunds table. *)
LEMMA TableStep ==
    ASSUME TruthInv, MoneyInv, NEW h \in Handlers, NEW k, Set(h, k), refund' = refund,
           JobMoney(k), h \in Crons => ByCron(k),
           Holding(k) => \A g \in Handlers \ {h} : Holding(job[g]) => job[g].rf # k.rf,
           StatusTrue(paymentStatus'), row'[Main] # "REFUND_REQUIRED"
    PROVE  MoneyInv'
<1>1. job \in [Handlers -> Job]
  BY DEF TruthInv
<1>2. job'[h] = k /\ \A g \in Handlers : g # h => job'[g] = job[g]
  BY <1>1 DEF Set
<1>3. Locks'
  BY <1>1, LocksKept
<1>4. OrderMoney'
  BY SameTable DEF MoneyInv, OrderMoney
<1>5. \A g \in Handlers : JobMoney(job[g])'
  <2>1. \A g \in Handlers : JobMoney(job'[g])
    BY <1>2 DEF MoneyInv
  <2> QED BY <2>1, SameTable
<1>6. \A c \in Crons : ByCron(job[c])'
  <2>1. \A c \in Crons : ByCron(job'[c])
    BY <1>2, CronsAreHandlers DEF MoneyInv
  <2> QED BY <2>1, SameTable
<1> QED BY <1>3, <1>4, <1>5, <1>6 DEF MoneyInv

LEMMA LocalMoneyStep ==
    ASSUME TruthInv, MoneyInv, NEW h \in Handlers, NEW k, Set(h, k), UNCHANGED tables,
           JobMoney(k), h \in Crons => ByCron(k),
           Holding(k) => \A g \in Handlers \ {h} : Holding(job[g]) => job[g].rf # k.rf
    PROVE  MoneyInv'
<1>1. UNCHANGED <<refund, paymentStatus, row>>
  BY DEF tables, orderVars
<1>2. StatusTrue(paymentStatus') /\ row'[Main] # "REFUND_REQUIRED"
  BY <1>1 DEF MoneyInv, OrderMoney
<1> QED BY <1>1, <1>2, TableStep

(* A step of nobody's request. *)
LEMMA IdleMoneyStep ==
    ASSUME MoneyInv, UNCHANGED <<refund, paymentStatus, row, job>>
    PROVE  MoneyInv'
<1>1. OrderMoney'
  BY SameTable DEF MoneyInv, OrderMoney
<1>2. Locks'
  BY DEF MoneyInv, Locks, Holding
<1>3. \A h \in Handlers : JobMoney(job[h])'
  <2>1. \A h \in Handlers : JobMoney(job'[h])
    BY DEF MoneyInv
  <2> QED BY <2>1, SameTable
<1>4. \A c \in Crons : ByCron(job[c])'
  <2>1. \A c \in Crons : ByCron(job'[c])
    BY DEF MoneyInv
  <2> QED BY <2>1, SameTable
<1> QED BY <1>1, <1>2, <1>3, <1>4 DEF MoneyInv

(* A gateway refund that was open takes the status s, by whoever holds it. *)
LEMMA SettleStep ==
    ASSUME TruthInv, MoneyInv, NEW h \in Handlers, NEW k, Set(h, k), ~Holding(k),
           NEW r, GatewayRow(r), refund[r].status \in Claimable,
           NEW s \in {"PROCESSING", "COMPLETED", "FAILED"}, Takes(r, s),
           \A g \in Handlers : g # h /\ job[g].at \in Writing \cup Asking => job[g].rf # r,
           JobMoney(k)', h \in Crons => ByCron(k)',
           StatusTrue(paymentStatus)', row'[Main] # "REFUND_REQUIRED"
    PROVE  MoneyInv'
<1>1. job \in [Handlers -> Job] /\ \A g \in Handlers : JobTruth(job[g])
  BY DEF TruthInv
<1>2. job'[h] = k /\ \A g \in Handlers : g # h => job'[g] = job[g]
  BY <1>1 DEF Set
<1>3. Locks'
  BY <1>1, LocksKept
<1>4. /\ HandPaid' = HandPaid /\ Given' \in Nat /\ Given <= Given'
      /\ \A p : Spent(p)' <= Spent(p)
      /\ AtGateway' \subseteq AtGateway /\ refund' \in Seq(Refund)
      /\ refund'[r].status = s /\ refund'[r].amt = refund[r].amt
      /\ \A n \in DOMAIN refund : n # r => refund'[n] = refund[n]
  BY SettleSums
<1>5. OrderMoney'
  <2>1. \A p \in Payments : Spent(p)' <= Price
    <3>1. \A p : Spent(p) \in Nat /\ Spent(p)' \in Nat
      BY <1>4, SumsTyped, SumsTypedNext
    <3>2. \A p \in Payments : Spent(p) <= Price
      BY DEF MoneyInv, OrderMoney
    <3> QED BY <1>4, <3>1, <3>2, Constants
  <2>2. AtGateway' # {} => HandPaid' = 0
    BY <1>4 DEF MoneyInv, OrderMoney
  <2> QED BY <2>1, <2>2 DEF OrderMoney
<1>6. \A g \in Handlers : JobMoney(job[g])'
  <2>1. ASSUME NEW g \in Handlers, NEW j, j = job'[g] PROVE JobMoney(j)'
    <3>1. CASE g = h
      BY <1>2, <2>1, <3>1
    <3>2. CASE g # h
      <4>1. j = job[g] /\ j \in Job /\ JobTruth(j) /\ JobMoney(j)
        BY <1>1, <1>2, <2>1, <3>2 DEF MoneyInv
      <4>2. j.at \in Writing \cup Asking => j.rf # r
        BY <3>2, <4>1
      <4> QED BY <4>1, <4>2, RequestKept
    <3> QED BY <3>1, <3>2
  <2> QED BY <2>1
<1>7. \A c \in Crons : ByCron(job[c])'
  <2>1. ASSUME NEW c \in Crons, NEW j, j = job'[c] PROVE ByCron(j)'
    <3>1. CASE c = h
      BY <1>2, <2>1, <3>1
    <3>2. CASE c # h
      <4>1. j = job[c] /\ j \in Job /\ JobTruth(j) /\ ByCron(j) /\ Claimed(j)
        BY <1>1, <1>2, <2>1, <3>2, CronsAreHandlers DEF MoneyInv, JobMoney
      <4>2. \A n : GatewayRow(n) => /\ refund'[n].amt = refund[n].amt
                                    /\ refund'[n].status = "PENDING"
                                         => refund[n].status = "PENDING"
        BY <1>4 DEF GatewayRow
      <4>3. j.at = "FINALIZE_COMMIT" => refund'[j.rf].status = refund[j.rf].status
        BY <1>4, <2>1, <3>2, <4>1, CronsAreHandlers
           DEF Writing, JobTruth, Settling, GatewayRow
      <4> QED BY <1>4, <4>1, <4>2, <4>3, CronKept
    <3> QED BY <3>1, <3>2
  <2> QED BY <2>1
<1> QED BY <1>3, <1>5, <1>6, <1>7 DEF MoneyInv

(* A step of the administrator that leaves what the cron rounds work on alone. *)
LEMMA AdministratorStep ==
    ASSUME TruthInv, MoneyInv, Alone, NEW h \in Administrators, NEW k, Set(h, k), ~Holding(k),
           \A r : GatewayRow(r) => /\ refund'[r].amt = refund[r].amt
                                   /\ refund'[r].status = "PENDING"
                                        => refund[r].status = "PENDING",
           \A c \in Crons : job[c].at = "FINALIZE_COMMIT"
                              => refund'[job[c].rf].status = refund[job[c].rf].status,
           Given' \in Nat, Given <= Given', JobMoney(k)', OrderMoney'
    PROVE  MoneyInv'
<1>1. h \in Handlers /\ h \notin Crons /\ \A g \in Handlers : g # h => g \in Crons
  BY OthersAreCrons
<1>2. job \in [Handlers -> Job] /\ \A g \in Handlers : JobTruth(job[g])
  BY DEF TruthInv
<1>3. job'[h] = k /\ \A g \in Handlers : g # h => job'[g] = job[g]
  BY <1>1, <1>2 DEF Set
<1>4. Locks'
  BY <1>1, <1>2, LocksKept
<1>5. ASSUME NEW c \in Crons, NEW j, j = job'[c] PROVE ByCron(j)' /\ JobMoney(j)'
  <2>1. j = job[c] /\ j \in Job /\ JobTruth(j) /\ ByCron(j) /\ Claimed(j)
    BY <1>1, <1>2, <1>3, <1>5, CronsAreHandlers DEF MoneyInv, JobMoney
  <2>2. j.at = "FINALIZE_COMMIT" => refund'[j.rf].status = refund[j.rf].status
    BY <2>1
  <2> QED BY <2>1, <2>2, CronKept
<1>6. \A c \in Crons : ByCron(job[c])'
  BY <1>5
<1>7. \A g \in Handlers : JobMoney(job[g])'
  BY <1>1, <1>3, <1>5
<1> QED BY <1>4, <1>6, <1>7 DEF MoneyInv


-----------------------------------------------------------------------------
(* updateRefund *)

LEMMA AtRestKnows ==
    ASSUME NEW k, AtRest(k)
    PROVE  JobMoney(k) /\ JobMoney(k)' /\ ~Holding(k)
<1>1. k.at \in Loose
  BY DEF AtRest, Loose
<1> QED BY <1>1, LooseKnows

LEMMA CalledKeepsMoney ==
    ASSUME TruthInv, MoneyInv, Alone, NEW h \in Administrators, NEW then, NEW target,
           Called(h, then, target), UNCHANGED tables
    PROVE  MoneyInv'
<1>1. PICK k \in Job : /\ Set(h, k)
                       /\ \/ AtRest(k)
                          \/ /\ k.at = "TX" /\ k.target = target /\ k.read = paymentStatus
                             /\ k.byGateway = Completed(refund, {Main})
                             /\ target \in {"COMPLETED", "PROCESSING"} => AtGateway = {}
  BY DEF Called
<1>2. JobMoney(k) /\ ~Holding(k)
  <2>1. CASE AtRest(k)
    BY <2>1, AtRestKnows
  <2>2. CASE /\ k.at = "TX" /\ k.target = target /\ k.read = paymentStatus
             /\ k.byGateway = Completed(refund, {Main})
             /\ target \in {"COMPLETED", "PROCESSING"} => AtGateway = {}
    <3>1. StatusTrue(k.read)
      BY <2>2 DEF MoneyInv, OrderMoney
    <3>2. k.byGateway = Given /\ k.byGateway <= Given
      BY <2>2, SumsAre, SumsTyped
    <3> QED BY <2>2, <3>1, <3>2 DEF JobMoney, Claimed, Hand, Asks, Holding, Writing
  <2> QED BY <1>1, <2>1, <2>2
<1>3. h \in Handlers /\ h \notin Crons
  BY OthersAreCrons
<1> QED BY <1>1, <1>2, <1>3, LocalMoneyStep

LEMMA UpdateRefundKeepsMoney ==
    ASSUME TruthInv, MoneyInv, Alone, NEW h \in Administrators, UpdateRefund(h)
    PROVE  MoneyInv'
<1>1. job[h].at = "IDLE" /\ UNCHANGED tables
  BY DEF UpdateRefund
<1>2. PICK target \in Targets, kind \in Kinds, requested \in 0..Price :
        StartRefund(h, job[h], target, kind, requested, "IDLE")
  BY DEF UpdateRefund
<1>3. h \in Handlers
  BY OthersAreCrons
<1>4. job[h] \in Job /\ job[h].list = {}
  BY <1>1, <1>3, JobKnown DEF JobTruth, Settling
<1>5. requested \in Nat /\ target \in RefundStatus /\ "IDLE" \in Callers
  BY Constants DEF Callers
<1>6. Called(h, "IDLE", target)
  BY <1>2, <1>3, <1>4, <1>5, StartRefundCalls
<1> QED BY <1>1, <1>6, CalledKeepsMoney

LEMMA ReadRefundsKeepsMoney ==
    ASSUME TruthInv, MoneyInv, Alone, NEW h \in Administrators, ReadRefunds(h)
    PROVE  MoneyInv'
<1> DEFINE j == job[h]
           amt == IF Pays(j.target) THEN AmountOf(j) ELSE 0
           k == Chosen(j, RowOf(j), amt)
<1>1. h \in Handlers /\ h \notin Crons
  BY OthersAreCrons
<1>2. /\ j.at = "TX" /\ UNCHANGED tables
      /\ \/ Set(h, Thrown(j))
         \/ Set(h, k) /\ (j.target = "COMPLETED" => ~(AmountOf(j) > RestOf(j)))
  BY <1>1, ReadRefundsEffect
<1>3. j \in Job /\ JobTruth(j) /\ JobMoney(j)
  BY <1>1, JobKnown, MoneyKnown
<1>4. /\ k.at = "WRITE" /\ k.rf = RowOf(j) /\ k.amt = amt /\ k.target = j.target
      /\ k.read = j.read /\ k.byGateway = j.byGateway
  BY <1>3, ChosenHolds
<1>5. RowOf(j) # 0 => RowOf(j) \in OpenManual(refund)
  BY RowOfType
<1>6. RestOf(j) \in Nat /\ AmountOf(j) \in Nat /\ j.byGateway \in Nat
  BY <1>3, AmountOfType DEF Job
<1>7. RestOf(j) = IF HandPaid + j.byGateway < Price
                  THEN Price - (HandPaid + j.byGateway) ELSE 0
  BY SumsAre DEF RestOf, ByHand
<1>8. j.target = "COMPLETED" => amt = AmountOf(j)
  BY DEF Pays
<1>9. HandPaid + Given <= Price
  <2>1. Spent(Main) <= Price /\ Spent(Main) = Reserved(Main) + HandPaid
    BY DEF MoneyInv, OrderMoney, Spent, Payments
  <2>2. Given <= Reserved(Main)
    BY GivenIsReserved
  <2>3. HandPaid \in Nat /\ Given \in Nat /\ Reserved(Main) \in Nat
    BY SumsTyped
  <2> QED BY <2>1, <2>2, <2>3, Constants
<1>10. ASSUME Set(h, k), j.target = "COMPLETED" => ~(AmountOf(j) > RestOf(j)) PROVE MoneyInv'
  <2>1. /\ StatusTrue(j.read) /\ j.byGateway <= Given
        /\ j.target = "COMPLETED" => AtGateway = {} /\ j.byGateway = Given
    BY <1>2, <1>3 DEF JobMoney, Hand
  <2>2. j.target = "COMPLETED" => amt + HandPaid + j.byGateway <= Price
    <3>1. HandPaid \in Nat /\ Given \in Nat
      BY SumsTyped
    <3>2. \A a, p, g, t \in Nat : /\ p + g < t /\ ~(a > t - (p + g)) => a + p + g <= t
                                  /\ ~(a > 0) /\ p + g <= t => a + p + g <= t
      OBVIOUS
    <3>3. CASE HandPaid + j.byGateway < Price
      BY <1>6, <1>7, <1>8, <1>10, <3>1, <3>2, <3>3, Constants
    <3>4. CASE ~(HandPaid + j.byGateway < Price)
      BY <1>6, <1>7, <1>8, <1>9, <1>10, <2>1, <3>1, <3>2, <3>4, Constants
    <3> QED BY <3>3, <3>4
  <2>3. JobMoney(k) /\ ~Holding(k)
    <3> HIDE DEF k, amt, j
    <3> QED BY <1>4, <1>5, <2>1, <2>2 DEF JobMoney, Claimed, Hand, Asks, Holding, Writing
  <2> QED BY <1>1, <1>2, <1>10, <2>3, LocalMoneyStep
<1>11. CASE Set(h, Thrown(j))
  <2>1. AtRest(Thrown(j))
    BY <1>3, ThrownAtRest
  <2>2. JobMoney(Thrown(j)) /\ ~Holding(Thrown(j))
    BY <2>1, AtRestKnows
  <2> QED BY <1>1, <1>2, <1>11, <2>2, LocalMoneyStep
<1> QED BY <1>2, <1>10, <1>11

\* The transaction of j writes a row by hand that it may write.
Writes(j) == /\ j \in Job /\ j.target \in RefundStatus
             /\ j.rf = 0 \/ ManualRow(j.rf)

LEMMA RowWritten ==
    ASSUME TruthInv, NEW j, Writes(j), j.rf # 0, NEW t, t = WithWrite(j)
    PROVE  /\ Replaced(t, j.rf) /\ t \in Seq(Refund) /\ Len(t) = Len(refund)
           /\ j.rf \in DOMAIN refund /\ refund[j.rf].by = "MANUAL"
           /\ t[j.rf].by = "MANUAL" /\ t[j.rf].status = j.target
           /\ t[j.rf].amt = IF Pays(j.target) THEN j.amt ELSE refund[j.rf].amt
           /\ \A n \in DOMAIN refund : n # j.rf => t[n] = refund[n]
<1> DEFINE amt == IF Pays(j.target) THEN j.amt ELSE refund[j.rf].amt
           x == Closed(refund[j.rf], j.target, amt)
<1>1. j.rf \in DOMAIN refund /\ refund[j.rf].by = "MANUAL"
  BY DEF Writes, ManualRow
<1>2. refund[j.rf] \in Refund /\ amt \in Nat /\ j.target \in RefundStatus /\ refund \in Seq(Refund)
  BY <1>1, RefundsTyped DEF Writes, Job
<1> HIDE DEF amt
<1>3. x \in Refund /\ x.by = "MANUAL" /\ x.status = j.target /\ x.amt = amt
  BY <1>1, <1>2, ClosedTyped
<1> HIDE DEF x
<1>4. t = [refund EXCEPT ![j.rf] = x]
  BY DEF WithWrite, Closed, x, amt
<1>5. /\ [refund EXCEPT ![j.rf] = x] \in Seq(Refund)
      /\ Len([refund EXCEPT ![j.rf] = x]) = Len(refund)
      /\ [refund EXCEPT ![j.rf] = x][j.rf] = x
      /\ \A n \in DOMAIN refund : n # j.rf => [refund EXCEPT ![j.rf] = x][n] = refund[n]
  BY <1>1, <1>2, <1>3
<1> QED BY <1>1, <1>3, <1>4, <1>5 DEF amt, Replaced

LEMMA RowCreated ==
    ASSUME TruthInv, NEW j, Writes(j), j.rf = 0, NEW t, t = WithWrite(j)
    PROVE  \/ /\ Pays(j.target)
              /\ \E x : Added(t, x) /\ x.by = "MANUAL" /\ x.status = j.target /\ x.amt = j.amt
           \/ ~Pays(j.target) /\ t = refund
<1>1. /\ NewRow(j) \in Refund /\ NewRow(j).by = "MANUAL"
      /\ NewRow(j).status = j.target /\ NewRow(j).amt = j.amt
  BY NewRowTyped DEF Writes
<1>2. t = IF Pays(j.target) THEN Append(refund, NewRow(j)) ELSE refund
  BY DEF WithWrite, NewRow
<1>3. Pays(j.target) => Added(t, NewRow(j))
  BY <1>1, <1>2 DEF Added
<1> QED BY <1>1, <1>2, <1>3

(* A transfer by hand that changes leaves the gateway refunds of a payment alone. *)
LEMMA ManualRowReplaced ==
    ASSUME TruthInv, NEW r, NEW t, Replaced(t, r), refund[r].by = "MANUAL", t[r].by = "MANUAL",
           NEW p \in Payments, NEW statuses
    PROVE  /\ t \in Seq(Refund)
           /\ SumOf(t, {p}, statuses) = SumOf(refund, {p}, statuses)
           /\ Ids(t, {p}, statuses) = Ids(refund, {p}, statuses)
           /\ \A n : GatewayRow(n) => n \in DOMAIN t /\ t[n] = refund[n]
<1>1. refund \in Seq(Refund) /\ DOMAIN refund = 1..Len(refund) /\ Len(refund) \in Nat
  BY RefundsTyped
<1>2. SumOf(refund, {p}, statuses) \in Nat /\ p # "MANUAL" /\ "MANUAL" \notin Payments
  BY <1>1, SumType, Constants
<1>3. /\ r \in DOMAIN refund /\ t \in Seq(Refund) /\ Len(t) = Len(refund)
      /\ \A n \in DOMAIN refund : n # r => t[n] = refund[n]
  BY DEF Replaced
<1>4. SumOf(t, {p}, statuses) + Part(refund[r], {p}, statuses)
        = SumOf(refund, {p}, statuses) + Part(t[r], {p}, statuses)
  BY RowReplaced
<1>5. Part(refund[r], {p}, statuses) = 0 /\ Part(t[r], {p}, statuses) = 0
  BY <1>2 DEF Part
<1>6. SumOf(t, {p}, statuses) \in Nat
  BY <1>3, SumType
<1>7. SumOf(t, {p}, statuses) = SumOf(refund, {p}, statuses)
  BY <1>2, <1>4, <1>5, <1>6
<1>8. DOMAIN t = DOMAIN refund
  BY <1>1, <1>3
<1>9. Ids(t, {p}, statuses) = Ids(refund, {p}, statuses)
  BY <1>2, <1>3, <1>8 DEF Ids
<1>10. \A n : GatewayRow(n) => n \in DOMAIN t /\ t[n] = refund[n]
  BY <1>2, <1>3, <1>8 DEF GatewayRow
<1> QED BY <1>3, <1>7, <1>9, <1>10

(* A write by hand changes no sum of a payment's gateway refunds. *)
LEMMA GatewaySumsKept ==
    ASSUME TruthInv, NEW j, Writes(j), NEW t, t = WithWrite(j),
           NEW p \in Payments, NEW statuses
    PROVE  /\ t \in Seq(Refund)
           /\ SumOf(t, {p}, statuses) = SumOf(refund, {p}, statuses)
           /\ Ids(t, {p}, statuses) = Ids(refund, {p}, statuses)
           /\ \A r : GatewayRow(r) => r \in DOMAIN t /\ t[r] = refund[r]
<1>1. refund \in Seq(Refund) /\ DOMAIN refund = 1..Len(refund) /\ Len(refund) \in Nat
  BY RefundsTyped
<1>2. SumOf(refund, {p}, statuses) \in Nat /\ p # "MANUAL" /\ "MANUAL" \notin Payments
  BY <1>1, SumType, Constants
<1>3. CASE j.rf # 0
  <2>1. Replaced(t, j.rf) /\ refund[j.rf].by = "MANUAL" /\ t[j.rf].by = "MANUAL"
    BY <1>3, RowWritten
  <2> QED BY <2>1, ManualRowReplaced
<1>4. CASE j.rf = 0 /\ Pays(j.target)
  <2>1. PICK x : Added(t, x) /\ x.by = "MANUAL"
    BY <1>4, RowCreated
  <2>2. /\ t \in Seq(Refund) /\ DOMAIN t = DOMAIN refund \cup {NewId}
        /\ NewId \notin DOMAIN refund /\ t[NewId] = x
        /\ \A n \in DOMAIN refund : t[n] = refund[n]
    <3>1. t \in Seq(Refund) /\ t[NewId] = x /\ NewId \notin DOMAIN refund
      BY <2>1, RowAddedLast
    <3>2. DOMAIN t = DOMAIN refund \cup {NewId}
      BY <2>1, RowAddedLast
    <3>3. \A n \in DOMAIN refund : t[n] = refund[n]
      BY <2>1, RowAddedLast
    <3> QED BY <3>1, <3>2, <3>3
  <2>3. SumOf(t, {p}, statuses) = SumOf(refund, {p}, statuses) + Part(x, {p}, statuses)
    BY <2>1, RowAddedSums
  <2>4. Part(x, {p}, statuses) = 0
    BY <1>2, <2>1 DEF Part
  <2>5. SumOf(t, {p}, statuses) = SumOf(refund, {p}, statuses)
    BY <1>2, <2>3, <2>4
  <2>6. Ids(t, {p}, statuses) = Ids(refund, {p}, statuses)
    BY <1>2, <2>1, <2>2 DEF Ids
  <2>7. \A r : GatewayRow(r) => r \in DOMAIN t /\ t[r] = refund[r]
    BY <2>2 DEF GatewayRow
  <2> QED BY <2>2, <2>5, <2>6, <2>7
<1>5. CASE j.rf = 0 /\ ~Pays(j.target)
  <2>1. t = refund
    BY <1>5, RowCreated
  <2> QED BY <1>1, <2>1 DEF GatewayRow
<1> QED BY <1>3, <1>4, <1>5

(* What was paid by hand grows by what this transaction records as paid. *)
LEMMA HandPaidAfter ==
    ASSUME TruthInv, NEW j, Writes(j), j.rf # 0 => j.rf \in OpenManual(refund),
           NEW t, t = WithWrite(j)
    PROVE  SumOf(t, Manual, {"COMPLETED"}) = HandPaid + NowPaid(j)
<1>1. refund \in Seq(Refund) /\ DOMAIN refund = 1..Len(refund) /\ Len(refund) \in Nat
  BY RefundsTyped
<1>2. HandPaid \in Nat /\ j.amt \in Nat /\ NowPaid(j) \in Nat
  BY SumsTyped DEF Writes, Job, NowPaid
<1>3. j.target = "COMPLETED" => Pays(j.target)
  BY DEF Pays
<1>4. CASE j.rf # 0
  <2>1. /\ Replaced(t, j.rf) /\ t \in Seq(Refund) /\ Len(t) = Len(refund)
        /\ j.rf \in DOMAIN refund
        /\ t[j.rf].by = "MANUAL" /\ t[j.rf].status = j.target
        /\ t[j.rf].amt = IF Pays(j.target) THEN j.amt ELSE refund[j.rf].amt
        /\ \A n \in DOMAIN refund : n # j.rf => t[n] = refund[n]
    BY <1>4, RowWritten
  <2>2. SumOf(t, Manual, {"COMPLETED"}) + Part(refund[j.rf], Manual, {"COMPLETED"})
          = SumOf(refund, Manual, {"COMPLETED"}) + Part(t[j.rf], Manual, {"COMPLETED"})
    BY <2>1, RowReplaced
  <2>3. Part(refund[j.rf], Manual, {"COMPLETED"}) = 0
    BY <1>4 DEF Part, OpenManual, Ids, OpenRefundStatuses
  <2>4. Part(t[j.rf], Manual, {"COMPLETED"}) = NowPaid(j)
    BY <1>3, <2>1 DEF Part, Manual, NowPaid
  <2>5. SumOf(t, Manual, {"COMPLETED"}) \in Nat
    BY <2>1, SumType
  <2> QED BY <1>2, <2>2, <2>3, <2>4, <2>5 DEF HandPaid
<1>5. CASE j.rf = 0 /\ Pays(j.target)
  <2>1. PICK x : Added(t, x) /\ x.by = "MANUAL" /\ x.status = j.target /\ x.amt = j.amt
    BY <1>5, RowCreated
  <2>2. SumOf(t, Manual, {"COMPLETED"})
          = SumOf(refund, Manual, {"COMPLETED"}) + Part(x, Manual, {"COMPLETED"})
    BY <2>1, RowAddedSums
  <2>3. Part(x, Manual, {"COMPLETED"}) = NowPaid(j)
    BY <2>1 DEF Part, Manual, NowPaid
  <2> QED BY <2>2, <2>3 DEF HandPaid
<1>6. CASE j.rf = 0 /\ ~Pays(j.target)
  <2>1. t = refund /\ NowPaid(j) = 0
    BY <1>3, <1>6, RowCreated DEF NowPaid
  <2> QED BY <1>2, <2>1 DEF HandPaid
<1> QED BY <1>4, <1>5, <1>6

(* The transaction sees no open transfer: its own row was the last one. *)
LEMMA LastOpenRow ==
    ASSUME TruthInv, NEW j, Writes(j), NEW t, t = WithWrite(j)
    PROVE  /\ OpenManual(t) = {} => OpenManual(refund) \subseteq {j.rf}
           /\ Closes(j.target) /\ OpenManual(refund) \subseteq {j.rf} => OpenManual(t) = {}
<1>1. refund \in Seq(Refund) /\ DOMAIN refund = 1..Len(refund) /\ Len(refund) \in Nat
  BY RefundsTyped
<1>2. Closes(j.target) => j.target \notin OpenRefundStatuses
  BY DEF Closes, OpenRefundStatuses
<1>3. CASE j.rf # 0
  <2>1. /\ t \in Seq(Refund) /\ Len(t) = Len(refund) /\ t[j.rf].status = j.target
        /\ \A n \in DOMAIN refund : n # j.rf => t[n] = refund[n]
    BY <1>3, RowWritten
  <2>2. DOMAIN t = DOMAIN refund
    BY <1>1, <2>1
  <2> QED BY <1>2, <2>1, <2>2 DEF OpenManual, Ids
<1>4. CASE j.rf = 0 /\ Pays(j.target)
  <2>1. PICK x : Added(t, x) /\ x.status = j.target
    BY <1>4, RowCreated
  <2>2. /\ DOMAIN t = DOMAIN refund \cup {NewId} /\ t[NewId] = x
        /\ \A n \in DOMAIN refund : t[n] = refund[n]
    <3>1. DOMAIN t = DOMAIN refund \cup {NewId} /\ t[NewId] = x
      BY <2>1, RowAddedLast
    <3>2. \A n \in DOMAIN refund : t[n] = refund[n]
      BY <2>1, RowAddedLast
    <3> QED BY <3>1, <3>2
  <2>3. 0 \notin DOMAIN refund
    BY <1>1
  <2> QED BY <1>2, <1>4, <2>1, <2>2, <2>3 DEF OpenManual, Ids
<1>5. CASE j.rf = 0 /\ ~Pays(j.target)
  <2>1. t = refund /\ 0 \notin DOMAIN refund
    BY <1>1, <1>5, RowCreated
  <2> QED BY <1>5, <2>1 DEF OpenManual, Ids
<1> QED BY <1>3, <1>4, <1>5

LEMMA WriteRefundKeepsMoney ==
    ASSUME TruthInv, MoneyInv, Alone, NEW h \in Administrators, WriteRefund(h)
    PROVE  MoneyInv'
<1> DEFINE j == job[h]
           total == Completed(WithWrite(j), Manual) + j.byGateway
           open == OpenManual(WithWrite(j)) # {}
           k == Written(j, total, open)
<1>1. h \in Handlers /\ h \notin Crons
  BY OthersAreCrons
<1>2. /\ j.at = "WRITE" /\ UNCHANGED tables
      /\ j.rf # 0 => Unlocked(h, j.rf)
      /\ open \in BOOLEAN /\ Set(h, k)
  BY <1>1, WriteRefundEffect
<1>3. j \in Job /\ JobTruth(j) /\ JobMoney(j)
  BY <1>1, JobKnown, MoneyKnown
<1>4. /\ Writes(j) /\ (j.rf # 0 => j.rf \in OpenManual(refund))
      /\ Hand(j)
  <2> HIDE DEF j
  <2>1. Writes(j)
    BY <1>2, <1>3 DEF Writes, JobTruth
  <2>2. Hand(j)
    BY <1>3 DEF JobMoney
  <2>3. j.rf # 0 => j.rf \in OpenManual(refund)
    BY <1>2, <2>2 DEF Hand
  <2> QED BY <2>1, <2>2, <2>3
<1>5. total = HandPaid + NowPaid(j) + j.byGateway
  BY <1>4, HandPaidAfter DEF Completed, SumOf
<1>6. ~open => OpenManual(refund) \subseteq {j.rf}
  BY <1>4, LastOpenRow
<1>7. /\ k.at = "COMMIT" /\ k.rf = j.rf /\ k.amt = j.amt /\ k.target = j.target
      /\ k.read = j.read /\ k.byGateway = j.byGateway /\ k.total = total /\ k.open = open
  <2> HIDE DEF total, open
  <2> QED BY <1>2, <1>3, WrittenHolds
<1> HIDE DEF k, total, open
<1>8. JobMoney(k)
  <2> HIDE DEF j
  <2>1. NowPaid(k) = NowPaid(j)
    BY <1>7 DEF NowPaid
  <2>2. /\ StatusTrue(j.read) /\ j.byGateway <= Given
        /\ j.target = "COMPLETED" => AtGateway = {} /\ j.byGateway = Given
        /\ j.rf # 0 => j.rf \in OpenManual(refund)
        /\ j.target = "COMPLETED" => j.amt + HandPaid + j.byGateway <= Price
    BY <1>2, <1>4 DEF Hand
  <2>3. k.total = HandPaid + NowPaid(k) + k.byGateway
    BY <1>5, <1>7, <2>1
  <2>4. ~k.open => OpenManual(refund) \subseteq {k.rf}
    BY <1>6, <1>7
  <2>5. Hand(k)
    BY <1>7, <2>2, <2>3, <2>4 DEF Hand
  <2>6. Claimed(k) /\ Asks(k)
    BY <1>7 DEF Claimed, Asks
  <2> QED BY <2>5, <2>6 DEF JobMoney
<1>9. Holding(k) => \A g \in Handlers \ {h} : Holding(job[g]) => job[g].rf # k.rf
  BY <1>2, <1>7 DEF Holding, Unlocked
<1> QED BY <1>1, <1>2, <1>8, <1>9, LocalMoneyStep

(* A payment status computed from a sum that counts no less and no more than was paid back. *)
LEMMA ResolvedTrue ==
    ASSUME HandPaid' \in Nat, Given' \in Nat, NEW n \in Nat, n = 0 => HandPaid' = 0,
           Extras = {} => n <= HandPaid' + Given',
           paymentStatus' = resolveRefundPaymentStatus(n)
    PROVE  StatusTrue(paymentStatus)'
<1>1. paymentStatus' = "REFUNDED" /\ Extras = {} => HandPaid' + Given' >= Price
  <2>1. paymentStatus' = "REFUNDED" => n >= Price
    BY DEF resolveRefundPaymentStatus
  <2>2. \A a, b, c, d \in Nat : c <= a + b /\ c >= d => a + b >= d
    OBVIOUS
  <2> QED BY <2>1, <2>2, Constants
<1>2. paymentStatus' = "PAID" => HandPaid' = 0
  BY Constants DEF resolveRefundPaymentStatus
<1>3. paymentStatus' # "REFUND_REQUIRED"
  BY DEF resolveRefundPaymentStatus
<1> QED BY <1>1, <1>2, <1>3 DEF StatusTrue

LEMMA CommitRefundKeepsMoney ==
    ASSUME TruthInv, MoneyInv, Alone, NEW h \in Administrators, CommitRefund(h)
    PROVE  MoneyInv'
<1> DEFINE j == job[h]
<1>1. h \in Handlers
  BY OthersAreCrons
<1>2. /\ j.at = "COMMIT" /\ refund' = WithWrite(j) /\ Set(h, Returned(j))
      /\ paymentStatus' = PaymentStatusAfter(j)
      /\ row' = [p \in Payments |-> PaymentStatusAfter(j)]
  BY DEF CommitRefund
<1>3. j \in Job /\ JobTruth(j) /\ JobMoney(j)
  BY <1>1, JobKnown, MoneyKnown
<1> HIDE DEF j
<1>4. PICK k : Set(h, k) /\ JobMoney(k)' /\ ~Holding(k)
  <2>1. PICK k : k = Returned(j)
    OBVIOUS
  <2>2. AtRest(k)
    BY <1>3, <2>1, ReturnedAtRest DEF JobTruth
  <2>3. JobMoney(k)' /\ ~Holding(k)
    BY <2>2, AtRestKnows
  <2> QED BY <1>2, <2>1, <2>3
<1>5. Writes(j) /\ (j.rf # 0 => j.rf \in OpenManual(refund)) /\ j.target \in RefundStatus \ {"PENDING"}
  <2>1. Writes(j) /\ j.target \in RefundStatus \ {"PENDING"}
    BY <1>2, <1>3 DEF Writes, JobTruth
  <2>2. Hand(j)
    BY <1>3 DEF JobMoney
  <2>3. j.rf # 0 => j.rf \in OpenManual(refund)
    BY <1>2, <2>2 DEF Hand
  <2> QED BY <2>1, <2>3
<1>6. /\ \A r : GatewayRow(r) => refund'[r] = refund[r]
      /\ Given' = Given /\ (\A p \in Payments : Reserved(p)' = Reserved(p))
      /\ AtGateway' = AtGateway /\ refund' \in Seq(Refund)
  <2>1. \A p \in Payments : \A statuses :
           /\ refund' \in Seq(Refund)
           /\ SumOf(refund', {p}, statuses) = SumOf(refund, {p}, statuses)
           /\ Ids(refund', {p}, statuses) = Ids(refund, {p}, statuses)
           /\ \A r : GatewayRow(r) => refund'[r] = refund[r]
    <3>1. PICK t : t = WithWrite(j) /\ refund' = t
      BY <1>2
    <3>2. ASSUME NEW p \in Payments, NEW statuses
          PROVE  /\ t \in Seq(Refund)
                 /\ SumOf(t, {p}, statuses) = SumOf(refund, {p}, statuses)
                 /\ Ids(t, {p}, statuses) = Ids(refund, {p}, statuses)
                 /\ \A r : GatewayRow(r) => t[r] = refund[r]
      BY <1>5, <3>1, GatewaySumsKept
    <3> QED BY <3>1, <3>2
  <2>2. Main \in Payments
    BY DEF Payments
  <2> QED BY <2>1, <2>2 DEF Given, Reserved, AtGateway
<1>7. HandPaid' = HandPaid + NowPaid(j)
  BY <1>2, <1>5, HandPaidAfter DEF HandPaid
<1>8. /\ HandPaid \in Nat /\ Given \in Nat /\ HandPaid' \in Nat /\ NowPaid(j) \in Nat
      /\ j.amt \in Nat /\ j.byGateway \in Nat /\ j.total \in Nat
      /\ \A p : Reserved(p) \in Nat
  BY <1>3, <1>6, SumsTyped, SumsTypedNext DEF Job, NowPaid
<1>9. /\ StatusTrue(j.read) /\ j.byGateway <= Given
      /\ j.target = "COMPLETED" => /\ AtGateway = {} /\ j.byGateway = Given
                                   /\ j.amt + HandPaid + j.byGateway <= Price
      /\ j.total = HandPaid + NowPaid(j) + j.byGateway
  BY <1>2, <1>3 DEF JobMoney, Hand
<1>10. j.target # "COMPLETED" => NowPaid(j) = 0 /\ HandPaid' = HandPaid
  BY <1>7, <1>8 DEF NowPaid
<1>11. OrderMoney'
  <2>1. ASSUME NEW p \in Payments PROVE Spent(p)' <= Price
    <3>1. /\ Spent(p) = Reserved(p) + (IF p = Main THEN HandPaid ELSE 0)
          /\ Spent(p)' = Reserved(p) + (IF p = Main THEN HandPaid' ELSE 0)
          /\ Spent(p) <= Price
      BY <1>6 DEF Spent, MoneyInv, OrderMoney
    <3>2. CASE p # Main \/ j.target # "COMPLETED"
      BY <1>10, <3>1, <3>2
    <3>3. CASE p = Main /\ j.target = "COMPLETED"
      <4>1. Reserved(p) = Given
        BY <1>9, <3>3, GivenIsAll
      <4>2. HandPaid' = HandPaid + j.amt /\ j.amt + HandPaid + Given <= Price
        BY <1>7, <1>9, <3>3 DEF NowPaid
      <4> QED BY <1>8, <3>1, <3>3, <4>1, <4>2, Constants
    <3> QED BY <3>2, <3>3
  <2>2. AtGateway' # {} => HandPaid' = 0
    BY <1>6, <1>9, <1>10 DEF MoneyInv, OrderMoney
  <2>3. StatusTrue(paymentStatus)'
    <3>1. CASE j.target = "PROCESSING"
      BY <1>2, <3>1 DEF PaymentStatusAfter, StatusTrue
    <3>2. CASE Closes(j.target)
      <4>1. paymentStatus' = resolveRefundPaymentStatus(j.total)
        BY <1>2, <3>2 DEF PaymentStatusAfter, Closes
      <4>2. j.total = HandPaid' + j.byGateway
        BY <1>7, <1>9
      <4>3. (j.total = 0 => HandPaid' = 0) /\ j.total <= HandPaid' + Given'
        BY <1>6, <1>8, <1>9, <4>2
      <4> QED BY <1>6, <1>8, <4>1, <4>3, ResolvedTrue
    <3>3. CASE j.target # "PROCESSING" /\ ~Closes(j.target)
      <4>1. paymentStatus' = j.read /\ HandPaid' = HandPaid
        BY <1>2, <1>10, <3>3 DEF PaymentStatusAfter, Closes
      <4> QED BY <1>6, <1>9, <4>1 DEF StatusTrue
    <3> QED BY <3>1, <3>2, <3>3
  <2>4. row'[Main] # "REFUND_REQUIRED"
    <3>1. row'[Main] = paymentStatus'
      BY <1>2 DEF Payments
    <3> QED BY <2>3, <3>1 DEF StatusTrue
  <2> QED BY <2>1, <2>2, <2>3, <2>4 DEF OrderMoney
<1>12. \A c \in Crons : job[c].at = "FINALIZE_COMMIT"
                          => refund'[job[c].rf].status = refund[job[c].rf].status
  <2>1. \A c \in Crons : job[c].at = "FINALIZE_COMMIT" => GatewayRow(job[c].rf)
    BY CronsAreHandlers DEF TruthInv, JobTruth, Settling
  <2> QED BY <1>6, <2>1
<1>13. Given' \in Nat /\ Given <= Given'
  BY <1>6, <1>8
<1> QED BY <1>2, <1>4, <1>6, <1>11, <1>12, <1>13, AdministratorStep

LEMMA DatabaseErrorKeepsMoney ==
    ASSUME TruthInv, MoneyInv, Alone, NEW h \in Administrators, DatabaseError(h)
    PROVE  MoneyInv'
<1>1. Set(h, Thrown(job[h])) /\ UNCHANGED tables
  BY DEF DatabaseError
<1>2. h \in Handlers /\ h \notin Crons
  BY OthersAreCrons
<1>3. JobMoney(Thrown(job[h])) /\ ~Holding(Thrown(job[h]))
  BY <1>2, JobKnown, ThrownAtRest, AtRestKnows
<1> QED BY <1>1, <1>2, <1>3, LocalMoneyStep

-----------------------------------------------------------------------------
(* Review of an issue *)

LEMMA RestStepKeepsMoney ==
    ASSUME TruthInv, MoneyInv, Alone, NEW h \in Administrators, RestStep(h),
           UNCHANGED <<paymentStatus, row>>
    PROVE  MoneyInv'
<1>1. PICK k : AtRest(k) /\ Set(h, k)
  BY DEF RestStep
<1>2. JobMoney(k) /\ ~Holding(k)
  BY <1>1, AtRestKnows
<1>3. h \in Handlers /\ h \notin Crons /\ refund' = refund
  BY OthersAreCrons DEF RestStep
<1>4. StatusTrue(paymentStatus') /\ row'[Main] # "REFUND_REQUIRED"
  BY DEF MoneyInv, OrderMoney
<1> QED BY <1>1, <1>2, <1>3, <1>4, TableStep

LEMMA ReopenReadKeepsMoney ==
    ASSUME TruthInv, MoneyInv, Alone, NEW h \in Administrators, ReopenRead(h)
    PROVE  MoneyInv'
<1>1. h \in Handlers /\ h \notin Crons
  BY OthersAreCrons
<1>2. /\ UNCHANGED tables
      /\ \/ Set(h, Thrown(CallingBack(job[h])))
         \/ Set(h, Denying(job[h], LastDone))
  BY <1>1, ReopenReadEffect
<1>3. CASE Set(h, Thrown(CallingBack(job[h])))
  <2>1. AtRest(Thrown(CallingBack(job[h])))
    BY <1>1, JobKnown, CallingBackTyped, ThrownAtRest
  <2> QED BY <1>1, <1>2, <1>3, <2>1, AtRestKnows, LocalMoneyStep
<1>4. CASE Set(h, Denying(job[h], LastDone))
  <2>1. PICK k : k = Denying(job[h], LastDone)
    OBVIOUS
  <2>2. k.at \in Loose
    BY <1>1, <2>1, JobKnown, DenyingHolds DEF Loose
  <2> QED BY <1>1, <1>2, <1>4, <2>1, <2>2, LooseKnows, LocalMoneyStep
<1> QED BY <1>2, <1>3, <1>4

(* A transfer declared failed leaves the gateway refunds alone. *)
LEMMA ReopenedSums ==
    ASSUME TruthInv, NEW r, ManualRow(r), NEW t, t = Reopened(r)
    PROVE  /\ Replaced(t, r) /\ refund[r].by = "MANUAL" /\ t[r].by = "MANUAL"
           /\ Completed(t, Manual) \in Nat
           /\ Completed(t, Manual) + Part(refund[r], Manual, {"COMPLETED"}) = HandPaid
           /\ Part(refund[r], Manual, {"COMPLETED"}) \in Nat
<1>1. /\ r \in DOMAIN refund /\ refund[r].by = "MANUAL" /\ refund[r] \in Refund
      /\ refund \in Seq(Refund) /\ refund[r].amt \in Nat /\ "FAILED" \in RefundStatus
  BY RefundsTyped DEF ManualRow, RefundStatus
<1>2. [refund[r] EXCEPT !.status = "FAILED"].by = refund[r].by
      /\ [refund[r] EXCEPT !.status = "FAILED"].status = "FAILED"
  BY <1>1, RowWithStatus
<1>3. /\ t \in Seq(Refund) /\ Len(t) = Len(refund)
      /\ t[r].by = "MANUAL" /\ t[r].status = "FAILED"
      /\ \A n \in DOMAIN refund : n # r => t[n] = refund[n]
  BY <1>1, <1>2, StatusChanged DEF Reopened
<1>4. Replaced(t, r)
  BY <1>1, <1>3 DEF Replaced
<1>5. SumOf(t, Manual, {"COMPLETED"}) + Part(refund[r], Manual, {"COMPLETED"})
        = SumOf(refund, Manual, {"COMPLETED"}) + Part(t[r], Manual, {"COMPLETED"})
  BY <1>4, RowReplaced
<1>6. Part(t[r], Manual, {"COMPLETED"}) = 0 /\ Part(refund[r], Manual, {"COMPLETED"}) \in Nat
  BY <1>1, <1>3 DEF Part
<1>7. Completed(t, Manual) = SumOf(t, Manual, {"COMPLETED"}) /\ Completed(t, Manual) \in Nat
  BY <1>3, CompletedType DEF Completed, SumOf
<1>8. HandPaid \in Nat
  BY SumsTyped
<1>9. Completed(t, Manual) + Part(refund[r], Manual, {"COMPLETED"}) = HandPaid
  BY <1>5, <1>6, <1>7, <1>8 DEF HandPaid
<1> QED BY <1>1, <1>3, <1>4, <1>6, <1>7, <1>9

LEMMA ReopenWriteKeepsMoney ==
    ASSUME TruthInv, MoneyInv, Alone, NEW h \in Administrators, ReopenWrite(h)
    PROVE  MoneyInv'
<1> DEFINE j == job[h]
           total == Completed(Reopened(j.rf), Manual)
<1>1. h \in Handlers /\ h \notin Crons
  BY OthersAreCrons
<1>2. /\ j.at = "REOPEN_WRITE" /\ UNCHANGED tables /\ Unlocked(h, j.rf)
      /\ \/ Set(h, Thrown(j))
         \/ ~(total >= Price) /\ Set(h, Counted(j, "REOPEN_COMMIT", total))
  BY DEF ReopenWrite, Counted
<1>3. j \in Job /\ ManualRow(j.rf)
  BY <1>1, <1>2, JobKnown DEF JobTruth
<1>4. total \in Nat /\ total + Part(refund[j.rf], Manual, {"COMPLETED"}) = HandPaid
  BY <1>3, ReopenedSums
<1> HIDE DEF total
<1>5. CASE Set(h, Thrown(j))
  BY <1>1, <1>2, <1>3, <1>5, ThrownAtRest, AtRestKnows, LocalMoneyStep
<1>6. CASE ~(total >= Price) /\ Set(h, Counted(j, "REOPEN_COMMIT", total))
  <2>1. PICK k : k = Counted(j, "REOPEN_COMMIT", total)
    OBVIOUS
  <2>2. k.at = "REOPEN_COMMIT" /\ k.total = total /\ k.rf = j.rf
    BY <1>3, <2>1, CountedHolds
  <2>3. k.total < Price /\ k.total + Part(refund[k.rf], Manual, {"COMPLETED"}) = HandPaid
    BY <1>4, <1>6, <2>2, Constants
  <2>4. JobMoney(k)
    BY <2>2, <2>3 DEF JobMoney, Claimed, Hand, Asks
  <2>5. Holding(k) => \A g \in Handlers \ {h} : Holding(job[g]) => job[g].rf # k.rf
    BY <1>2, <2>2 DEF Holding, Unlocked
  <2>6. Set(h, k)
    BY <1>6, <2>1
  <2> HIDE DEF j
  <2> QED BY <1>1, <1>2, <2>4, <2>5, <2>6, LocalMoneyStep
<1> QED BY <1>2, <1>5, <1>6

LEMMA ReopenCommitKeepsMoney ==
    ASSUME TruthInv, MoneyInv, Alone, NEW h \in Administrators, ReopenCommit(h)
    PROVE  MoneyInv'
<1> DEFINE j == job[h]
<1>1. h \in Handlers
  BY OthersAreCrons
<1>2. /\ j.at = "REOPEN_COMMIT" /\ Set(h, Counted(j, "RESEND", 0))
      /\ refund' = Reopened(j.rf) /\ row' = row
      /\ paymentStatus' = resolveRefundPaymentStatus(j.total)
  BY DEF ReopenCommit, Counted
<1>3. j \in Job /\ ManualRow(j.rf) /\ JobMoney(j)
  BY <1>1, <1>2, JobKnown, MoneyKnown DEF JobTruth
<1> HIDE DEF j
<1>4. PICK k : Set(h, k) /\ JobMoney(k)' /\ ~Holding(k)
  <2>1. PICK k : k = Counted(j, "RESEND", 0)
    OBVIOUS
  <2>2. k.at \in Loose
    BY <1>3, <2>1, CountedHolds DEF Loose
  <2> QED BY <1>2, <2>1, <2>2, LooseKnows
<1>5. PICK t : t = Reopened(j.rf) /\ refund' = t
  BY <1>2
<1>6. /\ Replaced(t, j.rf) /\ refund[j.rf].by = "MANUAL" /\ t[j.rf].by = "MANUAL"
      /\ Completed(t, Manual) \in Nat
      /\ Completed(t, Manual) + Part(refund[j.rf], Manual, {"COMPLETED"}) = HandPaid
      /\ Part(refund[j.rf], Manual, {"COMPLETED"}) \in Nat
  BY <1>3, <1>5, ReopenedSums
<1>7. ASSUME NEW p \in Payments, NEW statuses
      PROVE  /\ t \in Seq(Refund)
             /\ SumOf(t, {p}, statuses) = SumOf(refund, {p}, statuses)
             /\ Ids(t, {p}, statuses) = Ids(refund, {p}, statuses)
             /\ \A r : GatewayRow(r) => t[r] = refund[r]
  BY <1>6, ManualRowReplaced
<1>8. /\ \A r : GatewayRow(r) => refund'[r] = refund[r]
      /\ Given' = Given /\ (\A p \in Payments : Reserved(p)' = Reserved(p))
      /\ AtGateway' = AtGateway /\ refund' \in Seq(Refund)
  <2>1. Main \in Payments
    BY DEF Payments
  <2> QED BY <1>5, <1>7, <2>1 DEF Given, Reserved, AtGateway
<1>9. HandPaid' = j.total /\ j.total \in Nat /\ j.total <= HandPaid
  <2>1. j.total + Part(refund[j.rf], Manual, {"COMPLETED"}) = HandPaid /\ j.total \in Nat
    BY <1>2, <1>3 DEF JobMoney, Hand, Job
  <2>2. HandPaid' = Completed(t, Manual)
    BY <1>5 DEF HandPaid, Completed, SumOf
  <2>3. HandPaid \in Nat
    BY SumsTyped
  <2>4. \A a, b, c, d \in Nat : a + c = d /\ b + c = d => b = a /\ a <= d
    OBVIOUS
  <2> QED BY <1>6, <2>1, <2>2, <2>3, <2>4
<1>10. /\ HandPaid \in Nat /\ Given \in Nat /\ HandPaid' \in Nat /\ Given' \in Nat
       /\ \A p : Reserved(p) \in Nat
  BY <1>8, SumsTyped, SumsTypedNext
<1>11. OrderMoney'
  <2>1. ASSUME NEW p \in Payments PROVE Spent(p)' <= Price
    <3>1. /\ Spent(p) = Reserved(p) + (IF p = Main THEN HandPaid ELSE 0)
          /\ Spent(p)' = Reserved(p) + (IF p = Main THEN HandPaid' ELSE 0)
          /\ Spent(p) <= Price
      BY <1>8 DEF Spent, MoneyInv, OrderMoney
    <3>2. \A a, b, c, d \in Nat : b <= c /\ a + c <= d => a + b <= d
      OBVIOUS
    <3> QED BY <1>9, <1>10, <3>1, <3>2, Constants
  <2>2. AtGateway' # {} => HandPaid' = 0
    BY <1>8, <1>9, <1>10 DEF MoneyInv, OrderMoney
  <2>3. StatusTrue(paymentStatus)'
    <3>1. (j.total = 0 => HandPaid' = 0) /\ j.total <= HandPaid' + Given'
      BY <1>9, <1>10
    <3> QED BY <1>2, <1>9, <1>10, <3>1, ResolvedTrue
  <2>4. row'[Main] # "REFUND_REQUIRED"
    BY <1>2 DEF MoneyInv, OrderMoney
  <2> QED BY <2>1, <2>2, <2>3, <2>4 DEF OrderMoney
<1>12. \A c \in Crons : job[c].at = "FINALIZE_COMMIT"
                          => refund'[job[c].rf].status = refund[job[c].rf].status
  <2>1. \A c \in Crons : job[c].at = "FINALIZE_COMMIT" => GatewayRow(job[c].rf)
    BY CronsAreHandlers DEF TruthInv, JobTruth, Settling
  <2> QED BY <1>8, <2>1
<1>13. Given' \in Nat /\ Given <= Given'
  BY <1>8, <1>10
<1> QED BY <1>4, <1>8, <1>11, <1>12, <1>13, AdministratorStep

LEMMA ReviewKeepsMoney ==
    ASSUME TruthInv, MoneyInv, Alone, NEW h \in Administrators, Review(h)
    PROVE  MoneyInv'
<1>1. h \in Handlers
  BY OthersAreCrons
<1>2. CASE \E i \in Issues : ReviewRead(h, i)
  BY <1>1, <1>2, ReviewReadRests, RestStepKeepsMoney DEF ReviewRead, tables, orderVars
<1>3. CASE ReviewReject(h)
  BY <1>1, <1>3, ReviewRejectRests, RestStepKeepsMoney DEF ReviewReject, orderVars
<1>4. CASE ReviewApprove(h)
  BY <1>1, <1>4, ReviewApproveRests, RestStepKeepsMoney DEF ReviewApprove, orderVars
<1>5. CASE ReviewGoods(h)
  BY <1>1, <1>5, ReviewGoodsCalls, CalledKeepsMoney
<1>6. CASE ReviewShipping(h)
  <2>1. UNCHANGED tables /\ UNCHANGED <<paymentStatus, row>>
    BY <1>6 DEF ReviewShipping, tables, orderVars
  <2> QED BY <1>1, <1>6, <2>1, ReviewShippingCalls, CalledKeepsMoney, RestStepKeepsMoney
<1>7. CASE ReviewReturn(h)
  BY <1>1, <1>7, ReviewReturnRests, RestStepKeepsMoney DEF ReviewReturn
<1>8. CASE ReviewNow(h)
  BY <1>1, <1>8, ReviewNowRests, RestStepKeepsMoney DEF ReviewNow, tables, orderVars
<1>9. CASE CompleteOpenRefunds(h)
  <2>1. UNCHANGED tables /\ UNCHANGED <<paymentStatus, row>>
    BY <1>9 DEF CompleteOpenRefunds, tables, orderVars
  <2> QED BY <1>1, <1>9, <2>1, CompleteOpenRefundsCalls, CalledKeepsMoney, RestStepKeepsMoney
<1>10. CASE ReviewRollback(h)
  BY <1>1, <1>10, ReviewRollbackRests, RestStepKeepsMoney DEF ReviewRollback, orderVars
<1>11. CASE ReviewResend(h)
  BY <1>1, <1>11, ReviewResendCalls, CalledKeepsMoney
<1> QED BY <1>2, <1>3, <1>4, <1>5, <1>6, <1>7, <1>8, <1>9, <1>10, <1>11,
           ReopenReadKeepsMoney, ReopenWriteKeepsMoney, ReopenCommitKeepsMoney DEF Review

-----------------------------------------------------------------------------
(* refundGatewayPayment *)

LEMMA GatewayReadKeepsMoney ==
    ASSUME TruthInv, MoneyInv, Alone, NEW h \in Administrators,
           NEW p \in Payments, NEW amt \in 1..Price, GatewayRead(h, p, amt)
    PROVE  MoneyInv'
<1>1. h \in Handlers /\ h \notin Crons
  BY OthersAreCrons
<1>2. /\ UNCHANGED tables /\ Set(h, Reserving(p, amt))
      /\ row[p] \in {"PAID", "REFUND_REQUIRED"}
      /\ row[p] = "PAID" => paymentStatus = "PAID"
      /\ amt + Total(refund, Ids(refund, {p}, ReservedStatuses)) <= Price
  BY DEF GatewayRead, Reserving
<1>3. PICK k : k = Reserving(p, amt)
  OBVIOUS
<1>4. k.at = "RESERVE" /\ k.p = p /\ k.amt = amt
  BY <1>3, ReservingHolds
<1>5. p = Main => HandPaid = 0
  <2>1. paymentStatus = "PAID" => HandPaid = 0
    BY DEF MoneyInv, OrderMoney, StatusTrue
  <2>2. row[Main] # "REFUND_REQUIRED"
    BY DEF MoneyInv, OrderMoney
  <2> QED BY <1>2, <2>1, <2>2
<1>6. amt + Spent(p) <= Price
  <2>1. amt + Reserved(p) <= Price
    BY <1>2, SumsAre
  <2>2. Spent(p) = Reserved(p)
    <3>1. Reserved(p) \in Nat
      BY SumsTyped
    <3>2. \A a \in Nat : a + 0 = a
      OBVIOUS
    <3> QED BY <1>5, <3>1, <3>2 DEF Spent
  <2> QED BY <2>1, <2>2
<1>7. JobMoney(k) /\ ~Holding(k)
  BY <1>4, <1>5, <1>6 DEF JobMoney, Claimed, Hand, Asks, Holding, Writing
<1> QED BY <1>1, <1>2, <1>3, <1>7, LocalMoneyStep

(* The row that reserves the money: what was still free of the payment is promised. *)
LEMMA GatewayReserveKeepsMoney ==
    ASSUME TruthInv, MoneyInv, Alone, NEW h \in Administrators, GatewayReserve(h)
    PROVE  MoneyInv'
<1> DEFINE j == job[h]
<1>1. h \in Handlers
  BY OthersAreCrons
<1>2. /\ j.at = "RESERVE" /\ refund' = Append(refund, Asked(j)) /\ Set(h, Sending(j, NewId))
      /\ row' = row
      /\ paymentStatus' = "REFUND_PENDING" \/ paymentStatus' = paymentStatus
      /\ j.p = Main => paymentStatus' = "REFUND_PENDING"
  BY DEF GatewayReserve, Asked, Sending, NewId
<1>3. j \in Job /\ JobMoney(j)
  BY <1>1, JobKnown, MoneyKnown
<1> HIDE DEF j
<1>4. PICK x : /\ x = Asked(j) /\ x \in Refund /\ x.by = j.p /\ j.p \in Payments
               /\ x.status = "PENDING" /\ x.amt = j.amt
  BY <1>3, AskedTyped
<1>5. Added(refund', x)
  BY <1>2, <1>4 DEF Added
<1>6. /\ refund' \in Seq(Refund) /\ refund'[NewId] = x
      /\ \A n \in DOMAIN refund : refund'[n] = refund[n]
  <2>1. PICK t : t = refund' /\ Added(t, x)
    BY <1>5
  <2>2. t \in Seq(Refund) /\ t[NewId] = x /\ \A n \in DOMAIN refund : t[n] = refund[n]
    BY <2>1, RowAddedLast
  <2> QED BY <2>1, <2>2
<1>7. \A S, statuses : SumOf(refund', S, statuses)
                         = SumOf(refund, S, statuses) + Part(x, S, statuses)
  <2>1. PICK t : t = refund' /\ Added(t, x)
    BY <1>5
  <2>2. \A S, statuses : SumOf(t, S, statuses) = SumOf(refund, S, statuses) + Part(x, S, statuses)
    BY <2>1, RowAddedSums
  <2> QED BY <2>1, <2>2
<1>8. /\ HandPaid \in Nat /\ Given \in Nat /\ j.amt \in Nat
      /\ \A p : Reserved(p) \in Nat /\ Spent(p) \in Nat /\ Spent(p)' \in Nat
  BY <1>3, <1>6, SumsTyped, SumsTypedNext DEF Job
<1>9. \A a \in Nat : a + 0 = a
  OBVIOUS
<1>10. HandPaid' = HandPaid /\ Given' = Given
  <2>1. Part(x, Manual, {"COMPLETED"}) = 0 /\ Part(x, {Main}, {"COMPLETED"}) = 0
    BY <1>4 DEF Part
  <2>2. HandPaid' = HandPaid + 0 /\ Given' = Given + 0
    BY <1>7, <2>1 DEF HandPaid, Given
  <2> QED BY <1>8, <1>9, <2>2
<1>11. \A p : /\ p = j.p => Reserved(p)' = Reserved(p) + j.amt
              /\ p # j.p => Reserved(p)' = Reserved(p)
  <2>1. ASSUME NEW p PROVE Part(x, {p}, ReservedStatuses) = IF p = j.p THEN j.amt ELSE 0
    BY <1>4 DEF Part, ReservedStatuses
  <2>2. ASSUME NEW p PROVE Reserved(p)' = Reserved(p) + Part(x, {p}, ReservedStatuses)
    <3>1. SumOf(refund', {p}, ReservedStatuses)
            = SumOf(refund, {p}, ReservedStatuses) + Part(x, {p}, ReservedStatuses)
      BY <1>7
    <3> QED BY <3>1 DEF Reserved
  <2> QED BY <1>8, <1>9, <2>1, <2>2
<1>12. j.amt + Spent(j.p) <= Price /\ (j.p = Main => HandPaid = 0)
  BY <1>2, <1>3 DEF JobMoney, Asks
<1>13. \A p \in Payments : Spent(p)' <= Price
  <2>1. ASSUME NEW p \in Payments, p = j.p PROVE Spent(p)' <= Price
    <3>1. /\ Spent(p) = Reserved(p) + (IF p = Main THEN HandPaid ELSE 0)
          /\ Spent(p)' = Reserved(p) + j.amt + (IF p = Main THEN HandPaid ELSE 0)
      BY <1>10, <1>11, <2>1 DEF Spent
    <3>2. \A a, b, c, d \in Nat : b + (a + c) <= d => a + b + c <= d
      OBVIOUS
    <3>3. \A a, b, d \in Nat : b + (a + 0) <= d => a + b + 0 <= d
      OBVIOUS
    <3> QED BY <1>8, <1>12, <2>1, <3>1, <3>2, <3>3, Constants
  <2>2. ASSUME NEW p \in Payments, p # j.p PROVE Spent(p)' <= Price
    <3>1. Spent(p)' = Spent(p)
      BY <1>10, <1>11, <2>2 DEF Spent
    <3> QED BY <3>1 DEF MoneyInv, OrderMoney
  <2> QED BY <2>1, <2>2
<1>14. AtGateway' # {} => HandPaid' = 0
  <2>1. CASE j.p = Main
    BY <1>10, <1>12, <2>1
  <2>2. CASE j.p # Main
    <3>1. PICK t : t = refund' /\ Added(t, x)
      BY <1>5
    <3>2. DOMAIN t = DOMAIN refund \cup {NewId}
      BY <3>1, RowAddedLast
    <3>3. AtGateway' \subseteq AtGateway
      BY <1>4, <1>6, <2>2, <3>1, <3>2 DEF AtGateway, Ids
    <3> QED BY <1>10, <3>3 DEF MoneyInv, OrderMoney
  <2> QED BY <2>1, <2>2
<1>15. StatusTrue(paymentStatus)'
  <2>1. CASE paymentStatus' = "REFUND_PENDING"
    BY <2>1 DEF StatusTrue
  <2>2. CASE paymentStatus' = paymentStatus
    BY <1>10, <2>2 DEF StatusTrue, MoneyInv, OrderMoney
  <2> QED BY <1>2, <2>1, <2>2
<1>16. OrderMoney'
  BY <1>2, <1>13, <1>14, <1>15 DEF OrderMoney, MoneyInv
<1>17. PICK k : Set(h, k) /\ JobMoney(k)' /\ ~Holding(k)
  <2>1. PICK k : k = Sending(j, NewId)
    OBVIOUS
  <2>2. k.at = "SEND" /\ k.rf = NewId
    BY <1>3, <2>1, SendingHolds
  <2>3. refund'[k.rf].status = "PENDING"
    BY <1>4, <1>6, <2>2
  <2>4. JobMoney(k)' /\ ~Holding(k)
    BY <2>2, <2>3 DEF JobMoney, Claimed, Hand, Asks, Holding, Writing
  <2> QED BY <1>2, <2>1, <2>4
<1>18. \A r : GatewayRow(r) => refund'[r] = refund[r]
  BY <1>6 DEF GatewayRow
<1>19. \A c \in Crons : job[c].at = "FINALIZE_COMMIT"
                          => refund'[job[c].rf].status = refund[job[c].rf].status
  <2>1. \A c \in Crons : job[c].at = "FINALIZE_COMMIT" => GatewayRow(job[c].rf)
    BY CronsAreHandlers DEF TruthInv, JobTruth, Settling
  <2> QED BY <1>18, <2>1
<1>20. Given' \in Nat /\ Given <= Given'
  BY <1>8, <1>10
<1> QED BY <1>16, <1>17, <1>18, <1>19, <1>20, AdministratorStep

LEMMA GatewaySendKeepsMoney ==
    ASSUME TruthInv, MoneyInv, Alone, NEW h \in Administrators, GatewaySend(h)
    PROVE  MoneyInv'
<1> DEFINE j == job[h]
<1>1. h \in Handlers /\ h \notin Crons
  BY OthersAreCrons
<1>2. j.at = "SEND" /\ UNCHANGED tables /\ Set(h, MovedTo(j, "WAIT"))
  BY DEF GatewaySend, MovedTo
<1>3. j \in Job /\ JobMoney(j)
  BY <1>1, JobKnown, MoneyKnown
<1> HIDE DEF j
<1>4. PICK k : k = MovedTo(j, "WAIT")
  OBVIOUS
<1>5. k.at = "WAIT" /\ k.rf = j.rf
  BY <1>3, <1>4, MovedToHolds
<1>6. refund[j.rf].status = "PENDING"
  BY <1>2, <1>3 DEF JobMoney, Asks
<1>7. JobMoney(k) /\ ~Holding(k)
  BY <1>5, <1>6 DEF JobMoney, Claimed, Hand, Asks, Holding, Writing
<1> QED BY <1>1, <1>2, <1>4, <1>7, LocalMoneyStep

(* The refund that the administrator asks for is nobody else's. *)
LEMMA OthersLeave ==
    ASSUME MoneyInv, Alone, NEW h \in Administrators, NEW r, refund[r].status = "PENDING"
    PROVE  \A g \in Handlers : g # h /\ job[g].at \in Writing \cup Asking => job[g].rf # r
<1>1. ASSUME NEW g \in Handlers, g # h, job[g].at \in Writing \cup Asking PROVE job[g].rf # r
  <2>1. ByCron(job[g])
    BY <1>1, OthersAreCrons DEF MoneyInv
  <2>2. job[g].at \in Settling
    BY <1>1, <2>1 DEF ByCron, Writing, Asking, Settling
  <2> QED BY <2>1, <2>2 DEF ByCron
<1> QED BY <1>1

LEMMA StatusStaysTrue ==
    ASSUME TruthInv, HandPaid' = HandPaid, Given' \in Nat, Given <= Given', NEW st, StatusTrue(st)
    PROVE  StatusTrue(st)'
<1>1. HandPaid + Given >= Price => HandPaid + Given' >= Price
  BY SumsTyped, Constants
<1> QED BY <1>1 DEF StatusTrue

(* The money was asked for: nothing was paid by hand. *)
LEMMA OpenRefundIsAlone ==
    ASSUME TruthInv, MoneyInv, NEW r, GatewayRow(r), refund[r].status \in Claimable,
           refund[r].by = Main
    PROVE  HandPaid = 0
<1>1. r \in AtGateway
  BY DEF GatewayRow, Claimable, AtGateway, Ids
<1> QED BY <1>1 DEF MoneyInv, OrderMoney

LEMMA AskedPending ==
    ASSUME TruthInv, MoneyInv, NEW h \in Handlers, job[h].at \in {"SEND", "WAIT", "PAID_BACK"}
    PROVE  /\ job[h] \in Job /\ GatewayRow(job[h].rf) /\ refund[job[h].rf].by = job[h].p
           /\ refund[job[h].rf].status = "PENDING" /\ refund[job[h].rf].status \in Claimable
<1>1. job[h] \in Job /\ GatewayRow(job[h].rf) /\ refund[job[h].rf].by = job[h].p
  BY AskingJob DEF Asking
<1>2. JobMoney(job[h])
  BY MoneyKnown
<1>3. refund[job[h].rf].status = "PENDING"
  BY <1>2 DEF JobMoney, Asks
<1> QED BY <1>1, <1>3 DEF Claimable

LEMMA GatewayPendingKeepsMoney ==
    ASSUME TruthInv, MoneyInv, Alone, NEW h \in Administrators, GatewayPending(h)
    PROVE  MoneyInv'
<1>1. h \in Handlers /\ h \notin Crons
  BY OthersAreCrons
<1>2. /\ job[h].at = "WAIT" /\ Set(h, NoJob) /\ UNCHANGED <<paymentStatus, row>>
      /\ Takes(job[h].rf, "PROCESSING")
  BY DEF GatewayPending, Waiting, Takes, orderVars
<1>3. PICK r : r = job[h].rf
  OBVIOUS
<1>4. GatewayRow(r) /\ refund[r].status = "PENDING" /\ refund[r].status \in Claimable
  BY <1>1, <1>2, <1>3, AskedPending
<1>5. \A g \in Handlers : g # h /\ job[g].at \in Writing \cup Asking => job[g].rf # r
  BY <1>4, OthersLeave
<1>6. HandPaid' = HandPaid /\ Given' \in Nat /\ Given <= Given'
  BY <1>2, <1>3, <1>4, SettleSums
<1>7. StatusTrue(paymentStatus)' /\ row'[Main] # "REFUND_REQUIRED"
  <2>1. PICK st : st = paymentStatus /\ StatusTrue(st)
    BY DEF MoneyInv, OrderMoney
  <2>2. StatusTrue(st)'
    BY <1>6, <2>1, StatusStaysTrue
  <2> QED BY <1>2, <2>1, <2>2 DEF MoneyInv, OrderMoney
<1>8. JobMoney(NoJob)' /\ ~Holding(NoJob)
  BY NoJobByCron, LooseKnows
<1> QED BY <1>1, <1>2, <1>3, <1>4, <1>5, <1>7, <1>8, SettleStep

LEMMA GatewayRefusedKeepsMoney ==
    ASSUME TruthInv, MoneyInv, Alone, NEW h \in Administrators, GatewayRefused(h)
    PROVE  MoneyInv'
<1>1. h \in Handlers /\ h \notin Crons
  BY OthersAreCrons
<1>2. /\ job[h].at = "WAIT" /\ UNCHANGED <<paymentStatus, row>>
      /\ Set(h, IF job[h].p = Main THEN MovedTo(job[h], "UNDO") ELSE NoJob)
      /\ Takes(job[h].rf, "FAILED")
  BY DEF GatewayRefused, Waiting, Takes, orderVars, MovedTo
<1>3. PICK r : r = job[h].rf
  OBVIOUS
<1>4. /\ GatewayRow(r) /\ refund[r].status = "PENDING" /\ refund[r].status \in Claimable
      /\ refund[r].by = job[h].p /\ job[h] \in Job
  BY <1>1, <1>2, <1>3, AskedPending
<1>5. \A g \in Handlers : g # h /\ job[g].at \in Writing \cup Asking => job[g].rf # r
  BY <1>4, OthersLeave
<1>6. /\ HandPaid' = HandPaid /\ Given' \in Nat /\ Given <= Given'
      /\ Spent(refund[r].by)' + refund[r].amt = Spent(refund[r].by)
      /\ refund'[r].status = "FAILED" /\ refund'[r].amt = refund[r].amt
      /\ refund[r].amt \in Nat /\ refund' \in Seq(Refund) /\ refund'[r].by = refund[r].by
  BY <1>2, <1>3, <1>4, SettleSums
<1>7. StatusTrue(paymentStatus)' /\ row'[Main] # "REFUND_REQUIRED"
  <2>1. PICK st : st = paymentStatus /\ StatusTrue(st)
    BY DEF MoneyInv, OrderMoney
  <2>2. StatusTrue(st)'
    BY <1>6, <2>1, StatusStaysTrue
  <2> QED BY <1>2, <2>1, <2>2 DEF MoneyInv, OrderMoney
<1>8. PICK k : k = IF job[h].p = Main THEN MovedTo(job[h], "UNDO") ELSE NoJob
  OBVIOUS
<1>9. JobMoney(k)' /\ ~Holding(k)
  <2>1. CASE job[h].p = Main
    <3>1. k.at = "UNDO" /\ k.p = Main /\ k.rf = r
      BY <1>3, <1>4, <1>8, <2>1, MovedToHolds
    <3>2. HandPaid' = 0
      BY <1>4, <1>6, <2>1, OpenRefundIsAlone
    <3>3. refund'[r].amt + Spent(Main)' <= Price
      <4>1. refund[r].amt + Spent(Main)' = Spent(Main)
        <5>1. Spent(Main)' + refund[r].amt = Spent(Main) /\ refund[r].amt \in Nat
          <6>1. PICK p : p = refund[r].by /\ p = Main /\ refund'[r].by = p
            BY <1>4, <1>6, <2>1
          <6> QED BY <1>6, <6>1
        <5>2. Spent(Main)' \in Nat
          BY <1>6, SumsTypedNext
        <5>3. \A a, b \in Nat : a + b = b + a
          OBVIOUS
        <5> QED BY <5>1, <5>2, <5>3
      <4>2. Spent(Main) <= Price
        BY DEF MoneyInv, OrderMoney, Payments
      <4> QED BY <1>6, <4>1, <4>2
    <3> QED BY <1>6, <3>1, <3>2, <3>3 DEF JobMoney, Claimed, Hand, Asks, Holding, Writing
  <2>2. CASE job[h].p # Main
    BY <1>8, <2>2, NoJobByCron, LooseKnows
  <2> QED BY <2>1, <2>2
<1>10. Set(h, k)
  BY <1>2, <1>8
<1> QED BY <1>1, <1>2, <1>3, <1>4, <1>5, <1>7, <1>9, <1>10, SettleStep

LEMMA GatewayUndoKeepsMoney ==
    ASSUME TruthInv, MoneyInv, Alone, NEW h \in Administrators, GatewayUndo(h)
    PROVE  MoneyInv'
<1>1. h \in Handlers /\ h \notin Crons
  BY OthersAreCrons
<1>2. /\ job[h].at = "UNDO" /\ Set(h, NoJob) /\ paymentStatus' = "PAID"
      /\ UNCHANGED <<refund, row>>
  BY DEF GatewayUndo
<1>3. HandPaid = 0
  BY <1>1, <1>2, MoneyKnown DEF JobMoney, Asks
<1>4. StatusTrue(paymentStatus') /\ row'[Main] # "REFUND_REQUIRED"
  BY <1>2, <1>3 DEF StatusTrue, MoneyInv, OrderMoney
<1>5. JobMoney(NoJob) /\ ~Holding(NoJob)
  BY NoJobByCron, LooseKnows
<1> QED BY <1>1, <1>2, <1>4, <1>5, TableStep

(* The sum of all completed refunds, when there are no other payments and nothing was
   paid by hand. *)
LEMMA AllDoneIs ==
    ASSUME TruthInv, MoneyInv, NEW j, GatewayRow(j.rf), refund[j.rf].status \in Claimable,
           NEW s \in {"COMPLETED", "FAILED"}, Extras = {}
    PROVE  AllDone(j, s) = Given + (IF s = "COMPLETED" THEN refund[j.rf].amt ELSE 0)
<1> DEFINE x == refund[j.rf]
<1>1. PICK t : t = [refund EXCEPT ![j.rf].status = s]
  OBVIOUS
<1>2. /\ refund \in Seq(Refund) /\ j.rf \in DOMAIN refund /\ x \in Refund /\ x.amt \in Nat
      /\ s \in RefundStatus /\ Payments = {Main} /\ x.by = Main /\ Main # "MANUAL"
  BY RefundsTyped, Constants DEF GatewayRow, RefundStatus, Payments
<1>3. PICK y : y = [x EXCEPT !.status = s]
  OBVIOUS
<1>4. y.status = s /\ y.by = Main /\ y.amt = x.amt
  BY <1>2, <1>3, RowWithStatus
<1>5. /\ t \in Seq(Refund) /\ Len(t) = Len(refund) /\ t[j.rf] = y
      /\ \A n \in DOMAIN refund : n # j.rf => t[n] = refund[n]
  BY <1>1, <1>2, <1>3, StatusChanged
<1>6. Replaced(t, j.rf)
  BY <1>2, <1>5 DEF Replaced
<1>7. /\ SumOf(t, {Main}, {"COMPLETED"}) \in Nat /\ SumOf(t, Manual, {"COMPLETED"}) \in Nat
      /\ Given \in Nat /\ HandPaid = 0
  BY <1>2, <1>5, SumType, SumsTyped, OpenRefundIsAlone
<1>8. \A S : SumOf(t, S, {"COMPLETED"}) + Part(x, S, {"COMPLETED"})
               = SumOf(refund, S, {"COMPLETED"}) + Part(y, S, {"COMPLETED"})
  BY <1>5, <1>6, RowReplaced
<1>9. x.status # "COMPLETED"
  BY DEF Claimable
<1>10. SumOf(t, {Main}, {"COMPLETED"}) = Given + (IF s = "COMPLETED" THEN x.amt ELSE 0)
  <2>1. /\ Part(x, {Main}, {"COMPLETED"}) = 0
        /\ Part(y, {Main}, {"COMPLETED"}) = IF s = "COMPLETED" THEN x.amt ELSE 0
    BY <1>2, <1>4, <1>9 DEF Part
  <2>2. SumOf(t, {Main}, {"COMPLETED"}) + 0
          = SumOf(refund, {Main}, {"COMPLETED"}) + (IF s = "COMPLETED" THEN x.amt ELSE 0)
    BY <1>8, <2>1
  <2>3. \A a \in Nat : a + 0 = a
    OBVIOUS
  <2> QED BY <1>7, <2>2, <2>3 DEF Given
<1>11. SumOf(t, Manual, {"COMPLETED"}) = 0
  <2>1. Part(x, Manual, {"COMPLETED"}) = 0 /\ Part(y, Manual, {"COMPLETED"}) = 0
    BY <1>2, <1>4 DEF Part, Manual
  <2>2. SumOf(t, Manual, {"COMPLETED"}) + 0 = HandPaid + 0
    BY <1>8, <2>1 DEF HandPaid
  <2>3. \A a, b \in Nat : a + 0 = b + 0 => a = b
    OBVIOUS
  <2> QED BY <1>7, <2>2, <2>3
<1>12. SumOf(t, {Main} \cup Manual, {"COMPLETED"})
         = SumOf(t, {Main}, {"COMPLETED"}) + SumOf(t, Manual, {"COMPLETED"})
  <2>1. {Main} \cap Manual = {}
    BY <1>2 DEF Manual
  <2> QED BY <1>5, <2>1, SumOfParties
<1>13. AllDone(j, s) = SumOf(t, {Main} \cup Manual, {"COMPLETED"})
  BY <1>1, <1>2 DEF AllDone, Completed, SumOf
<1>14. \A a \in Nat : a + 0 = a
  OBVIOUS
<1> QED BY <1>7, <1>10, <1>11, <1>12, <1>13, <1>14

LEMMA GatewaySucceedsKeepsMoney ==
    ASSUME TruthInv, MoneyInv, Alone, NEW h \in Administrators, GatewaySucceeds(h)
    PROVE  MoneyInv'
<1> DEFINE j == job[h]
<1>1. h \in Handlers /\ h \notin Crons
  BY OthersAreCrons
<1>2. /\ j.at = "WAIT" /\ UNCHANGED tables
      /\ Set(h, [WithSums(j, "COMPLETED") EXCEPT !.at = "PAID_BACK"])
  BY DEF GatewaySucceeds, Waiting
<1>3. /\ j \in Job /\ GatewayRow(j.rf) /\ refund[j.rf].status = "PENDING"
      /\ refund[j.rf].status \in Claimable
  BY <1>1, <1>2, AskedPending
<1>4. \A g \in Handlers : g # h /\ job[g].at \in Writing \cup Asking => job[g].rf # j.rf
  BY <1>3, OthersLeave
<1> HIDE DEF j
<1>5. "COMPLETED" \in RefundStatus /\ "PAID_BACK" \in Stage
  BY DEF RefundStatus, Stage
<1>6. PICK k : k = Summed(j, "PAID_BACK", AllDone(j, "COMPLETED"), ThisDone(j, "COMPLETED"))
  OBVIOUS
<1>7. Set(h, k)
  BY <1>2, <1>3, <1>5, <1>6, WithSumsIs
<1>8. k.at = "PAID_BACK" /\ k.rf = j.rf /\ k.total = AllDone(j, "COMPLETED")
  BY <1>3, <1>6, SummedHolds
<1>9. Extras = {} => k.total <= Given + Promised(k)
  <2>1. Promised(k) = refund[j.rf].amt
    BY <1>8 DEF Promised
  <2>2. Extras = {} => k.total = Given + refund[j.rf].amt
    BY <1>3, <1>8, AllDoneIs
  <2>3. Given \in Nat /\ refund[j.rf].amt \in Nat
    BY <1>3, SumsTyped, PromisedType
  <2>4. \A a, b \in Nat : a + b <= a + b
    OBVIOUS
  <2> QED BY <2>1, <2>2, <2>3, <2>4
<1>10. JobMoney(k)
  BY <1>3, <1>8, <1>9 DEF JobMoney, Claimed, Hand, Asks
<1>11. \A g \in Handlers \ {h} : Holding(job[g]) => job[g].rf # k.rf
  BY <1>4, <1>8 DEF Holding
<1> QED BY <1>1, <1>2, <1>7, <1>10, <1>11, LocalMoneyStep

(* A refund is recorded as completed, with the sums that were read in the transaction. *)
LEMMA PaidBackStep ==
    ASSUME TruthInv, MoneyInv, NEW h \in Handlers, NEW k, Set(h, k), ~Holding(k),
           NEW j \in Job, GatewayRow(j.rf), PaidBack(j), refund[j.rf].status \in Claimable,
           Extras = {} => j.total <= Given + refund[j.rf].amt,
           \A g \in Handlers : g # h /\ job[g].at \in Writing \cup Asking => job[g].rf # j.rf,
           Takes(j.rf, "COMPLETED") => JobMoney(k)' /\ (h \in Crons => ByCron(k)')
    PROVE  MoneyInv'
<1>1. /\ Takes(j.rf, "COMPLETED") /\ Main \in Payments
      /\ IF refund[j.rf].by = Main THEN paymentStatus' = resolveRefundPaymentStatus(j.total)
         ELSE paymentStatus' = paymentStatus
  BY DEF PaidBack, Takes, Payments
<1>2. row'[Main] = row[Main] \/ row'[Main] \in {"REFUNDED", "PARTIALLY_REFUNDED"}
  BY <1>1 DEF PaidBack, TruthInv, OrderTypes
<1>3. /\ HandPaid' = HandPaid /\ Given' \in Nat /\ Given <= Given'
      /\ Given' = Given + (IF refund[j.rf].by = Main THEN refund[j.rf].amt ELSE 0)
  BY <1>1, SettleSums
<1>4. StatusTrue(paymentStatus)'
  <2>1. CASE refund[j.rf].by = Main
    <3>1. HandPaid' = 0 /\ Given' = Given + refund[j.rf].amt
      BY <1>3, <2>1, OpenRefundIsAlone
    <3>2. j.total \in Nat
      BY DEF Job
    <3>3. Extras = {} => j.total <= HandPaid' + Given'
      <4>1. \A a \in Nat : 0 + a = a
        OBVIOUS
      <4>2. HandPaid' + Given' = Given'
        BY <1>3, <3>1, <4>1
      <4> QED BY <3>1, <4>2
    <3> QED BY <1>1, <1>3, <2>1, <3>1, <3>2, <3>3, ResolvedTrue
  <2>2. CASE refund[j.rf].by # Main
    <3>1. PICK st : st = paymentStatus /\ StatusTrue(st)
      BY DEF MoneyInv, OrderMoney
    <3>2. StatusTrue(st)'
      BY <1>3, <3>1, StatusStaysTrue
    <3> QED BY <1>1, <2>2, <3>1, <3>2
  <2> QED BY <2>1, <2>2
<1>5. row'[Main] # "REFUND_REQUIRED"
  BY <1>2 DEF MoneyInv, OrderMoney
<1>6. JobMoney(k)' /\ (h \in Crons => ByCron(k)')
  BY <1>1
<1>7. PICK r : r = j.rf
  OBVIOUS
<1> QED BY <1>1, <1>4, <1>5, <1>6, <1>7, SettleStep

LEMMA GatewayPaidBackKeepsMoney ==
    ASSUME TruthInv, MoneyInv, Alone, NEW h \in Administrators, GatewayPaidBack(h)
    PROVE  MoneyInv'
<1>1. h \in Handlers /\ h \notin Crons
  BY OthersAreCrons
<1>2. job[h].at = "PAID_BACK" /\ PaidBack(job[h]) /\ Set(h, NoJob)
  BY DEF GatewayPaidBack
<1>3. PICK j : j = job[h]
  OBVIOUS
<1>4. /\ j \in Job /\ GatewayRow(j.rf) /\ refund[j.rf].status = "PENDING"
      /\ refund[j.rf].status \in Claimable
  BY <1>1, <1>2, <1>3, AskedPending
<1>5. \A g \in Handlers : g # h /\ job[g].at \in Writing \cup Asking => job[g].rf # j.rf
  BY <1>4, OthersLeave
<1>6. Extras = {} => j.total <= Given + refund[j.rf].amt
  <2>1. Claimed(j)
    BY <1>1, <1>3, MoneyKnown DEF JobMoney
  <2> QED BY <1>2, <1>3, <2>1 DEF Claimed, Promised
<1>7. JobMoney(NoJob)' /\ ~Holding(NoJob)
  BY NoJobByCron, LooseKnows
<1> QED BY <1>1, <1>2, <1>3, <1>4, <1>5, <1>6, <1>7, PaidBackStep

LEMMA GatewayErrorKeepsMoney ==
    ASSUME TruthInv, MoneyInv, Alone, NEW h \in Administrators, GatewayError(h)
    PROVE  MoneyInv'
<1>1. h \in Handlers /\ h \notin Crons
  BY OthersAreCrons
<1>2. /\ job[h].at \in Asking /\ Set(h, NoJob) /\ UNCHANGED <<paymentStatus, row>>
      /\ Takes(job[h].rf, "PROCESSING")
  BY DEF GatewayError, Asking, Takes, orderVars
<1>3. PICK r : r = job[h].rf
  OBVIOUS
<1>4. JobMoney(NoJob)' /\ ~Holding(NoJob)
  BY NoJobByCron, LooseKnows
<1>5. PICK st : st = paymentStatus /\ StatusTrue(st)
  BY DEF MoneyInv, OrderMoney
<1>6. row'[Main] # "REFUND_REQUIRED"
  BY <1>2 DEF MoneyInv, OrderMoney
<1>7. CASE job[h].at # "UNDO"
  <2>1. GatewayRow(r) /\ refund[r].status = "PENDING" /\ refund[r].status \in Claimable
    BY <1>1, <1>2, <1>3, <1>7, AskedPending DEF Asking
  <2>2. \A g \in Handlers : g # h /\ job[g].at \in Writing \cup Asking => job[g].rf # r
    BY <2>1, OthersLeave
  <2>3. HandPaid' = HandPaid /\ Given' \in Nat /\ Given <= Given'
    BY <1>2, <1>3, <2>1, SettleSums
  <2>4. StatusTrue(paymentStatus)'
    <3>1. StatusTrue(st)'
      BY <1>5, <2>3, StatusStaysTrue
    <3> QED BY <1>2, <1>5, <3>1
  <2> QED BY <1>1, <1>2, <1>3, <1>4, <1>6, <2>1, <2>2, <2>4, SettleStep
<1>8. CASE job[h].at = "UNDO"
  <2>1. /\ GatewayRow(r) /\ refund[r].by = Main /\ refund[r].status = "FAILED"
        /\ HandPaid = 0 /\ refund[r].amt + Spent(Main) <= Price
    <3>1. Asks(job[h]) /\ GatewayRow(job[h].rf) /\ refund[job[h].rf].by = job[h].p
      BY <1>1, <1>2, MoneyKnown, AskingJob DEF JobMoney
    <3> QED BY <1>3, <1>8, <3>1 DEF Asks
  <2>2. "PROCESSING" \in RefundStatus /\ Takes(r, "PROCESSING")
    BY <1>2, <1>3 DEF RefundStatus
  <2>3. /\ refund' \in Seq(Refund) /\ refund[r].amt \in Nat /\ refund'[r].amt = refund[r].amt
        /\ refund'[r].status = "PROCESSING"
        /\ \A n \in DOMAIN refund : n # r => refund'[n] = refund[n]
        /\ HandPaid' = HandPaid
    BY <2>1, <2>2, StatusSums
  <2>4. /\ HandPaid \in Nat /\ Given \in Nat /\ Given' \in Nat
        /\ \A p : Reserved(p) \in Nat /\ Reserved(p)' \in Nat
    BY <2>3, SumsTyped, SumsTypedNext
  <2>5. Given' = Given
    <3>1. Given' + 0 = Given + 0
      BY <2>1, <2>2, StatusSums
    <3>2. \A a, b \in Nat : a + 0 = b + 0 => a = b
      OBVIOUS
    <3> QED BY <2>4, <3>1, <3>2
  <2>6. /\ Reserved(Main)' = Reserved(Main) + refund[r].amt
        /\ \A p : p # Main => Reserved(p)' = Reserved(p)
    <3>1. \A p : Reserved(p)' + (IF Main = p /\ "FAILED" \in ReservedStatuses THEN refund[r].amt ELSE 0)
                   = Reserved(p) + (IF Main = p /\ "PROCESSING" \in ReservedStatuses THEN refund[r].amt ELSE 0)
      BY <2>1, <2>2, StatusSums
    <3>2. \A p : Reserved(p)' + 0 = Reserved(p) + (IF Main = p THEN refund[r].amt ELSE 0)
      BY <3>1 DEF ReservedStatuses
    <3>3. \A a \in Nat : a + 0 = a
      OBVIOUS
    <3> QED BY <2>3, <2>4, <3>2, <3>3
  <2>7. \A p \in Payments : Spent(p)' <= Price
    <3>1. Spent(Main)' <= Price
      <4>1. Spent(Main)' = Reserved(Main) + refund[r].amt + 0 /\ Spent(Main) = Reserved(Main) + 0
        BY <2>1, <2>3, <2>6 DEF Spent
      <4>2. \A a, b, c \in Nat : b + (a + 0) <= c => a + b + 0 <= c
        OBVIOUS
      <4> QED BY <2>1, <2>3, <2>4, <4>1, <4>2, Constants
    <3>2. ASSUME NEW p \in Payments, p # Main PROVE Spent(p)' <= Price
      <4>1. Spent(p)' = Spent(p)
        BY <2>6, <3>2 DEF Spent
      <4> QED BY <4>1 DEF MoneyInv, OrderMoney
    <3> QED BY <3>1, <3>2
  <2>8. StatusTrue(paymentStatus)'
    <3>1. Given <= Given'
      BY <2>4, <2>5
    <3>2. StatusTrue(st)'
      BY <1>5, <2>3, <2>4, <3>1, StatusStaysTrue
    <3> QED BY <1>2, <1>5, <3>2
  <2>9. OrderMoney'
    BY <1>6, <2>1, <2>3, <2>7, <2>8 DEF OrderMoney
  <2>10. \A n : GatewayRow(n) => /\ refund'[n].amt = refund[n].amt
                                 /\ refund'[n].status = "PENDING" => refund[n].status = "PENDING"
    BY <2>3 DEF GatewayRow
  <2>11. \A c \in Crons : job[c].at = "FINALIZE_COMMIT"
                            => refund'[job[c].rf].status = refund[job[c].rf].status
    <3>1. ASSUME NEW c \in Crons, job[c].at = "FINALIZE_COMMIT"
          PROVE  refund'[job[c].rf].status = refund[job[c].rf].status
      <4>1. JobTruth(job[c]) /\ Claimed(job[c])
        BY CronsAreHandlers, JobKnown, MoneyKnown DEF JobMoney
      <4>2. GatewayRow(job[c].rf) /\ refund[job[c].rf].status \in Claimable
        BY <3>1, <4>1 DEF JobTruth, Settling, Claimed
      <4>3. job[c].rf # r
        BY <2>1, <4>2 DEF Claimable
      <4> QED BY <2>3, <4>2, <4>3 DEF GatewayRow
    <3> QED BY <3>1
  <2>12. Given <= Given'
    BY <2>4, <2>5
  <2> QED BY <1>2, <1>4, <2>4, <2>9, <2>10, <2>11, <2>12, AdministratorStep
<1> QED BY <1>7, <1>8

-----------------------------------------------------------------------------
(* finalizeGatewayRefund *)

LEMMA ContinueHolds ==
    ASSUME NEW list, NEW k, k = Continue(list)
    PROVE  /\ k.at \in {"IDLE", "QUERY"} /\ k.list = list
           /\ JobMoney(k) /\ JobMoney(k)' /\ ~Holding(k)
           /\ (\A r \in list : refund[r].status # "PENDING") => ByCron(k)
           /\ (\A r \in list : refund'[r].status # "PENDING") => ByCron(k)'
<1>1. k.at \in {"IDLE", "QUERY"} /\ k.list = list
  <2>1. CASE list = {}
    BY <2>1, NoJobTrue DEF Continue
  <2>2. CASE list # {}
    <3>1. k = Querying(list)
      BY <2>2 DEF Continue, Querying
    <3> QED BY <3>1, NoJobTyped DEF Querying, Job
  <2> QED BY <2>1, <2>2
<1>2. k.at \in Loose
  BY <1>1 DEF Loose, Quiet
<1>3. /\ (\A r \in list : refund[r].status # "PENDING") => ByCron(k)
      /\ (\A r \in list : refund'[r].status # "PENDING") => ByCron(k)'
  BY <1>1 DEF ByCron, Settling
<1> QED BY <1>1, <1>2, <1>3, LooseKnows

LEMMA FinalizeManuallyKeepsMoney ==
    ASSUME TruthInv, MoneyInv, Alone, NEW h \in Administrators, NEW r, FinalizeManually(h, r)
    PROVE  MoneyInv'
<1>1. h \in Handlers /\ h \notin Crons
  BY OthersAreCrons
<1>2. PICK target : Set(h, [NoJob EXCEPT !.at = "FINALIZE", !.rf = r, !.target = target])
  BY DEF FinalizeManually
<1>3. UNCHANGED tables
  BY DEF FinalizeManually
<1>4. PICK k : k = [NoJob EXCEPT !.at = "FINALIZE", !.rf = r, !.target = target]
  OBVIOUS
<1>5. k.at \in Loose
  BY <1>4, NoJobTyped DEF Job, Loose
<1> QED BY <1>1, <1>2, <1>3, <1>4, <1>5, LooseKnows, LocalMoneyStep

LEMMA CronTakeKeepsMoney ==
    ASSUME TruthInv, MoneyInv, NEW h \in Crons, CronTake(h)
    PROVE  MoneyInv'
<1>1. PICK waiting : /\ Set(h, Querying(waiting)) /\ UNCHANGED tables
                     /\ \A r \in waiting : refund[r].status # "PENDING"
  <2>1. PICK waiting : waiting = {r \in Ids(refund, Payments, Queried) :
                                     gateway[refund[r].by] = "ZALOPAY"}
    OBVIOUS
  <2>2. Set(h, Querying(waiting)) /\ UNCHANGED tables
    BY <2>1 DEF CronTake, Querying
  <2>3. \A r \in waiting : refund[r].status # "PENDING"
    BY <2>1 DEF Ids, Queried
  <2> QED BY <2>2, <2>3
<1>2. PICK k : k = Querying(waiting)
  OBVIOUS
<1>3. k.at = "QUERY" /\ k.list = waiting
  BY <1>2, NoJobTyped DEF Querying, Job
<1>4. ByCron(k) /\ k.at \in Loose
  BY <1>1, <1>3 DEF ByCron, Settling, Loose, Quiet
<1> QED BY <1>1, <1>2, <1>4, LooseKnows, CronsAreHandlers, LocalMoneyStep

LEMMA CronQueryKeepsMoney ==
    ASSUME TruthInv, MoneyInv, NEW h \in Crons, CronQuery(h)
    PROVE  MoneyInv'
<1>1. h \in Handlers /\ UNCHANGED tables
  BY CronsAreHandlers DEF CronQuery
<1>2. PICK r \in job[h].list :
        Set(h, IF Outcome(r) = "NONE" THEN Continue(job[h].list \ {r})
               ELSE Finalizing(r, job[h].list \ {r}, Outcome(r)))
  BY DEF CronQuery, Finalizing
<1>3. \A n \in job[h].list : refund[n].status # "PENDING"
  BY DEF MoneyInv, ByCron
<1>4. CASE Outcome(r) = "NONE"
  <2>1. PICK k : k = Continue(job[h].list \ {r})
    OBVIOUS
  <2>2. JobMoney(k) /\ ByCron(k) /\ ~Holding(k)
    BY <1>3, <2>1, ContinueHolds
  <2> QED BY <1>1, <1>2, <1>4, <2>1, <2>2, LocalMoneyStep
<1>5. CASE Outcome(r) # "NONE"
  <2>1. PICK k : k = Finalizing(r, job[h].list \ {r}, Outcome(r))
    OBVIOUS
  <2>2. k.at = "FINALIZE" /\ k.rf = r /\ k.list = job[h].list \ {r}
    BY <2>1, FinalizingHolds
  <2>3. ByCron(k) /\ k.at \in Loose
    BY <1>2, <1>3, <2>2 DEF ByCron, Settling, Loose
  <2> QED BY <1>1, <1>2, <1>5, <2>1, <2>3, LooseKnows, LocalMoneyStep
<1> QED BY <1>4, <1>5

LEMMA FinalizeErrorKeepsMoney ==
    ASSUME TruthInv, MoneyInv, NEW h \in Handlers, FinalizeError(h)
    PROVE  MoneyInv'
<1>1. /\ UNCHANGED tables
      /\ \/ \E r \in job[h].list : Set(h, Continue(job[h].list \ {r}))
         \/ Set(h, Continue(job[h].list))
  BY DEF FinalizeError
<1>2. PICK list : list \subseteq job[h].list /\ Set(h, Continue(list))
  BY <1>1
<1>3. PICK k : k = Continue(list)
  OBVIOUS
<1>4. h \in Crons => \A r \in list : refund[r].status # "PENDING"
  BY <1>2 DEF MoneyInv, ByCron
<1>5. JobMoney(k) /\ ~Holding(k) /\ (h \in Crons => ByCron(k))
  BY <1>3, <1>4, ContinueHolds
<1> QED BY <1>1, <1>2, <1>3, <1>5, LocalMoneyStep

(* The row is locked and the sums are read: only if the refund is still open. *)
LEMMA FinalizeClaimKeepsMoney ==
    ASSUME TruthInv, MoneyInv, NEW h \in Handlers, FinalizeClaim(h)
    PROVE  MoneyInv'
<1>1. PICK j : j = job[h]
  OBVIOUS
<1>2. /\ j.at = "FINALIZE" /\ UNCHANGED tables /\ Unlocked(h, j.rf)
      /\ Set(h, IF refund[j.rf].status \in Claimable
                THEN [WithSums(j, j.target) EXCEPT !.at = "FINALIZE_COMMIT"]
                ELSE Continue(j.list))
  BY <1>1 DEF FinalizeClaim
<1>3. /\ j \in Job /\ GatewayRow(j.rf) /\ j.target \in {"COMPLETED", "FAILED"}
      /\ h \in Crons => ByCron(j)
  BY <1>1, <1>2, SettlingJob, MoneyKnown DEF Settling
<1>4. CASE refund[j.rf].status \notin Claimable
  <2>1. PICK k : k = Continue(j.list)
    OBVIOUS
  <2>2. JobMoney(k) /\ ~Holding(k) /\ (h \in Crons => ByCron(k))
    BY <1>3, <2>1, ContinueHolds DEF ByCron
  <2> QED BY <1>2, <1>4, <2>1, <2>2, LocalMoneyStep
<1>5. CASE refund[j.rf].status \in Claimable
  <2>1. j.target \in RefundStatus /\ "FINALIZE_COMMIT" \in Stage
    BY <1>3 DEF RefundStatus, Stage
  <2>2. PICK k : k = Summed(j, "FINALIZE_COMMIT", AllDone(j, j.target), ThisDone(j, j.target))
    OBVIOUS
  <2>3. Set(h, k)
    BY <1>2, <1>3, <1>5, <2>1, <2>2, WithSumsIs
  <2>4. /\ k.at = "FINALIZE_COMMIT" /\ k.rf = j.rf /\ k.list = j.list
        /\ k.target = j.target /\ k.total = AllDone(j, j.target)
    BY <1>3, <2>2, SummedHolds
  <2>5. Extras = {} => k.total <= Given + Promised(k)
    <3>1. Promised(k) = IF j.target = "COMPLETED" THEN refund[j.rf].amt ELSE 0
      BY <1>3, <2>4 DEF Promised
    <3>2. Extras = {} => k.total = Given + (IF j.target = "COMPLETED" THEN refund[j.rf].amt ELSE 0)
      BY <1>3, <1>5, <2>4, AllDoneIs
    <3>3. Given \in Nat /\ refund[j.rf].amt \in Nat
      BY <1>3, SumsTyped, PromisedType
    <3>4. \A a, b \in Nat : a + b <= a + b /\ a + 0 <= a + 0
      OBVIOUS
    <3> QED BY <3>1, <3>2, <3>3, <3>4
  <2>6. JobMoney(k)
    BY <1>5, <2>4, <2>5 DEF JobMoney, Claimed, Hand, Asks
  <2>7. h \in Crons => ByCron(k)
    BY <1>2, <1>3, <2>4 DEF ByCron, Settling
  <2>8. \A g \in Handlers \ {h} : Holding(job[g]) => job[g].rf # k.rf
    BY <1>2, <2>4 DEF Unlocked, Holding
  <2> QED BY <1>2, <2>3, <2>6, <2>7, <2>8, LocalMoneyStep
<1> QED BY <1>4, <1>5

(* The refund that a transaction ends is nobody else's. *)
LEMMA SettlerAlone ==
    ASSUME TruthInv, MoneyInv, Alone, NEW h \in Handlers, job[h].at = "FINALIZE_COMMIT"
    PROVE  /\ job[h] \in Job /\ GatewayRow(job[h].rf) /\ refund[job[h].rf].status \in Claimable
           /\ Extras = {} => job[h].total <= Given + Promised(job[h])
           /\ \A g \in Handlers : g # h /\ job[g].at \in Writing \cup Asking
                                    => job[g].rf # job[h].rf
<1>1. /\ job[h] \in Job /\ GatewayRow(job[h].rf)
      /\ refund[job[h].rf].status \in Claimable
      /\ Extras = {} => job[h].total <= Given + Promised(job[h])
  <2>1. job[h] \in Job /\ GatewayRow(job[h].rf)
    BY SettlingJob DEF Settling
  <2>2. Claimed(job[h])
    BY MoneyKnown DEF JobMoney
  <2> QED BY <2>1, <2>2 DEF Claimed
<1>2. Holding(job[h]) /\ job[h].rf # 0
  <2>1. job[h].rf \in 1..Len(refund) /\ Len(refund) \in Nat
    BY <1>1, RefundsTyped DEF GatewayRow
  <2> QED BY <2>1 DEF Holding, Writing
<1>3. ASSUME NEW g \in Handlers, g # h, job[g].at \in Writing \cup Asking
      PROVE  job[g].rf # job[h].rf
  <2>1. CASE job[g].at \in Writing
    <3>1. CASE job[g].rf = 0
      BY <1>2, <3>1
    <3>2. CASE job[g].rf # 0
      <4>1. Holding(job[g])
        BY <2>1, <3>2 DEF Holding
      <4> QED BY <1>2, <1>3, <4>1 DEF MoneyInv, Locks
    <3> QED BY <3>1, <3>2
  <2>2. CASE job[g].at \in {"SEND", "WAIT"}
    <3>1. g \notin Crons
      BY <2>2 DEF MoneyInv, ByCron, Settling
    <3>2. g \in Administrators
      BY <3>1 DEF Handlers
    <3>3. h \in Crons
      BY <1>3, <3>2, OthersAreCrons
    <3>4. refund[job[h].rf].status # "PENDING"
      BY <3>3 DEF MoneyInv, ByCron, Settling
    <3>5. refund[job[g].rf].status = "PENDING"
      BY <2>2, AskedPending
    <3> QED BY <3>4, <3>5
  <2>3. CASE job[g].at = "UNDO"
    <3>1. refund[job[g].rf].status = "FAILED"
      BY <2>3, MoneyKnown DEF JobMoney, Asks
    <3> QED BY <1>1, <3>1 DEF Claimable
  <2> QED BY <1>3, <2>1, <2>2, <2>3 DEF Asking, Writing
<1> QED BY <1>1, <1>3

(* What a cron round still has to look at was not asked for anew. *)
LEMMA RoundGoesOn ==
    ASSUME TruthInv, MoneyInv, NEW h \in Handlers, NEW k, k = Continue(job[h].list),
           NEW r, GatewayRow(r), refund[r].status \in Claimable,
           NEW s \in {"PROCESSING", "COMPLETED", "FAILED"}, Takes(r, s)
    PROVE  JobMoney(k)' /\ ~Holding(k) /\ (h \in Crons => ByCron(k)')
<1>1. refund'[r].status = s /\ \A n \in DOMAIN refund : n # r => refund'[n] = refund[n]
  BY SettleSums
<1>2. h \in Crons => \A n \in job[h].list : refund[n].status # "PENDING"
  BY DEF MoneyInv, ByCron
<1>3. \A n \in job[h].list : n \in DOMAIN refund
  BY ListKnown DEF GatewayRow
<1>4. h \in Crons => \A n \in job[h].list : refund'[n].status # "PENDING"
  BY <1>1, <1>2, <1>3
<1> QED BY <1>4, ContinueHolds

LEMMA FinalizeCompletedKeepsMoney ==
    ASSUME TruthInv, MoneyInv, Alone, NEW h \in Handlers, FinalizeCompleted(h)
    PROVE  MoneyInv'
<1>1. PICK j : j = job[h]
  OBVIOUS
<1>2. /\ j.at = "FINALIZE_COMMIT" /\ j.target = "COMPLETED" /\ PaidBack(j)
      /\ Set(h, Continue(j.list))
  BY <1>1 DEF FinalizeCompleted
<1>3. /\ j \in Job /\ GatewayRow(j.rf) /\ refund[j.rf].status \in Claimable
      /\ Extras = {} => j.total <= Given + Promised(j)
      /\ \A g \in Handlers : g # h /\ job[g].at \in Writing \cup Asking => job[g].rf # j.rf
  BY <1>1, <1>2, SettlerAlone
<1>4. Promised(j) = refund[j.rf].amt
  BY <1>2 DEF Promised
<1>5. PICK k : k = Continue(j.list)
  OBVIOUS
<1>6. ~Holding(k)
  BY <1>5, ContinueHolds
<1>7. Takes(j.rf, "COMPLETED") => JobMoney(k)' /\ (h \in Crons => ByCron(k)')
  BY <1>1, <1>3, <1>5, RoundGoesOn
<1> QED BY <1>2, <1>3, <1>4, <1>5, <1>6, <1>7, PaidBackStep

LEMMA FinalizeFailedKeepsMoney ==
    ASSUME TruthInv, MoneyInv, Alone, NEW h \in Handlers, FinalizeFailed(h)
    PROVE  MoneyInv'
<1>1. PICK j : j = job[h]
  OBVIOUS
<1>2. /\ j.at = "FINALIZE_COMMIT" /\ j.target = "FAILED" /\ Takes(j.rf, "FAILED")
      /\ Set(h, Continue(j.list))
      /\ IF refund[j.rf].by \in Extras
         THEN row' = [row EXCEPT ![refund[j.rf].by] = "REFUND_REQUIRED"] /\ paymentStatus' = paymentStatus
         ELSE row' = row /\ paymentStatus' = resolveRefundPaymentStatus(j.total)
  BY <1>1 DEF FinalizeFailed, Takes
<1>3. /\ j \in Job /\ GatewayRow(j.rf) /\ refund[j.rf].status \in Claimable
      /\ Extras = {} => j.total <= Given + Promised(j)
      /\ \A g \in Handlers : g # h /\ job[g].at \in Writing \cup Asking => job[g].rf # j.rf
  BY <1>1, <1>2, SettlerAlone
<1>4. PICK r : r = j.rf
  OBVIOUS
<1>5. /\ HandPaid' = HandPaid /\ Given' \in Nat /\ Given' = Given + 0 /\ Given <= Given'
  BY <1>2, <1>3, <1>4, SettleSums
<1>6. Given \in Nat /\ j.total \in Nat
  BY <1>3, SumsTyped DEF Job
<1>7. StatusTrue(paymentStatus)'
  <2>1. CASE refund[j.rf].by \in Extras
    <3>1. PICK st : st = paymentStatus /\ StatusTrue(st)
      BY DEF MoneyInv, OrderMoney
    <3>2. StatusTrue(st)'
      BY <1>5, <3>1, StatusStaysTrue
    <3> QED BY <1>2, <2>1, <3>1, <3>2
  <2>2. CASE refund[j.rf].by \notin Extras
    <3>1. refund[j.rf].by = Main
      BY <1>3, <2>2 DEF GatewayRow, Payments
    <3>2. HandPaid' = 0
      BY <1>3, <1>5, <3>1, OpenRefundIsAlone
    <3>3. Promised(j) = 0
      BY <1>2 DEF Promised
    <3>4. Extras = {} => j.total <= HandPaid' + Given'
      <4>1. \A a, b, c \in Nat : c = b + 0 /\ a <= b + 0 => a <= 0 + c
        OBVIOUS
      <4> QED BY <1>3, <1>5, <1>6, <3>2, <3>3, <4>1
    <3> QED BY <1>2, <1>5, <1>6, <2>2, <3>2, <3>4, ResolvedTrue
  <2> QED BY <2>1, <2>2
<1>8. row'[Main] # "REFUND_REQUIRED"
  <2>1. Main \notin Extras
    BY RefundsAssumption
  <2>2. PICK p : p = refund[j.rf].by
    OBVIOUS
  <2>3. row' = row \/ (p # Main /\ row' = [row EXCEPT ![p] = "REFUND_REQUIRED"])
    BY <1>2, <2>1, <2>2
  <2>4. row'[Main] = row[Main]
    BY <2>3 DEF TruthInv, OrderTypes, Payments
  <2> QED BY <2>4 DEF MoneyInv, OrderMoney
<1>9. PICK k : k = Continue(j.list)
  OBVIOUS
<1>10. JobMoney(k)' /\ ~Holding(k) /\ (h \in Crons => ByCron(k)')
  BY <1>1, <1>2, <1>3, <1>4, <1>9, RoundGoesOn
<1> QED BY <1>2, <1>3, <1>4, <1>7, <1>8, <1>9, <1>10, SettleStep

-----------------------------------------------------------------------------
(* The whole *)

LEMMA NothingRefunded ==
    ASSUME refund = <<>>
    PROVE  HandPaid = 0 /\ Given = 0 /\ AtGateway = {} /\ \A p : Spent(p) = 0
<1>1. <<>> \in Seq(Refund) /\ Len(<<>>) = 0 /\ DOMAIN <<>> = {}
  OBVIOUS
<1>2. \A ids : Total(<<>>, ids) = 0
  <2>1. ASSUME NEW ids PROVE Total(<<>>, ids) = 0
    <3>1. PICK f : Sums(f, <<>>, ids) /\ Total(<<>>, ids) = f[Len(<<>>)]
      BY <1>1, TotalIsSum
    <3> QED BY <1>1, <3>1 DEF Sums
  <2> QED BY <2>1
<1>3. HandPaid = 0 /\ Given = 0 /\ \A p : Reserved(p) = 0
  BY <1>2 DEF HandPaid, Given, Reserved, SumOf
<1> QED BY <1>1, <1>3 DEF AtGateway, Ids, Spent

LEMMA InitHasMoney == Init => MoneyInv
<1> SUFFICES ASSUME Init PROVE MoneyInv
  OBVIOUS
<1>1. HandPaid = 0 /\ AtGateway = {} /\ \A p : Spent(p) = 0
  BY NothingRefunded DEF Init
<1>2. paymentStatus = "PAID" /\ row[Main] = "PAID"
  BY DEF Init, Payments
<1>3. OrderMoney
  BY <1>1, <1>2, Constants DEF OrderMoney, StatusTrue
<1>4. \A h \in Handlers : job[h] = NoJob
  BY DEF Init
<1>5. ByCron(NoJob) /\ JobMoney(NoJob) /\ ~Holding(NoJob)
  BY NoJobByCron, LooseKnows
<1>6. Locks /\ (\A c \in Crons : ByCron(job[c])) /\ \A h \in Handlers : JobMoney(job[h])
  BY <1>4, <1>5, CronsAreHandlers DEF Locks
<1> QED BY <1>3, <1>6 DEF MoneyInv

LEMMA CrashKeepsMoney ==
    ASSUME MoneyInv, Crash
    PROVE  MoneyInv'
<1>1. UNCHANGED <<refund, paymentStatus, row>> /\ job' = [h \in Handlers |-> NoJob]
  BY DEF Crash, tables, orderVars
<1>2. OrderMoney'
  BY <1>1, SameTable DEF MoneyInv, OrderMoney
<1>3. \A h \in Handlers : job'[h] = NoJob
  BY <1>1
<1>4. ByCron(NoJob)' /\ JobMoney(NoJob)' /\ ~Holding(NoJob)
  BY NoJobByCron, LooseKnows
<1>5. Locks'
  BY <1>3, <1>4 DEF Locks, Holding
<1>6. \A h \in Handlers : JobMoney(job[h])'
  <2>1. ASSUME NEW h \in Handlers, NEW j, j = job'[h] PROVE JobMoney(j)'
    <3>1. j = NoJob
      BY <1>3, <2>1
    <3> QED BY <1>4, <3>1
  <2> QED BY <2>1
<1>7. \A c \in Crons : ByCron(job[c])'
  <2>1. ASSUME NEW c \in Crons, NEW j, j = job'[c] PROVE ByCron(j)'
    <3>1. j = NoJob
      BY <1>3, <2>1, CronsAreHandlers
    <3> QED BY <1>4, <3>1
  <2> QED BY <2>1
<1> QED BY <1>2, <1>5, <1>6, <1>7 DEF MoneyInv

LEMMA OutsideKeepsMoney ==
    ASSUME MoneyInv, Customer \/ ReceiveGoods \/ (\E r \in 1..MaxRefunds : Decide(r)) \/ UNCHANGED vars
    PROVE  MoneyInv'
<1>1. UNCHANGED <<refund, paymentStatus, row, job>>
  <2>1. CASE Customer
    BY <2>1 DEF Customer, ReportDefect, ReportNotReceived, orderVars
  <2>2. CASE ReceiveGoods
    BY <2>2 DEF ReceiveGoods
  <2>3. CASE \E r \in 1..MaxRefunds : Decide(r)
    BY <2>3 DEF Decide, tables, orderVars
  <2>4. CASE UNCHANGED vars
    BY <2>4 DEF vars, tables, orderVars
  <2> QED BY <2>1, <2>2, <2>3, <2>4
<1> QED BY <1>1, IdleMoneyStep

LEMMA NextKeepsMoney == Alone /\ TruthInv /\ MoneyInv /\ [Next]_vars => MoneyInv'
<1> SUFFICES ASSUME Alone, TruthInv, MoneyInv, [Next]_vars PROVE MoneyInv'
  OBVIOUS
<1>1. ASSUME NEW h \in Handlers, Finalize(h) PROVE MoneyInv'
  BY <1>1, FinalizeClaimKeepsMoney, FinalizeCompletedKeepsMoney, FinalizeFailedKeepsMoney
     DEF Finalize
<1>2. ASSUME NEW h \in Administrators, RefundByHand(h) PROVE MoneyInv'
  BY <1>2, UpdateRefundKeepsMoney, ReadRefundsKeepsMoney, WriteRefundKeepsMoney,
     CommitRefundKeepsMoney, DatabaseErrorKeepsMoney DEF RefundByHand
<1>3. ASSUME NEW h \in Administrators, RefundByGateway(h) PROVE MoneyInv'
  BY <1>3, GatewayReadKeepsMoney, GatewayReserveKeepsMoney, GatewaySendKeepsMoney,
     GatewayPendingKeepsMoney, GatewayRefusedKeepsMoney, GatewayUndoKeepsMoney,
     GatewaySucceedsKeepsMoney, GatewayPaidBackKeepsMoney, GatewayErrorKeepsMoney
     DEF RefundByGateway
<1>4. CASE \E h \in Administrators :
             \/ RefundByHand(h) \/ Review(h) \/ RefundByGateway(h) \/ Finalize(h)
             \/ \E r \in DOMAIN refund : FinalizeManually(h, r)
  BY <1>1, <1>2, <1>3, <1>4, CronsAreHandlers, ReviewKeepsMoney, FinalizeManuallyKeepsMoney
<1>5. CASE \E c \in Crons : Reconcile(c)
  BY <1>1, <1>5, CronsAreHandlers, CronTakeKeepsMoney, CronQueryKeepsMoney DEF Reconcile
<1>6. CASE \E h \in Handlers : FinalizeError(h)
  BY <1>6, FinalizeErrorKeepsMoney
<1> QED BY <1>4, <1>5, <1>6, OutsideKeepsMoney, CrashKeepsMoney DEF Next

(* The sums over the refunds table, the rows that transactions hold and what *)
(* the requests have read stay as MoneyInv says, for one administrator at a  *)
(* time: the inductive invariant of the theorems below.                      *)
THEOREM MoneyInvariant == ASSUME Alone PROVE Spec => []MoneyInv
<1>1. Alone /\ []TruthInv /\ MoneyInv /\ [][Next]_vars => []MoneyInv
  BY NextKeepsMoney, PTL
<1> QED BY <1>1, InitHasMoney, TruthInvariant, PTL DEF Spec

LEMMA MovedIsReserved ==
    ASSUME TruthInv, NEW p \in Payments
    PROVE  Moved(p) <= Reserved(p)
<1> DEFINE ids == {r \in DOMAIN refund : refund[r].by = p /\ provider[r] = "MOVED"}
           jds == Ids(refund, {p}, ReservedStatuses)
<1>1. refund \in Seq(Refund) /\ DOMAIN refund = 1..Len(refund)
  BY RefundsTyped
<1>2. ids \subseteq jds
  <2>1. ASSUME NEW r \in ids PROVE r \in jds
    <3>1. GatewayRow(r) /\ r \in DOMAIN refund /\ refund[r].by = p /\ provider[r] = "MOVED"
      BY DEF GatewayRow
    <3>2. True(r, refund[r].status)
      BY <3>1 DEF TruthInv, RowsTrue
    <3> QED BY <3>1, <3>2 DEF True, Failed, Ids, ReservedStatuses
  <2> QED BY <2>1
<1>3. \A n \in 1..Len(refund) : Weight(refund, ids, n) <= Weight(refund, jds, n)
  <2>1. ASSUME NEW n \in 1..Len(refund) PROVE Weight(refund, ids, n) <= Weight(refund, jds, n)
    <3> HIDE DEF ids, jds
    <3>1. refund[n] \in Refund
      BY <1>1
    <3>2. refund[n].amt \in Nat
      BY <3>1 DEF Refund
    <3> QED BY <1>2, <3>2 DEF Weight
  <2> QED BY <2>1
<1>4. Total(refund, ids) <= Total(refund, jds)
  <2> HIDE DEF ids, jds
  <2> QED BY <1>1, <1>3, TotalMonotone
<1> QED BY <1>4 DEF Moved, Reserved, SumOf

LEMMA MoneyIsEnough == TruthInv /\ MoneyInv => NeverOverRefunded
<1> SUFFICES ASSUME TruthInv, MoneyInv PROVE NeverOverRefunded
  OBVIOUS
<1>1. \A p \in Payments : Moved(p) <= Reserved(p) /\ Moved(p) \in Nat /\ Spent(p) <= Price
  <2>1. refund \in Seq(Refund)
    BY RefundsTyped
  <2> QED BY <2>1, MovedIsReserved, TotalType DEF Moved, MoneyInv, OrderMoney
<1>2. /\ HandPaid \in Nat /\ ByHand = HandPaid /\ \A p : Reserved(p) \in Nat
  BY SumsTyped, SumsAre
<1>3. Moved(Main) + ByHand <= Price
  <2>1. Main \in Payments /\ Spent(Main) = Reserved(Main) + HandPaid
    BY DEF Payments, Spent
  <2>2. \A a, b, c, d \in Nat : a <= b /\ b + c <= d => a + c <= d
    OBVIOUS
  <2> QED BY <1>1, <1>2, <2>1, <2>2, Constants
<1>4. ASSUME NEW p \in Extras PROVE Moved(p) <= Price
  <2>1. p \in Payments /\ Spent(p) = Reserved(p) + 0
    BY RefundsAssumption DEF Payments, Spent
  <2>2. \A a, b, d \in Nat : a <= b /\ b + 0 <= d => a <= d
    OBVIOUS
  <2> QED BY <1>1, <1>2, <2>1, <2>2, Constants
<1> QED BY <1>3, <1>4 DEF NeverOverRefunded

(* updateRefund, refundGatewayPayment, finalizeGatewayRefund and the review  *)
(* of issues never give back more of a payment than was collected, although  *)
(* transfers by hand and refunds at the gateway are reserved in different    *)
(* places: for any number of cron rounds, payments, refunds, errors and      *)
(* crashes, and one administrator at a time.                                 *)
THEOREM NeverOverRefundedHolds == ASSUME Alone PROVE Spec => []NeverOverRefunded
BY TruthInvariant, MoneyInvariant, MoneyIsEnough, PTL

LEMMA StatusIsPaidBack == Extras = {} /\ TruthInv /\ MoneyInv => RefundedIsPaidBack
<1> SUFFICES ASSUME Extras = {}, TruthInv, MoneyInv, paymentStatus = "REFUNDED"
             PROVE  ByHand + Completed(refund, {Main}) >= Price
  BY DEF RefundedIsPaidBack
<1>1. HandPaid + Given >= Price
  BY DEF MoneyInv, OrderMoney, StatusTrue
<1> QED BY <1>1, SumsAre

(* resolveRefundPaymentStatus, computed from a sum that was read before the  *)
(* commit, shows an order as refunded only when its completed refunds add up *)
(* to what was collected, also after reopenRefundNotReceived: for an order   *)
(* without PAYMENT_ONLY payments.                                            *)
THEOREM RefundedIsPaidBackHolds ==
    ASSUME Alone, Extras = {} PROVE Spec => []RefundedIsPaidBack
BY TruthInvariant, MoneyInvariant, StatusIsPaidBack, PTL

-----------------------------------------------------------------------------
(* Issues *)

Resolves == \E i \in Issues : issue[i] # "RESOLVED" /\ issue'[i] = "RESOLVED"

LEMMA OtherStatus ==
    ASSUME TruthInv, NEW i, NEW s, s # "RESOLVED",
           issue' = [issue EXCEPT ![i] = s] \/ issue' = issue
    PROVE  ~Resolves
BY DEF TruthInv, OrderTypes, Resolves

LEMMA IssuesUntouched == ASSUME UNCHANGED tables PROVE issue' = issue
BY DEF tables

LEMMA OnlyCommitResolves ==
    ASSUME TruthInv, Next, Resolves
    PROVE  \E h \in Administrators : CommitRefund(h)
<1> SUFFICES ASSUME \A h \in Administrators : ~CommitRefund(h) PROVE FALSE
  OBVIOUS
<1>1. issue' # issue
  BY DEF Resolves
<1>2. ASSUME NEW h \in Administrators, RefundByHand(h) PROVE FALSE
  BY <1>1, <1>2, IssuesUntouched
     DEF RefundByHand, UpdateRefund, ReadRefunds, WriteRefund, DatabaseError
<1>3. ASSUME NEW h \in Administrators, Review(h) PROVE FALSE
  <2>1. CASE (\E i \in Issues : ReviewRead(h, i)) \/ ReviewGoods(h) \/ ReviewShipping(h)
             \/ ReviewNow(h) \/ CompleteOpenRefunds(h) \/ ReopenRead(h) \/ ReopenWrite(h)
             \/ ReviewResend(h)
    BY <1>1, <2>1, IssuesUntouched
       DEF ReviewRead, ReviewGoods, ReviewShipping, ReviewNow, CompleteOpenRefunds,
           ReopenRead, ReopenWrite, ReviewResend
  <2>2. CASE ReviewReturn(h) \/ ReopenCommit(h)
    BY <1>1, <2>2 DEF ReviewReturn, ReopenCommit
  <2>3. CASE ReviewReject(h)
    BY <2>3, OtherStatus DEF ReviewReject
  <2>4. CASE ReviewApprove(h)
    BY <2>4, OtherStatus DEF ReviewApprove
  <2>5. CASE ReviewRollback(h)
    BY <2>5, OtherStatus DEF ReviewRollback
  <2> QED BY <1>3, <2>1, <2>2, <2>3, <2>4, <2>5 DEF Review
<1>4. ASSUME NEW h \in Administrators, RefundByGateway(h) PROVE FALSE
  <2>1. CASE (\E p \in Payments, amt \in 1..Price : GatewayRead(h, p, amt))
             \/ GatewaySend(h) \/ GatewaySucceeds(h)
    BY <1>1, <2>1, IssuesUntouched DEF GatewayRead, GatewaySend, GatewaySucceeds
  <2>2. CASE GatewayReserve(h) \/ GatewayPending(h) \/ GatewayRefused(h) \/ GatewayUndo(h)
             \/ GatewayPaidBack(h) \/ GatewayError(h)
    BY <1>1, <2>2 DEF GatewayReserve, GatewayPending, GatewayRefused, GatewayUndo,
                      GatewayPaidBack, GatewayError
  <2> QED BY <1>4, <2>1, <2>2 DEF RefundByGateway
<1>5. ASSUME NEW h \in Handlers, Finalize(h) PROVE FALSE
  BY <1>1, <1>5, IssuesUntouched
     DEF Finalize, FinalizeClaim, FinalizeCompleted, FinalizeFailed
<1>6. ASSUME NEW h, NEW r, FinalizeManually(h, r) PROVE FALSE
  BY <1>1, <1>6, IssuesUntouched DEF FinalizeManually
<1>7. ASSUME NEW c \in Crons, Reconcile(c) PROVE FALSE
  BY <1>1, <1>5, <1>7, CronsAreHandlers, IssuesUntouched DEF Reconcile, CronTake, CronQuery
<1>8. ASSUME NEW h \in Handlers, FinalizeError(h) PROVE FALSE
  BY <1>1, <1>8, IssuesUntouched DEF FinalizeError
<1>9. ASSUME (\E r \in 1..MaxRefunds : Decide(r)) \/ Crash \/ ReceiveGoods PROVE FALSE
  BY <1>1, <1>9, IssuesUntouched DEF Decide, Crash, ReceiveGoods
<1>10. ASSUME Customer PROVE FALSE
  <2>1. ASSUME NEW i, ReportDefect(i) PROVE FALSE
    BY <2>1, OtherStatus DEF ReportDefect
  <2>2. ASSUME NEW i, ReportNotReceived(i) PROVE FALSE
    BY <2>2, OtherStatus DEF ReportNotReceived
  <2> QED BY <1>10, <2>1, <2>2 DEF Customer
<1>11. Administrators \subseteq Handlers
  BY CronsAreHandlers
<1> QED BY <1>2, <1>3, <1>4, <1>5, <1>6, <1>7, <1>8, <1>9, <1>10, <1>11 DEF Next

LEMMA CommitResolvesLast ==
    ASSUME TruthInv, MoneyInv, NEW h \in Administrators, CommitRefund(h), Resolves
    PROVE  OpenManual(refund') = {}
<1>1. PICK j : j = job[h]
  OBVIOUS
<1>2. /\ j.at = "COMMIT" /\ refund' = WithWrite(j)
      /\ issue' = [i \in Issues |-> IF ResolvesIssues(j) /\ issue[i] = "APPROVED"
                                    THEN "RESOLVED" ELSE issue[i]]
  BY <1>1 DEF CommitRefund
<1>3. Closes(j.target) /\ ~j.open
  BY <1>2 DEF Resolves, ResolvesIssues
<1>4. j \in Job /\ JobTruth(j) /\ JobMoney(j)
  BY <1>1, CronsAreHandlers, JobKnown, MoneyKnown
<1>5. Writes(j)
  BY <1>2, <1>4 DEF Writes, JobTruth
<1>6. OpenManual(refund) \subseteq {j.rf}
  BY <1>2, <1>3, <1>4 DEF JobMoney, Hand
<1> QED BY <1>2, <1>3, <1>5, <1>6, LastOpenRow

LEMMA ResolvedLastStep ==
    Alone /\ TruthInv /\ MoneyInv /\ [Next]_vars
      => [\A i \in Issues : issue[i] # "RESOLVED" /\ issue'[i] = "RESOLVED"
                                => OpenManual(refund') = {}]_vars
<1> SUFFICES ASSUME TruthInv, MoneyInv, Next, Resolves PROVE OpenManual(refund') = {}
  BY DEF Resolves
<1> QED BY OnlyCommitResolves, CommitResolvesLast

(* updateRefund declares the approved issues resolved only in a step after   *)
(* which no transfer by hand is open, goods or shipping, although it looked  *)
(* before it committed: for one administrator at a time, and any number of   *)
(* issues, cron rounds, errors and crashes.                                  *)
THEOREM IssuesResolvedLastHolds == ASSUME Alone PROVE Spec => IssuesResolvedLast
BY TruthInvariant, MoneyInvariant, ResolvedLastStep, PTL DEF Spec, IssuesResolvedLast

=============================================================================
