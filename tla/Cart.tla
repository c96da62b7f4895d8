---------------------------------- MODULE Cart ----------------------------------
(***************************************************************************)
(* The cart of one customer, changed from several devices, and by the      *)
(* payment of an order, which takes what was bought out of it.  A line is  *)
(* a product with its color and its part of a combo; each statement on it  *)
(* is atomic, the handlers between them are not.                           *)
(***************************************************************************)
EXTENDS Naturals, FiniteSets

CONSTANTS
    Handlers,          \* requests at one time
    Lines,             \* lines a cart may have
    CART_MAX_LINES, CART_MAX_QUANTITY,
    MaxCrashes         \* bound: requests that die

VARIABLES
    cart,              \* quantity of each line, 0 when it is not in the cart
    selling,           \* lines whose product is ACTIVE
    job,
    faults,            \* requests that died
    crowded,           \* history: a line was added while another request was about to
    uncapped           \* history: lines left above CART_MAX_QUANTITY by a request that died

vars == <<cart, selling, job, faults, crowded, uncapped>>

NoJob == [at |-> "IDLE", lines |-> {}, quantity |-> 0]

Init ==
    /\ cart = [l \in Lines |-> 0]
    /\ selling = Lines
    /\ job = [h \in Handlers |-> NoJob]
    /\ faults = 0 /\ crowded = FALSE /\ uncapped = {}

Amounts == 1..CART_MAX_QUANTITY
Greatest(a, b) == IF a < b THEN b ELSE a

In(c) == {l \in Lines : c[l] > 0}
At(h, s) == job[h].at = s
Set(h, at, lines, q) == job' = [job EXCEPT ![h] = [at |-> at, lines |-> lines, quantity |-> q]]
Done(h)  == job' = [job EXCEPT ![h] = NoJob]

OverLimit == Cardinality(In(cart)) > CART_MAX_LINES
AtLimit   == Cardinality(In(cart)) >= CART_MAX_LINES

\* The cart becomes c; a line that was left above the limit may come down with it.
Becomes(c) ==
    /\ cart' = c
    /\ uncapped' = {l \in uncapped : c[l] > CART_MAX_QUANTITY}

\* h writes the cart c; another request has counted the lines already.
Write(h, c) ==
    /\ Becomes(c)
    /\ crowded' = (crowded \/ /\ In(c) \ In(cart) # {}
                              /\ \E g \in Handlers \ {h} : job[g].at \in {"UPSERT", "MERGE"})

-----------------------------------------------------------------------------
(* addItem: find the line, count the lines when it is new, upsert, cap *)

resolvePurchasableLine(l) == l \in selling

FindLine(h, l, q) ==
    /\ job[h] = NoJob /\ resolvePurchasableLine(l)
    /\ Set(h, IF cart[l] > 0 THEN "UPSERT" ELSE "COUNT", {l}, q)
    /\ UNCHANGED <<cart, selling, faults, crowded, uncapped>>

CountLines(h) ==
    /\ At(h, "COUNT")
    /\ IF AtLimit THEN Done(h) ELSE Set(h, "UPSERT", job[h].lines, job[h].quantity)
    /\ UNCHANGED <<cart, selling, faults, crowded, uncapped>>

\* One statement, so that two devices that add the same product lose nothing.
Upsert(h) ==
    /\ At(h, "UPSERT")
    /\ LET c == [l \in Lines |-> IF l \in job[h].lines THEN cart[l] + job[h].quantity ELSE cart[l]]
       IN /\ Write(h, c)
          /\ IF \E l \in job[h].lines : c[l] > CART_MAX_QUANTITY
             THEN Set(h, "CAP", job[h].lines, 0) ELSE Done(h)
    /\ UNCHANGED <<selling, faults>>

Cap(h) ==
    /\ At(h, "CAP")
    /\ Becomes([l \in Lines |-> IF l \in job[h].lines THEN CART_MAX_QUANTITY ELSE cart[l]])
    /\ Done(h)
    /\ UNCHANGED <<selling, faults, crowded>>

\* The server stops, or a statement fails: what the request has written stays, and a line
\* it would have capped is left as it is.
Crash(h) ==
    /\ job[h] # NoJob
    /\ faults < MaxCrashes /\ faults' = faults + 1
    /\ uncapped' = uncapped \cup {l \in job[h].lines : At(h, "CAP") /\ cart[l] > CART_MAX_QUANTITY}
    /\ Done(h)
    /\ UNCHANGED <<cart, selling, crowded>>

-----------------------------------------------------------------------------
(* merge: the cart of a guest who logs in *)

\* Lines that are not sold are skipped, and new ones beyond the limit.
MergeRead(h, wanted, q) ==
    LET lines == wanted \cap selling
        old   == lines \cap In(cart)
        free  == IF AtLimit THEN 0 ELSE CART_MAX_LINES - Cardinality(In(cart))
    IN /\ job[h] = NoJob /\ lines # {}
       /\ \E new \in SUBSET (lines \ old) :
             /\ Cardinality(new) <= free
             /\ new = lines \ old \/ Cardinality(new) = free
             /\ Set(h, "MERGE", old \cup new, q)
       /\ UNCHANGED <<cart, selling, faults, crowded, uncapped>>

\* The larger quantity is kept: merging the same cart again adds nothing.
MergeWrite(h) ==
    /\ At(h, "MERGE")
    /\ Write(h, [l \in Lines |-> IF l \in job[h].lines THEN Greatest(cart[l], job[h].quantity)
                                 ELSE cart[l]])
    /\ Done(h)
    /\ UNCHANGED <<selling, faults>>

-----------------------------------------------------------------------------
(* Single statements: updateQuantity, removeItem, clear, removePurchasedItems *)

updateQuantity(l, q) ==
    /\ cart[l] > 0
    /\ Becomes([cart EXCEPT ![l] = q])
    /\ UNCHANGED <<selling, job, faults, crowded>>

\* A line that is gone cannot be capped any more: that update finds no row.
Shrink(c) ==
    /\ Becomes(c)
    /\ job' = [h \in Handlers |-> IF At(h, "CAP") /\ job[h].lines \cap In(c) = {}
                                  THEN NoJob ELSE job[h]]
    /\ UNCHANGED <<selling, faults, crowded>>

removeItem(l) == cart[l] > 0 /\ Shrink([cart EXCEPT ![l] = 0])

clear == In(cart) # {} /\ Shrink([l \in Lines |-> 0])

\* What was paid for is taken out, and what was added meanwhile stays.
removePurchasedItems(lines, q) ==
    /\ lines \cap In(cart) # {}
    /\ Shrink([l \in Lines |-> IF l \notin lines THEN cart[l]
                               ELSE IF cart[l] > q THEN cart[l] - q ELSE 0])

SellOrNot(l) ==
    /\ selling' = IF l \in selling THEN selling \ {l} ELSE selling \cup {l}
    /\ UNCHANGED <<cart, job, faults, crowded, uncapped>>

Next ==
    \/ \E h \in Handlers :
          \/ CountLines(h) \/ Upsert(h) \/ Cap(h) \/ MergeWrite(h) \/ Crash(h)
          \/ \E q \in Amounts : \/ \E l \in Lines : FindLine(h, l, q)
                                   \/ \E ls \in SUBSET Lines : MergeRead(h, ls, q)
    \/ \E l \in Lines, q \in Amounts : updateQuantity(l, q) \/ removePurchasedItems({l}, q)
    \/ \E l \in Lines : removeItem(l) \/ SellOrNot(l)
    \/ clear

Spec == Init /\ [][Next]_vars

-----------------------------------------------------------------------------
(* Properties *)

\* The whole cart can be put in one order: a line holds more than CART_MAX_QUANTITY only
\* while the request that added to it is about to bring it down, or since that request died
\* between its two statements (cart.service.ts:73-83) and until the line is written again;
\* and there are more than CART_MAX_LINES lines only if two requests were about to add at
\* one time ("the limit is a soft one: two devices adding at 49 lines can pass 50",
\* cart.service.ts:59).
CartFitsAnOrder ==
    /\ \A l \in Lines : cart[l] > CART_MAX_QUANTITY
                        => \/ \E h \in Handlers : At(h, "CAP") /\ l \in job[h].lines
                           \/ l \in uncapped
    /\ OverLimit => crowded
===============================================================================
