--------------------------------- MODULE Reviews ---------------------------------
(***************************************************************************)
(* The reviews of one product, one for each completed order of it, and     *)
(* the rating and number of reviews kept with the product.  The statistics *)
(* are read by another connection than the one of the transaction that     *)
(* changes a review.  Replies and notifications change neither.            *)
(***************************************************************************)
EXTENDS Naturals, FiniteSets

CONSTANTS
    Handlers,          \* requests at one time
    Orders,            \* COMPLETED orders of the product, each of another customer
    Ratings

VARIABLES
    reviews,           \* the rating of each order's review, 0: none
    shown,             \* the ratings avgRating and reviewCount were computed from
    job,
    overlapped         \* history: two requests changed ratings at one time

vars == <<reviews, shown, job, overlapped>>

NoJob == [op |-> "NONE", at |-> "IDLE", order |-> "none", rating |-> 0, was |-> 0, stats |-> {}]

Init ==
    /\ reviews = [o \in Orders |-> 0] /\ shown = [o \in Orders |-> 0]
    /\ job = [h \in Handlers |-> NoJob]
    /\ overlapped = FALSE

At(h, s)  == job[h].at = s
Set(h, j) == job' = [job EXCEPT ![h] = j]
Done(h)   == Set(h, NoJob)
Writing(g) == job[g].at \in {"WRITE", "COMMIT"}

-----------------------------------------------------------------------------
(* create, update, remove: check, then a transaction in two steps *)

Check(h, op, o, r) ==
    /\ job[h] = NoJob
    /\ CASE op = "CREATE" -> reviews[o] = 0
         [] op = "UPDATE" -> reviews[o] # 0
         [] op = "REMOVE" -> reviews[o] # 0 /\ r = 0
    /\ Set(h, [NoJob EXCEPT !.op = op, !.at = "WRITE", !.order = o, !.rating = r,
                            !.was = reviews[o]])
    /\ UNCHANGED <<reviews, shown, overlapped>>

\* updateProductRating is left out when the rating stays what it was.
ForgetRemoved(j) == j.op = "CREATE" \/ (j.op = "UPDATE" /\ j.rating # j.was)
Counted(j)       == j.op # "UPDATE" \/ j.rating # j.was

\* The review is unique for its order, and a row that is gone is neither updated nor
\* deleted: then the transaction fails.
Possible(j) == (reviews[j.order] = 0) = (j.op = "CREATE")

\* getProductStats sees what was committed before, without the change of its own
\* transaction.
getProductStats(h) ==
    /\ At(h, "WRITE")
    /\ IF Possible(job[h]) THEN Set(h, [job[h] EXCEPT !.at = "COMMIT", !.stats = {reviews}])
                           ELSE Done(h)
    /\ overlapped' = (overlapped \/ \E g \in Handlers \ {h} : Writing(g))
    /\ UNCHANGED <<reviews, shown>>

updateProductRating(j) ==
    shown' = IF Counted(j) THEN CHOOSE stats \in j.stats : TRUE ELSE shown

Commit(h) ==
    LET j == job[h]
    IN /\ At(h, "COMMIT") /\ Done(h)
       /\ IF Possible(j)
          THEN /\ reviews' = [reviews EXCEPT ![j.order] = j.rating]
               /\ updateProductRating(j)
          ELSE UNCHANGED <<reviews, shown>>
       /\ UNCHANGED overlapped

Next ==
    \E h \in Handlers :
          \/ \E o \in Orders, r \in Ratings : Check(h, "CREATE", o, r) \/ Check(h, "UPDATE", o, r)
          \/ \E o \in Orders : Check(h, "REMOVE", o, 0)
          \/ getProductStats(h) \/ Commit(h)

Spec == Init /\ [][Next]_vars

-----------------------------------------------------------------------------
(* Properties *)

\* The rating shown with the product is behind the reviews by the last change of them,
\* which its own transaction cannot see (reviews.service.ts:256), and never by more: what
\* one change leaves out the next one brings in, unless two changes overlapped.
RatingIsOneBehind ==
    ~overlapped => Cardinality({o \in Orders : shown[o] # reviews[o]}) <= 1
===============================================================================
