----------------------------- MODULE MCServices -----------------------------
(***************************************************************************)
(* A small instance of the services around the orders.                     *)
(***************************************************************************)
EXTENDS Services, TLC

\* An outfit of two pieces, the same pieces worn the other way round, and one nobody may
\* ask for.
Wear(inner, outer) == [l \in {"INNER", "OUTER"} |-> IF l = "INNER" THEN inner ELSE outer]
SomeOutfits == {Wear("shirt", "coat"), Wear("coat", "shirt"),
                [l \in {"FULL_BODY", "OUTER"} |-> "dress"]}
\* After one try-on of two pieces the guard lets a second through, which assertQuota refuses.
SmallLimits == [a \in {"TRY_ON", "STYLIST", "CHATBOT"} |-> IF a = "TRY_ON" THEN 3 ELSE 1]

\* A sale without a start, and one that begins when the first ends, and ends never.
SomeWindows == {<<2, 1>>, <<1, 2>>}

Symmetry == Permutations(Handlers) \cup Permutations(Orders)
=============================================================================
