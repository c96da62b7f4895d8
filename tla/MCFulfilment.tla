---------------------------- MODULE MCFulfilment ----------------------------
(***************************************************************************)
(* Small instances of Fulfilment: who takes part is given in the .cfg.     *)
(***************************************************************************)
EXTENDS Fulfilment, TLC

CONSTANTS i1, a1, c1, c2, t1, w1, w2, k1, d1, d2

Nobody == {}
OneItem == {i1}
OneAdministrator == {a1}
OneCustomer == {c1}
TwoCustomers == {c1, c2}
OneTracker == {t1}
OneWebhook == {w1}
TwoWebhooks == {w1, w2}
OneCron == {k1}
TwoDisputes == {d1, d2}

\* Requests of one kind, and ids of disputes, are interchangeable.
RequestSymmetry == Permutations(TwoCustomers) \cup Permutations(TwoWebhooks)
                     \cup Permutations(TwoDisputes)
=============================================================================
