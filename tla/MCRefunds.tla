----------------------------- MODULE MCRefunds -----------------------------
(***************************************************************************)
(* Small instances of Refunds: who takes part is given in the .cfg.        *)
(***************************************************************************)
EXTENDS Refunds

CONSTANTS a1, a2, c1, e1, d1, k1

Nobody == {}
OneAdministrator == {a1}
TwoAdministrators == {a1, a2}
OneCron == {c1}
OneExtra == {e1}
OneDefect == {d1}
OneComplaint == {k1}
=============================================================================
