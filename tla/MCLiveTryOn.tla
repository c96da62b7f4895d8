----------------------------- MODULE MCLiveTryOn -----------------------------
EXTENDS LiveTryOn
CONSTANTS u1, s1, s2, h1, c1
OneUser == {u1}
TwoSessions == {s1, s2}
SameOwner == [s \in Sessions |-> u1]
Vip == [u \in Users |-> "VIP"]
OneClient == {h1}
OneCron == {c1}
=============================================================================
