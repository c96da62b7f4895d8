--------------------------- MODULE MCOrderPayment ---------------------------
(***************************************************************************)
(* Small instances of OrderPayment.                                        *)
(***************************************************************************)
EXTENDS OrderPayment, TLC

CONSTANTS o1, o2, l1, l2, h1, h2, c1

OneOrder == {o1}
TwoOrders == {o1, o2}
NoCoupons == {}
OneCoupon == {c1}
NoLinks == {}
OneLink == {l1}
TwoLinks == {l1, l2}
OneHandler == {h1}
TwoHandlers == {h1, h2}

\* A coupon that can be used once, and no coupon at all.
LimitOne == [c \in Coupons |-> 1]

HandlerSymmetry == Permutations(TwoHandlers)
LinkSymmetry == Permutations(TwoLinks) \cup Permutations(TwoHandlers)
CouponSymmetry == Permutations(TwoOrders) \cup Permutations(TwoHandlers)
=============================================================================
