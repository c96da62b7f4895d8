----------------------------- MODULE CouponPool -----------------------------
(***************************************************************************)
(* What the shop promises about coupons: an order takes a coupon when it   *)
(* is placed and at no other time, while fewer orders than the limit hold  *)
(* it, and gives it back at most once.                                     *)
(***************************************************************************)
EXTENDS Naturals, FiniteSets

CONSTANTS Orders, Coupons, NoCoupon, UsageLimit

VARIABLES
    placed,  \* orders that exist
    held     \* the coupon an order holds

poolVars == <<placed, held>>

Holders(c) == {o \in Orders : held[o] = c}

PoolInit == placed = {} /\ held = [o \in Orders |-> NoCoupon]

Place(o, c) ==
    /\ o \notin placed
    /\ c # NoCoupon => Cardinality(Holders(c)) < UsageLimit[c]
    /\ placed' = placed \cup {o}
    /\ held' = [held EXCEPT ![o] = c]

Return(o) ==
    /\ o \in placed /\ held[o] # NoCoupon
    /\ held' = [held EXCEPT ![o] = NoCoupon]
    /\ UNCHANGED placed

PoolNext ==
    \E o \in Orders :
       (\E c \in Coupons \cup {NoCoupon} : Place(o, c)) \/ Return(o)

PoolSpec == PoolInit /\ [][PoolNext]_poolVars
=============================================================================
