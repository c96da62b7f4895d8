---------------------------- MODULE MCMembership ----------------------------
EXTENDS Membership
CONSTANTS p1, u1, n1, r1
OnePayer == {p1}
OneCustomer == {u1}
OneNight == {n1}
OneReminder == {r1}
=============================================================================
