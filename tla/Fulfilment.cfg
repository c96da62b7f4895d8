SPECIFICATION Spec
CONSTANTS
    i1 = i1
    a1 = a1
    c1 = c1
    c2 = c2
    t1 = t1
    w1 = w1
    w2 = w2
    k1 = k1
    d1 = d1
    d2 = d2
    Items <- OneItem
    Administrators <- OneAdministrator
    Customers <- TwoCustomers
    Trackers <- Nobody
    Webhooks <- OneWebhook
    Crons <- Nobody
    Disputes <- TwoDisputes
    MaxEvents = 4
    MaxErrors = 1
CHECK_DEADLOCK FALSE
SYMMETRY RequestSymmetry
INVARIANTS OnTheWayIsPickedUp GivenUpOwesRefund
PROPERTY CarrierNeverCallsBack
