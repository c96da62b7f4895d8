SPECIFICATION FairSpec
CONSTANTS
    i1 = i1
    a1 = a1
    c1 = c1
    c2 = c2
    t1 = t1
    w1 = w1
    w2 = w2
    k1 = k1
    d1 = d1
    d2 = d2
    Items <- Nobody
    Administrators <- OneAdministrator
    Customers <- Nobody
    Trackers <- OneTracker
    Webhooks <- Nobody
    Crons <- OneCron
    Disputes <- TwoDisputes
    MaxEvents = 6
    MaxErrors = 1
CHECK_DEADLOCK FALSE
PROPERTY DeliveryIsNoticed
