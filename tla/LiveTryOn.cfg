SPECIFICATION FairSpec
CONSTANTS
    u1 = u1
    s1 = s1
    s2 = s2
    h1 = h1
    c1 = c1
    Global = Global
    Users <- OneUser
    Sessions <- TwoSessions
    Owner <- SameOwner
    TierOf <- Vip
    Clients <- OneClient
    Crons <- OneCron
    userDailySeconds = 2
    globalDailySeconds = 3
    maxDurationSeconds = 2
    minSessionSeconds = 1
    maxConcurrentSessions = 1
    pauseTimeoutSeconds = 1
    setupSeconds = 0
    MaxTime = 3
    MaxErrors = 1
    MaxPolicies = 1
CHECK_DEADLOCK FALSE
INVARIANTS NeverOverLimit ReservedIsHeld
PROPERTY ReservationEnds
