SPECIFICATION Spec
CONSTANTS
    o1 = o1
    o2 = o2
    l1 = l1
    l2 = l2
    h1 = h1
    h2 = h2
    c1 = c1
    NoCoupon = NoCoupon
    NoLink = NoLink
    Orders <- OneOrder
    Coupons <- NoCoupons
    UsageLimit <- LimitOne
    Links <- TwoLinks
    Handlers <- TwoHandlers
    Channels = {"BANK", "CHECKOUT"}
    Amounts = {"EXACT"}
SYMMETRY LinkSymmetry
CHECK_DEADLOCK FALSE
INVARIANTS TypeOK PaidOnce
PROPERTY RecordedMoneyStays
