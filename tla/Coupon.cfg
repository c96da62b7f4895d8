SPECIFICATION Spec
CONSTANTS
    o1 = o1
    o2 = o2
    l1 = l1
    l2 = l2
    h1 = h1
    h2 = h2
    c1 = c1
    NoCoupon = NoCoupon
    NoLink = NoLink
    Orders <- TwoOrders
    Coupons <- OneCoupon
    UsageLimit <- LimitOne
    Links <- NoLinks
    Handlers <- TwoHandlers
    Channels = {"BANK", "VOID", "ADMIN"}
    Amounts = {"EXACT", "WRONG"}
SYMMETRY CouponSymmetry
CHECK_DEADLOCK FALSE
INVARIANTS CouponAccounting ReleasedIfUnpaid OneOutcome
PROPERTY ImplementsCouponPool
