SPECIFICATION FairSpec
CONSTANTS
    o1 = o1
    o2 = o2
    l1 = l1
    l2 = l2
    h1 = h1
    h2 = h2
    c1 = c1
    NoCoupon = NoCoupon
    NoLink = NoLink
    Orders <- OneOrder
    Coupons <- OneCoupon
    UsageLimit <- LimitOne
    Links <- OneLink
    Handlers <- TwoHandlers
    Channels = {"MANUAL", "ADMIN", "CHECKOUT"}
    Amounts = {"EXACT"}
CHECK_DEADLOCK FALSE
PROPERTIES AbandonedCouponReturns CollectedMoneyOnRecord
