SPECIFICATION Spec
CONSTANTS
    Handlers = {h1, h2}
    MaxCrashes = 1
    Keys = {"key"}
    NoKey = "none"
    Colors = {"red"}
    Quantities = {1}
    ListPrices = {10}
    SalePercent = 30
    CouponPercent = 10
    MaxDiscount = 2
    MinOrder = 10
    UsageLimit = 2
    UsageLimitPerUser = 1
    MaxOrders = 2
    MaxEdits = 1
    Lines = {a, b}
    CART_MAX_LINES = 1
    CART_MAX_QUANTITY = 2
    Places = {"near", "far"}
    Undeliverable = {"far"}
    ADDRESS_LIMIT = 2
    MaxVersion = 2
    MaxCreated = 2
    ClientIds = {a, b}
    MaxMessages = 3
    MAX_MESSAGES_PER_MINUTE = 2
    Orders = {a, b}
    Ratings = {1, 2}
    OutboxAttempts = 3
    MailAttempts = 2
    MaxAsks = 3
    MaxFaults = 2
    Users = {a, b}
    Devices = {"phone"}
    MaxTime = 2
    MaxNotes = 2
    MaxPictures = 3
    Collections = {a, b}
    Names = {"linen"}
    Admins = {a, b}
    OTP_MAX_ATTEMPTS = 2
    MaxCodes = 2
    MaxResets = 1
    MaxTokens = 2
    MaxRevocations = 1
    MaxOutages = 1
    Products = {a, b}
    Campaigns = {1, 2}
    Percents = {10, 50}
    Horizon = 1
    Windows <- SomeWindows
    ListPrice = 15
    MaxChanges = 4
    Outfits <- SomeOutfits
    Limit <- SmallLimits
    Mock = FALSE
    Provinces = {a, b}
    MaxRuns = 2
SYMMETRY Symmetry
CHECK_DEADLOCK FALSE
INVARIANTS OneOrderPerKey DiscountIsClaimed CartFitsAnOrder OneDefault UnreadIsCounted
           RatingIsOneBehind AcceptedIsDone ReachesOnlyItsUser OneMainPicture NobodyLockedOut
           RevokedStaysOut OverlapIsHarmless QuotaFollowsResults BoughtOnce
           RevisionIsOneWholeCatalog
PROPERTY RetryIsServed
