SPECIFICATION Spec
CONSTANTS
 Handlers = {h1}
 Keys = {k1}
 NoKey = none
 Colors = {red, blue}
 Quantities = {1, 2}
 ListPrices = {10}
 SalePercent=30
 CouponPercent=10
 MaxDiscount=2
 MinOrder=10
 UsageLimit=2
 UsageLimitPerUser=1
 MaxOrders=2
 MaxEdits=1
INVARIANT LineIsItsPieces
CHECK_DEADLOCK FALSE
