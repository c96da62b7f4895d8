SPECIFICATION FairSpec
CONSTANTS
    p1 = p1
    u1 = u1
    n1 = n1
    r1 = r1
    MaxOrders = 3
    Payers <- OnePayer
    Customers <- OneCustomer
    Nights <- OneNight
    Reminders <- OneReminder
    Tick = 28
    LastDay = 56
    MaxErrors = 1
CHECK_DEADLOCK FALSE
PROPERTIES PaymentNeverTakesAway NightlyWorkIsDone
