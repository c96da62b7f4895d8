SPECIFICATION Spec
CONSTANTS
    a1 = a1
    a2 = a2
    c1 = c1
    e1 = e1
    d1 = d1
    k1 = k1
    Main = Main
    NoIssue = NoIssue
    Administrators <- OneAdministrator
    Crons <- OneCron
    Extras <- Nobody
    Defects <- OneDefect
    Complaints <- OneComplaint
    Price = 2
    ItemPrice = 1
    ShippingFee = 1
    Targets = {"PROCESSING", "COMPLETED", "CANCELLED"}
    MaxRefunds = 2
    MaxErrors = 1
CHECK_DEADLOCK FALSE
INVARIANT RefundedIsPaidBack
PROPERTY IssuesResolvedLast
