SPECIFICATION FairSpec
CONSTANTS
    a = a
    b = b
    p1 = p1
    p2 = p2
    r1 = r1
    r2 = r2
    Orders = {a}
    Payments = {p1, p2}
    OrderOf <- OneOrder
    Amount <- TwoAndOne
    Requests = {r1, r2}
    For <- ForEach
    Ask <- AskOne
    Short = {}
    Disputable = {p1}
    Outside = {2}
    OperatorStatuses <- ByHand
    MaxLost = 1
INVARIANTS
    RefundedIsWhole
    PaidOnEvidence
    LedgerIsTrue
PROPERTIES
    
    ChargeIsRecorded
    RefundIsRecorded
CHECK_DEADLOCK FALSE
