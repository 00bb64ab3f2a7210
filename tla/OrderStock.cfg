SPECIFICATION Spec
CONSTANTS
    a = a
    b = b
    p1 = p1
    p2 = p2
    Orders = {a, b}
    Lines <- TwoAndOne
    Items = {"bag", "mug"}
    OrderOf <- OrderOfLine
    ItemOf <- ItemPerLine
    Qty <- Position
    Sandbox = {}
    Refundable = {a}
    FirstOnHand <- Two
    Procs = {p1, p2}
    OperatorKinds = {"damage"}
    MaxManual = 1
SYMMETRY ProcSymmetry
INVARIANTS
    NoOversell
    HoldsAreSound
    StockFollowsOrder
    ReturnsAreBacked
CHECK_DEADLOCK FALSE
