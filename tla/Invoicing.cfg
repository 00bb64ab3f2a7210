SPECIFICATION Spec
CONSTANTS
    i1 = i1
    i2 = i2
    e1 = e1
    e2 = e2
    p1 = p1
    p2 = p2
    Invoices = {i1, i2}
    Entries = {e1, e2}
    Payments = {p1, p2}
    Prices = {2}
    Worths = {1}
    Amounts = {1, 2, 3}
    None = None
SYMMETRY Alike
INVARIANTS
    TimeIsBilledOnce
    NeverOverCollected
    PaidIsCollected
PROPERTIES
    IssuedIsFixed
CHECK_DEADLOCK FALSE
