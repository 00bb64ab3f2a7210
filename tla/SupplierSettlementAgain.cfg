SPECIFICATION Spec
CONSTANTS
    po1 = po1
    po2 = po2
    r1 = r1
    r2 = r2
    Obligations = {po1}
    Amount <- Two
    Handlers = {h}
    Sweep = sweep
    Refunds = {r1}
    Of <- OfFirst
    Share <- One
    Batch = 1
    None = None
INVARIANTS
    PulledBackOnce
CHECK_DEADLOCK FALSE
