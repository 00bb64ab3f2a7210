SPECIFICATION MCSpec
CONSTANTS
    c1 = c1
    c2 = c2
    c3 = c3
    k1 = k1
    k2 = k2
    l1 = l1
    l2 = l2
    Calls = {c1, c2, c3}
    Keys = {k1, k2}
    Prints = {"x", "y"}
    Locks = {l1, l2}
    LockOf <- OneLockPerKey
    NoCall = NoCall
    NoRow = NoRow
INVARIANTS
    OneEffectPerKey
PROPERTIES
    ImplementsOnce
    EveryCallEnds
CHECK_DEADLOCK FALSE
