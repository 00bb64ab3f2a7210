SPECIFICATION FairSpec
CONSTANTS
    u1 = u1
    u2 = u2
    u3 = u3
    k1 = k1
    k2 = k2
    Uploads = {u1, u2}
    Keys = {k1}
    KeyOf <- SameKey
    Sweepers = {s1}
    Limit = 1
    None = None
INVARIANTS
    ReadableIsStored
    KeyHasOneHolder
PROPERTIES
    DeletionCompletes
CHECK_DEADLOCK FALSE
