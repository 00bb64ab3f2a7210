SPECIFICATION FairRenewals
CONSTANTS
    s1 = s1
    s2 = s2
    k1 = k1
    r1 = r1
    r2 = r2
    Subscriptions = {s1}
    Purchases = {k1}
    Runs = {r1, r2}
    MaxFailed = 2
    MaxTime = 1
    MaxResumes = 1
    None = None
INVARIANTS
    ChargedOncePerCycle
    EndedOnFailures
PROPERTIES
    StoppedIsLeftAlone
    DueIsClaimed
CHECK_DEADLOCK FALSE
