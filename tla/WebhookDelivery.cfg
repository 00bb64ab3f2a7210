SPECIFICATION Spec
CONSTANTS
    w1 = w1
    w2 = w2
    p1 = p1
    p2 = p2
    e1 = e1
    e2 = e2
    Endpoints = {p1}
    FirstEndpoints = {}
    Events = {e1}
    Wants <- Everything
    Workers = {w1, w2}
    Healthy = {}
    MaxEndpoints = 1
    BatchSize = 2
    MaxAttempts = 2
    MCMaxAttempts = 2
    Lease = 2
    Backoff <- MCBackoff
    BackoffCeiling = 1
    DisableAfter = 1
    MaxFanouts = 2
    MaxCrashes = 1
    MaxReplays = 1
    MaxEdits = 2
SYMMETRY MCSymmetry
INVARIANTS
    AnsweredOnce
PROPERTIES
    DeliversAtLeastOnce
CHECK_DEADLOCK FALSE
