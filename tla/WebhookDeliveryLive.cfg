SPECIFICATION FairSpec
CONSTANTS
    w1 = w1
    w2 = w2
    p1 = p1
    p2 = p2
    e1 = e1
    e2 = e2
    Endpoints = {p1, p2}
    FirstEndpoints = {p2}
    Events = {e1}
    Wants <- Everything
    Workers = {w1, w2}
    Healthy = {p2}
    MaxEndpoints = 2
    BatchSize = 1
    MaxAttempts = 2
    MCMaxAttempts = 2
    Lease = 2
    Backoff <- MCBackoff
    BackoffCeiling = 1
    DisableAfter = 1
    MaxFanouts = 1
    MaxCrashes = 1
    MaxReplays = 0
    MaxEdits = 0
PROPERTIES
    EveryDeliverySettles
    HealthyIsDelivered
CHECK_DEADLOCK FALSE
