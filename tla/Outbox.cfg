SPECIFICATION FairOutboxSpec
CONSTANTS
    d1 = d1
    d2 = d2
    Events = {1, 2, 3}
    Occurred <- TwoAtOnce
    Follows <- OneThenThree
    Drains = {d1, d2}
    Handlers = {"h1", "h2"}
    Throws <- SecondThrowsOnTwo
    BatchSize = 2
    MaxAttempts = 2
    MCMaxAttempts = 2
    Lease = 1
    Backoff <- DefaultBackoff
    BackoffCeiling = 2
    MaxCrashes = 1
INVARIANTS
    EachAttemptRunsOnce
PROPERTIES
    DeliversAtLeastOnce
    EveryEventSettles
    HealthyIsPublished
CHECK_DEADLOCK FALSE
