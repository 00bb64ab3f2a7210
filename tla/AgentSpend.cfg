SPECIFICATION SpendSpec
CONSTANTS
    r1 = r1
    r2 = r2
    w1 = w1
    i1 = i1
    d1 = d1
    d2 = d2
    Runs = {r1, r2}
    Workspaces = {w1}
    WorkspaceOf <- OneWorkspace
    TurnCosts = {1, 2}
    MaxSteps = 2
    MaxRun = 3
    Cap = 3
    Allowance = 1
    Intents = {i1}
    Amount <- Three
    Deliveries = {d1, d2}
    MaxMonths = 1
    MaxFailures = 1
INVARIANTS
    LimitsGiveByOverlap
    ChargedToOnePayer
    CreditedOnce
CHECK_DEADLOCK FALSE
