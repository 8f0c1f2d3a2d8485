SPECIFICATION PromptSpec
CONSTANTS
    d1 = d1
    Deliveries = {d1}
    Messages = {m1}
    Endpoints = {e1}
    Workers = {w1}
    None = None
    EndpointOf <- OnlyEndpoint
    MessageOf <- OnlyMessage
    BatchSize = 16
    Concurrency = 8
    VisibilityTimeout = 1
    AttemptBudget = 8
    BackoffBase = 1
    BackoffMax = 60
    AutoDisableAfter = 7200
    MaxTime = 2880
    MaxCrashes = 0
    MaxOperatorOps = 0
CHECK_DEADLOCK FALSE
INVARIANTS
    TriedForADay
