SPECIFICATION Spec
CONSTANTS
    d1 = d1
    d2 = d2
    e1 = e1
    e2 = e2
    w1 = w1
    w2 = w2
    Deliveries = {d1, d2}
    Messages = {d1, d2}
    Endpoints = {e1, e2}
    Workers = {w1, w2}
    None = None
    EndpointOf <- MCEndpointOf
    MessageOf <- MCMessageOf
    BatchSize = 2
    Concurrency = 1
    VisibilityTimeout = 2
    AttemptBudget = 2
    BackoffBase = 1
    BackoffMax = 1
    AutoDisableAfter = 2
    MaxTime = 3
    MaxCrashes = 1
    MaxOperatorOps = 1
    PageLimit = 2
SYMMETRY Symmetric
CHECK_DEADLOCK FALSE
INVARIANTS
    TypeOK
    LiveLeaseIsOwner
    FencingTokenUnique
    OwnerSnapshotIsFresh
    AuditTrail
    AttemptsAreMetered
    NoRowIsStranded
    ReportsAgree
PROPERTIES
    SettledRowsStay
    DisabledOnItsOwnOlderFailure
    ImplementsOwnership
