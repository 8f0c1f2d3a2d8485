SPECIFICATION Spec
CONSTANTS
    a1 = a1
    a2 = a2
    k1 = k1
    k2 = k2
    e1 = e1
    e2 = e2
    r1 = r1
    r2 = r2
    r3 = r3
    t = t
    p1 = p1
    p2 = p2
    i1 = i1
    i2 = i2
    dup = dup
    None = None
    Apps = {a1, a2}
    ApiKeys = {k1, k2}
    Endpoints = {e1, e2}
    Requests = {r1, r2, r3}
    EventTypes = {t}
    Payloads = {p1, p2}
    IdempotencyKeys = {i1, i2}
    DeduplicationKeys = {dup}
    Windows = {1, 2}
    AppOfKey <- MCAppOfKey
    AppOfEndpoint <- MCAppOfEndpoint
    Subscriptions <- MCSubscriptions
    KeyOf <- MCKeyOf
    Body <- MCBody
    Quotas <- MCQuotas
    MonthLength = 2
    MaxTime = 2
    MaxSends = 3
    MaxCrashes = 1
    MaxOperatorOps = 1
CHECK_DEADLOCK FALSE
INVARIANTS
    TypeOK
    IdempotentAnswers
    DuplicatesAreSuppressed
    UsageCountsMessages
    TenantsAreIsolated
PROPERTIES
    QuotaIsKept
