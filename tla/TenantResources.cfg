CONSTANTS
    a1 = a1
    a2 = a2
    k1 = k1
    k2 = k2
    None = None
    Apps = {a1, a2}
    Keys = {k1, k2}
    AppOf <- MCAppOf
    Names = {n1}
    Requests = {r1, r2}
    Ttl = 1
    MaxTime = 2
    MaxIds = 3
    MaxVersion = 1
SPECIFICATION Spec
INVARIANTS
    TypeOK
    ReferencesAreIntact
PROPERTY
    OwnersOnly
CHECK_DEADLOCK FALSE
