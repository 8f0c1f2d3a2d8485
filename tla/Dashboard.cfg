CONSTANTS
    tA = tA
    tB = tB
    None = None
    AdminToken = AdminToken
    Pages = {"tenant", "admin"}
    Keys <- MCKeys
    CreatedAt <- MCCreatedAt
    TenantOf <- MCTenantOf
    PageSize = 1
    MaxClicks = 5
    MaxHastyClicks = 2
    MaxIds = 3
SPECIFICATION Spec
INVARIANTS
    TypeOK
    PanelsSettle
    PatientSeesTheTruth
CHECK_DEADLOCK FALSE
