CONSTANTS
    tA = tA
    tB = tB
    None = None
    AdminToken = AdminToken
    Pages = {"tenant"}
    Keys <- MCKeys
    CreatedAt <- MCCreatedAt
    TenantOf <- MCTenantOf
    PageSize = 1
    MaxClicks = 3
    MaxHastyClicks = 3
    MaxIds = 3
SPECIFICATION Spec
INVARIANTS
    ShownIsOfSelection
CHECK_DEADLOCK FALSE
