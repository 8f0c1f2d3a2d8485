SPECIFICATION Spec
CONSTANTS
    d1 = d1
    d2 = d2
    d3 = d3
    e1 = e1
    e2 = e2
    None = None
    Deliveries = {d1, d2, d3}
    Endpoints = {e1, e2}
    EndpointOf <- MCEndpointOf
    BatchSize = 2
    AttemptBudget = 2
    Limits <- MCLimits
    Second = 2
    MaxUpsets = 1
INVARIANTS
    TypeOK
    BurstIsBounded
PROPERTIES
    ClaimsAreFair
    NoStarvation
