SPECIFICATION FairListingSpec
CONSTANTS
    d1 = d1
    d2 = d2
    e1 = e1
    w1 = w1
    Deliveries = {d1, d2}
    Messages = {d1, d2}
    Endpoints = {e1}
    Workers = {w1}
    None = None
    EndpointOf <- MCEndpointOf
    MessageOf <- MCMessageOf
    Newer <- MCNewer
    PageLimit = 1
    AttemptBudget = 2
    AutoDisables = TRUE
    MaxCrashes = 2
    MaxOperatorOps = 2
INVARIANTS
    DeliveriesAreListed
PROPERTIES
    EveryDeliverySettles
