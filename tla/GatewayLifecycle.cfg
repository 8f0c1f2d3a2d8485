SPECIFICATION Spec
CONSTANTS
    None = None
    Sessions = {1, 2, 3}
    Handlers = {1, 2}
    MorePorts = 2
    MaxStops = 2
INVARIANTS
    TypeOK
    NothingLeaks
    ClosedStorageIsUnused
