SPECIFICATION Spec
CONSTANTS
    None = None
    Tasks = {t1}
    Overlaps = {1, 2}
    RotatesEarly = TRUE
    MaxTime = 4
    MaxRotations = 2
CHECK_DEADLOCK FALSE
INVARIANTS
    OldSecretWorksUntilPromised
