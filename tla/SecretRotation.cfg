SPECIFICATION Spec
CONSTANTS
    None = None
    Tasks = {t1}
    Overlaps = {1, 2}
    RotatesEarly = FALSE
    MaxTime = 4
    MaxRotations = 2
CHECK_DEADLOCK FALSE
INVARIANTS
    TypeOK
    OldSecretWorksUntilPromised
    ExpiredSecretIsDead
