SPECIFICATION Spec
CONSTANTS
    None = None
    BatchSize = 3
    Concurrency = 2
    Timers = {1, 2}
    Ticks = {1, 2, 3}
    RestartDuringStop = FALSE
    MaxFaults = 2
INVARIANTS
    TypeOK
    OneLoop
    QuietAfterStop
PROPERTIES
    LoopGoesOn
    EveryStopReturns
