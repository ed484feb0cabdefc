SPECIFICATION Spec
CONSTANTS
    TimerIds = {1, 2}
    Delays = {1, 2}
    MaxNow = 2
    SpawnFails = TRUE
    MaxTimers = 2
    MaxMicrotasks = 1
    Fuel = 4
    MayCancel = FALSE

INVARIANTS
    TypeOK
    NoInternalFailure
    ArmedIsTracked
    HandleIsCurrent

PROPERTIES
    TimersInOrder
