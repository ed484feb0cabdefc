SPECIFICATION LiveSpec
CONSTANTS
    TimerIds = {1, 2}
    Delays = {1}
    MaxNow = 1
    SpawnFails = FALSE
    MaxTimers = 2
    MaxMicrotasks = 1
    Fuel = 5
    MayCancel = TRUE

PROPERTIES
    EntryStopsAtSettlement
    CancelEndsLoop
    RunEnds
