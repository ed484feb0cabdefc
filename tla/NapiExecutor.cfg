SPECIFICATION LiveSpec
CONSTANTS
    j1 = j1
    j2 = j2
    j3 = j3
    Jobs <- MCJobs
    QueueCapacity = 2
    MayPanic = TRUE

INVARIANTS
    OneOwner
    ShutdownCancelsRunning

PROPERTIES
    ShutdownTerminates
    AcceptedIsSettled
