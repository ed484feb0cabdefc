SPECIFICATION LiveSpec
CONSTANTS
    c1 = c1
    c2 = c2
    Calls <- Two
    Initialize = Initialize
    MaxInFlight = 1
    MaxRestarts = 1
    MaxRequests = 4

INVARIANTS
    SentToInitialized

PROPERTIES
    CallsSettle
    DisposeEnds
