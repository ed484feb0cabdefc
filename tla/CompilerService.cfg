SPECIFICATION LiveSpec
CONSTANTS
    a = a
    b = b
    Paths = {a, b}
    Threads = {1, 2}
    MaxInFlight = 1
    Versions = {1, 2}
    Menu <- MenuValue
    Shared = {a}
    MaxCalls = 3
    MaxCancels = 1
    MaxWrites = 2

INVARIANTS
    PermitsAreCounted
    SourceIdNamesOnePath

PROPERTIES
    AnswerIsCurrent
    ErrorsChangeNothing
    OpenPrecedesDisk
    RequestsComplete

CHECK_DEADLOCK FALSE
