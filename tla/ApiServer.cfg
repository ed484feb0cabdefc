SPECIFICATION LiveSpec
CONSTANTS
    a = a
    long = long
    none = none
    Ids <- MCIds
    LongIds <- MCLongIds
    NoId = none
    Sizes = {1, 2}
    MaxWork = 1
    MaxBytes = 1
    MaxRejects = 1
    Inputs = {"socket", "poll"}
    MaxFrames = 3
    OutputFails = TRUE
    ReaderFails = TRUE

INVARIANTS
    TypeOK
    CancellationIsLive
    ObligationsConserved
    ResponsesInOrder
    Accounting

PROPERTIES
    CancelledNeverRuns
    ObligationsMet
    ReaderErrorReported
    SessionEnds
