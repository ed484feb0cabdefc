SPECIFICATION Spec
CONSTANTS
    a = a
    long = long
    none = none
    Ids <- MCIds
    LongIds <- MCLongIds
    NoId = none
    Sizes = {1}
    MaxWork = 2
    MaxBytes = 2
    MaxRejects = 1
    Inputs = {"channel"}
    MaxFrames = 2
    OutputFails = FALSE
    ReaderFails = FALSE

INVARIANTS
    CarriedIsAnswered
