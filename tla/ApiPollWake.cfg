SPECIFICATION LiveSpec
CONSTANTS
    a = a
    long = long
    none = none
    Ids <- MCIds
    LongIds <- MCLongIds
    NoId = none
    Sizes = {1}
    MaxWork = 1
    MaxBytes = 2
    MaxRejects = 1
    Inputs = {"poll"}
    MaxFrames = 1
    OutputFails = FALSE
    ReaderFails = FALSE

PROPERTIES
    WakeEndsReader
