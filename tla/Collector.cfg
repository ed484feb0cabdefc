SPECIFICATION LiveSpec
CONSTANTS
    MaxSlots = 4
    MaxWeak = 2
    Heaps <- MCHeaps

INVARIANTS
    SweepsExactlyGarbage

PROPERTIES
    Terminates

CHECK_DEADLOCK FALSE
