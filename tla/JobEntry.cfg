SPECIFICATION Spec
CONSTANTS
    MaxSlots = 4
    MaxMicrotasks = 2
    MaxIds = 1
    Given = 3
    MaxLinks = 0

INVARIANTS
    JobFindsItsEntry
