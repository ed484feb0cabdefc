SPECIFICATION Spec
CONSTANTS
    MaxSlots = 4
    MaxMicrotasks = 2
    MaxIds = 2
    Given = 3
    MaxLinks = 1

INVARIANTS
    TypeOK
    
    ObservedTargetSurvives
    CleanupIsQueuedOnce
    HoldingsAreDue
    LedgerIsExact
