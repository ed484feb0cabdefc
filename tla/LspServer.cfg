SPECIFICATION Spec
CONSTANTS
    a = a
    b = b
    Paths = {a, b}
    Texts = {1, 2}
    Versions = {1, 2}
    MaxId = 3

INVARIANTS
    PublishedIsCurrent
    NoSilentDivergence
