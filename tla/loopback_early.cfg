SPECIFICATION Spec
CONSTANTS
    MPS = 2
    BUFFER = 4
    Lengths <- MessageLengths
    MaxMessages = 2
    ReadsDirectly = TRUE
INVARIANTS
    NothingUnexpected
