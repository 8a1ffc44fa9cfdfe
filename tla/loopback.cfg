SPECIFICATION FairSpec
CONSTANTS
    MPS = 2
    BUFFER = 4
    Lengths <- MessageLengths
    MaxMessages = 2
    ReadsDirectly = FALSE
INVARIANTS
    TestTypeOK
    EchoIntact
    NothingUnexpected
    ExpectationsMatch
PROPERTIES
    EchoArrives
