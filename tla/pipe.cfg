SPECIFICATION FairSpec
CONSTANTS
    MPS = 2
    BufLen = 4
    SetupLen = 2
    MaxSetups = 3
    Requests <- FittingRequests
    HostMayAbort = TRUE
    HostMayInterrupt = TRUE
    SetupClearsIn = TRUE
    BusErrors = FALSE
    None = None
    BufLens = {0, 1, 2, 3, 4, 5}
    StaticLens = {}
    Ep0Halts = {}
    AcceptMayFail = FALSE
INVARIANTS
    TypeOK
    OutDataIntact
    NoStaleDispatch
    NoRequestLeftWaiting
    InAnswerIntact
    AckOnlyAccepted
    AcceptedDoesNotFail
PROPERTIES
    CompletesAfterStatus
    TransferEnds
    AcceptedCompletes
    ImplementsTransfer
