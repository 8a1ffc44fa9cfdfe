SPECIFICATION Spec
CONSTANTS
    MPS = 2
    BufLen = 4
    SetupLen = 2
    MaxSetups = 3
    Requests <- TroubleRequests
    HostMayAbort = TRUE
    HostMayInterrupt = TRUE
    SetupClearsIn = TRUE
    BusErrors = TRUE
    None = None
    BufLens = {0, 2, 3, 4, 5}
    StaticLens = {}
    Ep0Halts <- HaltingRequests
    AcceptMayFail = TRUE
INVARIANTS
    IndicesInRange
    AcceptedDoesNotFail
PROPERTIES
    CompletesAfterStatus
