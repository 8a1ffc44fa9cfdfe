SPECIFICATION Spec
CONSTANTS
    MPS = 2
    BufLen = 4
    SetupLen = 2
    MaxSetups = 2
    Requests <- FittingRequests
    HostMayAbort = TRUE
    HostMayInterrupt = TRUE
    SetupClearsIn = TRUE
    BusErrors = FALSE
    None = None
    BufLens = {1, 2, 3}
    StaticLens = {3, 6}
    Ep0Halts = {}
    AcceptMayFail = FALSE
INVARIANTS
    InAnswerIntact
