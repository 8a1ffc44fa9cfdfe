SPECIFICATION Spec
CONSTANTS
    MPS = 2
    BufLen = 4
    SetupLen = 2
    MaxSetups = 2
    Requests <- AllRequests
    HostMayAbort = TRUE
    HostMayInterrupt = TRUE
    SetupClearsIn = TRUE
    BusErrors = FALSE
    None = None
    BufLens = {1, 2, 3}
    StaticLens = {}
    Ep0Halts = {}
    AcceptMayFail = FALSE
INVARIANTS
    OutDataIntact
