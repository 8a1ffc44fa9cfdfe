SPECIFICATION FairSpec
CONSTANTS
    MPS = 2
    BufLen = 4
    SetupLen = 2
    MaxSetups = 1
    Requests <- AllRequests
    HostMayAbort = FALSE
    HostMayInterrupt = FALSE
    SetupClearsIn = TRUE
    BusErrors = FALSE
    None = None
    BufLens = {1, 2, 3}
    StaticLens = {}
    Ep0Halts = {}
    AcceptMayFail = FALSE
PROPERTIES
    TransferEnds
