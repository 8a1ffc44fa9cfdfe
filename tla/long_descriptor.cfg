SPECIFICATION DeviceSpec
CONSTANTS
    MPS = 2
    BufLen = 4
    SetupLen = 2
    MaxSetups = 2
    Requests <- LongDescriptorRequests
    HostMayAbort = FALSE
    HostMayInterrupt = TRUE
    SetupClearsIn = TRUE
    BusErrors = FALSE
    None = None
    BufLens = {2}
    StaticLens = {3}
    Ep0Halts = {}
    AcceptMayFail = TRUE
    MaxAddress = 2
    HostRepeatsAddress = FALSE
    QUIRK_SET_ADDRESS_BEFORE_STATUS = FALSE
INVARIANTS
    NoRequestLeftWaiting
