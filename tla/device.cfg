SPECIFICATION DeviceSpec
CONSTANTS
    MPS = 2
    BufLen = 4
    SetupLen = 2
    MaxSetups = 4
    Requests <- HostRequests
    HostMayAbort = FALSE
    HostMayInterrupt = TRUE
    SetupClearsIn = TRUE
    BusErrors = FALSE
    None = None
    BufLens = {1, 3}
    StaticLens = {}
    Ep0Halts <- HaltingRequests
    AcceptMayFail = FALSE
    MaxAddress = 2
    HostRepeatsAddress = FALSE
    QUIRK_SET_ADDRESS_BEFORE_STATUS = FALSE
INVARIANTS
    DeviceTypeOK
    SuspendBookkeeping
    DeviceMatchesHost
    AddressIsTheHosts
    AddressedHasAddress
    AddressIsTaken
