SPECIFICATION FairDeviceSpec
CONSTANTS
    MPS = 2
    BufLen = 4
    SetupLen = 2
    MaxSetups = 4
    Requests <- EnumerationRequests
    HostMayAbort = FALSE
    HostMayInterrupt = FALSE
    SetupClearsIn = TRUE
    BusErrors = FALSE
    None = None
    BufLens = {1, 3}
    StaticLens = {0, 2, 3, 6}
    Ep0Halts = {}
    AcceptMayFail = FALSE
    MaxAddress = 2
    HostRepeatsAddress = FALSE
    QUIRK_SET_ADDRESS_BEFORE_STATUS = TRUE
INVARIANTS
    InAnswerIntact
    IndicesInRange
    DeviceMatchesHost
    AddressedHasAddress
PROPERTIES
    ResumeWakes
