SPECIFICATION Spec
CONSTANTS
    Classes <- TwoClasses
    Width = 6
    Numbers = {0, 1}
    ControlLens = {4, 16}
    PacketSizes = {12, 16}
    MaxInterfaces = 6
    MaxStrings = 2
    Device = Device
    Nobody = Nobody
INVARIANTS
    AllocatorTypeOK
    NumbersFindTheirClass
    UsedAfterEnable
    DeviceIsComplete
PROPERTIES
    AllocatedBeforeEnable
CHECK_DEADLOCK FALSE
