SPECIFICATION WriterSpec
CONSTANTS
    None = None
    ByteSize = 20
    Sizes <- SmallSizes
    MaxClasses = 2
    DataLens <- SmallData
    StringLens <- SmallStrings
    Stale = 3
INVARIANTS
    WriterTypeOK
    HostReadsWhatWasWritten
    CountersAgree
    EndpointsInOwnClass
CHECK_DEADLOCK FALSE
