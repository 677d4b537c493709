SPECIFICATION DeviceSpec
CONSTANTS
    MBR_SIZE = 1
    Half = 2
    ImageSizes = {3, 5, 6}
    InfoPage = 1
    Unprogrammed = 100
    MaxFails = 2
INVARIANTS
    SdMarkedWhole
    SwapWhole
PROPERTIES
    Recovers
CHECK_DEADLOCK FALSE
