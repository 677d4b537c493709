SPECIFICATION UpdateSpec
CONSTANTS
    RX_BUF_QUEUE_SIZE = 2
    Contents = {"a", "b"}
    Images <- NewImage
    OldImage <- Old
    OldSd <- Old
    OldBl <- Old
    BankWords = 2
    StartPackets <- AppPackets
    DataPackets <- TwoWords
    BL_IMAGE_MAX_SIZE = 8
    PSTORAGE_CMD_QUEUE_SIZE = 4
    UINT_MAX = 31
    MaxLate = 0
    MaxResets = 1
INVARIANTS
    UpdateTypes
    WholeStarted
PROPERTIES
    FinalTruthful
    OverrunFinal
