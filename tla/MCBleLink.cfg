SPECIFICATION SessionSpec
CONSTANTS
    Commands = {1, 2, 3, 4, 5, 6, 7}
    CmdLen <- TheCmdLen
    ReplyLen <- TheReplyLen
    Local = {2, 3, 4, 6, 7}
    Status = {3}
    MaxParts = 10
    WaitRertyTims = 3
    TxBuffers = 3
    MaxLoss = 2
    LinkDepth = 2
    Sessions <- TheSessions
INVARIANTS
    DeliveredWhole
    AtMostOnce
    AnswerIntact
    CountersAgree
    AcksTruthful
PROPERTIES
    ResendComplete
CHECK_DEADLOCK FALSE
