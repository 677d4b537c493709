SPECIFICATION Spec
CONSTANTS
    Commands = {1}
    CmdLen <- ShortCmdLen
    ReplyLen <- ShortReplyLen
    Local = {1}
    Status = {}
    MaxParts = 2
    WaitRertyTims = 3
    TxBuffers = 3
    MaxLoss = 1
    LinkDepth = 2
    Sessions <- HastySessions
INVARIANTS
    AnnouncedWhole
CHECK_DEADLOCK FALSE
