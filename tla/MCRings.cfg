SPECIFICATION RingsSpec
CONSTANTS
    QueueSize = 2
    EventSize = 1
    Levels = 2
    Nesting = 2
    MaxPut = 4
    RX_BUF_QUEUE_SIZE = 4
    MaxPackets = 10
INVARIANTS
    TypeOK
    TakenIsNext
    HandlerKeepsData
    BufferKept
PROPERTIES
    ImplementsEventQueue
    AllExecuted
    ImplementsFlashQueue
CHECK_DEADLOCK FALSE
