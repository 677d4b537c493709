SPECIFICATION Spec
CONSTANTS
    PSTORAGE_FLASH_PAGE_SIZE = 4
    PSTORAGE_CMD_QUEUE_SIZE = 2
    SD_CMD_MAX_TRIES = 2
    block_size = 3
    block_count = 4
    Requests <- Updates
    Blank <- Erased
    Junk <- Spoilt
    Interrupts = FALSE
    Refusals = FALSE
    MaxCommands = 2
    MaxErrors = 0
    MaxOthers = 0
INVARIANTS
    NothingLost
CHECK_DEADLOCK FALSE
