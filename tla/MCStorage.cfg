SPECIFICATION StorageSpec
CONSTANTS
    PSTORAGE_FLASH_PAGE_SIZE = 6
    PSTORAGE_CMD_QUEUE_SIZE = 2
    SD_CMD_MAX_TRIES = 3
    block_size = 2
    block_count = 6
    Requests = {}
    Blank <- Erased
    Junk <- Spoilt
    Interrupts = TRUE
    Refusals = FALSE
    MaxCommands = 0
    MaxErrors = 2
    MaxOthers = 0
    MaxBalances = 2
    MaxSaves = 2
    MaxFails = 3
INVARIANTS
    WordsKept
    LoadedBalance
PROPERTIES
    ActsAsFlashStore
    Reloaded
    LoopsEnd
CHECK_DEADLOCK FALSE
