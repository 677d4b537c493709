SPECIFICATION SettingsSpec
CONSTANTS
    PSTORAGE_FLASH_PAGE_SIZE = 6
    PSTORAGE_CMD_QUEUE_SIZE = 2
    SD_CMD_MAX_TRIES = 3
    block_size = 2
    block_count = 6
    Requests = {}
    Blank <- Erased
    Junk <- Spoilt
    Interrupts = FALSE
    Refusals = FALSE
    MaxCommands = 0
    MaxErrors = 0
    MaxOthers = 0
    MaxBalances = 2
    MaxSaves = 0
    MaxFails = 1
INVARIANTS
    LoadedWhole
CHECK_DEADLOCK FALSE
