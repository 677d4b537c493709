SPECIFICATION ModeSpec
CONSTANTS
    Commands <- AllCommands
    MaxCommands = 2
    MaxTouches = 1
    MaxPlugs = 0
    MaxHands = 2
    MaxConnects = 1
    MaxPairings = 1
    MaxWaits = 1
INVARIANTS
    PowerRight
    WorkedOnce

    
