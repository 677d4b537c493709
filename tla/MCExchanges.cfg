SPECIFICATION PartSpec
CONSTANTS
    MAX_resend = 2
    MaxGiven = 3
    MaxFault = 4
    MaxSwitch = 3
    Timers = TRUE
INVARIANTS
    CountersBounded
    SendsRight
    AnswersRight
    AcksRight
PROPERTIES
    SettlesAlways
    Rests
CHECK_DEADLOCK FALSE
