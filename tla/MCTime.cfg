SPECIFICATION TimeSpec
CONSTANTS
    scan = scan
    timeout = timeout
    Years <- AllYears
    Times <- AroundMidnight
    MaxTicks = 2
INVARIANTS
    CalledInTime
PROPERTIES
    NeverEarly
    ClockRight
CHECK_DEADLOCK FALSE
