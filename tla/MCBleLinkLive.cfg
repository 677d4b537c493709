SPECIFICATION FairSpec
PROPERTIES
    ComesToRest
    EventuallyWorked
    Answered
CHECK_DEADLOCK FALSE
