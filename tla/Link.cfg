SPECIFICATION FairSpec
CONSTANTS
    Count = 3
    Answers = 1
    BUFFER_SIZE = 2
    serialization_delay = 2
    delay = 1
    Loses = TRUE
    Corrupts = TRUE
    MaxLate = 1
CHECK_DEADLOCK FALSE
INVARIANTS TypeOK ReadsHold NoLostSignal Spaced
PROPERTIES ImplementsPipe Drains
