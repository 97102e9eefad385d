SPECIFICATION FairSpec
CONSTANTS
    Population = 3
    Pasts = {0, 3}
    Ahead = 1
    QueueCap = 2
CHECK_DEADLOCK FALSE
INVARIANTS TypeOK KnowEachOther OnlyMeant
PROPERTIES Served
