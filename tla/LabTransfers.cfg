SPECIFICATION FairSpec
CONSTANTS
    Garbage <- MCGarbage
    Files <- MCFiles
    MAX_LEN = 3
    count = 4
    BDPs <- MCBDPs
    Tails <- MCTails
CHECK_DEADLOCK FALSE
INVARIANTS TypeOK LockStep Whole Accounted
PROPERTIES Ended
