SPECIFICATION FairSpec
CONSTANTS
    NULL = NULL
    MaxSessions = 2
    CookieLength <- MCCookieLength
    OPEN_MAX = 8
    BUFLEN = 4
    SIZE = 64
    Cuts = TRUE
    Expires = TRUE
    Careful = TRUE
CHECK_DEADLOCK FALSE
INVARIANTS TypeOK Exchanged OneSession EndedForGood FallsOnlyThen
PROPERTIES ImplementsSession Answered
