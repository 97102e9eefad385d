SPECIFICATION FairSpec
CONSTANTS
    W = 4
    RouteSets <- FarRoutes
    None = None
CHECK_DEADLOCK FALSE
INVARIANTS TypeOK ResultMatches FindsNearest
PROPERTIES SearchEnds
