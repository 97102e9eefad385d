SPECIFICATION Spec
CONSTANTS
    W = 4
    RouteSets <- NearRoutes
    None = None
CHECK_DEADLOCK FALSE
INVARIANTS FindsLongest
