SPECIFICATION Spec
CONSTANTS
    a1 = a1
    a2 = a2
    b1 = b1
    A = A
    B = B
    t1 = t1
    t2 = t2
    Subscribers = {a1, a2}
    Ids = {A}
    IdOf <- TwoIdOf
    Topics = {t1}
    Fds <- FewFds
    Datagrams <- GoodAndBad
    Lines = {"exit", "other"}
    InboxCap = 2
    PipeCap = 2
    UdpCap = 1
    Eager = TRUE
    Abrupt = TRUE
    None = None
    NoId = NoId
    Garbage = Garbage
    Hello = Hello
    Warning = Warning
INVARIANTS
    TypeOK
    OneRegistrationPerId
    SnapshotValid
    RegisteredNotWarned
SYMMETRY Symmetry
CHECK_DEADLOCK FALSE
