SPECIFICATION Spec
CONSTANTS
    a1 = a1
    a2 = a2
    b1 = b1
    A = A
    B = B
    t1 = t1
    t2 = t2
    Subscribers = {a1, a2, b1}
    Ids = {A, B}
    IdOf <- MCIdOf
    Topics = {t1}
    Fds <- FewFds
    Datagrams <- Good
    Lines = {}
    InboxCap = 1
    PipeCap = 1
    UdpCap = 1
    Eager = FALSE
    Abrupt = FALSE
    None = None
    NoId = NoId
    Garbage = Garbage
    Hello = Hello
    Warning = Warning
INVARIANTS
    SubscribersRegistered
    ExclusiveDelivery
    ViewAgrees
PROPERTY
    ImplementsPubSub
SYMMETRY Symmetry
CHECK_DEADLOCK FALSE
