SPECIFICATION FairSpec
CONSTANTS
    a1 = a1
    a2 = a2
    b1 = b1
    A = A
    B = B
    t1 = t1
    t2 = t2
    Subscribers = {a1, a2}
    Ids = {A}
    IdOf <- TwoIdOf
    Topics = {t1}
    Fds <- FewFds
    Datagrams <- Good
    Lines = {"exit", "other"}
    InboxCap = 1
    PipeCap = 1
    UdpCap = 1
    Eager = FALSE
    Abrupt = FALSE
    None = None
    NoId = NoId
    Garbage = Garbage
    Hello = Hello
    Warning = Warning
PROPERTIES
    ServesAll
CHECK_DEADLOCK FALSE
