SPECIFICATION FairSpec
CONSTANTS
    Nodes = {n1, n2}
    NoNode = NoNode
    Threads = {t1, t2}
    CoverMax = 1
    MaxPackages = 3
    MaxSessions = 3
CHECK_DEADLOCK FALSE
INVARIANTS
    EachInOnePlace
    DrainedAtEnd
PROPERTIES
    OwnSession
    InOrder
    PackagesReturn
    ImplementsOutbox
