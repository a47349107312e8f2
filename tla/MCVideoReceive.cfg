SPECIFICATION FairSpec
CONSTANTS
    Streams = {s1, s2}
    NoStream = NoStream
    Threads = {t1, t2}
    Polls = 1
    Worlds <- StorageWorlds
INVARIANTS
    Alone
    RightStream
    EventsEnd
PROPERTIES
    ThreadsLeave
