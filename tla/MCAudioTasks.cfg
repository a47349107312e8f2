SPECIFICATION FairSpec
CONSTANTS
    Devices = {d1, d2}
    NoId = NoId
    TaskOrder <- OneTask
    Threads = {t1, t2}
    Polls = 2
INVARIANTS
    Connected
    Alone
    RightSocket
    NextOpenStarts
PROPERTIES
    ThreadsLeave
