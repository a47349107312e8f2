SPECIFICATION Spec
CONSTANTS
    MaxPhones = 1
    MaxCount = 2
    QueueMax = 2
INVARIANTS
    WhatIsShown
PROPERTIES
    WatchingIsCounted
    SomebodyEnds
    PageKeepsStream
    TalkHasTalker
    MicMeansTalk
    OneTalker
