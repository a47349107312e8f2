SPECIFICATION Spec
CONSTANTS
    Datagram = 2
    FrameMax = 4
    Sizes = {3, 4, 5}
    Watchers = {TRUE, FALSE}
    MaxFrames = 4
CHECK_DEADLOCK FALSE
INVARIANTS
    Untorn
    ChainUnbroken
    UploadsFromKey
PROPERTIES
    KeyFrameRecovers
    GroupFlows
    ImplementsStream
