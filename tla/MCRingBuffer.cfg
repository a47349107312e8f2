SPECIFICATION FairSpec
CONSTANTS
    RingLen = 3
    WriteSizes = {1, 2, 3, 4}
    ReadSizes = {1, 2, 4}
    MaxBytes = 6
INVARIANTS
    ContentsInOrder
    CountersConsistent
PROPERTIES
    ImplementsFifo
    BytesLeave
