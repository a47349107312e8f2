SPECIFICATION Spec
CONSTANTS
    here = here
    there = there
    unit = unit
    door = door
    Families <- BothFamilies
    Own = here
    Numbers <- AllNumbers
    Doors <- OneDoor
    Local = unit
    BeatTime = 1
    Start = 1
    MaxTime = 5
CHECK_DEADLOCK FALSE
INVARIANTS
    DoorsAreOnline
PROPERTIES
    ImplementsDetector
    ImplementsClash
