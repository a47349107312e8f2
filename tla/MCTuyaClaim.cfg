SPECIFICATION FairClaimSpec
CONSTANTS
    u1 = u1
    u2 = u2
    u3 = u3
    Units <- Three
    NoUnit = NoUnit
    Slots = 3
    Phase <- Apart
INVARIANTS
    NoRing
    Released
PROPERTIES
    SomebodyHears
