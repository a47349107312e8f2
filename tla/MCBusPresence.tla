---------------------------- MODULE MCBusPresence ----------------------------
(***************************************************************************)
(* BusPresence with one door station and the unit itself in two families.  *)
(***************************************************************************)
EXTENDS BusPresence

CONSTANTS here, there, unit, door

BothFamilies == {here, there}
AllNumbers == {unit, door}
OneDoor == {door}

==============================================================================
