------------------------------ MODULE TuyaClaim ------------------------------
(***************************************************************************)
(* Several indoor units, each with a phone, share the door stations of a   *)
(* bus (src/src/api/network/network_common.c).  In its heartbeat, once a   *)
(* second, a unit that is watched by its phone claims the door station; a  *)
(* unit that hears a claim sets tuya_monitor_ing, does not claim any more, *)
(* and neither passes sound to its phone nor takes it from there.  It      *)
(* forgets the claim when it has not heard one for three seconds.          *)
(*                                                                         *)
(* Time counts in Slots a second.  A unit beats when its own clock goes to *)
(* the next second, in the slot Phase gives it; a claim arrives in the     *)
(* slot in which it is sent, at any other unit, or is lost.  Of how long   *)
(* ago a claim was heard only as much is kept as matters.                  *)
(***************************************************************************)
EXTENDS Naturals

CONSTANTS
    Units,
    NoUnit,
    Slots,
    Phase           \* the slot of each unit's beat

ASSUME ClaimAssumption ==
    /\ NoUnit \notin Units
    /\ Slots \in Nat \ {0}
    /\ Phase \in [Units -> 0 .. Slots - 1]

VARIABLES
    slot,           \* of the second
    beaten,         \* units that have beaten in this slot
    watched,        \* monitor_enter_way is MONITOR_ENTER_TUYA
    by,             \* whose claim set tuya_monitor_ing, NoUnit if it is not set
    age,            \* slots since tuya_monitor_time
    claims          \* on their way, from one unit to another

claimVars == <<slot, beaten, watched, by, age, claims>>

Keep == 3 * Slots
Oldest == Keep + Slots + 1

ClaimInit ==
    /\ slot = 0
    /\ beaten = {}
    /\ watched = [u \in Units |-> FALSE]
    /\ by = [u \in Units |-> NoUnit]
    /\ age = [u \in Units |-> 0]
    /\ claims = {}

Due == {u \in Units : Phase[u] = slot}

\* Mutant: a second more.
ExpiredLate(u) == age[u] > Keep + Slots
Expired(u) == age[u] > Keep

Monitoring(u) == by[u] # NoUnit /\ ~Expired(u)

\* Mutant: a unit claims what another has.
ClaimsAnyway(u) == IF watched[u] THEN {u} \X (Units \ {u}) ELSE {}

Claims(u) ==
    IF watched[u] /\ ~Monitoring(u) THEN {u} \X (Units \ {u}) ELSE {}

\* The second has changed in network_cmd_receive_task.
Beat(u) ==
    /\ u \in Due \ beaten
    /\ beaten' = beaten \cup {u}
    /\ by' = [by EXCEPT ![u] = IF Monitoring(u) THEN @ ELSE NoUnit]
    /\ claims' = claims \cup Claims(u)
    /\ UNCHANGED <<slot, watched, age>>

\* net_common_deivce_repeat_func
Hear(u, v) ==
    /\ <<u, v>> \in claims
    /\ claims' = claims \ {<<u, v>>}
    /\ by' = [by EXCEPT ![v] = u]
    /\ age' = [age EXCEPT ![v] = 0]
    /\ UNCHANGED <<slot, beaten, watched>>

Lose(u, v) ==
    /\ <<u, v>> \in claims
    /\ claims' = claims \ {<<u, v>>}
    /\ UNCHANGED <<slot, beaten, watched, by, age>>

\* The phone comes and goes.
Phone(u) ==
    /\ watched' = [watched EXCEPT ![u] = ~@]
    /\ UNCHANGED <<slot, beaten, by, age, claims>>

Tick ==
    /\ beaten = Due
    /\ claims = {}
    /\ slot' = (slot + 1) % Slots
    /\ beaten' = {}
    /\ age' = [u \in Units |-> IF age[u] < Oldest THEN age[u] + 1 ELSE Oldest]
    /\ UNCHANGED <<watched, by, claims>>

ClaimNext ==
    \/ \E u \in Units : Beat(u) \/ Phone(u)
    \/ \E u, v \in Units : Hear(u, v) \/ Lose(u, v)
    \/ Tick

ClaimSpec == ClaimInit /\ [][ClaimNext]_claimVars

\* Clocks go on, and what is sent arrives or is lost.
FairClaimSpec ==
    /\ ClaimSpec
    /\ WF_claimVars(Tick)
    /\ \A u \in Units : WF_claimVars(Beat(u))
    /\ \A u, v \in Units : WF_claimVars(Hear(u, v) \/ Lose(u, v))

----------------------------------------------------------------------------
ClaimTypeOK ==
    /\ slot \in 0 .. Slots - 1
    /\ beaten \subseteq Due
    /\ watched \in [Units -> BOOLEAN]
    /\ by \in [Units -> Units \cup {NoUnit}]
    /\ age \in [Units -> 0 .. Oldest]
    /\ claims \subseteq Units \X Units
    /\ \A u \in Units : by[u] # u

\* Of any units whose beats fall in different slots one is not silenced by
\* another of them: there is no pair and no ring of such units that wait for
\* each other's claims to end, whatever is lost and whoever shares a slot with
\* others.  (Two claims that cross, which units whose seconds change
\* together may send, do silence both.)
NoRing ==
    \A ring \in SUBSET Units :
        /\ ring # {}
        /\ \A u, v \in ring : u # v => Phase[u] # Phase[v]
        => \E u \in ring : by[u] \notin ring

\* A unit is silent for at most four seconds after the last claim it heard.
Released == \A u \in Units : by[u] # NoUnit => age[u] <= Keep + Slots

\* While phones go on watching, some phone has sound, or gets it; again for
\* units whose beats fall in different slots.
Watching == {u \in Units : watched[u]}
SomebodyHears ==
    Watching # {} ~> Watching = {} \/ \E u \in Watching : by[u] = NoUnit

==============================================================================
