----------------------------- MODULE BusPresence -----------------------------
(***************************************************************************)
(* What an indoor unit knows of the other devices on the bus               *)
(* (src/src/api/network/network_common.c, network_cmd_receive_task): who   *)
(* is online, what each door station is and whether it is in use, and      *)
(* whether another unit has this unit's number.  Messages come in any      *)
(* order and may be lost; what is not heard again is forgotten by a check  *)
(* that the receiving thread makes when it sees that the second has        *)
(* changed.  The settings pages change the unit's family and number while  *)
(* all this goes on; a handler reads them once in the model.               *)
(*                                                                         *)
(* Time counts seconds since power on.  The thread looks at the clock at   *)
(* least every ten milliseconds, so it sees every second: it may take      *)
(* messages of a second before and after its check in that second.         *)
(***************************************************************************)
EXTENDS Naturals

CONSTANTS
    Families,
    Own,            \* device_family_id when the unit starts
    Numbers,        \* network_device, DEVICE_INDOOR_ID1 to DEVICE_OUTDOOR_2
    Doors,          \* those of door stations
    Local,          \* network_local_device when the unit starts
    BeatTime,       \* BEATTIM
    Start,          \* the clock when the thread starts
    MaxTime         \* bound

ASSUME PresenceAssumption ==
    /\ Own \in Families
    /\ Doors \subseteq Numbers
    /\ Local \in Numbers \ Doors
    /\ BeatTime \in Nat
    /\ Start \in Nat \ {0}
    /\ MaxTime \in Nat

VARIABLES
    now,
    seen,           \* pre_sec
    count,          \* heart_check_time
    online,         \* device_onlin_state
    heart,          \* heart_time
    model,          \* of a door station, "none" for 0
    version,        \* ver is not 0
    busy,           \* talk_busy
    repeat,         \* local_device_repeat
    repeatTime,     \* device_repeat_time
    family,         \* device_family_id
    local           \* network_local_device

clock == <<now, seen, count>>
table == <<online, heart>>
doors == <<model, version, busy>>
clash == <<repeat, repeatTime>>
self == <<family, local>>
vars == <<clock, table, doors, clash, self>>

Devices == Families \X Numbers
Indoor == Numbers \ Doors
Models == {"none", "old", "new"}

\* network_device_init, and the thread before its first round: the unit takes
\* itself for online, though it has heard nobody.
Init ==
    /\ now = Start
    /\ seen = 0
    /\ count = 0
    /\ online = [d \in Devices |-> d = <<Own, Local>>]
    /\ heart = [d \in Devices |-> 0]
    /\ model = [n \in Doors |-> "none"]
    /\ version = [n \in Doors |-> FALSE]
    /\ busy = [n \in Doors |-> FALSE]
    /\ repeat = FALSE
    /\ repeatTime = 0
    /\ family = Own
    /\ local = Local

----------------------------------------------------------------------------
Heard(d) ==
    /\ online' = [online EXCEPT ![d] = TRUE]
    /\ heart' = [heart EXCEPT ![d] = now]

\* net_common_deivce_repeat_func: the heartbeat of another device, or of one
\* that has this unit's family and number.
HeartBeat(d) ==
    /\ IF d = self
       THEN repeat' = TRUE /\ repeatTime' = now /\ UNCHANGED table
       ELSE Heard(d) /\ UNCHANGED clash
    /\ UNCHANGED <<clock, doors, self>>

\* net_common_stream_status_func: a door station tells what it does and what
\* it is.  Only the message of an old one has its version too.
StreamStatus(n, inUse, m) ==
    /\ Heard(<<family, n>>)
    /\ model' = [model EXCEPT ![n] = m]
    /\ version' = [version EXCEPT ![n] = @ \/ m = "old"]
    /\ busy' = [busy EXCEPT ![n] = inUse]
    /\ UNCHANGED <<clock, clash, self>>

\* These messages of a door station count as a sign of life of one that is
\* online, but bring none online.
Noticed(n) ==
    /\ heart' = [heart EXCEPT ![<<family, n>>] = now]
    /\ UNCHANGED online

\* net_common_compile_time_func: the version of one that is not old.
CompileTime(n) ==
    /\ Noticed(n)
    /\ version' = [version EXCEPT ![n] = @ \/ model[n] # "old"]
    /\ UNCHANGED <<clock, model, busy, clash, self>>

\* net_common_def_unlock_time_func, net_common_def_exit_button_func: settings
\* of the lock and the exit button, which the model leaves out.
LockSettings(n) ==
    /\ Noticed(n)
    /\ UNCHANGED <<clock, doors, clash, self>>

\* net_common_outdoor_hand_func: a unit has ended to talk with a door station.
Hang(n) ==
    /\ busy' = [busy EXCEPT ![n] = FALSE]
    /\ UNCHANGED <<clock, table, model, version, clash, self>>

\* The settings pages: network_local_family_set, network_local_device_set.
\* The table and the warning stay as they are.
Renumber(f, n) ==
    /\ family' = f
    /\ local' = n
    /\ UNCHANGED <<clock, table, doors, clash>>

\* The clock; the thread keeps up with it.
Pass ==
    /\ now < MaxTime
    /\ seen = now
    /\ now' = now + 1
    /\ UNCHANGED <<seen, count, table, doors, clash, self>>

\* Mutant: a second more.
SilentLate == {d \in Devices : online[d] /\ now - heart[d] > BeatTime + 1}
Silent == {d \in Devices : online[d] /\ now - heart[d] > BeatTime}

\* Mutant: what the door stations are and do is kept.
DropKeepingDoors ==
    /\ online' = [d \in Devices |-> online[d] /\ d \notin Silent]
    /\ UNCHANGED <<heart, doors>>

\* Devices that have been silent go offline.  A door station that does, of
\* whatever family, takes along what is known of the one with its number, and
\* that any is in use: OutDoor_Info does not tell families apart.
Drop ==
    LET gone == {n \in Doors : \E f \in Families : <<f, n>> \in Silent}
    IN  /\ online' = [d \in Devices |-> online[d] /\ d \notin Silent]
        /\ model' = [n \in Doors |-> IF n \in gone THEN "none" ELSE model[n]]
        /\ version' = [n \in Doors |-> version[n] /\ n \notin gone]
        /\ busy' = [n \in Doors |-> busy[n] /\ gone = {}]
        /\ UNCHANGED heart

ClashGoes == repeat' = (repeat /\ now - repeatTime <= BeatTime \div 2)

\* Mutant: the clash is not looked at in the second in which the heartbeats
\* are.
CheckEither ==
    /\ now # seen
    /\ seen' = now
    /\ IF count + 1 > BeatTime
       THEN count' = 0 /\ Drop /\ UNCHANGED repeat
       ELSE count' = count + 1 /\ ClashGoes /\ UNCHANGED <<table, doors>>
    /\ UNCHANGED <<now, repeatTime, self>>

\* What the thread does when the second has changed.
Check ==
    /\ now # seen
    /\ seen' = now
    /\ ClashGoes
    /\ IF count + 1 > BeatTime
       THEN count' = 0 /\ Drop
       ELSE count' = count + 1 /\ UNCHANGED <<table, doors>>
    /\ UNCHANGED <<now, repeatTime, self>>

Next ==
    \/ \E d \in Devices : HeartBeat(d)
    \/ \E n \in Doors, inUse \in BOOLEAN, m \in Models : StreamStatus(n, inUse, m)
    \/ \E n \in Doors : CompileTime(n) \/ LockSettings(n) \/ Hang(n)
    \/ \E f \in Families, n \in Indoor : Renumber(f, n)
    \/ Pass
    \/ Check

Spec == Init /\ [][Next]_vars

----------------------------------------------------------------------------
TypeOK ==
    /\ now \in Nat
    /\ seen \in Nat
    /\ count \in 0 .. BeatTime
    /\ online \in [Devices -> BOOLEAN]
    /\ heart \in [Devices -> Nat]
    /\ model \in [Doors -> Models]
    /\ version \in [Doors -> BOOLEAN]
    /\ busy \in [Doors -> BOOLEAN]
    /\ repeat \in BOOLEAN
    /\ repeatTime \in Nat
    /\ family \in Families
    /\ local \in Indoor

\* Seconds since the sign of life at t.  Who has not been heard yet counts as
\* silent since the second before the start, though heart_time is then 0.
Silence(t) == IF t < Start THEN now - Start + 1 ELSE now - t

\* A device that has stopped is not taken for online for longer than two
\* rounds of the check: how old a sign of life can be grows by one a second,
\* the check comes every BeatTime + 1 seconds, and lets BeatTime pass.  The
\* unit's own entry, online from the start, counts from there.
Recent == \A d \in Devices : online[d] => Silence(heart[d]) <= 2 * BeatTime + 1

\* What is kept of a door station is of one that is online, in some family:
\* one that went away while somebody talked does not stay in use for ever,
\* and the model of one that was replaced does not stay.  The version is not
\* in it: CompileTime makes that of an offline door station known, and it
\* stays until the door station has been online and gone.  Readers
\* (get_outdoor_model_version) want the model as well.
DoorsAreOnline ==
    \A n \in Doors :
        model[n] # "none" \/ busy[n] => \E f \in Families : online[<<f, n>>]

\* The warning of another unit with this number goes when that unit is gone,
\* BeatTime \div 2 seconds and one after its last heartbeat.
ClashEnds == repeat => now - repeatTime <= BeatTime \div 2 + 1

\* The table is a detector of silence: whatever the order of messages, seconds
\* and checks, a device that beats every BeatTime seconds is never shown as
\* gone, and one that has stopped is gone within two rounds of the check.
\* The unit takes itself for online at the start, and for no longer than that.
Detector == INSTANCE BoundedDetector
    WITH Peers <- Devices, Assumed <- {<<Own, Local>>},
         Patience <- BeatTime, Limit <- 2 * BeatTime + 1,
         up <- online, silent <- [d \in Devices |-> Silence(heart[d])]

ImplementsDetector == Detector!DetectorSpec

\* So is the warning of a clash, with other bounds, for the one unit that has
\* this unit's number, whoever has it after a change of the settings: the
\* warning is not taken down while that unit beats every BeatTime \div 2
\* seconds, and not kept for more than one second longer.
Clash == INSTANCE BoundedDetector
    WITH Peers <- {"twin"}, Assumed <- {},
         Patience <- BeatTime \div 2, Limit <- BeatTime \div 2 + 1,
         up <- [p \in {"twin"} |-> repeat],
         silent <- [p \in {"twin"} |-> Silence(repeatTime)]

ImplementsClash == Clash!DetectorSpec

==============================================================================
