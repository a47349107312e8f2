-------------------------- MODULE BusCommandsProofs --------------------------
(***************************************************************************)
(* What network_common.c keeps: of BusPresence, for any families and       *)
(* devices and any period of the heartbeat check, and of TuyaClaim, for    *)
(* any units and any slots their beats fall in.                            *)
(*                                                                         *)
(* The properties of either are not inductive: that a sign of life, or a   *)
(* claim, is not too old holds because of how far the counter of the       *)
(* check, or the unit's next beat, has come.  The strengthenings say how   *)
(* old each may be at each moment.                                         *)
(***************************************************************************)
EXTENDS BusPresence, TuyaClaim, TLAPS

----------------------------------------------------------------------------
\* BusPresence.

\* The second that the thread has not seen yet.
Unseen == IF seen = now THEN 0 ELSE 1

\* How long each device has been silent.
Quiet(d) == Silence(heart[d])

\* The thread keeps up with the clock, and has made a check in each second of
\* the round but the unseen one.
OnTime ==
    /\ Start <= now
    /\ \/ seen \in {now, now - 1}
       \/ seen = 0 /\ now = Start /\ count = 0
    /\ Start + count <= now + 1 - Unseen

\* A device passes a check with a sign of life no older than BeatTime; that
\* gets older by one for each second counted since, and by the second that
\* the thread has not seen yet.
Aged ==
    \A d \in Devices :
        /\ heart[d] <= now
        /\ online[d] => Quiet(d) <= BeatTime + count + Unseen

\* The same for the clash, which is looked at in every second.
ClashAged ==
    /\ repeatTime <= now
    /\ repeat =>
         /\ Start <= repeatTime
         /\ now - repeatTime <= BeatTime \div 2 + Unseen

IInv ==
    /\ TypeOK
    /\ OnTime
    /\ Aged
    /\ ClashAged
    /\ DoorsAreOnline

\* A door station of this unit's family is one of the devices.
LEMMA DoorIsDevice ==
  ASSUME IInv, NEW n \in Doors
  PROVE  <<family, n>> \in Devices
  BY PresenceAssumption DEF IInv, TypeOK, Devices

\* Half the period is a number: what the arithmetic below needs to know of it.
LEMMA HalfIsNat == BeatTime \div 2 \in Nat
  BY PresenceAssumption, SMT

\* How long a device has been silent is a number; it grows with the clock; a
\* sign of life makes it nothing.
LEMMA SilenceFacts ==
  ASSUME now \in Nat, Start <= now, NEW t \in Nat, t <= now
  PROVE  /\ Silence(t) \in Nat
         /\ Silence(t) <= now - t + 1
         /\ Start <= t => Silence(t) = now - t
         /\ Silence(now) = 0
  BY PresenceAssumption DEF Quiet, Silence

\* Everything holds in the state the unit starts in.
LEMMA InitHolds == Init => IInv
  <1> SUFFICES ASSUME Init PROVE IInv
    OBVIOUS
  <1>1. TypeOK
    <2>1. count \in 0 .. BeatTime /\ now \in Nat /\ seen \in Nat /\ repeatTime \in Nat
      BY PresenceAssumption DEF Init
    <2>2. repeat \in BOOLEAN /\ heart \in [Devices -> Nat]
      BY DEF Init
    <2>3. /\ online \in [Devices -> BOOLEAN]
          /\ version \in [Doors -> BOOLEAN]
          /\ busy \in [Doors -> BOOLEAN]
      BY Zenon DEF Init
    <2>4. model \in [Doors -> Models] /\ family \in Families /\ local \in Indoor
      BY PresenceAssumption DEF Init, Models, Indoor
    <2> QED BY <2>1, <2>2, <2>3, <2>4 DEF TypeOK
  <1>2. OnTime
    BY PresenceAssumption DEF Init, OnTime, Unseen
  <1>3. Aged
    BY PresenceAssumption DEF Init, Aged, Quiet, Silence, Unseen
  <1>4. ClashAged
    BY PresenceAssumption DEF Init, ClashAged
  <1>5. DoorsAreOnline
    BY DEF Init, DoorsAreOnline
  <1> QED BY <1>1, <1>2, <1>3, <1>4, <1>5 DEF IInv

\* What stays while the clock and the clash do.
LEMMA SameClock ==
  ASSUME IInv, UNCHANGED clock
  PROVE  /\ OnTime' /\ Unseen' = Unseen
         /\ \A t : Silence(t)' = Silence(t)
         /\ UNCHANGED clash => ClashAged'
  BY DEF IInv, OnTime, Unseen, Silence, ClashAged, clock, clash

\* A sign of life of any device keeps it, whatever else the message says and
\* whether or not it brings the device online.
LEMMA HeartKeeps ==
  ASSUME IInv, NEW d \in Devices, UNCHANGED clock,
         heart' = [heart EXCEPT ![d] = now],
         \/ UNCHANGED online
         \/ online' = [online EXCEPT ![d] = TRUE]
  PROVE  /\ online' \in [Devices -> BOOLEAN]
         /\ heart' \in [Devices -> Nat]
         /\ Aged'
         /\ \A e \in Devices : online[e] => online'[e]
  <1>1. /\ now \in Nat /\ Start <= now /\ count \in Nat /\ Unseen \in Nat
        /\ online \in [Devices -> BOOLEAN] /\ heart \in [Devices -> Nat]
    BY PresenceAssumption DEF IInv, TypeOK, OnTime, Unseen
  <1>2. now' = now /\ count' = count /\ Unseen' = Unseen
    BY SameClock DEF clock
  <1>3. ASSUME NEW e \in Devices
        PROVE  /\ heart'[e] <= now'
               /\ online'[e] => Quiet(e)' <= BeatTime + count' + Unseen'
    <2>1. CASE e = d
      <3>1. heart'[e] = now
        BY <1>1, <2>1
      <3>2. Quiet(e)' = 0
        BY <1>1, <1>2, <3>1, PresenceAssumption DEF Quiet, Silence
      <3> QED BY <1>1, <1>2, <3>1, <3>2, PresenceAssumption
    <2>2. CASE e # d
      <3>1. heart'[e] = heart[e] /\ online'[e] = online[e]
        BY <1>1, <2>2
      <3>2. Quiet(e)' = Quiet(e)
        BY <1>2, <3>1 DEF Quiet, Silence
      <3> QED BY <1>2, <3>1, <3>2 DEF IInv, Aged
    <2> QED BY <2>1, <2>2
  <1>4. online' \in [Devices -> BOOLEAN]
    BY <1>1
  <1>5. heart' \in [Devices -> Nat]
    BY <1>1
  <1>6. \A e \in Devices : online[e] => online'[e]
    BY <1>1
  <1> QED BY <1>3, <1>4, <1>5, <1>6 DEF Aged

\* What is kept of the door stations holds while no device goes offline.
LEMMA DoorsStay ==
  ASSUME DoorsAreOnline, UNCHANGED <<model, busy>>,
         \A e \in Devices : online[e] => online'[e]
  PROVE  DoorsAreOnline'
  BY PresenceAssumption DEF DoorsAreOnline, Devices

LEMMA HeartBeatStep ==
  ASSUME IInv, NEW d \in Devices, HeartBeat(d)
  PROVE  IInv'
  <1>1. UNCHANGED <<clock, doors, self>>
    BY DEF HeartBeat
  <1>2. OnTime'
    BY <1>1, SameClock
  <1>3. CASE d = self
    <2>1. repeat' = TRUE /\ repeatTime' = now /\ UNCHANGED table
      BY <1>3 DEF HeartBeat
    <2>2. TypeOK'
      BY <1>1, <2>1 DEF IInv, TypeOK, clock, doors, self, table
    <2>3. Aged'
      BY <1>1, <2>1 DEF IInv, Aged, Quiet, Silence, Unseen, clock, table
    <2>4. ClashAged'
      BY <1>1, <2>1, HalfIsNat DEF IInv, TypeOK, OnTime, ClashAged, Unseen, clock
    <2>5. DoorsAreOnline'
      BY <1>1, <2>1 DEF IInv, DoorsAreOnline, doors, table
    <2> QED BY <1>2, <2>2, <2>3, <2>4, <2>5 DEF IInv
  <1>4. CASE d # self
    <2>1. Heard(d) /\ UNCHANGED clash
      BY <1>4 DEF HeartBeat
    <2>2. /\ online' \in [Devices -> BOOLEAN]
          /\ heart' \in [Devices -> Nat]
          /\ Aged'
          /\ \A e \in Devices : online[e] => online'[e]
      BY <1>1, <2>1, HeartKeeps DEF Heard
    <2>3. TypeOK'
      BY <1>1, <2>1, <2>2 DEF IInv, TypeOK, clock, doors, self, clash
    <2>4. DoorsAreOnline'
      BY <1>1, <2>2, DoorsStay DEF IInv, doors
    <2>5. ClashAged'
      BY <1>1, <2>1, SameClock
    <2> QED BY <1>2, <2>2, <2>3, <2>4, <2>5 DEF IInv
  <1> QED BY <1>3, <1>4

LEMMA StreamStatusStep ==
  ASSUME IInv, NEW n \in Doors, NEW inUse \in BOOLEAN, NEW m \in Models,
         StreamStatus(n, inUse, m)
  PROVE  IInv'
  <1>1. /\ Heard(<<family, n>>)
        /\ UNCHANGED <<clock, clash, self>>
        /\ model' = [model EXCEPT ![n] = m]
        /\ version' = [version EXCEPT ![n] = @ \/ m = "old"]
        /\ busy' = [busy EXCEPT ![n] = inUse]
    BY DEF StreamStatus
  <1>2. <<family, n>> \in Devices
    BY DoorIsDevice
  <1>3. /\ online' \in [Devices -> BOOLEAN]
        /\ heart' \in [Devices -> Nat]
        /\ Aged'
        /\ \A e \in Devices : online[e] => online'[e]
    BY <1>1, <1>2, HeartKeeps DEF Heard
  <1>4. version' \in [Doors -> BOOLEAN]
    BY <1>1, Zenon DEF IInv, TypeOK
  <1>5. TypeOK'
    BY <1>1, <1>3, <1>4 DEF IInv, TypeOK, clock, clash, self
  <1>6. OnTime' /\ ClashAged'
    BY <1>1, SameClock
  <1>7. online'[<<family, n>>] /\ family \in Families
    BY <1>1, <1>2 DEF IInv, TypeOK, Heard
  <1>8. ASSUME NEW k \in Doors, model'[k] # "none" \/ busy'[k]
        PROVE  \E f \in Families : online'[<<f, k>>]
    <2>1. CASE k = n
      BY <1>7, <2>1
    <2>2. CASE k # n
      <3>1. model'[k] = model[k] /\ busy'[k] = busy[k]
        BY <1>1, <2>2 DEF IInv, TypeOK
      <3>2. PICK f \in Families : online[<<f, k>>]
        BY <1>8, <3>1 DEF IInv, DoorsAreOnline
      <3>3. <<f, k>> \in Devices
        BY PresenceAssumption DEF Devices
      <3> QED BY <1>3, <3>2, <3>3
    <2> QED BY <2>1, <2>2
  <1> QED BY <1>3, <1>5, <1>6, <1>8 DEF IInv, DoorsAreOnline

\* The messages that bring no device online.
LEMMA NoticedKeeps ==
  ASSUME IInv, NEW n \in Doors, Noticed(n), UNCHANGED <<clock, clash, self, model, busy>>,
         version' \in [Doors -> BOOLEAN]
  PROVE  IInv'
  <1>1. /\ online' \in [Devices -> BOOLEAN]
        /\ heart' \in [Devices -> Nat]
        /\ Aged'
        /\ \A e \in Devices : online[e] => online'[e]
    BY DoorIsDevice, HeartKeeps DEF Noticed
  <1>2. TypeOK'
    BY <1>1 DEF IInv, TypeOK, clock, clash, self
  <1>3. OnTime' /\ ClashAged'
    BY SameClock
  <1>4. DoorsAreOnline'
    BY <1>1, DoorsStay DEF IInv
  <1> QED BY <1>1, <1>2, <1>3, <1>4 DEF IInv

LEMMA CompileTimeStep ==
  ASSUME IInv, NEW n \in Doors, CompileTime(n)
  PROVE  IInv'
  <1>1. version' = [version EXCEPT ![n] = @ \/ model[n] # "old"]
    BY DEF CompileTime
  <1>2. version' \in [Doors -> BOOLEAN]
    BY <1>1, Zenon DEF IInv, TypeOK
  <1> QED BY <1>2, NoticedKeeps DEF CompileTime

LEMMA LockSettingsStep ==
  ASSUME IInv, NEW n \in Doors, LockSettings(n)
  PROVE  IInv'
  BY NoticedKeeps DEF LockSettings, doors, IInv, TypeOK

LEMMA HangStep ==
  ASSUME IInv, NEW n \in Doors, Hang(n)
  PROVE  IInv'
  <1>1. /\ busy' = [busy EXCEPT ![n] = FALSE]
        /\ UNCHANGED <<clock, table, model, version, clash, self>>
    BY DEF Hang
  <1>2. TypeOK'
    BY <1>1 DEF IInv, TypeOK, clock, table, clash, self
  <1>3. OnTime' /\ ClashAged'
    BY <1>1, SameClock
  <1>4. Aged'
    BY <1>1 DEF IInv, Aged, Quiet, Silence, Unseen, clock, table
  <1>5. DoorsAreOnline'
    BY <1>1 DEF IInv, TypeOK, DoorsAreOnline, table
  <1> QED BY <1>2, <1>3, <1>4, <1>5 DEF IInv

LEMMA RenumberStep ==
  ASSUME IInv, NEW f \in Families, NEW n \in Indoor, Renumber(f, n)
  PROVE  IInv'
  BY DEF IInv, TypeOK, OnTime, Aged, ClashAged, DoorsAreOnline, Quiet, Silence, Unseen,
         Renumber, clock, table, doors, clash

LEMMA PassStep ==
  ASSUME IInv, Pass
  PROVE  IInv'
  <1>1. /\ seen = now /\ now' = now + 1
        /\ UNCHANGED <<seen, count, table, doors, clash, self>>
    BY DEF Pass
  <1>2. now \in Nat /\ Unseen = 0 /\ Unseen' = 1 /\ Start <= now
    BY <1>1 DEF IInv, TypeOK, OnTime, Unseen
  <1>3. TypeOK'
    BY <1>1 DEF IInv, TypeOK, table, doors, clash, self
  <1>4. OnTime'
    BY <1>1, <1>2, PresenceAssumption DEF IInv, TypeOK, OnTime
  <1>5. Aged'
    <2> SUFFICES ASSUME NEW d \in Devices
                 PROVE  /\ heart'[d] <= now'
                        /\ online'[d] =>
                             Quiet(d)' <= BeatTime + count' + Unseen'
      BY DEF Aged
    <2>1. heart'[d] = heart[d] /\ online'[d] = online[d] /\ heart[d] \in Nat
      BY <1>1 DEF IInv, TypeOK, table
    <2>2. Quiet(d)' = Quiet(d) + 1
      BY <1>1, <1>2, <2>1, PresenceAssumption DEF Quiet, Silence
    <2>3. Quiet(d) \in Nat /\ heart[d] <= now
      BY <1>2, <2>1, SilenceFacts DEF IInv, Aged, Quiet
    <2> QED BY <1>1, <1>2, <2>1, <2>2, <2>3, PresenceAssumption DEF IInv, TypeOK, Aged
  <1>6. ClashAged'
    BY <1>1, <1>2, HalfIsNat DEF IInv, TypeOK, ClashAged, clash
  <1>7. DoorsAreOnline'
    BY <1>1 DEF IInv, DoorsAreOnline, table, doors
  <1> QED BY <1>3, <1>4, <1>5, <1>6, <1>7 DEF IInv

\* Who is given up has been silent for more than BeatTime seconds; so has the
\* unit's own entry, which the first round takes off the table.
LEMMA SilentIsSilent ==
  ASSUME IInv, now # seen, count + 1 > BeatTime, NEW d \in Devices
  PROVE  d \in Silent <=> online[d] /\ Quiet(d) > BeatTime
  <1>1. /\ now \in Nat /\ heart[d] \in Nat /\ heart[d] <= now
        /\ count = BeatTime /\ Start + BeatTime <= now
    BY PresenceAssumption DEF IInv, TypeOK, OnTime, Aged, Unseen
  <1>2. CASE heart[d] < Start
    <2>1. Quiet(d) = now - Start + 1
      BY <1>2 DEF Quiet, Silence
    <2>2. Quiet(d) > BeatTime /\ now - heart[d] > BeatTime
      BY <1>1, <1>2, <2>1, PresenceAssumption
    <2> QED BY <2>2 DEF Silent
  <1>3. CASE ~(heart[d] < Start)
    BY <1>1, <1>3 DEF Quiet, Silence, Silent
  <1> QED BY <1>2, <1>3

\* The check: who stays online has been heard of, and nothing is kept of a
\* door station that does not stay.
LEMMA CheckStep ==
  ASSUME IInv, Check
  PROVE  IInv'
  <1>1. /\ now # seen /\ seen' = now
        /\ UNCHANGED <<now, repeatTime, self>>
        /\ repeat' = (repeat /\ now - repeatTime <= BeatTime \div 2)
    BY DEF Check, ClashGoes
  <1>2. /\ now \in Nat /\ Start <= now /\ Unseen = 1 /\ Unseen' = 0
        /\ Start + count <= now /\ count \in Nat
    BY <1>1, PresenceAssumption DEF IInv, TypeOK, OnTime, Unseen
  <1>3. ClashAged' /\ repeat' \in BOOLEAN
    <2>1. repeat' \in BOOLEAN
      BY <1>1, Zenon
    <2>2. repeat' => repeat /\ now - repeatTime <= BeatTime \div 2
      BY <1>1, Zenon
    <2> QED BY <1>1, <1>2, <2>1, <2>2, HalfIsNat DEF IInv, TypeOK, ClashAged
  <1>4. CASE count + 1 > BeatTime
    <2>1. count' = 0 /\ Drop
      BY <1>4 DEF Check
    <2> DEFINE gone == {n \in Doors : \E f \in Families : <<f, n>> \in Silent}
    <2>2. /\ online' = [d \in Devices |-> online[d] /\ d \notin Silent]
          /\ model' = [n \in Doors |-> IF n \in gone THEN "none" ELSE model[n]]
          /\ version' = [n \in Doors |-> version[n] /\ n \notin gone]
          /\ busy' = [n \in Doors |-> busy[n] /\ gone = {}]
          /\ UNCHANGED heart
      BY <2>1 DEF Drop
    <2>3. TypeOK'
      <3>1. /\ online' \in [Devices -> BOOLEAN]
            /\ version' \in [Doors -> BOOLEAN]
            /\ busy' \in [Doors -> BOOLEAN]
        BY <2>2, Zenon
      <3>2. model' \in [Doors -> Models]
        BY <2>2 DEF IInv, TypeOK, Models
      <3>3. /\ now' \in Nat /\ seen' \in Nat /\ count' \in 0 .. BeatTime
            /\ repeatTime' \in Nat /\ heart' \in [Devices -> Nat]
        BY <1>1, <2>1, <2>2, PresenceAssumption DEF IInv, TypeOK
      <3>4. family' \in Families /\ local' \in Indoor
        BY <1>1 DEF IInv, TypeOK, self
      <3> QED BY <1>3, <3>1, <3>2, <3>3, <3>4 DEF TypeOK
    <2>4. OnTime'
      BY <1>1, <1>2, <2>1, PresenceAssumption DEF OnTime
    <2>5. Aged'
      <3> SUFFICES ASSUME NEW d \in Devices
                   PROVE  /\ heart'[d] <= now'
                          /\ online'[d] =>
                               Quiet(d)' <= BeatTime + count' + Unseen'
        BY DEF Aged
      <3>1. heart'[d] = heart[d] /\ heart[d] <= now /\ heart[d] \in Nat
        BY <2>2 DEF IInv, TypeOK, Aged
      <3>2. Quiet(d)' = Quiet(d) /\ Quiet(d) \in Nat
        BY <1>1, <1>2, <3>1, PresenceAssumption DEF Quiet, Silence
      <3>3. online'[d] => ~(Quiet(d) > BeatTime)
        BY <1>1, <1>4, <2>2, SilentIsSilent, Zenon
      <3> QED BY <1>1, <1>2, <2>1, <3>1, <3>2, <3>3, PresenceAssumption
    <2>6. ASSUME NEW n \in Doors, model'[n] # "none" \/ busy'[n]
          PROVE  \E f \in Families : online'[<<f, n>>]
      <3>1. n \notin gone /\ (model[n] # "none" \/ busy[n])
        BY <2>2, <2>6
      <3>2. PICK f \in Families : online[<<f, n>>]
        BY <3>1 DEF IInv, DoorsAreOnline
      <3>3. <<f, n>> \in Devices /\ <<f, n>> \notin Silent
        BY <3>1, PresenceAssumption DEF Devices
      <3> QED BY <2>2, <3>2, <3>3
    <2> QED BY <1>3, <2>3, <2>4, <2>5, <2>6 DEF IInv, DoorsAreOnline
  <1>5. CASE ~(count + 1 > BeatTime)
    <2>1. count' = count + 1 /\ UNCHANGED <<table, doors>>
      BY <1>5 DEF Check
    <2>2. TypeOK'
      BY <1>1, <1>3, <1>5, <2>1, PresenceAssumption DEF IInv, TypeOK, table, doors, self
    <2>3. OnTime'
      BY <1>1, <1>2, <2>1, PresenceAssumption DEF OnTime
    <2>4. Aged'
      BY <1>1, <1>2, <2>1, PresenceAssumption DEF IInv, Aged, Quiet, Silence, table
    <2>5. DoorsAreOnline'
      BY <2>1 DEF IInv, DoorsAreOnline, table, doors
    <2> QED BY <1>3, <2>2, <2>3, <2>4, <2>5 DEF IInv
  <1> QED BY <1>4, <1>5

\* Every step keeps the strengthening.
LEMMA NextKeeps == IInv /\ [Next]_vars => IInv'
  <1> SUFFICES ASSUME IInv, [Next]_vars PROVE IInv'
    OBVIOUS
  <1>1. ASSUME NEW d \in Devices, HeartBeat(d) PROVE IInv'
    BY <1>1, HeartBeatStep
  <1>2. ASSUME NEW n \in Doors, NEW inUse \in BOOLEAN, NEW m \in Models,
               StreamStatus(n, inUse, m)
        PROVE  IInv'
    BY <1>2, StreamStatusStep
  <1>3. ASSUME NEW n \in Doors, CompileTime(n) \/ LockSettings(n) \/ Hang(n) PROVE IInv'
    BY <1>3, CompileTimeStep, LockSettingsStep, HangStep
  <1>4. ASSUME NEW f \in Families, NEW n \in Indoor, Renumber(f, n) PROVE IInv'
    BY <1>4, RenumberStep
  <1>5. CASE Pass
    BY <1>5, PassStep
  <1>6. CASE Check
    BY <1>6, CheckStep
  <1>7. CASE UNCHANGED vars
    BY <1>7 DEF IInv, TypeOK, OnTime, Aged, ClashAged, DoorsAreOnline, Quiet, Silence, Unseen,
                vars, clock, table, doors, clash, self
  <1> QED BY <1>1, <1>2, <1>3, <1>4, <1>5, <1>6, <1>7 DEF Next

\* The strengthening holds in every state.
THEOREM Invariance == Spec => []IInv
  <1>1. Init => IInv
    BY InitHolds
  <1>2. IInv /\ [Next]_vars => IInv'
    BY NextKeeps
  <1> QED BY <1>1, <1>2, PTL DEF Spec

\* The state keeps its types.
THEOREM TypeCorrect == Spec => []TypeOK
  <1>1. IInv => TypeOK
    BY DEF IInv
  <1> QED BY <1>1, Invariance, PTL

\* No device is taken for online longer than 2 * BeatTime + 1 seconds after it
\* was heard of last, or after the second before the start.
THEOREM PresenceIsRecent == Spec => []Recent
  <1>1. ASSUME IInv, NEW d \in Devices, online[d]
        PROVE  Quiet(d) <= 2 * BeatTime + 1
    <2>1. /\ now \in Nat /\ Start <= now /\ heart[d] \in Nat /\ heart[d] <= now
          /\ count <= BeatTime /\ count \in Nat /\ Unseen \in 0 .. 1
      BY <1>1, PresenceAssumption DEF IInv, TypeOK, OnTime, Aged, Unseen
    <2>2. Quiet(d) \in Nat
      BY <2>1, SilenceFacts DEF Quiet
    <2>3. Quiet(d) <= BeatTime + count + Unseen
      BY <1>1 DEF IInv, Aged
    <2> QED BY <2>1, <2>2, <2>3, PresenceAssumption
  <1>2. IInv => Recent
    BY <1>1 DEF Recent, Quiet
  <1> QED BY <1>2, Invariance, PTL

\* What is kept of a door station, but its version, is of one that is online.
THEOREM DoorStateIsOfOnline == Spec => []DoorsAreOnline
  <1>1. IInv => DoorsAreOnline
    BY DEF IInv
  <1> QED BY <1>1, Invariance, PTL

\* The warning of a clash of numbers ends.
THEOREM WarningEnds == Spec => []ClashEnds
  <1>1. IInv => ClashEnds
    BY HalfIsNat DEF IInv, TypeOK, OnTime, ClashAged, ClashEnds, Unseen
  <1> QED BY <1>1, Invariance, PTL

----------------------------------------------------------------------------
\* BusPresence implements BoundedDetector, twice.

\* What the detector of the table sees of the silence.
Silences == [d \in Devices |-> Silence(heart[d])]

LEMMA SilencesFacts ==
  /\ Silences = [d \in Devices |-> Quiet(d)]
  /\ \A d \in Devices : Silences[d] = Quiet(d)
  BY DEF Silences, Quiet

\* A sign of life is an abstract one: it ends the silence of that device only.
LEMMA HeartIsHeard ==
  ASSUME IInv, NEW d \in Devices, UNCHANGED clock,
         heart' = [heart EXCEPT ![d] = now]
  PROVE  Silences' = [Silences EXCEPT ![d] = 0]
  <1>1. /\ now' = now /\ now \in Nat /\ Start <= now
        /\ heart \in [Devices -> Nat]
    BY DEF IInv, TypeOK, OnTime, clock
  <1> DEFINE new == [e \in Devices |-> Quiet(e)']
             reset == [Silences EXCEPT ![d] = 0]
  <1>2. ASSUME NEW e \in Devices
        PROVE  Quiet(e)' = IF e = d THEN 0 ELSE Quiet(e)
    BY <1>1, PresenceAssumption DEF Quiet, Silence
  <1>3. \A e \in Devices : new[e] = reset[e]
    BY <1>2, SilencesFacts
  <1>4. new = [e \in Devices |-> new[e]] /\ reset = [e \in Devices |-> reset[e]]
    BY SilencesFacts
  <1>5. Silences' = new
    BY DEF Silences, Quiet
  <1> HIDE DEF new, reset
  <1>6. new = reset
    BY <1>3, <1>4
  <1> QED BY <1>5, <1>6 DEF reset

\* Every step of the program is a step of the detector, or nothing to it.
LEMMA DetectorStep ==
  ASSUME IInv, [Next]_vars
  PROVE  [Detector!DetectorNext]_(Detector!detectorVars)
  <1> DEFINE Still == UNCHANGED <<online, now, heart>>
  <1>1. ASSUME Still PROVE UNCHANGED Detector!detectorVars
    BY <1>1 DEF Detector!detectorVars, Silence
  <1>2. ASSUME NEW d \in Devices, HeartBeat(d)
        PROVE  [Detector!DetectorNext]_(Detector!detectorVars)
    <2>1. CASE d = self
      BY <1>1, <1>2, <2>1 DEF HeartBeat, clock, table
    <2>2. CASE d # self
      <3>1. Heard(d) /\ UNCHANGED clock
        BY <1>2, <2>2 DEF HeartBeat
      <3>2. Silences' = [Silences EXCEPT ![d] = 0]
        BY <3>1, HeartIsHeard DEF Heard
      <3>3. Detector!Hears(d)
        BY <3>1, <3>2 DEF Heard, Detector!Hears, Silences
      <3> QED BY <3>3 DEF Detector!DetectorNext
    <2> QED BY <2>1, <2>2
  <1>3. ASSUME NEW n \in Doors, NEW inUse \in BOOLEAN, NEW m \in Models,
               StreamStatus(n, inUse, m)
        PROVE  [Detector!DetectorNext]_(Detector!detectorVars)
    <2>1. /\ Heard(<<family, n>>) /\ UNCHANGED clock
          /\ <<family, n>> \in Devices
      BY <1>3, DoorIsDevice DEF StreamStatus
    <2>2. Silences' = [Silences EXCEPT ![<<family, n>>] = 0]
      BY <2>1, HeartIsHeard DEF Heard
    <2>3. Detector!Hears(<<family, n>>)
      BY <2>1, <2>2 DEF Heard, Detector!Hears, Silences
    <2> QED BY <2>1, <2>3 DEF Detector!DetectorNext
  <1>4. ASSUME NEW n \in Doors, CompileTime(n) \/ LockSettings(n)
        PROVE  [Detector!DetectorNext]_(Detector!detectorVars)
    <2>1. /\ Noticed(n) /\ UNCHANGED clock
          /\ <<family, n>> \in Devices
      BY <1>4, DoorIsDevice DEF CompileTime, LockSettings
    <2>2. Silences' = [Silences EXCEPT ![<<family, n>>] = 0]
      BY <2>1, HeartIsHeard DEF Noticed
    <2>3. Detector!Notices(<<family, n>>)
      BY <2>1, <2>2 DEF Noticed, Detector!Notices, Silences
    <2> QED BY <2>1, <2>3 DEF Detector!DetectorNext
  <1>5. ASSUME NEW n \in Doors, Hang(n) PROVE Still
    BY <1>5 DEF Hang, clock, table
  <1>6. ASSUME NEW f \in Families, NEW n \in Indoor, Renumber(f, n) PROVE Still
    BY <1>6 DEF Renumber, clock, table
  <1>7. CASE Pass
    <2>1. /\ UNCHANGED <<online, heart>> /\ now' = now + 1 /\ seen = now
      BY <1>7 DEF Pass, table
    <2>2. now \in Nat /\ Start <= now /\ heart \in [Devices -> Nat] /\ Unseen = 0
      BY <2>1 DEF IInv, TypeOK, OnTime, Unseen
    <2>3. ASSUME NEW d \in Devices
          PROVE  /\ Quiet(d)' = Quiet(d) + 1
                 /\ online[d] => Quiet(d) < 2 * BeatTime + 1
      <3>1. heart[d] \in Nat /\ heart'[d] = heart[d] /\ heart[d] <= now
        BY <2>1, <2>2 DEF IInv, Aged
      <3>2. Quiet(d) \in Nat
        BY <2>2, <3>1, SilenceFacts DEF Quiet
      <3>3. Quiet(d)' = Quiet(d) + 1
        BY <2>1, <2>2, <3>1, PresenceAssumption DEF Quiet, Silence
      <3>4. online[d] => Quiet(d) <= BeatTime + count
        BY <2>2, <3>2, PresenceAssumption DEF IInv, TypeOK, Aged
      <3> QED BY <3>2, <3>3, <3>4, PresenceAssumption DEF IInv, TypeOK
    <2>4. \A d \in Devices : online[d] => Silences[d] < 2 * BeatTime + 1
      BY <2>3, SilencesFacts
    <2>5. Silences' = [d \in Devices |-> Silences[d] + 1]
      BY <2>3, SilencesFacts DEF Silences, Quiet
    <2>6. Detector!Second
      BY <2>1, <2>4, <2>5 DEF Detector!Second, Silences
    <2> QED BY <2>6 DEF Detector!DetectorNext
  <1>8. CASE Check
    <2>1. now' = now /\ now # seen
      BY <1>8 DEF Check
    <2>2. CASE count + 1 > BeatTime /\ Drop
      <3>1. /\ online' = [d \in Devices |-> online[d] /\ d \notin Silent]
            /\ heart' = heart
        BY <2>2 DEF Drop
      <3>2. \A d \in Silent : online[d] /\ Silences[d] > BeatTime
        BY <2>1, <2>2, SilentIsSilent, SilencesFacts DEF Silent
      <3>3. Silences' = Silences
        BY <2>1, <3>1 DEF Silences, Silence
      <3>4. online' \in [Devices -> BOOLEAN]
        BY <3>1, Zenon
      <3>5. \A d \in Devices :
              online'[d] # online[d] => online[d] /\ Silences[d] > BeatTime
        <4> SUFFICES ASSUME NEW d \in Devices, online'[d] # online[d]
                     PROVE  online[d] /\ Silences[d] > BeatTime
          OBVIOUS
        <4>1. online[d] \in BOOLEAN /\ online'[d] = (online[d] /\ d \notin Silent)
          BY <3>1 DEF IInv, TypeOK
        <4>2. d \in Silent
          BY <4>1, Zenon
        <4> QED BY <3>2, <4>2
      <3>6. Detector!GiveUp
        BY <3>3, <3>4, <3>5 DEF Detector!GiveUp, Silences
      <3> QED BY <3>6 DEF Detector!DetectorNext
    <2>3. CASE UNCHANGED table
      BY <1>1, <2>1, <2>3 DEF table
    <2> QED BY <1>8, <2>2, <2>3 DEF Check
  <1>9. CASE UNCHANGED vars
    BY <1>1, <1>9 DEF vars, clock, table
  <1> QED BY <1>1, <1>2, <1>3, <1>4, <1>5, <1>6, <1>7, <1>8, <1>9 DEF Next

\* The presence table is a detector of silence with the bounds BeatTime and
\* 2 * BeatTime + 1: nobody is given up sooner than the one, nobody believed
\* in for longer than the other, the unit's own entry included, which is
\* online from the start.
THEOREM IsDetector == Spec => ImplementsDetector
  <1>1. Init => Detector!DetectorInit
    <2> SUFFICES ASSUME Init PROVE Detector!DetectorInit
      OBVIOUS
    <2>1. \A d \in Devices : Silence(heart[d]) = 1
      BY PresenceAssumption DEF Init, Silence
    <2>2. online = [d \in Devices |-> d \in {<<Own, Local>>}]
      BY DEF Init
    <2> QED BY <2>1, <2>2 DEF Detector!DetectorInit
  <1>2. IInv /\ [Next]_vars => [Detector!DetectorNext]_(Detector!detectorVars)
    BY DetectorStep
  <1> QED BY <1>1, <1>2, Invariance, PTL DEF Spec, ImplementsDetector, Detector!DetectorSpec

\* What that means for one device: as long as a sign of life comes within
\* BeatTime seconds of the one before, no check takes it off the table.
THEOREM BeatingIsKept ==
    Spec => [][\A d \in Devices :
                 online[d] /\ Silence(heart[d]) <= BeatTime => online'[d]]_vars
  <1>1. ASSUME IInv, [Detector!DetectorNext]_(Detector!detectorVars),
               NEW d \in Devices, online[d], Silence(heart[d]) <= BeatTime
        PROVE  online'[d]
    <2>1. ASSUME NEW e \in Devices, Detector!Hears(e) PROVE online'[d]
      BY <1>1, <2>1 DEF Detector!Hears, IInv, TypeOK
    <2>2. CASE Detector!GiveUp
      <3>1. online'[d] # online[d] => Silences[d] > BeatTime
        BY <2>2 DEF Detector!GiveUp, Silences
      <3>2. Silences[d] = Silence(heart[d]) /\ Silence(heart[d]) \in Nat
        BY SilencesFacts, SilenceFacts, <1>1 DEF Quiet, IInv, TypeOK, OnTime, Aged
      <3>3. ~(Silences[d] > BeatTime)
        BY <1>1, <3>2, PresenceAssumption
      <3>4. online'[d] = online[d]
        BY <3>1, <3>3, Zenon
      <3> QED BY <1>1, <3>4
    <2>3. CASE Detector!Second \/ UNCHANGED Detector!detectorVars
      BY <1>1, <2>3 DEF Detector!Second, Detector!detectorVars
    <2>4. ASSUME NEW e \in Devices, Detector!Notices(e) PROVE online'[d]
      BY <1>1, <2>4 DEF Detector!Notices
    <2> QED BY <1>1, <2>1, <2>2, <2>3, <2>4 DEF Detector!DetectorNext
  <1>2. IInv /\ [Next]_vars =>
          [\A d \in Devices : online[d] /\ Silence(heart[d]) <= BeatTime => online'[d]]_vars
    BY <1>1, DetectorStep
  <1> QED BY <1>2, Invariance, PTL DEF Spec

\* What the detector of the other unit with this number sees.
Twin == [p \in {"twin"} |-> repeat]
TwinSilence == [p \in {"twin"} |-> Silence(repeatTime)]

\* Every step of the program is a step of the detector of a clash, or nothing
\* to it.
LEMMA ClashStep ==
  ASSUME IInv, [Next]_vars
  PROVE  [Clash!DetectorNext]_(Clash!detectorVars)
  <1> DEFINE Still == UNCHANGED <<now, repeat, repeatTime>>
  <1>1. ASSUME Still PROVE UNCHANGED Clash!detectorVars
    BY <1>1 DEF Clash!detectorVars, Silence
  <1>2. /\ now \in Nat /\ Start <= now
        /\ repeatTime \in Nat /\ repeatTime <= now /\ repeat \in BOOLEAN
    BY DEF IInv, TypeOK, OnTime, ClashAged
  <1>3. ASSUME NEW d \in Devices, HeartBeat(d)
        PROVE  [Clash!DetectorNext]_(Clash!detectorVars)
    <2>1. CASE d = self
      <3>1. repeat' = TRUE /\ repeatTime' = now /\ now' = now
        BY <1>3, <2>1 DEF HeartBeat, clock
      <3>2. Silence(repeatTime)' = 0
        BY <1>2, <3>1, PresenceAssumption DEF Silence
      <3>3. Twin' = [Twin EXCEPT !["twin"] = TRUE]
        BY <3>1 DEF Twin
      <3>4. TwinSilence' = [TwinSilence EXCEPT !["twin"] = 0]
        BY <3>2 DEF TwinSilence
      <3>5. Clash!Hears("twin")
        BY <3>3, <3>4 DEF Clash!Hears, Twin, TwinSilence
      <3> QED BY <3>5 DEF Clash!DetectorNext
    <2>2. CASE d # self
      BY <1>1, <1>3, <2>2 DEF HeartBeat, clock, clash
    <2> QED BY <2>1, <2>2
  <1>4. ASSUME NEW n \in Doors, NEW inUse \in BOOLEAN, NEW m \in Models,
               StreamStatus(n, inUse, m)
        PROVE  Still
    BY <1>4 DEF StreamStatus, clock, clash
  <1>5. ASSUME NEW n \in Doors, CompileTime(n) \/ LockSettings(n) \/ Hang(n)
        PROVE  Still
    BY <1>5 DEF CompileTime, LockSettings, Hang, clock, clash
  <1>6. ASSUME NEW f \in Families, NEW n \in Indoor, Renumber(f, n) PROVE Still
    BY <1>6 DEF Renumber, clock, clash
  <1>7. CASE Pass
    <2>1. /\ UNCHANGED <<repeat, repeatTime>> /\ now' = now + 1 /\ seen = now
      BY <1>7 DEF Pass, clash
    <2>2. Silence(repeatTime)' = Silence(repeatTime) + 1
      BY <1>2, <2>1, PresenceAssumption DEF Silence
    <2>3. repeat => Silence(repeatTime) < BeatTime \div 2 + 1
      <3>1. Unseen = 0
        BY <2>1 DEF Unseen
      <3>2. repeat => Silence(repeatTime) = now - repeatTime
        BY <1>2, SilenceFacts DEF IInv, ClashAged
      <3> QED BY <1>2, <3>1, <3>2, HalfIsNat DEF IInv, ClashAged
    <2>4. Twin' = Twin
      BY <2>1 DEF Twin
    <2>5. TwinSilence' = [p \in {"twin"} |-> TwinSilence[p] + 1]
      BY <2>2 DEF TwinSilence
    <2>6. \A p \in {"twin"} : Twin[p] => TwinSilence[p] < BeatTime \div 2 + 1
      BY <2>3 DEF Twin, TwinSilence
    <2>7. Clash!Second
      BY <2>4, <2>5, <2>6 DEF Clash!Second, Twin, TwinSilence
    <2> QED BY <2>7 DEF Clash!DetectorNext
  <1>8. CASE Check
    <2>1. /\ now' = now /\ repeatTime' = repeatTime
          /\ repeat' = (repeat /\ now - repeatTime <= BeatTime \div 2)
      BY <1>8 DEF Check, ClashGoes
    <2>2. TwinSilence' = TwinSilence
      BY <2>1 DEF TwinSilence, Silence
    <2>3. repeat' \in BOOLEAN
      BY <2>1, Zenon
    <2>4. repeat' # repeat => repeat /\ Silence(repeatTime) > BeatTime \div 2
      <3>1. repeat' # repeat => repeat /\ ~(now - repeatTime <= BeatTime \div 2)
        BY <1>2, <2>1, Zenon
      <3>2. repeat => Silence(repeatTime) = now - repeatTime
        BY <1>2, SilenceFacts DEF IInv, ClashAged
      <3> QED BY <1>2, <3>1, <3>2, HalfIsNat
    <2>5. Twin' \in [{"twin"} -> BOOLEAN]
      BY <2>3 DEF Twin
    <2>6. \A p \in {"twin"} :
            Twin'[p] # Twin[p] => Twin[p] /\ TwinSilence[p] > BeatTime \div 2
      BY <2>4 DEF Twin, TwinSilence
    <2>7. Clash!GiveUp
      BY <2>2, <2>5, <2>6 DEF Clash!GiveUp, Twin, TwinSilence
    <2> QED BY <2>7 DEF Clash!DetectorNext
  <1>9. CASE UNCHANGED vars
    BY <1>1, <1>9 DEF vars, clock, clash
  <1> QED BY <1>1, <1>3, <1>4, <1>5, <1>6, <1>7, <1>8, <1>9 DEF Next

\* The warning of a clash is a detector of silence with the bounds
\* BeatTime \div 2 and one second more: it is not taken down while the other
\* unit is heard, and goes when it is gone.
THEOREM IsClashDetector == Spec => ImplementsClash
  <1>1. Init => Clash!DetectorInit
    <2> SUFFICES ASSUME Init PROVE Clash!DetectorInit
      OBVIOUS
    <2>1. Silence(repeatTime) = 1
      BY PresenceAssumption DEF Init, Silence
    <2>2. \A p \in {"twin"} : repeat = (p \in {})
      <3>1. repeat = FALSE
        BY DEF Init
      <3>2. \A p : (p \in {}) = FALSE
        OBVIOUS
      <3> QED BY <3>1, <3>2
    <2>3. [p \in {"twin"} |-> repeat] = [p \in {"twin"} |-> p \in {}]
      BY <2>2, Zenon
    <2> QED BY <2>1, <2>3 DEF Clash!DetectorInit
  <1>2. IInv /\ [Next]_vars => [Clash!DetectorNext]_(Clash!detectorVars)
    BY ClashStep
  <1> QED BY <1>1, <1>2, Invariance, PTL DEF Spec, ImplementsClash, Clash!DetectorSpec

----------------------------------------------------------------------------
\* TuyaClaim.  Released is not inductive: a claim that is too old is dropped
\* by the beat of the unit, and how old it may be in between depends on how
\* far that beat is.  SinceBeat counts the slots since a unit's last beat.

SinceBeat(u) ==
    IF slot > Phase[u] THEN slot - Phase[u]
    ELSE IF slot = Phase[u] /\ u \in beaten THEN 0
    ELSE slot + Slots - Phase[u]

Fresh == \A u \in Units : by[u] # NoUnit => age[u] <= Keep + SinceBeat(u)

\* A claim goes to another unit than its sender, who has beaten in this slot
\* and is not silenced, unless by a claim made in the same slot.
InTurn ==
    \A u, v \in Units : <<u, v>> \in claims =>
        /\ u # v
        /\ u \in beaten
        /\ by[u] \in Units => Phase[by[u]] = slot

ClaimIInv == ClaimTypeOK /\ Fresh /\ InTurn /\ NoRing

\* A second has at least one slot; ages and distances are numbers.
LEMMA SlotFacts ==
  ASSUME ClaimTypeOK
  PROVE  /\ Slots \in Nat /\ Slots > 0 /\ Keep \in Nat /\ Keep = 3 * Slots
         /\ Oldest = Keep + Slots + 1
         /\ slot \in Nat /\ slot < Slots
         /\ \A u \in Units : /\ Phase[u] \in Nat /\ Phase[u] < Slots
                             /\ age[u] \in Nat /\ age[u] <= Oldest
                             /\ SinceBeat(u) \in 0 .. Slots
  BY ClaimAssumption DEF ClaimTypeOK, SinceBeat, Keep, Oldest

\* The next slot, or the first of the next second.
LEMMA NextSlot ==
  ASSUME ClaimTypeOK
  PROVE  (slot + 1) % Slots = IF slot + 1 = Slots THEN 0 ELSE slot + 1
  BY ClaimAssumption DEF ClaimTypeOK

LEMMA ClaimInitGood == ClaimInit => ClaimIInv
  <1> SUFFICES ASSUME ClaimInit PROVE ClaimIInv
    OBVIOUS
  <1>1. Keep \in Nat /\ Oldest \in Nat /\ 0 \in 0 .. Slots - 1 /\ 0 \in 0 .. Oldest
    BY ClaimAssumption DEF Keep, Oldest
  <1>2. \A u \in Units : by[u] = NoUnit
    BY DEF ClaimInit
  <1>3. ClaimTypeOK
    BY <1>1, <1>2, ClaimAssumption DEF ClaimInit, ClaimTypeOK
  <1>4. InTurn
    BY DEF ClaimInit, InTurn
  <1>5. NoRing
    BY <1>2, ClaimAssumption DEF NoRing
  <1> QED BY <1>2, <1>3, <1>4, <1>5 DEF ClaimIInv, Fresh

\* A beat drops a claim older than three seconds, so the age is within them
\* when the distance to the beat is zero.
LEMMA BeatGood ==
  ASSUME ClaimIInv, NEW u \in Units, Beat(u)
  PROVE  ClaimIInv'
  <1> USE DEF ClaimIInv
  <1>1. /\ UNCHANGED <<slot, watched, age>>
        /\ u \in Due /\ u \notin beaten /\ beaten' = beaten \cup {u}
        /\ by' = [by EXCEPT ![u] = IF Monitoring(u) THEN by[u] ELSE NoUnit]
        /\ claims' = claims \cup Claims(u)
    BY DEF Beat
  <1>2. ClaimTypeOK'
    <2>1. Claims(u) \subseteq Units \X Units
      BY DEF Claims
    <2>2. by' \in [Units -> Units \cup {NoUnit}]
      BY <1>1 DEF ClaimTypeOK
    <2>3. ASSUME NEW v \in Units PROVE by'[v] # v
      BY <1>1, ClaimAssumption DEF ClaimTypeOK
    <2>4. beaten' \subseteq Due'
      BY <1>1 DEF ClaimTypeOK, Due
    <2> QED BY <1>1, <2>1, <2>2, <2>3, <2>4 DEF ClaimTypeOK
  <1>3. ASSUME NEW v \in Units, by'[v] # NoUnit PROVE age'[v] <= Keep + SinceBeat(v)'
    <2>1. CASE v = u
      <3>1. Monitoring(u)
        BY <1>1, <1>3, <2>1 DEF ClaimTypeOK
      <3>2. age[u] <= Keep
        BY <3>1, SlotFacts DEF Monitoring, Expired
      <3>3. SinceBeat(u)' \in 0 .. Slots
        BY <1>2, ClaimAssumption DEF ClaimTypeOK, SinceBeat
      <3> QED BY <1>1, <2>1, <3>2, <3>3, SlotFacts
    <2>2. CASE v # u
      <3>1. by'[v] = by[v] /\ (v \in beaten' <=> v \in beaten)
        BY <1>1, <2>2 DEF ClaimTypeOK
      <3>2. SinceBeat(v)' = SinceBeat(v)
        BY <1>1, <3>1 DEF SinceBeat
      <3> QED BY <1>1, <1>3, <3>1, <3>2 DEF Fresh
    <2> QED BY <2>1, <2>2
  <1>4. ASSUME NEW v \in Units, NEW w \in Units, <<v, w>> \in claims'
        PROVE  /\ v # w
               /\ v \in beaten'
               /\ by'[v] \in Units => Phase[by'[v]] = slot'
    <2>1. CASE <<v, w>> \in claims
      <3>1. v # w /\ v \in beaten /\ v # u /\ (by[v] \in Units => Phase[by[v]] = slot)
        BY <1>1, <2>1 DEF InTurn
      <3>2. by'[v] = by[v]
        BY <1>1, <3>1 DEF ClaimTypeOK
      <3> QED BY <1>1, <3>1, <3>2
    <2>2. CASE <<v, w>> \in Claims(u)
      <3>1. v = u /\ v # w /\ ~Monitoring(u)
        BY <2>2 DEF Claims
      <3>2. by'[v] = NoUnit
        BY <1>1, <3>1 DEF ClaimTypeOK
      <3> QED BY <1>1, <3>1, <3>2, ClaimAssumption
    <2> QED BY <1>1, <1>4, <2>1, <2>2
  <1>5. NoRing'
    <2>1. \A v \in Units : by'[v] = by[v] \/ by'[v] \notin Units
      BY <1>1, ClaimAssumption DEF ClaimTypeOK
    <2> QED BY <2>1 DEF NoRing
  <1>6. InTurn'
    BY <1>4 DEF InTurn
  <1> QED BY <1>2, <1>3, <1>5, <1>6 DEF Fresh

\* A claim is heard in the slot it is sent in.  In a ring that the hearer
\* closes the sender is the one who is not silenced by another of the ring.
LEMMA HearGood ==
  ASSUME ClaimIInv, NEW u \in Units, NEW v \in Units, Hear(u, v)
  PROVE  ClaimIInv'
  <1> USE DEF ClaimIInv
  <1>1. /\ UNCHANGED <<slot, beaten, watched>>
        /\ <<u, v>> \in claims /\ claims' = claims \ {<<u, v>>}
        /\ by' = [by EXCEPT ![v] = u] /\ age' = [age EXCEPT ![v] = 0]
    BY DEF Hear
  <1>2. u # v /\ u \in beaten /\ Phase[u] = slot
    BY <1>1 DEF InTurn, ClaimTypeOK, Due
  <1>3. by[u] \in Units => Phase[by[u]] = slot
    BY <1>1 DEF InTurn
  <1>4. /\ by' \in [Units -> Units \cup {NoUnit}] /\ age' \in [Units -> 0 .. Oldest]
        /\ by'[v] = u /\ age'[v] = 0
        /\ \A w \in Units : w # v => by'[w] = by[w] /\ age'[w] = age[w]
    BY <1>1, SlotFacts DEF ClaimTypeOK
  <1>5. ClaimTypeOK'
    BY <1>1, <1>2, <1>4 DEF ClaimTypeOK, Due
  <1>6. Fresh'
    <2>1. \A w \in Units : SinceBeat(w)' = SinceBeat(w)
      BY <1>1 DEF SinceBeat
    <2>2. \A w \in Units : 0 <= Keep + SinceBeat(w)
      BY SlotFacts
    <2> QED BY <1>4, <2>1, <2>2 DEF Fresh
  <1>7. ASSUME NEW w \in Units, NEW x \in Units, <<w, x>> \in claims'
        PROVE  /\ w # x
               /\ w \in beaten'
               /\ by'[w] \in Units => Phase[by'[w]] = slot'
    <2>1. w # x /\ w \in beaten /\ (by[w] \in Units => Phase[by[w]] = slot)
      BY <1>1, <1>7 DEF InTurn
    <2> QED BY <1>1, <1>2, <1>4, <2>1
  <1>8. ASSUME NEW ring \in SUBSET Units, ring # {},
               \A w, x \in ring : w # x => Phase[w] # Phase[x]
        PROVE  \E w \in ring : by'[w] \notin ring
    <2>1. PICK w \in ring : by[w] \notin ring
      BY <1>8 DEF NoRing
    <2>2. CASE w # v
      BY <1>4, <2>1, <2>2
    <2>3. CASE w = v /\ u \notin ring
      BY <1>4, <2>3
    <2>4. CASE u \in ring
      <3>1. by[u] \notin ring
        BY <1>2, <1>3, <1>8, <2>4 DEF ClaimTypeOK
      <3> QED BY <1>2, <1>4, <2>4, <3>1
    <2> QED BY <2>2, <2>3, <2>4
  <1>9. NoRing'
    BY <1>8 DEF NoRing
  <1>10. InTurn'
    BY <1>7 DEF InTurn
  <1> QED BY <1>5, <1>6, <1>9, <1>10

LEMMA LoseGood ==
  ASSUME ClaimIInv, NEW u \in Units, NEW v \in Units, Lose(u, v)
  PROVE  ClaimIInv'
  <1> USE DEF ClaimIInv
  <1>1. UNCHANGED <<slot, beaten, watched, by, age>> /\ claims' = claims \ {<<u, v>>}
    BY DEF Lose
  <1>2. ClaimTypeOK' /\ Fresh' /\ InTurn' /\ NoRing'
    BY <1>1 DEF ClaimTypeOK, Due, Fresh, SinceBeat, InTurn, NoRing
  <1> QED BY <1>2

LEMMA PhoneGood ==
  ASSUME ClaimIInv, NEW u \in Units, Phone(u)
  PROVE  ClaimIInv'
  <1> USE DEF ClaimIInv
  <1>1. /\ UNCHANGED <<slot, beaten, by, age, claims>>
        /\ watched' = [watched EXCEPT ![u] = ~watched[u]]
    BY DEF Phone
  <1>2. watched' \in [Units -> BOOLEAN]
    BY <1>1 DEF ClaimTypeOK
  <1>3. ClaimTypeOK' /\ Fresh' /\ InTurn' /\ NoRing'
    BY <1>1, <1>2 DEF ClaimTypeOK, Due, Fresh, SinceBeat, InTurn, NoRing
  <1> QED BY <1>3

\* A slot later every unit is one slot further from its beat: those who are
\* due have beaten.
LEMMA TickGood ==
  ASSUME ClaimIInv, Tick
  PROVE  ClaimIInv'
  <1> USE DEF ClaimIInv
  <1>1. /\ UNCHANGED <<watched, by, claims>> /\ beaten = Due /\ claims = {} /\ beaten' = {}
        /\ slot' = (slot + 1) % Slots
        /\ age' = [u \in Units |-> IF age[u] < Oldest THEN age[u] + 1 ELSE Oldest]
    BY DEF Tick
  <1>2. slot' = IF slot + 1 = Slots THEN 0 ELSE slot + 1
    BY <1>1, NextSlot
  <1>3. ClaimTypeOK'
    <2>1. slot' \in 0 .. Slots - 1
      BY <1>2, SlotFacts
    <2>2. age' \in [Units -> 0 .. Oldest]
      BY <1>1, SlotFacts
    <2> QED BY <1>1, <2>1, <2>2 DEF ClaimTypeOK
  <1>4. ASSUME NEW u \in Units, by'[u] # NoUnit PROVE age'[u] <= Keep + SinceBeat(u)'
    <2>1. age[u] <= Keep + SinceBeat(u) /\ age'[u] <= age[u] + 1
      BY <1>1, <1>4, SlotFacts DEF Fresh
    <2>2. slot = Phase[u] => u \in beaten
      BY <1>1 DEF Due
    <2>3. SinceBeat(u)' = SinceBeat(u) + 1
      BY <1>1, <1>2, <2>2, SlotFacts DEF SinceBeat
    <2>4. age'[u] \in Nat
      BY <1>3, SlotFacts DEF ClaimTypeOK
    <2> QED BY <2>1, <2>3, <2>4, SlotFacts
  <1>5. InTurn' /\ NoRing'
    BY <1>1 DEF InTurn, NoRing
  <1> QED BY <1>3, <1>4, <1>5 DEF Fresh

\* Every step keeps the strengthening.
LEMMA ClaimNextGood == ClaimIInv /\ [ClaimNext]_claimVars => ClaimIInv'
  <1> SUFFICES ASSUME ClaimIInv, [ClaimNext]_claimVars PROVE ClaimIInv'
    OBVIOUS
  <1>1. CASE UNCHANGED claimVars
    BY <1>1 DEF claimVars, ClaimIInv, ClaimTypeOK, Due, Fresh, SinceBeat, InTurn, NoRing
  <1> QED BY <1>1, BeatGood, PhoneGood, HearGood, LoseGood, TickGood DEF ClaimNext

\* In every state claims are made in turn and no older than the unit's beat
\* allows.
THEOREM ClaimInvariance == ClaimSpec => []ClaimIInv
  <1> QED BY ClaimInitGood, ClaimNextGood, PTL DEF ClaimSpec

\* The state keeps its types, and no unit is silenced by itself.
THEOREM ClaimTypeCorrect == ClaimSpec => []ClaimTypeOK
  <1>1. ClaimIInv => ClaimTypeOK
    BY DEF ClaimIInv
  <1> QED BY <1>1, ClaimInvariance, PTL

\* For any number of units and any phases: no units whose beats fall in
\* different slots wait for each other.
THEOREM NeverARing == ClaimSpec => []NoRing
  <1>1. ClaimIInv => NoRing
    BY DEF ClaimIInv
  <1> QED BY <1>1, ClaimInvariance, PTL

\* For any number of units, and any phases also when they are the same, a
\* claim is forgotten four seconds after it was heard.
THEOREM AlwaysReleased == ClaimSpec => []Released
  <1>1. ClaimIInv => Released
    BY SlotFacts DEF ClaimIInv, Fresh, Released
  <1> QED BY <1>1, ClaimInvariance, PTL

==============================================================================
