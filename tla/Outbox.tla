-------------------------------- MODULE Outbox --------------------------------
(***************************************************************************)
(* What a sending task promises of the packages it is offered, whatever    *)
(* its sessions and threads do to each other: each goes out at most once,  *)
(* none goes out that was thrown away, and none that was never offered.    *)
(* Packages are known by the numbers 1, 2, ... in which they are offered.  *)
(***************************************************************************)
EXTENDS Naturals

VARIABLES
    offered,        \* packages offered so far
    pending,        \* those that may still go out
    voice,          \* the voice frame that went out last
    ring            \* the last package of the ring tone frame that did

outboxVars == <<offered, pending, voice, ring>>

OutboxInit ==
    /\ offered = 0
    /\ pending = {}
    /\ voice = 0
    /\ ring = 0

Offer ==
    /\ offered' = offered + 1
    /\ pending' = pending \cup {offered'}
    /\ UNCHANGED <<voice, ring>>

\* One package, a frame of its own.
SendVoiceFrame(p) ==
    /\ p \in pending
    /\ pending' = pending \ {p}
    /\ voice' = p
    /\ UNCHANGED <<offered, ring>>

\* Several together.
SendRingFrame(frame) ==
    /\ frame \subseteq pending
    /\ pending' = pending \ frame
    /\ ring' \in frame
    /\ UNCHANGED <<offered, voice>>

Discard(lost) ==
    /\ pending' = pending \ lost
    /\ UNCHANGED <<offered, voice, ring>>

OutboxNext ==
    \/ Offer
    \/ \E p \in pending : SendVoiceFrame(p)
    \/ \E frame \in SUBSET pending : SendRingFrame(frame)
    \/ \E lost \in SUBSET pending : Discard(lost)

OutboxSpec == OutboxInit /\ [][OutboxNext]_outboxVars

==============================================================================
