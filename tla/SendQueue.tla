------------------------------ MODULE SendQueue ------------------------------
(***************************************************************************)
(* The queue of the audio sending task                                     *)
(* (src/src/api/network/network_audio_package.c): a pool of packages, the  *)
(* microphone and the ring tone player that push them, and the detached    *)
(* thread of each session that sends them and gives them back.  A push     *)
(* holds the head mutex from the ready test to the insertion; the thread   *)
(* takes a package under that mutex and returns it under the free mutex;   *)
(* its exit clears ready under the head mutex, and only then empties the   *)
(* queue.  The video sending task has the same shape.                      *)
(*                                                                         *)
(* A ring tone package is not sent when it is taken: its samples join the  *)
(* cover buffer of the thread, which goes out as one frame when the next   *)
(* package would overflow it.                                              *)
(*                                                                         *)
(* Packages are numbered as they are filled (frame_index).  session counts *)
(* opens; sent, the packages of the last frame on the wire, and overtaken, *)
(* that a session was closed before its thread had started, are history.   *)
(***************************************************************************)
EXTENDS Integers, Sequences, SequencesExt

CONSTANTS
    Nodes,          \* network_audio_package_buffer
    NoNode,         \* a thread that holds none
    Threads,        \* bound: threads that exist together
    CoverMax,       \* ring tone packages that fit in cover_data
    MaxPackages,    \* bound: packages filled over the life of the model
    MaxSessions     \* bound: times the task is opened

ASSUME QueueAssumption ==
    /\ IsFiniteSet(Nodes)
    /\ NoNode \notin Nodes
    /\ CoverMax \in Nat \ {0}
    /\ MaxPackages \in Nat
    /\ MaxSessions \in Nat

Kinds == {"voice", "ring"}

VARIABLES
    free,           \* network_audio_send_queue_free
    head,           \* network_audio_send_queue_head
    package,        \* what the push wrote in each node
    frameIndex,     \* frame_index
    ready,          \* network_audio_send_ready
    taskRun,        \* networK_audio_send_task_run
    threadRun,      \* network_audio_send_thread_run
    pc,             \* where each thread is
    node,           \* the package a thread holds
    cover,          \* cover_data of a thread: indexes of ring tone packages
    session,        \* history: opens so far
    sent,           \* history: the last frame sent
    overtaken       \* history: a close overtook the start of a thread

vars == <<free, head, package, frameIndex, ready, taskRun, threadRun, pc,
          node, cover, session, sent, overtaken>>
queues == <<free, head, package, frameIndex>>
flags == <<taskRun, threadRun, session, overtaken>>

Blank == [index |-> 0, kind |-> "voice", session |-> 0]

Init ==
    /\ free = SetToSeq(Nodes)
    /\ head = <<>>
    /\ package = [n \in Nodes |-> Blank]
    /\ frameIndex = 0
    /\ ready = FALSE
    /\ taskRun = FALSE
    /\ threadRun = FALSE
    /\ pc = [t \in Threads |-> "free"]
    /\ node = [t \in Threads |-> NoNode]
    /\ cover = [t \in Threads |-> <<>>]
    /\ session = 0
    /\ sent = [voice |-> 0, ring |-> 0, from |-> {}]
    /\ overtaken = FALSE

----------------------------------------------------------------------------
\* network_audio_send_package_open, where it does not return FALSE.
Open ==
    /\ session < MaxSessions
    /\ ~taskRun
    /\ ~threadRun
    /\ taskRun' = TRUE
    /\ session' = session + 1
    /\ \E t \in Threads :
        /\ pc[t] = "free"
        /\ pc' = [pc EXCEPT ![t] = "created"]
    /\ UNCHANGED <<queues, ready, threadRun, node, cover, sent, overtaken>>

Close ==
    /\ taskRun
    /\ taskRun' = FALSE
    /\ overtaken' = (overtaken \/ \E t \in Threads : pc[t] = "created")
    /\ UNCHANGED <<queues, ready, threadRun, pc, node, cover, session, sent>>

\* Mutant: the ready test is missing.
PushUntested(kind) ==
    /\ frameIndex < MaxPackages
    /\ free # <<>>
    /\ free' = Tail(free)
    /\ package' = [package EXCEPT ![Head(free)] =
                    [index |-> frameIndex + 1, kind |-> kind,
                     session |-> session]]
    /\ frameIndex' = frameIndex + 1
    /\ head' = Append(head, Head(free))
    /\ UNCHANGED <<ready, flags, pc, node, cover, sent>>

\* Mutant: a new package goes in at the end it is taken from.
PushInFront(kind) ==
    /\ ready
    /\ frameIndex < MaxPackages
    /\ free # <<>>
    /\ free' = Tail(free)
    /\ package' = [package EXCEPT ![Head(free)] =
                    [index |-> frameIndex + 1, kind |-> kind,
                     session |-> session]]
    /\ frameIndex' = frameIndex + 1
    /\ head' = <<Head(free)>> \o head
    /\ UNCHANGED <<ready, flags, pc, node, cover, sent>>

\* network_audio_send_package_push, where it does not return FALSE.
Push(kind) ==
    /\ ready
    /\ frameIndex < MaxPackages
    /\ free # <<>>
    /\ free' = Tail(free)
    /\ package' = [package EXCEPT ![Head(free)] =
                    [index |-> frameIndex + 1, kind |-> kind,
                     session |-> session]]
    /\ frameIndex' = frameIndex + 1
    /\ head' = Append(head, Head(free))
    /\ UNCHANGED <<ready, flags, pc, node, cover, sent>>

----------------------------------------------------------------------------
\* network_audio_send_package_task.

Goto(t, from, to) ==
    /\ pc[t] = from
    /\ pc' = [pc EXCEPT ![t] = to]

Begin(t) ==
    /\ Goto(t, "created", "begun")
    /\ threadRun' = TRUE
    /\ cover' = [cover EXCEPT ![t] = <<>>]
    /\ UNCHANGED <<queues, ready, taskRun, node, session, sent, overtaken>>

GetReady(t) ==
    /\ Goto(t, "begun", "loop")
    /\ ready' = TRUE
    /\ UNCHANGED <<queues, flags, node, cover, sent>>

Loop(t) ==
    /\ Goto(t, "loop", IF taskRun THEN "take" ELSE "leaving")
    /\ UNCHANGED <<queues, ready, flags, node, cover, sent>>

Take(t) ==
    /\ pc[t] = "take"
    /\ IF head = <<>>
       THEN /\ pc' = [pc EXCEPT ![t] = "loop"]
            /\ UNCHANGED <<head, node>>
       ELSE /\ pc' = [pc EXCEPT ![t] = "holding"]
            /\ node' = [node EXCEPT ![t] = Head(head)]
            /\ head' = Tail(head)
    /\ UNCHANGED <<free, package, frameIndex, ready, flags, cover, sent>>

SendVoice(t) ==
    /\ Goto(t, "holding", "done")
    /\ package[node[t]].kind = "voice"
    /\ sent' = [sent EXCEPT !.voice = package[node[t]].index,
                            !.from = {package[node[t]].session}]
    /\ UNCHANGED <<queues, ready, flags, node, cover>>

\* A ring tone package joins the cover buffer, sending it first when full.
CoverRing(t) ==
    LET p == package[node[t]]
    IN  /\ Goto(t, "holding", "done")
        /\ p.kind = "ring"
        /\ IF Len(cover[t]) = CoverMax
           THEN /\ sent' = [sent EXCEPT
                                !.ring = Last(cover[t]).index,
                                !.from = {cover[t][i].session :
                                             i \in DOMAIN cover[t]}]
                /\ cover' = [cover EXCEPT ![t] = <<p>>]
           ELSE /\ cover' = [cover EXCEPT ![t] = Append(@, p)]
                /\ UNCHANGED sent
        /\ UNCHANGED <<queues, ready, flags, node>>

\* Mutant: the package goes back to the wrong queue.
GiveBackToHead(t) ==
    /\ Goto(t, "done", "loop")
    /\ head' = Append(head, node[t])
    /\ node' = [node EXCEPT ![t] = NoNode]
    /\ UNCHANGED <<free, package, frameIndex, ready, flags, cover, sent>>

\* network_audio_send_package_queue_del.
GiveBack(t) ==
    /\ Goto(t, "done", "loop")
    /\ free' = Append(free, node[t])
    /\ node' = [node EXCEPT ![t] = NoNode]
    /\ UNCHANGED <<head, package, frameIndex, ready, flags, cover, sent>>

NotReady(t) ==
    /\ Goto(t, "leaving", "releasing")
    /\ ready' = FALSE
    /\ UNCHANGED <<queues, flags, node, cover, sent>>

\* Mutants: the queue is left as it is; what is taken off it is lost.
ReleaseNothing(t) ==
    /\ Goto(t, "releasing", "released")
    /\ UNCHANGED <<queues, ready, flags, node, cover, sent>>
ReleaseDropped(t) ==
    /\ Goto(t, "releasing", "released")
    /\ head' = <<>>
    /\ UNCHANGED <<free, package, frameIndex, ready, flags, node, cover, sent>>

\* network_audio_send_release_all.
ReleaseAll(t) ==
    /\ Goto(t, "releasing", "released")
    /\ head' = <<>>
    /\ free' = free \o head
    /\ UNCHANGED <<package, frameIndex, ready, flags, node, cover, sent>>

Finish(t) ==
    /\ Goto(t, "released", "free")
    /\ threadRun' = FALSE
    /\ UNCHANGED <<queues, ready, taskRun, node, cover, session, sent,
                   overtaken>>

Thread(t) ==
    \/ Begin(t)
    \/ GetReady(t)
    \/ Loop(t)
    \/ Take(t)
    \/ SendVoice(t)
    \/ CoverRing(t)
    \/ GiveBack(t)
    \/ NotReady(t)
    \/ ReleaseAll(t)
    \/ Finish(t)

Next ==
    \/ Open
    \/ Close
    \/ \E kind \in Kinds : Push(kind)
    \/ \E t \in Threads : Thread(t)

Spec == Init /\ [][Next]_vars

FairSpec == Spec /\ \A t \in Threads : WF_vars(Thread(t))

----------------------------------------------------------------------------
Record == [index : 0 .. MaxPackages, kind : Kinds, session : 0 .. MaxSessions]

Frames == [voice : 0 .. MaxPackages, ring : 0 .. MaxPackages,
           from : SUBSET (0 .. MaxSessions)]

TypeOK ==
    /\ free \in Seq(Nodes)
    /\ head \in Seq(Nodes)
    /\ package \in [Nodes -> Record]
    /\ frameIndex \in 0 .. MaxPackages
    /\ ready \in BOOLEAN /\ taskRun \in BOOLEAN /\ threadRun \in BOOLEAN
    /\ pc \in [Threads -> {"free", "created", "begun", "loop", "take",
                           "holding", "done", "leaving", "releasing",
                           "released"}]
    /\ node \in [Threads -> Nodes \cup {NoNode}]
    /\ cover \in [Threads -> Seq(Record)]
    /\ session \in 0 .. MaxSessions
    /\ sent \in Frames
    /\ overtaken \in BOOLEAN

Held == {node[t] : t \in Threads} \ {NoNode}

\* Between critical sections every package of the pool is in exactly one
\* place, the free queue, the send queue or the hands of one thread: none is
\* leaked, inserted twice or sent by two threads.
EachInOnePlace ==
    LET all == free \o head
    IN  /\ IsInjective(all)
        /\ ToSet(all) \cap Held = {}
        /\ ToSet(all) \cup Held = Nodes
        /\ \A t, u \in Threads :
            node[t] = node[u] /\ node[t] # NoNode => t = u

\* When the threads of a session are gone the send queue is empty, so nothing
\* waits there for the device of the next session: no package slips in
\* between the release and the end of the thread.
DrainedAtEnd == (\A t \in Threads : pc[t] = "free") => head = <<>>

\* A frame goes out in the session its samples were captured in, unless a
\* close overtook the start of a thread.
OwnSession ==
    [][sent' # sent /\ ~overtaken => sent'.from = {session}]_vars

\* Frames of each kind leave in the order their packages were filled, unless
\* two threads came to share the queue; a voice frame may overtake ring tone
\* samples that wait in the cover buffer.
InOrder ==
    [][~overtaken => sent'.voice >= sent.voice /\ sent'.ring >= sent.ring]_vars

\* The thread sends or releases what was pushed: every package that is queued
\* comes back to the pool, or the pool runs dry and every push is refused.
\* (While the task runs a package waits only for those before it.)
PackagesReturn == \A n \in Nodes : n \in ToSet(head) ~> n \in ToSet(free)

\* A thread that may still send what its cover buffer holds.
Covering(t) == pc[t] \in {"begun", "loop", "take", "holding", "done"}

\* The numbers of the packages that may still go out: queued, in the hands of
\* a thread that has not sent them yet, or in a cover buffer.
Pending ==
    {package[n].index : n \in ToSet(head)}
        \cup {package[node[t]].index : t \in {u \in Threads : pc[u] = "holding"}}
        \cup UNION {{cover[t][i].index : i \in DOMAIN cover[t]} :
                        t \in {u \in Threads : Covering(u)}}

\* No package goes out twice, and none that was thrown away, also when a close
\* overtakes the start of a thread and threads of two sessions share the queue.
Promise == INSTANCE Outbox
    WITH offered <- frameIndex, pending <- Pending,
         voice <- sent.voice, ring <- sent.ring

ImplementsOutbox == Promise!OutboxSpec

==============================================================================
