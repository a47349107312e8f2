----------------------------- MODULE VideoReceive ----------------------------
(***************************************************************************)
(* The video receiving task (src/src/api/network/network_video_package.c)  *)
(* under the calls of leo_monitor.c: monitor_open opens it, monitor_close  *)
(* closes it, monitor_switch closes it when the id it carries is not the   *)
(* one of the new channel and then opens it.  Each session has a detached  *)
(* thread; an open waits for the thread of the last one.  The same thread  *)
(* starts and stops the event the Tuya cloud records, and does not leave   *)
(* before it has stopped it.                                               *)
(*                                                                         *)
(* One user-interface thread makes the calls.  world is what the receiving *)
(* thread polls from other parts: call (the monitor was entered by a call  *)
(* or by motion, and Tuya is online), card (the SD card), clients (phones  *)
(* that watch), other (another indoor unit has a Tuya monitor), audio (the *)
(* audio task has given Tuya a frame).                                     *)
(*                                                                         *)
(* wanted, overtaken and gaveUp (an open stopped waiting) are history      *)
(* variables.  overtaken: a close came before a thread had set its id, and *)
(* that thread, or the id it set after the close, is still there.          *)
(***************************************************************************)
EXTENDS Integers, FiniteSets

CONSTANTS
    Streams,        \* ids (ports) of the door stations' streams
    NoStream,       \* 0 as an id, -1 as a descriptor
    Threads,        \* bound: receiving threads that exist together
    Polls,          \* polls of thread_run before an open gives up
    Worlds          \* the values of world

World == [call : BOOLEAN, card : BOOLEAN, clients : BOOLEAN,
          other : BOOLEAN, audio : BOOLEAN]

ASSUME ReceiveAssumption ==
    /\ NoStream \notin Streams
    /\ Polls \in Nat \ {0}
    /\ Worlds \subseteq World

VARIABLES
    taskRun,        \* networK_video_receive_task_run
    threadRun,      \* network_video_receive_thread_run
    ethId,          \* network_video_receive_eth_id
    arg,            \* eth_p_id, the static the threads get a pointer to
    fd,             \* video_package_receive_fd: the stream it is bound to
    pc,             \* where each thread is
    src,            \* receive_eth_id of each thread
    ss,             \* ss_event_status of each thread
    warm,           \* send_tuya_frame_count > 5, of each thread
    recording,      \* tuya_stream_storage_recording
    posted,         \* the semaphore upload_start is up
    skipped,        \* history: the running event was not stopped when it had to
    world,
    ui,             \* the call the user-interface thread is in
    wanted,         \* history: the stream last asked for
    overtaken,      \* history
    gaveUp          \* history

vars == <<taskRun, threadRun, ethId, arg, fd, pc, src, ss, warm, recording,
          posted, skipped, world, ui, wanted, overtaken, gaveUp>>
storage == <<recording, posted, skipped>>
threads == <<pc, src, ss, warm, storage>>
history == <<wanted, overtaken, gaveUp>>

Idle == [op |-> "idle", id |-> NoStream, polls |-> 0]

Init ==
    /\ taskRun = FALSE
    /\ threadRun = FALSE
    /\ ethId = NoStream
    /\ arg = NoStream
    /\ fd = NoStream
    /\ pc = [t \in Threads |-> "free"]
    /\ src = [t \in Threads |-> NoStream]
    /\ ss = [t \in Threads |-> "IDLE"]
    /\ warm = [t \in Threads |-> FALSE]
    /\ recording = FALSE
    /\ posted = FALSE
    /\ skipped = FALSE
    /\ world \in Worlds
    /\ ui = Idle
    /\ wanted = NoStream
    /\ overtaken = FALSE
    /\ gaveUp = FALSE

At(where) == {t \in Threads : pc[t] = where}
Gone == At("free") = Threads

----------------------------------------------------------------------------
\* Calls of the user-interface thread.

\* What network_video_receive_package_close does to an open task.
Closed ==
    /\ taskRun' = FALSE
    /\ ethId' = NoStream
    /\ overtaken' = (overtaken \/ At("created") \cup At("begun") # {})

Close ==
    /\ ui = Idle
    /\ taskRun
    /\ Closed
    /\ wanted' = NoStream
    /\ UNCHANGED <<threadRun, arg, fd, threads, world, ui, gaveUp>>

\* monitor_open: network_video_receive_package_open on a closed task.
Open(id) ==
    /\ ui = Idle
    /\ ~taskRun
    /\ ui' = [op |-> "wait", id |-> id, polls |-> Polls]
    /\ wanted' = id
    /\ UNCHANGED <<taskRun, threadRun, ethId, arg, fd, threads, world,
                   overtaken, gaveUp>>

\* monitor_switch, the id of the task being the wanted one: it is not closed,
\* and the open that follows returns at its first check when it is open.
SwitchSame(id) ==
    /\ ui = Idle
    /\ ethId = id
    /\ wanted' = id
    /\ ui' = IF taskRun THEN Idle ELSE [op |-> "wait", id |-> id, polls |-> Polls]
    /\ UNCHANGED <<taskRun, threadRun, ethId, arg, fd, threads, world,
                   overtaken, gaveUp>>

\* Mutant: the task is not closed before it is opened for another stream.
SwitchOtherNoClose(id) ==
    /\ ui = Idle
    /\ ethId # id
    /\ wanted' = id
    /\ ui' = IF taskRun THEN Idle ELSE [op |-> "wait", id |-> id, polls |-> Polls]
    /\ UNCHANGED <<taskRun, threadRun, ethId, arg, fd, threads, world,
                   overtaken, gaveUp>>

\* monitor_switch, the id being another: close, then open.
SwitchOther(id) ==
    /\ ui = Idle
    /\ ethId # id
    /\ IF taskRun THEN Closed
       ELSE UNCHANGED <<taskRun, ethId, overtaken>>
    /\ ui' = [op |-> "wait", id |-> id, polls |-> Polls]
    /\ wanted' = id
    /\ UNCHANGED <<threadRun, arg, fd, threads, world, gaveUp>>

\* A poll that finds the last thread still there; the last poll gives up.
WaitPoll ==
    /\ ui.op = "wait"
    /\ threadRun
    /\ ui' = IF ui.polls > 1 THEN [ui EXCEPT !.polls = @ - 1] ELSE Idle
    /\ gaveUp' = (ui.polls = 1)
    /\ UNCHANGED <<taskRun, threadRun, ethId, arg, fd, threads, world, wanted,
                   overtaken>>

\* Mutant: the new thread is started beside the old one.
StartAtOnce ==
    /\ ui.op = "wait"
    /\ arg' = ui.id
    /\ taskRun' = TRUE
    /\ \E t \in At("free") : pc' = [pc EXCEPT ![t] = "created"]
    /\ ui' = Idle
    /\ overtaken' = (overtaken /\ ~(Gone /\ ethId = NoStream))
    /\ gaveUp' = FALSE
    /\ UNCHANGED <<threadRun, ethId, fd, src, ss, warm, storage, world, wanted>>

\* The poll that finds it gone.  The id is set by the thread, later.
Start ==
    /\ ui.op = "wait"
    /\ ~threadRun
    /\ arg' = ui.id
    /\ taskRun' = TRUE
    /\ \E t \in At("free") : pc' = [pc EXCEPT ![t] = "created"]
    /\ ui' = Idle
    /\ overtaken' = (overtaken /\ ~(Gone /\ ethId = NoStream))
    /\ gaveUp' = FALSE
    /\ UNCHANGED <<threadRun, ethId, fd, src, ss, warm, storage, world, wanted>>

----------------------------------------------------------------------------
\* network_video_receive_package_task.

Goto(t, from, to) ==
    /\ pc[t] = from
    /\ pc' = [pc EXCEPT ![t] = to]

Begin(t) ==
    /\ Goto(t, "created", "begun")
    /\ threadRun' = TRUE
    /\ ss' = [ss EXCEPT ![t] = "IDLE"]
    /\ warm' = [warm EXCEPT ![t] = FALSE]
    /\ UNCHANGED <<taskRun, ethId, arg, fd, src, storage, world, ui, history>>

\* The thread learns its stream from the static, not from a copy.
Adopt(t) ==
    /\ Goto(t, "begun", "adopted")
    /\ src' = [src EXCEPT ![t] = arg]
    /\ ethId' = arg
    /\ UNCHANGED <<taskRun, threadRun, arg, fd, ss, warm, storage, world, ui,
                   history>>

OpenSocket(t) ==
    /\ Goto(t, "adopted", "loop")
    /\ fd' = IF fd = NoStream THEN src[t] ELSE fd
    /\ UNCHANGED <<taskRun, threadRun, ethId, arg, src, ss, warm, storage,
                   world, ui, history>>

\* The first branch of the loop: a call or motion is to be recorded.
MayRecord(t) == ss[t] = "IDLE" /\ world.call /\ world.card /\ ~recording
\* Mutant: a closed task is no reason to end the event.
MustStopOpen(t) ==
    /\ world.clients \/ ~world.card \/ world.other
    /\ ss[t] = "ONGOING"

\* The second: the event of this thread has to end.
MustStop(t) ==
    /\ ~taskRun \/ world.clients \/ ~world.card \/ world.other
    /\ ss[t] = "ONGOING"

StartStorage(t) ==
    /\ pc[t] = "loop"
    /\ MayRecord(t)
    /\ world.audio
    /\ warm[t]
    /\ ss' = [ss EXCEPT ![t] = "ONGOING"]
    /\ recording' = TRUE
    /\ skipped' = FALSE
    /\ UNCHANGED <<taskRun, threadRun, ethId, arg, fd, pc, src, warm, posted,
                   world, ui, history>>

\* tuya_stream_storage_stop: the event is not stopped while the upload thread
\* has the last stop still before it; a stop for which no phone or other unit
\* is the reason wakes that thread.
StopStorage(t) ==
    /\ pc[t] = "loop"
    /\ ~MayRecord(t)
    /\ MustStop(t)
    /\ ss' = [ss EXCEPT ![t] = "STOP"]
    /\ recording' = (recording /\ posted)
    /\ skipped' = recording'
    /\ posted' = (posted \/ (recording /\ ~world.clients /\ ~world.other))
    /\ UNCHANGED <<taskRun, threadRun, ethId, arg, fd, pc, src, warm, world,
                   ui, history>>

\* Mutant: the thread leaves as soon as the task is closed.
LeaveAtOnce(t) ==
    /\ ~taskRun
    /\ Goto(t, "loop", "leaving")
    /\ ss' = [ss EXCEPT ![t] = "FINISH"]
    /\ UNCHANGED <<taskRun, threadRun, ethId, arg, fd, src, warm, storage,
                   world, ui, history>>

\* The third branch: only here does a closed task end the loop.
Leave(t) ==
    /\ ~MayRecord(t)
    /\ ~MustStop(t)
    /\ ~taskRun
    /\ ss[t] # "ONGOING"
    /\ Goto(t, "loop", "leaving")
    /\ ss' = [ss EXCEPT ![t] = "FINISH"]
    /\ UNCHANGED <<taskRun, threadRun, ethId, arg, fd, src, warm, storage,
                   world, ui, history>>

\* Enough frames have gone to Tuya.
Warm(t) ==
    /\ pc[t] = "loop"
    /\ taskRun
    /\ world.clients \/ world.call
    /\ ~warm[t]
    /\ warm' = [warm EXCEPT ![t] = TRUE]
    /\ UNCHANGED <<taskRun, threadRun, ethId, arg, fd, pc, src, ss, storage,
                   world, ui, history>>

CloseSocket(t) ==
    /\ Goto(t, "leaving", "closed")
    /\ fd' = NoStream
    /\ UNCHANGED <<taskRun, threadRun, ethId, arg, src, ss, warm, storage,
                   world, ui, history>>

Finish(t) ==
    /\ Goto(t, "closed", "free")
    /\ threadRun' = FALSE
    /\ UNCHANGED <<taskRun, ethId, arg, fd, src, ss, warm, storage, world, ui,
                   history>>

Thread(t) ==
    \/ Begin(t)
    \/ Adopt(t)
    \/ OpenSocket(t)
    \/ StartStorage(t)
    \/ StopStorage(t)
    \/ Leave(t)
    \/ CloseSocket(t)
    \/ Finish(t)

----------------------------------------------------------------------------
\* Phones, cards, calls and the other tasks come and go.
Change ==
    /\ world' \in Worlds
    /\ UNCHANGED <<taskRun, threadRun, ethId, arg, fd, threads, ui, history>>

\* The Tuya library ends an event that has lasted too long.
EventExpires ==
    /\ recording
    /\ recording' = FALSE
    /\ skipped' = FALSE
    /\ UNCHANGED <<taskRun, threadRun, ethId, arg, fd, pc, src, ss, warm,
                   posted, world, ui, history>>

\* tuya_stream_storage_thread comes round to the semaphore.
UploaderWakes ==
    /\ posted
    /\ posted' = FALSE
    /\ UNCHANGED <<taskRun, threadRun, ethId, arg, fd, pc, src, ss, warm,
                   recording, skipped, world, ui, history>>

Call(id) == Open(id) \/ SwitchSame(id) \/ SwitchOther(id)

Next ==
    \/ Close
    \/ \E id \in Streams : Call(id)
    \/ WaitPoll
    \/ Start
    \/ \E t \in Threads : Thread(t) \/ Warm(t)
    \/ Change
    \/ EventExpires
    \/ UploaderWakes

Spec == Init /\ [][Next]_vars

\* Every thread keeps running; nothing is assumed of calls, of frames or of
\* the rest of the world.
FairSpec == Spec /\ \A t \in Threads : WF_vars(Thread(t))

----------------------------------------------------------------------------
TypeOK ==
    /\ taskRun \in BOOLEAN
    /\ threadRun \in BOOLEAN
    /\ ethId \in Streams \cup {NoStream}
    /\ arg \in Streams \cup {NoStream}
    /\ fd \in Streams \cup {NoStream}
    /\ pc \in [Threads -> {"free", "created", "begun", "adopted", "loop",
                           "leaving", "closed"}]
    /\ src \in [Threads -> Streams \cup {NoStream}]
    /\ ss \in [Threads -> {"IDLE", "ONGOING", "STOP", "FINISH"}]
    /\ warm \in [Threads -> BOOLEAN]
    /\ recording \in BOOLEAN
    /\ posted \in BOOLEAN
    /\ skipped \in BOOLEAN
    /\ world \in Worlds
    /\ ui \in [op : {"idle", "wait"}, id : Streams \cup {NoStream},
               polls : 0 .. Polls]
    /\ wanted \in Streams \cup {NoStream}
    /\ overtaken \in BOOLEAN
    /\ gaveUp \in BOOLEAN

\* Two receiving threads exist together only when a close overtook the start
\* of the first: thread_run, which the thread itself raises, protects every
\* other interleaving of opens, closes, switches and threads that linger.
Alone == ~overtaken => Cardinality(Threads \ At("free")) <= 1

\* After a switch or an open that did not give up the task runs, and the
\* thread in its loop receives the stream that was asked for last, on a socket
\* bound to it, under the id the other parts of the program compare with.  A
\* thread that a close overtook is excepted, and so is what it leaves: it sets
\* the id after the close has cleared it, and a switch to that id then takes
\* the new task for the old one.
RightStream ==
    ui = Idle /\ wanted # NoStream /\ ~overtaken /\ ~gaveUp =>
        /\ taskRun
        /\ \A t \in At("loop") :
            src[t] = wanted /\ fd = wanted /\ ethId = wanted

\* An event the cloud records never outlives the threads that started it,
\* even though it can be started after the task was closed: the loop is left
\* only when no event of the thread is going on.  (The exception is a stop
\* that comes while the upload thread has an earlier one still before it.)
EventsEnd ==
    recording /\ ~skipped =>
        \E t \in Threads : ss[t] = "ONGOING" /\ pc[t] = "loop"

\* The condition under which a closed thread stays in its loop: an event may
\* start but does not, for want of audio or of frames, which a closed task no
\* longer counts.
HeldBack ==
    \E t \in At("loop") : MayRecord(t) /\ ~(world.audio /\ warm[t])

\* Unless that condition lasts, the threads of a task that is closed for good
\* leave, and the next open need not give up.
ThreadsLeave == <>[]~HeldBack => (~taskRun ~> taskRun \/ Gone)

==============================================================================
