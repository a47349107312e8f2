----------------------------- MODULE AudioTasks ------------------------------
(***************************************************************************)
(* The two network audio tasks of a talk, sending and receiving            *)
(* (src/src/api/network/network_audio_package.c), under the calls that     *)
(* open and close them (src/src/api/common/leo_monitor.c): audio_talk_open *)
(* looks at the id of each task and reopens the task when it is another    *)
(* device's; opening waits for the thread of the last session, starts a    *)
(* new one, detached; closing clears a flag and returns at once.           *)
(*                                                                         *)
(* One user-interface thread makes the calls.  A step of the model is one  *)
(* access to what the threads share: task_run, thread_run, the id and the  *)
(* socket.  The queue of the sending task is in module SendQueue.          *)
(*                                                                         *)
(* wanted and hazard are history variables.  hazard names what has gone    *)
(* wrong between a session and the threads that an earlier one left:       *)
(*   "same_id"      an open found the id of the session it wants on a task *)
(*                  that is closed and has not left yet, and did nothing;  *)
(*   "unforgotten"  an open found thread_run FALSE while the thread had    *)
(*                  still to clear the id;                                 *)
(*   "overtaken"    a close overtook the start of a thread;                *)
(*   "timeout"      an open gave up waiting.                               *)
(***************************************************************************)
EXTENDS Integers, Sequences, FiniteSets

CONSTANTS
    Devices,        \* ids of the devices talked to
    NoId,           \* the id before the first session, and after each: 0, -1
    TaskOrder,      \* the tasks in the order audio_talk_open runs them
    Threads,        \* bound: threads of one task that exist together
    Polls           \* polls of thread_run before an open gives up

ASSUME AudioAssumption ==
    /\ TaskOrder \in Seq({"send", "receive"}) \ {<<>>}
    /\ NoId \notin Devices
    /\ Threads # {}
    /\ Polls \in Nat \ {0}

Tasks == {TaskOrder[i] : i \in DOMAIN TaskOrder}

VARIABLES
    taskRun,        \* networK_audio_send_task_run and its receive twin
    threadRun,      \* network_audio_send_thread_run
    ethId,          \* network_audio_send_eth_id
    fd,             \* audio_package_send_fd: the id its socket is bound to
    pc,             \* where each thread of each task is
    ui,             \* the call the user-interface thread is in
    wanted,         \* history: the device of the last audio_talk_open
    hazard          \* history: see above

vars == <<taskRun, threadRun, ethId, fd, pc, ui, wanted, hazard>>
shared == <<taskRun, threadRun, ethId, fd>>

Idle == [op |-> "idle", dev |-> NoId, todo |-> <<>>, polls |-> 0]

Init ==
    /\ taskRun = [k \in Tasks |-> FALSE]
    /\ threadRun = [k \in Tasks |-> FALSE]
    /\ ethId = [k \in Tasks |-> NoId]
    /\ fd = [k \in Tasks |-> NoId]
    /\ pc = [k \in Tasks |-> [t \in Threads |-> "free"]]
    /\ ui = Idle
    /\ wanted = [k \in Tasks |-> NoId]
    /\ hazard = [k \in Tasks |-> "none"]

At(k, where) == {t \in Threads : pc[k][t] = where}
Gone(k) == At(k, "free") = Threads

----------------------------------------------------------------------------
\* The calls of the user-interface thread.

\* audio_talk_open: the operations run in the order of the table.
TalkOpen(dev) ==
    /\ ui = Idle
    /\ ui' = [op |-> "compare", dev |-> dev, todo |-> TaskOrder, polls |-> 0]
    /\ UNCHANGED <<shared, pc, wanted, hazard>>

\* The next operation of the table, or the return from audio_talk_open.
NextTask ==
    IF Len(ui.todo) = 1 THEN Idle
    ELSE [ui EXCEPT !.op = "compare", !.todo = Tail(@), !.polls = 0]

\* What is left of an old mishap when a task is compared.
Outlived(k) == IF Gone(k) THEN "none" ELSE hazard[k]

\* The id is the wanted one: the task is taken to be open.
CompareSame(k) ==
    /\ ui.op = "compare"
    /\ k = Head(ui.todo)
    /\ ethId[k] = ui.dev
    /\ wanted' = [wanted EXCEPT ![k] = ui.dev]
    /\ hazard' = [hazard EXCEPT ![k] =
                    IF taskRun[k] THEN Outlived(k) ELSE "same_id"]
    /\ ui' = NextTask
    /\ UNCHANGED <<shared, pc>>

\* Mutant: the open task of another device is not closed first, and the open
\* that follows returns at its first check.
CompareOtherNoClose(k) ==
    /\ ui.op = "compare"
    /\ k = Head(ui.todo)
    /\ ethId[k] # ui.dev
    /\ wanted' = [wanted EXCEPT ![k] = ui.dev]
    /\ hazard' = [hazard EXCEPT ![k] = Outlived(k)]
    /\ ui' = IF taskRun[k] THEN NextTask
             ELSE [ui EXCEPT !.op = "wait", !.polls = Polls]
    /\ UNCHANGED <<shared, pc>>

\* The id is another: close the task (a no-op when it is closed) and enter
\* the open, which now finds it closed.
CompareOther(k) ==
    /\ ui.op = "compare"
    /\ k = Head(ui.todo)
    /\ ethId[k] # ui.dev
    /\ taskRun' = [taskRun EXCEPT ![k] = FALSE]
    /\ wanted' = [wanted EXCEPT ![k] = ui.dev]
    /\ hazard' = [hazard EXCEPT ![k] =
                    IF At(k, "created") # {} THEN "overtaken" ELSE Outlived(k)]
    /\ ui' = [ui EXCEPT !.op = "wait", !.polls = Polls]
    /\ UNCHANGED <<threadRun, ethId, fd, pc>>

\* One poll of thread_run that finds the old thread still there.
WaitPoll(k) ==
    /\ ui.op = "wait"
    /\ k = Head(ui.todo)
    /\ threadRun[k]
    /\ IF ui.polls > 1
       THEN /\ ui' = [ui EXCEPT !.polls = @ - 1]
            /\ UNCHANGED hazard
       ELSE /\ ui' = NextTask
            /\ hazard' = [hazard EXCEPT ![k] = "timeout"]
    /\ UNCHANGED <<shared, pc, wanted>>

\* Mutant: the new session does not wait for the old thread.
StartAtOnce(k) ==
    /\ ui.op = "wait"
    /\ k = Head(ui.todo)
    /\ ethId' = [ethId EXCEPT ![k] = ui.dev]
    /\ taskRun' = [taskRun EXCEPT ![k] = TRUE]
    /\ \E t \in At(k, "free") : pc' = [pc EXCEPT ![k][t] = "created"]
    /\ hazard' = [hazard EXCEPT ![k] =
                    IF At(k, "ended") # {} THEN "unforgotten" ELSE @]
    /\ ui' = NextTask
    /\ UNCHANGED <<threadRun, fd, wanted>>

\* The poll that finds it gone: set the id, raise task_run, create the thread.
Start(k) ==
    /\ ui.op = "wait"
    /\ k = Head(ui.todo)
    /\ ~threadRun[k]
    /\ ethId' = [ethId EXCEPT ![k] = ui.dev]
    /\ taskRun' = [taskRun EXCEPT ![k] = TRUE]
    /\ \E t \in At(k, "free") : pc' = [pc EXCEPT ![k][t] = "created"]
    /\ hazard' = [hazard EXCEPT ![k] =
                    IF At(k, "ended") # {} THEN "unforgotten" ELSE @]
    /\ ui' = NextTask
    /\ UNCHANGED <<threadRun, fd, wanted>>

\* audio_talk_close: both tasks are told to stop; the ids stay.
TalkClose ==
    /\ ui = Idle
    /\ taskRun' = [k \in Tasks |-> FALSE]
    /\ wanted' = [k \in Tasks |-> NoId]
    /\ hazard' = [k \in Tasks |->
                    IF taskRun[k] /\ At(k, "created") # {} THEN "overtaken"
                    ELSE hazard[k]]
    /\ UNCHANGED <<threadRun, ethId, fd, pc, ui>>

----------------------------------------------------------------------------
\* A thread of task k.

Step(k, t, from, to) ==
    /\ pc[k][t] = from
    /\ pc' = [pc EXCEPT ![k][t] = to]
    /\ UNCHANGED <<ui, wanted, hazard>>

Begin(k, t) ==
    /\ Step(k, t, "created", "begun")
    /\ threadRun' = [threadRun EXCEPT ![k] = TRUE]
    /\ UNCHANGED <<taskRun, ethId, fd>>

\* The socket is opened for the id of the moment, unless one is open.
OpenSocket(k, t) ==
    /\ Step(k, t, "begun", "loop")
    /\ fd' = IF fd[k] = NoId THEN [fd EXCEPT ![k] = ethId[k]] ELSE fd
    /\ UNCHANGED <<taskRun, threadRun, ethId>>

LeaveLoop(k, t) ==
    /\ ~taskRun[k]
    /\ Step(k, t, "loop", "leaving")
    /\ UNCHANGED shared

\* Mutants: the socket is left open; a thread whose socket is closed already
\* does not go on.
CloseSocketNot(k, t) ==
    /\ Step(k, t, "leaving", "closed")
    /\ UNCHANGED shared
CloseSocketMine(k, t) ==
    /\ fd[k] # NoId
    /\ Step(k, t, "leaving", "closed")
    /\ fd' = [fd EXCEPT ![k] = NoId]
    /\ UNCHANGED <<taskRun, threadRun, ethId>>

CloseSocket(k, t) ==
    /\ Step(k, t, "leaving", "closed")
    /\ fd' = [fd EXCEPT ![k] = NoId]
    /\ UNCHANGED <<taskRun, threadRun, ethId>>

Finish(k, t) ==
    /\ Step(k, t, "closed", "ended")
    /\ threadRun' = [threadRun EXCEPT ![k] = FALSE]
    /\ UNCHANGED <<taskRun, ethId, fd>>

\* Mutant: the id is not cleared.
ForgetIdNot(k, t) ==
    /\ Step(k, t, "ended", "free")
    /\ UNCHANGED shared

\* The last statement of the thread comes after thread_run is cleared.
ForgetId(k, t) ==
    /\ Step(k, t, "ended", "free")
    /\ ethId' = [ethId EXCEPT ![k] = NoId]
    /\ UNCHANGED <<taskRun, threadRun, fd>>

Thread(k, t) ==
    \/ Begin(k, t)
    \/ OpenSocket(k, t)
    \/ LeaveLoop(k, t)
    \/ CloseSocket(k, t)
    \/ Finish(k, t)
    \/ ForgetId(k, t)

Ui ==
    \/ \E dev \in Devices : TalkOpen(dev)
    \/ \E k \in Tasks :
        \/ CompareSame(k)
        \/ CompareOther(k)
        \/ WaitPoll(k)
        \/ Start(k)
    \/ TalkClose

Next == Ui \/ \E k \in Tasks, t \in Threads : Thread(k, t)

Spec == Init /\ [][Next]_vars

\* Threads run; nobody has to make a call.
FairSpec ==
    Spec /\ \A k \in Tasks, t \in Threads : WF_vars(Thread(k, t))

----------------------------------------------------------------------------
TypeOK ==
    /\ taskRun \in [Tasks -> BOOLEAN]
    /\ threadRun \in [Tasks -> BOOLEAN]
    /\ ethId \in [Tasks -> Devices \cup {NoId}]
    /\ fd \in [Tasks -> Devices \cup {NoId}]
    /\ pc \in [Tasks -> [Threads -> {"free", "created", "begun", "loop",
                                     "leaving", "closed", "ended"}]]
    /\ ui \in [op : {"idle", "compare", "wait"},
               dev : Devices \cup {NoId},
               todo : Seq(Tasks),
               polls : 0 .. Polls]
    /\ ui.op # "idle" => ui.todo # <<>> /\ ui.dev # NoId
    /\ wanted \in [Tasks -> Devices \cup {NoId}]
    /\ hazard \in [Tasks -> {"none", "same_id", "unforgotten", "overtaken",
                             "timeout"}]

Safe(k) == hazard[k] = "none"

\* Between calls, a task that was asked for is running and carries the id of
\* the device it was asked for, unless one of the four named mishaps came
\* between it and the threads of earlier sessions: the ids compared in
\* audio_task_open, the wait in open and the order of the last statements of
\* the thread leave no other way to lose it.
Connected ==
    ui = Idle =>
        \A k \in Tasks :
            wanted[k] # NoId /\ Safe(k) =>
                taskRun[k] /\ ethId[k] = wanted[k]

\* Two threads of one task exist together only after such a mishap: the wait
\* on thread_run otherwise keeps a new thread from starting beside an old one.
Alone ==
    \A k \in Tasks :
        Safe(k) => Cardinality(Threads \ At(k, "free")) <= 1

\* A thread of an open task works on a socket bound to the device asked for,
\* not on one left by an earlier session.
RightSocket ==
    \A k \in Tasks :
        taskRun[k] /\ At(k, "loop") # {} /\ Safe(k) => fd[k] = wanted[k]

\* When a task is closed and not reopened its threads all leave, whatever
\* mishap brought them together.
ThreadsLeave ==
    \A k \in Tasks : ~taskRun[k] ~> taskRun[k] \/ Gone(k)

\* After a mishap the tasks do not stay wrong: once the threads have left, the
\* id is forgotten, so that the next audio_talk_open of any device starts the
\* task again.
NextOpenStarts ==
    \A k \in Tasks : Gone(k) /\ ~taskRun[k] => ethId[k] = NoId

==============================================================================
