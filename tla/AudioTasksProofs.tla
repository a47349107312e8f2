-------------------------- MODULE AudioTasksProofs ---------------------------
(***************************************************************************)
(* Proofs about AudioTasks, for any devices, number of threads and polls,  *)
(* and for both tasks of a talk in any order.                              *)
(*                                                                         *)
(* The invariant has two halves.  Held is true whatever has gone wrong:    *)
(* each flag, the id and the socket are set only as long as some thread is *)
(* where it will clear them, so that nothing is left of a mishap when all  *)
(* threads are gone.  Sound is what a task is without a mishap: one        *)
(* thread, and flags that say where it is.                                 *)
(***************************************************************************)
EXTENDS AudioTasks, SequenceTheorems, FiniteSetTheorems, TLAPS

Places == {"free", "created", "begun", "loop", "leaving", "closed", "ended"}

Held(k) ==
    /\ taskRun[k] => \E t \in Threads : pc[k][t] \in {"created", "begun", "loop"}
    /\ threadRun[k] => \E t \in Threads :
                          pc[k][t] \in {"begun", "loop", "leaving", "closed"}
    /\ fd[k] # NoId => \E t \in Threads : pc[k][t] \in {"loop", "leaving"}
    /\ ethId[k] # NoId => \E t \in Threads : pc[k][t] # "free"

One(k) ==
    \A t, u \in Threads : pc[k][t] # "free" /\ pc[k][u] # "free" => t = u

Sound(k) ==
    /\ One(k)
    /\ \A t \in Threads :
          /\ pc[k][t] = "created" => taskRun[k]
          /\ pc[k][t] \in {"begun", "loop", "leaving", "closed"} => threadRun[k]
          /\ pc[k][t] \in {"leaving", "closed", "ended"} => ~taskRun[k]
          /\ pc[k][t] = "loop" => fd[k] = ethId[k]
    /\ taskRun[k] => ethId[k] = wanted[k]

\* The open that waits for the thread of task k.
Opening(k) == ui.op = "wait" /\ Head(ui.todo) = k

Good(k) ==
    /\ Held(k)
    /\ Safe(k) => Sound(k)
    /\ Safe(k) /\ wanted[k] # NoId /\ ~Opening(k) => taskRun[k]
    /\ Opening(k) => ~taskRun[k] /\ wanted[k] = ui.dev

IInv == TypeOK /\ \A k \in Tasks : Good(k)

----------------------------------------------------------------------------
\* The table of audio_talk_open has an operation for each task, and for
\* nothing else.
LEMMA OrderFacts == TaskOrder \in Seq(Tasks) /\ TaskOrder # <<>>
<1>1. TaskOrder \in Seq({"send", "receive"}) /\ TaskOrder # <<>>
  BY AudioAssumption
<1>2. Len(TaskOrder) \in Nat /\ DOMAIN TaskOrder = 1 .. Len(TaskOrder)
  BY <1>1
<1>3. \A i \in 1 .. Len(TaskOrder) : TaskOrder[i] \in Tasks
  BY <1>2 DEF Tasks
<1>4. TaskOrder = [i \in 1 .. Len(TaskOrder) |-> TaskOrder[i]]
  BY <1>1
<1>. QED
  BY <1>1, <1>2, <1>3, <1>4

\* The next operation is on a task, and the call of the user interface stays
\* well formed.
LEMMA NextTaskFacts ==
    ASSUME TypeOK, ui.op # "idle"
    PROVE  /\ Head(ui.todo) \in Tasks
           /\ NextTask \in [op : {"idle", "compare", "wait"},
                            dev : Devices \cup {NoId},
                            todo : Seq(Tasks),
                            polls : 0 .. Polls]
           /\ NextTask.op \in {"idle", "compare"}
           /\ NextTask.op # "idle" => NextTask.todo # <<>> /\ NextTask.dev # NoId
<1>1. ui.todo \in Seq(Tasks) /\ ui.todo # <<>> /\ Polls \in Nat
  BY AudioAssumption DEF TypeOK
<1>2. /\ Head(ui.todo) \in Tasks /\ Tail(ui.todo) \in Seq(Tasks)
      /\ Len(Tail(ui.todo)) = Len(ui.todo) - 1
  BY <1>1, HeadTailProperties
<1>3. Len(ui.todo) \in Nat \ {0} /\ Len(<<>>) = 0 /\ <<>> \in Seq(Tasks)
  BY <1>1, EmptySeq
<1>4. CASE Len(ui.todo) = 1
  <2>1. NextTask = Idle
    BY <1>4 DEF NextTask
  <2>. QED
    BY <1>1, <1>2, <1>3, <2>1 DEF Idle
<1>5. CASE Len(ui.todo) # 1
  <2>1. NextTask = [ui EXCEPT !.op = "compare", !.todo = Tail(ui.todo), !.polls = 0]
    BY <1>5 DEF NextTask
  <2>2. Len(Tail(ui.todo)) # 0
    BY <1>2, <1>3, <1>5
  <2>3. Tail(ui.todo) # <<>>
    BY <2>2, <1>3
  <2>4. /\ ui.dev \in Devices \cup {NoId} /\ ui.dev # NoId
        /\ DOMAIN ui = {"op", "dev", "todo", "polls"}
    BY DEF TypeOK
  <2>5. NextTask = [op |-> "compare", dev |-> ui.dev, todo |-> Tail(ui.todo), polls |-> 0]
    BY <2>1, <2>4 DEF TypeOK
  <2>. QED
    BY <1>1, <1>2, <2>3, <2>4, <2>5
<1>. QED
  BY <1>4, <1>5

----------------------------------------------------------------------------
\* What a step leaves alone stays good.
Untouched(j) ==
    /\ taskRun'[j] = taskRun[j]
    /\ threadRun'[j] = threadRun[j]
    /\ ethId'[j] = ethId[j]
    /\ fd'[j] = fd[j]
    /\ pc'[j] = pc[j]
    /\ wanted'[j] = wanted[j]
    /\ hazard'[j] = hazard[j]
    /\ Opening(j)' <=> Opening(j)
    /\ Opening(j) => ui'.dev = ui.dev

LEMMA Elsewhere ==
    ASSUME NEW j \in Tasks, Good(j), Untouched(j)
    PROVE  Good(j)'
<1>1. Held(j)'
  BY DEF Good, Untouched, Held
<1>2. Safe(j) => Sound(j)'
  BY DEF Good, Untouched, Sound, One
<1>3. Safe(j)' <=> Safe(j)
  BY DEF Untouched, Safe
<1>. QED
  BY <1>1, <1>2, <1>3 DEF Good, Untouched

LEMMA InitGood == Init => IInv
<1>. SUFFICES ASSUME Init PROVE IInv
  OBVIOUS
<1>1. TypeOK
  <2>1. <<>> \in Seq(Tasks) /\ Polls \in Nat
    BY AudioAssumption, EmptySeq
  <2>. QED
    BY <2>1 DEF Init, TypeOK, Idle
<1>2. ASSUME NEW k \in Tasks PROVE Good(k)
  BY <1>2 DEF Init, Good, Held, Sound, One, Safe, Opening, Idle
<1>. QED
  BY <1>1, <1>2 DEF IInv

\* A thread moves one place and changes at most one of the shared variables.
LEMMA StepFacts ==
    ASSUME TypeOK, NEW k \in Tasks, NEW t \in Threads, NEW from, NEW to \in Places,
           Step(k, t, from, to)
    PROVE  /\ pc' \in [Tasks -> [Threads -> Places]]
           /\ pc[k][t] = from /\ pc'[k][t] = to
           /\ \A u \in Threads : u # t => pc'[k][u] = pc[k][u]
           /\ \A j \in Tasks : j # k => pc'[j] = pc[j]
           /\ UNCHANGED <<ui, wanted, hazard>>
  BY DEF TypeOK, Step, Places

LEMMA ThreadGood ==
    ASSUME IInv, NEW k \in Tasks, NEW t \in Threads, Thread(k, t)
    PROVE  IInv'
<1>. USE DEF IInv
<1>1. ASSUME NEW j \in Tasks, j # k PROVE Good(j)'
  <2>1. Untouched(j)
    BY <1>1 DEF TypeOK, Untouched, Opening, Thread, Begin, OpenSocket, LeaveLoop,
                CloseSocket, Finish, ForgetId, Step, shared
  <2>. QED
    BY <2>1, Elsewhere
<1>2. CASE Begin(k, t)
  <2>1. Step(k, t, "created", "begun")
    BY <1>2 DEF Begin
  <2>2. /\ pc[k][t] = "created" /\ pc'[k][t] = "begun"
        /\ \A u \in Threads : u # t => pc'[k][u] = pc[k][u]
        /\ UNCHANGED <<ui, wanted, hazard>>
    BY <2>1, StepFacts DEF Places
  <2>3. threadRun'[k] = TRUE /\ UNCHANGED <<taskRun, ethId, fd>>
    BY <1>2 DEF Begin, TypeOK, shared
  <2>4. Good(k)'
    BY <2>2, <2>3 DEF Good, Held, Sound, One, Safe, Opening
  <2>5. TypeOK'
    BY <1>2, <2>1, StepFacts DEF Begin, TypeOK, Places, shared
  <2>. QED
    BY <1>1, <2>4, <2>5
<1>3. CASE OpenSocket(k, t)
  <2>1. Step(k, t, "begun", "loop")
    BY <1>3 DEF OpenSocket
  <2>2. /\ pc[k][t] = "begun" /\ pc'[k][t] = "loop"
        /\ \A u \in Threads : u # t => pc'[k][u] = pc[k][u]
        /\ UNCHANGED <<ui, wanted, hazard>>
    BY <2>1, StepFacts DEF Places
  <2>3. fd'[k] = (IF fd[k] = NoId THEN ethId[k] ELSE fd[k]) /\ UNCHANGED <<taskRun, threadRun, ethId>>
    BY <1>3 DEF OpenSocket, TypeOK, shared
  <2>4. Good(k)'
    BY <2>2, <2>3 DEF Good, Held, Sound, One, Safe, Opening
  <2>5. TypeOK'
    BY <1>3, <2>1, StepFacts DEF OpenSocket, TypeOK, Places, shared
  <2>. QED
    BY <1>1, <2>4, <2>5
<1>4. CASE LeaveLoop(k, t)
  <2>1. Step(k, t, "loop", "leaving")
    BY <1>4 DEF LeaveLoop
  <2>2. /\ pc[k][t] = "loop" /\ pc'[k][t] = "leaving"
        /\ \A u \in Threads : u # t => pc'[k][u] = pc[k][u]
        /\ UNCHANGED <<ui, wanted, hazard>>
    BY <2>1, StepFacts DEF Places
  <2>3. ~taskRun[k] /\ UNCHANGED <<taskRun, threadRun, ethId, fd>>
    BY <1>4 DEF LeaveLoop, TypeOK, shared
  <2>4. Good(k)'
    BY <2>2, <2>3 DEF Good, Held, Sound, One, Safe, Opening
  <2>5. TypeOK'
    BY <1>4, <2>1, StepFacts DEF LeaveLoop, TypeOK, Places, shared
  <2>. QED
    BY <1>1, <2>4, <2>5
<1>5. CASE CloseSocket(k, t)
  <2>1. Step(k, t, "leaving", "closed")
    BY <1>5 DEF CloseSocket
  <2>2. /\ pc[k][t] = "leaving" /\ pc'[k][t] = "closed"
        /\ \A u \in Threads : u # t => pc'[k][u] = pc[k][u]
        /\ UNCHANGED <<ui, wanted, hazard>>
    BY <2>1, StepFacts DEF Places
  <2>3. fd'[k] = NoId /\ UNCHANGED <<taskRun, threadRun, ethId>>
    BY <1>5 DEF CloseSocket, TypeOK, shared
  <2>4. Good(k)'
    BY <2>2, <2>3 DEF Good, Held, Sound, One, Safe, Opening
  <2>5. TypeOK'
    BY <1>5, <2>1, StepFacts DEF CloseSocket, TypeOK, Places, shared
  <2>. QED
    BY <1>1, <2>4, <2>5
<1>6. CASE Finish(k, t)
  <2>1. Step(k, t, "closed", "ended")
    BY <1>6 DEF Finish
  <2>2. /\ pc[k][t] = "closed" /\ pc'[k][t] = "ended"
        /\ \A u \in Threads : u # t => pc'[k][u] = pc[k][u]
        /\ UNCHANGED <<ui, wanted, hazard>>
    BY <2>1, StepFacts DEF Places
  <2>3. threadRun'[k] = FALSE /\ UNCHANGED <<taskRun, ethId, fd>>
    BY <1>6 DEF Finish, TypeOK, shared
  <2>4. Good(k)'
    BY <2>2, <2>3 DEF Good, Held, Sound, One, Safe, Opening
  <2>5. TypeOK'
    BY <1>6, <2>1, StepFacts DEF Finish, TypeOK, Places, shared
  <2>. QED
    BY <1>1, <2>4, <2>5
<1>7. CASE ForgetId(k, t)
  <2>1. Step(k, t, "ended", "free")
    BY <1>7 DEF ForgetId
  <2>2. /\ pc[k][t] = "ended" /\ pc'[k][t] = "free"
        /\ \A u \in Threads : u # t => pc'[k][u] = pc[k][u]
        /\ UNCHANGED <<ui, wanted, hazard>>
    BY <2>1, StepFacts DEF Places
  <2>3. ethId'[k] = NoId /\ UNCHANGED <<taskRun, threadRun, fd>>
    BY <1>7 DEF ForgetId, TypeOK, shared
  <2>4. Good(k)'
    BY <2>2, <2>3 DEF Good, Held, Sound, One, Safe, Opening
  <2>5. TypeOK'
    BY <1>7, <2>1, StepFacts DEF ForgetId, TypeOK, Places, shared
  <2>. QED
    BY <1>1, <2>4, <2>5
<1>. QED
  BY <1>2, <1>3, <1>4, <1>5, <1>6, <1>7 DEF Thread

\* The calls of the user interface look at one task at a time.
LEMMA HeadFacts ==
    ASSUME TypeOK, ui.op # "idle"
    PROVE  /\ Head(ui.todo) \in Tasks
           /\ \A j \in Tasks : ui' = NextTask => ~Opening(j)'
  BY NextTaskFacts DEF Opening

\* Without threads nothing is left of an earlier session.
LEMMA GoneFacts ==
    ASSUME NEW k \in Tasks, Held(k), Gone(k)
    PROVE  /\ ~taskRun[k] /\ ~threadRun[k] /\ fd[k] = NoId /\ ethId[k] = NoId
           /\ \A t \in Threads : pc[k][t] = "free"
  BY DEF Held, Gone, At

LEMMA CompareSameGood ==
    ASSUME IInv, NEW k \in Tasks, CompareSame(k)
    PROVE  IInv'
<1>. USE DEF IInv
<1>1. TypeOK'
  BY NextTaskFacts DEF CompareSame, TypeOK, Outlived, shared
<1>2. ui' = NextTask /\ k = Head(ui.todo) /\ ui.op = "compare" /\ ui.op # "idle"
  BY DEF CompareSame
<1>3. \A j \in Tasks : ~Opening(j)' /\ ~Opening(j)
  BY <1>2, HeadFacts DEF Opening
<1>4. ASSUME NEW j \in Tasks, j # k PROVE Good(j)'
  <2>1. Untouched(j)
    BY <1>3, <1>4 DEF TypeOK, Untouched, CompareSame, shared
  <2>. QED
    BY <2>1, Elsewhere
<1>5. Good(k)'
  <2>1. /\ UNCHANGED <<taskRun, threadRun, ethId, fd, pc>>
        /\ ethId[k] = ui.dev /\ wanted'[k] = ui.dev
        /\ hazard'[k] = IF taskRun[k] THEN Outlived(k) ELSE "same_id"
    BY DEF CompareSame, TypeOK, shared
  <2>2. Held(k)'
    BY <2>1 DEF Good, Held
  <2>3. ASSUME Safe(k)' PROVE taskRun[k] /\ Safe(k)
    <3>1. taskRun[k] /\ Outlived(k) = "none"
      BY <2>1, <2>3 DEF Safe
    <3>2. ~Gone(k)
      BY <3>1, GoneFacts DEF Good
    <3>. QED
      BY <3>1, <3>2 DEF Outlived, Safe
  <2>4. Safe(k)' => Sound(k)'
    BY <2>1, <2>3 DEF Good, Sound, One
  <2>. QED
    BY <1>3, <2>1, <2>2, <2>3, <2>4 DEF Good
<1>. QED
  BY <1>1, <1>4, <1>5

LEMMA CompareOtherGood ==
    ASSUME IInv, NEW k \in Tasks, CompareOther(k)
    PROVE  IInv'
<1>. USE DEF IInv
<1>1. TypeOK'
  <2>1. /\ ui' = [ui EXCEPT !.op = "wait", !.polls = Polls]
        /\ Polls \in 0 .. Polls
    BY AudioAssumption DEF CompareOther
  <2>2. /\ ui' \in [op : {"idle", "compare", "wait"}, dev : Devices \cup {NoId},
                    todo : Seq(Tasks), polls : 0 .. Polls]
        /\ ui'.todo # <<>> /\ ui'.dev # NoId
    BY <2>1 DEF TypeOK, CompareOther
  <2>. QED
    BY <2>2 DEF CompareOther, TypeOK, Outlived
<1>2. /\ ui.op = "compare" /\ k = Head(ui.todo)
      /\ ui'.op = "wait" /\ ui'.todo = ui.todo /\ ui'.dev = ui.dev
  BY DEF CompareOther, TypeOK
<1>3. \A j \in Tasks : ~Opening(j) /\ (Opening(j)' <=> j = k)
  BY <1>2 DEF Opening
<1>4. ASSUME NEW j \in Tasks, j # k PROVE Good(j)'
  <2>1. Untouched(j)
    BY <1>3, <1>4 DEF TypeOK, Untouched, CompareOther
  <2>. QED
    BY <2>1, Elsewhere
<1>5. Good(k)'
  <2>1. /\ UNCHANGED <<threadRun, ethId, fd, pc>>
        /\ taskRun'[k] = FALSE /\ wanted'[k] = ui.dev
        /\ hazard'[k] = IF At(k, "created") # {} THEN "overtaken" ELSE Outlived(k)
    BY DEF CompareOther, TypeOK
  <2>2. Held(k)'
    BY <2>1 DEF Good, Held
  <2>3. ASSUME Safe(k)' PROVE Sound(k)'
    <3>1. /\ \A t \in Threads : pc[k][t] # "created"
          /\ Outlived(k) = "none"
      BY <2>1, <2>3 DEF Safe, At
    <3>2. CASE Gone(k)
      BY <2>1, <3>2, GoneFacts DEF Good, Sound, One
    <3>3. CASE ~Gone(k)
      <4>1. Sound(k)
        BY <3>1, <3>3 DEF Outlived, Good, Safe
      <4>. QED
        BY <2>1, <3>1, <4>1 DEF Sound, One
    <3>. QED
      BY <3>2, <3>3
  <2>. QED
    BY <1>2, <1>3, <2>1, <2>2, <2>3 DEF Good
<1>. QED
  BY <1>1, <1>4, <1>5

LEMMA WaitPollGood ==
    ASSUME IInv, NEW k \in Tasks, WaitPoll(k)
    PROVE  IInv'
<1>. USE DEF IInv
<1>1. /\ UNCHANGED <<taskRun, threadRun, ethId, fd, pc, wanted>>
      /\ ui.op = "wait" /\ k = Head(ui.todo)
  BY DEF WaitPoll, shared
<1>2. CASE ui.polls > 1
  <2>1. ui' = [ui EXCEPT !.polls = ui.polls - 1] /\ UNCHANGED hazard
    BY <1>2 DEF WaitPoll
  <2>2. ui'.op = ui.op /\ ui'.todo = ui.todo /\ ui'.dev = ui.dev
    BY <2>1 DEF TypeOK
  <2>3. TypeOK'
    <3>1. ui.polls - 1 \in 0 .. Polls
      BY <1>2, AudioAssumption DEF TypeOK
    <3>2. ui' \in [op : {"idle", "compare", "wait"}, dev : Devices \cup {NoId},
                  todo : Seq(Tasks), polls : 0 .. Polls]
      BY <2>1, <3>1 DEF TypeOK
    <3>. QED
      BY <1>1, <2>1, <2>2, <3>2 DEF TypeOK
  <2>4. ASSUME NEW j \in Tasks PROVE Good(j)'
    <3>1. Untouched(j)
      BY <1>1, <2>1, <2>2 DEF Untouched, Opening
    <3>. QED
      BY <3>1, Elsewhere
  <2>. QED
    BY <2>3, <2>4
<1>3. CASE ~(ui.polls > 1)
  <2>1. ui' = NextTask /\ hazard' = [hazard EXCEPT ![k] = "timeout"]
    BY <1>3 DEF WaitPoll
  <2>2. TypeOK'
    BY <1>1, <2>1, NextTaskFacts DEF TypeOK
  <2>3. \A j \in Tasks : ~Opening(j)' /\ (Opening(j) => j = k)
    BY <1>1, <2>1, HeadFacts DEF Opening
  <2>4. ASSUME NEW j \in Tasks, j # k PROVE Good(j)'
    <3>1. Untouched(j)
      BY <1>1, <2>1, <2>3, <2>4 DEF Untouched, TypeOK
    <3>. QED
      BY <3>1, Elsewhere
  <2>5. Good(k)'
    <3>1. ~Safe(k)'
      BY <2>1 DEF Safe, TypeOK
    <3>2. Held(k)'
      BY <1>1 DEF Good, Held
    <3>. QED
      BY <2>3, <3>1, <3>2 DEF Good
  <2>. QED
    BY <2>2, <2>4, <2>5
<1>. QED
  BY <1>2, <1>3

LEMMA StartGood ==
    ASSUME IInv, NEW k \in Tasks, Start(k)
    PROVE  IInv'
<1>. USE DEF IInv
<1>1. /\ UNCHANGED <<threadRun, fd, wanted>>
      /\ ui.op = "wait" /\ k = Head(ui.todo) /\ ui' = NextTask /\ ~threadRun[k]
      /\ ui.dev \in Devices
  BY DEF Start, TypeOK
<1>2. PICK t \in Threads :
         pc[k][t] = "free" /\ pc' = [pc EXCEPT ![k][t] = "created"]
  BY DEF Start, At
<1>3. TypeOK'
  <2>1. ethId' = [ethId EXCEPT ![k] = ui.dev] /\ taskRun' = [taskRun EXCEPT ![k] = TRUE]
    BY DEF Start
  <2>2. hazard' \in [Tasks -> {"none", "same_id", "unforgotten", "overtaken", "timeout"}]
    BY DEF Start, TypeOK
  <2>3. pc' \in [Tasks -> [Threads -> Places]]
    BY <1>2 DEF TypeOK, Places
  <2>. QED
    BY <1>1, <2>1, <2>2, <2>3, NextTaskFacts DEF TypeOK, Places
<1>4. \A j \in Tasks : ~Opening(j)' /\ (Opening(j) <=> j = k)
  BY <1>1, HeadFacts DEF Opening
<1>5. ASSUME NEW j \in Tasks, j # k PROVE Good(j)'
  <2>1. Untouched(j)
    BY <1>1, <1>2, <1>4, <1>5 DEF Untouched, TypeOK, Start
  <2>. QED
    BY <2>1, Elsewhere
<1>6. Good(k)'
  <2>1. /\ pc'[k][t] = "created"
        /\ \A u \in Threads : u # t => pc'[k][u] = pc[k][u]
        /\ ethId'[k] = ui.dev /\ taskRun'[k] = TRUE
        /\ wanted[k] = ui.dev /\ ~taskRun[k]
        /\ hazard'[k] = IF At(k, "ended") # {} THEN "unforgotten" ELSE hazard[k]
    BY <1>2, <1>4 DEF TypeOK, Start, Good
  <2>2. Held(k)'
    BY <1>1, <1>2, <2>1 DEF Good, Held
  <2>3. ASSUME Safe(k)' PROVE Sound(k)'
    <3>1. Sound(k) /\ \A u \in Threads : pc[k][u] # "ended"
      BY <2>1, <2>3 DEF Safe, At, Good
    <3>2. \A u \in Threads : pc[k][u] = "free"
      BY <1>1, <2>1, <3>1 DEF Sound, TypeOK
    <3>. QED
      BY <1>1, <2>1, <3>2 DEF Sound, One
  <2>. QED
    BY <1>4, <2>1, <2>2, <2>3 DEF Good
<1>. QED
  BY <1>3, <1>5, <1>6

LEMMA TalkGood ==
    ASSUME IInv, (\E dev \in Devices : TalkOpen(dev)) \/ TalkClose
    PROVE  IInv'
<1>. USE DEF IInv
<1>1. ASSUME NEW dev \in Devices, TalkOpen(dev) PROVE IInv'
  <2>1. TypeOK'
    BY <1>1, OrderFacts, AudioAssumption DEF TalkOpen, TypeOK, shared
  <2>2. \A j \in Tasks : ~Opening(j) /\ ~Opening(j)'
    BY <1>1 DEF TalkOpen, Opening, Idle
  <2>3. ASSUME NEW j \in Tasks PROVE Good(j)'
    <3>1. Untouched(j)
      BY <1>1, <2>2 DEF TalkOpen, Untouched, shared
    <3>. QED
      BY <3>1, Elsewhere
  <2>. QED
    BY <2>1, <2>3
<1>2. ASSUME TalkClose PROVE IInv'
  <2>1. TypeOK'
    BY <1>2 DEF TalkClose, TypeOK
  <2>2. ASSUME NEW k \in Tasks PROVE Good(k)'
    <3>1. /\ UNCHANGED <<threadRun, ethId, fd, pc>>
          /\ taskRun'[k] = FALSE /\ wanted'[k] = NoId
          /\ hazard'[k] = IF taskRun[k] /\ At(k, "created") # {} THEN "overtaken"
                          ELSE hazard[k]
          /\ ~Opening(k)'
      BY <1>2 DEF TalkClose, TypeOK, Opening, Idle
    <3>2. Held(k)'
      BY <3>1 DEF Good, Held
    <3>3. ASSUME Safe(k)' PROVE Sound(k)'
      <4>1. Sound(k) /\ \A t \in Threads : pc[k][t] # "created"
        BY <3>1, <3>3 DEF Safe, At, Good, Sound
      <4>. QED
        BY <3>1, <4>1 DEF Sound, One
    <3>. QED
      BY <3>1, <3>2, <3>3 DEF Good
  <2>. QED
    BY <2>1, <2>2
<1>. QED
  BY <1>1, <1>2

----------------------------------------------------------------------------
\* The invariant holds in every state of audio_talk_open, audio_talk_close and
\* the threads they start.
THEOREM AlwaysGood == Spec => []IInv
<1>1. IInv /\ [Next]_vars => IInv'
  <2>. SUFFICES ASSUME IInv, [Next]_vars PROVE IInv'
    OBVIOUS
  <2>1. CASE Ui
    BY <2>1, TalkGood, CompareSameGood, CompareOtherGood, WaitPollGood, StartGood DEF Ui
  <2>2. CASE \E k \in Tasks, t \in Threads : Thread(k, t)
    BY <2>2, ThreadGood
  <2>3. CASE UNCHANGED vars
    <3>1. TypeOK'
      BY <2>3 DEF vars, IInv, TypeOK
    <3>2. ASSUME NEW j \in Tasks PROVE Good(j)'
      <4>1. Untouched(j)
        BY <2>3 DEF vars, Untouched, Opening
      <4>. QED
        BY <4>1, Elsewhere DEF IInv
    <3>. QED
      BY <3>1, <3>2 DEF IInv
  <2>. QED
    BY <2>1, <2>2, <2>3 DEF Next
<1>. QED
  BY <1>1, InitGood, PTL DEF Spec

\* The flags, ids, sockets and threads of both tasks have their types.
THEOREM TypeCorrect == Spec => []TypeOK
<1>1. IInv => TypeOK
  BY DEF IInv
<1>. QED
  BY <1>1, AlwaysGood, PTL

\* A task that was asked for runs on the id asked for, unless one of the four
\* mishaps of audio_talk_open came between.
THEOREM AlwaysConnected == Spec => []Connected
<1>1. IInv => Connected
  <2>. SUFFICES ASSUME IInv, ui = Idle, NEW k \in Tasks, wanted[k] # NoId, Safe(k)
                PROVE  taskRun[k] /\ ethId[k] = wanted[k]
    BY DEF Connected
  <2>1. ~Opening(k)
    BY DEF Opening, Idle
  <2>. QED
    BY <2>1 DEF IInv, Good, Sound
<1>. QED
  BY <1>1, AlwaysGood, PTL

\* At most one thread of a task exists, unless a mishap brought two together.
THEOREM AlwaysAlone == Spec => []Alone
<1>1. IInv => Alone
  <2>. SUFFICES ASSUME IInv, NEW k \in Tasks, Safe(k)
                PROVE  Cardinality(Threads \ At(k, "free")) <= 1
    BY DEF Alone
  <2>. DEFINE S == Threads \ At(k, "free")
  <2>1. \A t, u \in S : t = u
    BY DEF IInv, Good, Sound, One, At
  <2>2. CASE S = {}
    BY <2>2, FS_EmptySet
  <2>3. CASE S # {}
    <3>1. PICK t \in S : S = {t}
      BY <2>1, <2>3
    <3>. QED
      BY <3>1, FS_Singleton
  <2>. QED
    BY <2>2, <2>3
<1>. QED
  BY <1>1, AlwaysGood, PTL

\* The thread of an open task has the socket of the device asked for.
THEOREM SocketIsRight == Spec => []RightSocket
<1>1. IInv => RightSocket
  BY DEF IInv, Good, Sound, RightSocket, At
<1>. QED
  BY <1>1, AlwaysGood, PTL

\* Whatever went wrong, a task without threads that is closed has forgotten
\* its id, so that the next open starts it.
THEOREM OpenStartsAgain == Spec => []NextOpenStarts
<1>1. IInv => NextOpenStarts
  BY DEF IInv, Good, Held, NextOpenStarts, Gone, At
<1>. QED
  BY <1>1, AlwaysGood, PTL

\* More than that: where no thread of a task is left the task is as when the
\* unit was started, no flag up, no socket open, no id kept, whatever mishaps
\* its sessions had.  So a task that is open always has a thread to serve it.
THEOREM NothingIsLeft ==
    Spec => [](\A k \in Tasks : Gone(k) =>
                 /\ ~taskRun[k] /\ ~threadRun[k]
                 /\ ethId[k] = NoId /\ fd[k] = NoId)
<1>1. ASSUME IInv, NEW k \in Tasks, Gone(k)
      PROVE  ~taskRun[k] /\ ~threadRun[k] /\ ethId[k] = NoId /\ fd[k] = NoId
  <2>1. \A t \in Threads : pc[k][t] = "free"
    BY <1>1 DEF Gone, At
  <2>. QED
    BY <1>1, <2>1 DEF IInv, Good, Held
<1>2. IInv => \A k \in Tasks : Gone(k) =>
                 /\ ~taskRun[k] /\ ~threadRun[k]
                 /\ ethId[k] = NoId /\ fd[k] = NoId
  BY <1>1
<1>. QED
  BY <1>2, AlwaysGood, PTL

==============================================================================
