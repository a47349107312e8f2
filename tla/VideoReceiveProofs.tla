-------------------------- MODULE VideoReceiveProofs --------------------------
(***************************************************************************)
(* Proofs about VideoReceive, for any streams, threads, polls and worlds.  *)
(*                                                                         *)
(* The invariant has four parts.  Asking says what an open that waits has  *)
(* found: the task is closed, and one that returned has opened it or given *)
(* up.  Bound says who holds the socket.  Ongoing is EventsEnd.  Session   *)
(* is what holds until a close overtakes the start of a thread: one        *)
(* thread, shown by the flags, on the stream that was asked for last.      *)
(***************************************************************************)
EXTENDS VideoReceive, FiniteSetTheorems, TLAPS

Places == {"free", "created", "begun", "adopted", "loop", "leaving", "closed"}

Asking ==
    /\ \/ ui = Idle
       \/ /\ ui.op = "wait" /\ ui.id \in Streams /\ ui.id = wanted
          /\ ui.polls \in 1 .. Polls
    /\ ui.op = "wait" => ~taskRun
    /\ ui = Idle /\ wanted # NoStream /\ ~gaveUp => taskRun

Bound == fd # NoStream => \E t \in Threads : pc[t] \in {"loop", "leaving"}

Single ==
    /\ \A t, u \in Threads : pc[t] # "free" /\ pc[u] # "free" => t = u
    /\ \A t \in Threads :
          /\ pc[t] \in {"created", "begun"} => taskRun
          /\ pc[t] \notin {"free", "created"} => threadRun

\* Where the one thread is tells how far the new stream has got.
OnStream ==
    /\ taskRun => wanted # NoStream /\ arg = wanted /\ ethId \in {NoStream, wanted}
    /\ ~taskRun => ethId = NoStream
    /\ \A t \in Threads :
          /\ pc[t] \in {"created", "begun"} => ethId = NoStream
          /\ pc[t] = "adopted" => src[t] # NoStream
          /\ taskRun /\ pc[t] \in {"adopted", "loop"} => src[t] = wanted /\ ethId = wanted
          /\ taskRun /\ pc[t] = "loop" => fd = wanted

Session == ~overtaken => Single /\ OnStream

IInv == TypeOK /\ Asking /\ Bound /\ EventsEnd /\ Session

----------------------------------------------------------------------------
LEMMA InitGood == Init => IInv
<1>. SUFFICES ASSUME Init PROVE IInv
  OBVIOUS
<1>1. 0 \in 0 .. Polls
  BY ReceiveAssumption
<1>2. TypeOK
  BY <1>1, ZenonT(100) DEF Init, TypeOK, Idle
<1>3. Asking /\ Bound /\ EventsEnd /\ Session
  BY DEF Init, Asking, Bound, EventsEnd, Session, Single, OnStream, Idle
<1>. QED
  BY <1>2, <1>3 DEF IInv

\* A thread goes from one place to another.
LEMMA GotoFacts ==
    ASSUME TypeOK, NEW t \in Threads, NEW from, NEW to \in Places, Goto(t, from, to)
    PROVE  /\ pc' \in [Threads -> Places]
           /\ pc[t] = from /\ pc'[t] = to
           /\ \A u \in Threads : u # t => pc'[u] = pc[u]
  BY DEF TypeOK, Goto, Places

\* What a request may be.
LEMMA RequestType ==
    /\ Idle \in [op : {"idle", "wait"}, id : Streams \cup {NoStream}, polls : 0 .. Polls]
    /\ Idle.op = "idle"
    /\ \A id \in Streams :
          /\ [op |-> "wait", id |-> id, polls |-> Polls] \in
                [op : {"idle", "wait"}, id : Streams \cup {NoStream}, polls : 0 .. Polls]
          /\ [op |-> "wait", id |-> id, polls |-> Polls].op = "wait"
          /\ [op |-> "wait", id |-> id, polls |-> Polls].id = id
          /\ [op |-> "wait", id |-> id, polls |-> Polls].polls = Polls
          /\ [op |-> "wait", id |-> id, polls |-> Polls] # Idle
          /\ id # NoStream
    /\ Polls \in 1 .. Polls
<1>1. 0 \in 0 .. Polls /\ Polls \in 0 .. Polls /\ Polls \in 1 .. Polls
  BY ReceiveAssumption
<1>. QED
  BY <1>1, ReceiveAssumption DEF Idle

----------------------------------------------------------------------------
\* Calls of the user-interface thread.
LEMMA CloseGood ==
    ASSUME IInv, Close
    PROVE  IInv'
<1>. USE DEF IInv
<1>1. /\ UNCHANGED <<threadRun, arg, fd, pc, src, ss, warm, recording, posted, skipped,
                     world, ui, gaveUp>>
      /\ ui = Idle /\ wanted' = NoStream /\ taskRun' = FALSE /\ ethId' = NoStream
      /\ overtaken' = (overtaken \/ At("created") \cup At("begun") # {})
  BY DEF Close, Closed, threads, storage
<1>2. TypeOK'
  BY <1>1 DEF TypeOK
<1>3. Asking'
  BY <1>1, RequestType DEF Asking
<1>4. Bound' /\ EventsEnd'
  BY <1>1 DEF Bound, EventsEnd
<1>5. ASSUME ~overtaken' PROVE Single' /\ OnStream'
  <2>1. /\ Single /\ OnStream
        /\ \A t \in Threads : pc[t] \notin {"created", "begun"}
    BY <1>1, <1>5 DEF Session, At
  <2>. QED
    BY <1>1, <2>1 DEF Single, OnStream
<1>. QED
  BY <1>2, <1>3, <1>4, <1>5 DEF Session

LEMMA CallGood ==
    ASSUME IInv, NEW id \in Streams, Call(id)
    PROVE  IInv'
<1>. USE DEF IInv
<1>. DEFINE wait == [op |-> "wait", id |-> id, polls |-> Polls]
<1>1. /\ UNCHANGED <<threadRun, arg, fd, pc, src, ss, warm, recording, posted, skipped,
                     world, gaveUp>>
      /\ ui = Idle /\ wanted' = id
  BY DEF Call, Open, SwitchSame, SwitchOther, threads, storage
<1>2. \/ ui' = wait /\ UNCHANGED <<taskRun, ethId, overtaken>> /\ ~taskRun
      \/ /\ ui' = Idle /\ UNCHANGED <<taskRun, ethId, overtaken>> /\ taskRun /\ ethId = id
      \/ /\ ui' = wait /\ taskRun' = FALSE /\ ethId' = NoStream
         /\ overtaken' = (overtaken \/ At("created") \cup At("begun") # {})
  BY DEF Call, Open, SwitchSame, SwitchOther, Closed, TypeOK
<1>3. /\ wait \in [op : {"idle", "wait"}, id : Streams \cup {NoStream}, polls : 0 .. Polls]
      /\ wait.op = "wait" /\ wait.id = id /\ wait # Idle
      /\ wait.polls \in 1 .. Polls
  BY RequestType
<1>. HIDE DEF wait
<1>4. TypeOK'
  <2>1. ui' \in [op : {"idle", "wait"}, id : Streams \cup {NoStream}, polls : 0 .. Polls]
    BY <1>2, <1>3, RequestType
  <2>2. /\ taskRun' \in BOOLEAN /\ overtaken' \in BOOLEAN
        /\ ethId' \in Streams \cup {NoStream}
    BY <1>2 DEF TypeOK
  <2>. QED
    BY <1>1, <2>1, <2>2, ZenonT(100) DEF TypeOK
<1>5. Asking'
  BY <1>1, <1>2, <1>3, RequestType DEF Asking
<1>6. Bound' /\ EventsEnd'
  BY <1>1 DEF Bound, EventsEnd
<1>7. ASSUME ~overtaken' PROVE Single' /\ OnStream'
  <2>1. Single /\ OnStream
    BY <1>2, <1>7 DEF Session
  <2>2. CASE UNCHANGED <<taskRun, ethId, overtaken>> /\ ~taskRun
    BY <1>1, <2>1, <2>2 DEF Single, OnStream
  <2>3. CASE UNCHANGED <<taskRun, ethId, overtaken>> /\ taskRun /\ ethId = id
    <3>1. wanted = id
      BY <2>1, <2>3, RequestType DEF OnStream
    <3>. QED
      BY <1>1, <2>1, <2>3, <3>1 DEF Single, OnStream
  <2>4. CASE taskRun' = FALSE /\ ethId' = NoStream
             /\ overtaken' = (overtaken \/ At("created") \cup At("begun") # {})
    <3>1. \A t \in Threads : pc[t] \notin {"created", "begun"}
      BY <1>7, <2>4 DEF At
    <3>. QED
      BY <1>1, <2>1, <2>4, <3>1 DEF Single, OnStream
  <2>. QED
    BY <1>2, <2>2, <2>3, <2>4
<1>. QED
  BY <1>4, <1>5, <1>6, <1>7 DEF Session

LEMMA WaitPollGood ==
    ASSUME IInv, WaitPoll
    PROVE  IInv'
<1>. USE DEF IInv
<1>1. /\ UNCHANGED <<taskRun, threadRun, ethId, arg, fd, pc, src, ss, warm, recording,
                     posted, skipped, world, wanted, overtaken>>
      /\ ui.op = "wait" /\ gaveUp' = (ui.polls = 1)
      /\ ui' = IF ui.polls > 1 THEN [ui EXCEPT !.polls = ui.polls - 1] ELSE Idle
  BY DEF WaitPoll, threads, storage
<1>2. /\ ui \in [op : {"idle", "wait"}, id : Streams \cup {NoStream}, polls : 0 .. Polls]
      /\ ui.polls \in 1 .. Polls /\ Polls \in Nat \ {0} /\ ui # Idle
  BY <1>1, ReceiveAssumption, RequestType DEF TypeOK, Asking
<1>3. CASE ui.polls > 1
  <2>1. /\ ui' = [ui EXCEPT !.polls = ui.polls - 1] /\ gaveUp' = FALSE
        /\ ui.polls - 1 \in 0 .. Polls /\ ui.polls - 1 \in 1 .. Polls
    <3>1. ui' = [ui EXCEPT !.polls = ui.polls - 1]
      BY <1>1, <1>3
    <3>2. ui.polls # 1 /\ ui.polls - 1 \in 0 .. Polls /\ ui.polls - 1 \in 1 .. Polls
      BY <1>2, <1>3
    <3>. QED
      BY <1>1, <3>1, <3>2
  <2>2. /\ ui' \in [op : {"idle", "wait"}, id : Streams \cup {NoStream}, polls : 0 .. Polls]
        /\ ui'.op = ui.op /\ ui'.id = ui.id /\ ui'.polls \in 1 .. Polls
    BY <1>2, <2>1
  <2>3. TypeOK'
    BY <1>1, <2>1, <2>2, ZenonT(100) DEF TypeOK
  <2>4. Asking'
    BY <1>1, <1>2, <2>2, RequestType DEF Asking
  <2>5. Bound' /\ EventsEnd' /\ Session'
    BY <1>1 DEF Bound, EventsEnd, Session, Single, OnStream
  <2>. QED
    BY <2>3, <2>4, <2>5
<1>4. CASE ~(ui.polls > 1)
  <2>1. ui' = Idle /\ gaveUp' \in BOOLEAN
    BY <1>1, <1>4
  <2>2. TypeOK'
    BY <1>1, <2>1, RequestType, ZenonT(100) DEF TypeOK
  <2>3. Asking'
    <3>1. gaveUp'
      <4>1. ui.polls = 1
        BY <1>2, <1>4
      <4>. QED
        BY <1>1, <4>1
    <3>. QED
      BY <1>1, <2>1, <3>1, RequestType DEF Asking
  <2>4. Bound' /\ EventsEnd' /\ Session'
    BY <1>1 DEF Bound, EventsEnd, Session, Single, OnStream
  <2>. QED
    BY <2>2, <2>3, <2>4
<1>. QED
  BY <1>3, <1>4

\* A new thread is created only when the flags show that the last one has
\* gone, and they show it unless a close overtook a start; the history is
\* cleared only when all are gone and no id is left behind.
LEMMA StartGood ==
    ASSUME IInv, Start
    PROVE  IInv'
<1>. USE DEF IInv
<1>1. PICK t \in Threads : pc[t] = "free" /\ pc' = [pc EXCEPT ![t] = "created"]
  BY DEF Start, At
<1>2. /\ UNCHANGED <<threadRun, ethId, fd, src, ss, warm, recording, posted, skipped,
                     world, wanted>>
      /\ ui.op = "wait" /\ ~threadRun /\ arg' = ui.id /\ taskRun' = TRUE /\ ui' = Idle
      /\ overtaken' = (overtaken /\ ~(Gone /\ ethId = NoStream)) /\ gaveUp' = FALSE
  BY DEF Start, storage
<1>3. /\ pc' \in [Threads -> Places] /\ pc'[t] = "created"
      /\ \A u \in Threads : u # t => pc'[u] = pc[u]
  BY <1>1 DEF TypeOK, Places
<1>4. ui.id \in Streams /\ ui.id = wanted /\ wanted # NoStream /\ ~taskRun
  BY <1>2, RequestType DEF Asking
<1>5. TypeOK'
  BY <1>2, <1>3, <1>4, RequestType, ZenonT(100) DEF TypeOK, Places
<1>6. Asking'
  BY <1>2, RequestType DEF Asking
<1>7. Bound' /\ EventsEnd'
  BY <1>1, <1>2, <1>3 DEF Bound, EventsEnd
<1>8. ASSUME ~overtaken' PROVE Single' /\ OnStream'
  <2>1. (\A u \in Threads : pc[u] = "free") /\ ethId = NoStream
    <3>1. CASE ~overtaken
      BY <1>2, <1>4, <3>1 DEF Session, Single, OnStream
    <3>2. CASE overtaken
      BY <1>2, <1>8, <3>2 DEF Gone, At
    <3>. QED
      BY <3>1, <3>2
  <2>2. Single'
    BY <1>2, <1>3, <2>1 DEF Single
  <2>3. OnStream'
    BY <1>2, <1>3, <1>4, <2>1 DEF OnStream
  <2>. QED
    BY <2>2, <2>3
<1>. QED
  BY <1>5, <1>6, <1>7, <1>8 DEF Session

----------------------------------------------------------------------------
\* The receiving thread.
LEMMA BeginGood ==
    ASSUME IInv, NEW t \in Threads, Begin(t)
    PROVE  IInv'
<1>. USE DEF IInv
<1>1. /\ UNCHANGED <<taskRun, ethId, arg, fd, src, recording, posted, skipped, world, ui,
                     wanted, overtaken, gaveUp>>
      /\ threadRun' = TRUE
      /\ ss' = [ss EXCEPT ![t] = "IDLE"] /\ warm' = [warm EXCEPT ![t] = FALSE]
      /\ pc' \in [Threads -> Places] /\ pc[t] = "created" /\ pc'[t] = "begun"
      /\ \A u \in Threads : u # t => pc'[u] = pc[u]
  BY GotoFacts DEF Begin, storage, history, Places
<1>2. TypeOK'
  BY <1>1, ZenonT(100) DEF TypeOK, Places
<1>3. Asking'
  BY <1>1 DEF Asking
<1>4. Bound'
  BY <1>1 DEF Bound
<1>5. EventsEnd'
  <2>1. \A u \in Threads : u # t => ss'[u] = ss[u]
    BY <1>1 DEF TypeOK
  <2>. QED
    BY <1>1, <2>1 DEF EventsEnd
<1>6. Session'
  BY <1>1 DEF Session, Single, OnStream
<1>. QED
  BY <1>2, <1>3, <1>4, <1>5, <1>6

LEMMA AdoptGood ==
    ASSUME IInv, NEW t \in Threads, Adopt(t)
    PROVE  IInv'
<1>. USE DEF IInv
<1>1. /\ UNCHANGED <<taskRun, threadRun, arg, fd, ss, warm, recording, posted, skipped,
                     world, ui, wanted, overtaken, gaveUp>>
      /\ src' = [src EXCEPT ![t] = arg] /\ ethId' = arg
      /\ pc' \in [Threads -> Places] /\ pc[t] = "begun" /\ pc'[t] = "adopted"
      /\ \A u \in Threads : u # t => pc'[u] = pc[u]
  BY GotoFacts DEF Adopt, storage, history, Places
<1>2. src'[t] = arg /\ \A u \in Threads : u # t => src'[u] = src[u]
  BY <1>1 DEF TypeOK
<1>3. TypeOK'
  BY <1>1, ZenonT(100) DEF TypeOK, Places
<1>4. Asking'
  BY <1>1 DEF Asking
<1>5. Bound' /\ EventsEnd'
  BY <1>1 DEF Bound, EventsEnd
<1>6. ASSUME ~overtaken' PROVE Single' /\ OnStream'
  <2>1. Single /\ OnStream /\ taskRun
    BY <1>1, <1>6 DEF Session, Single
  <2>2. \A u \in Threads : u # t => pc[u] = "free"
    BY <1>1, <2>1 DEF Single
  <2>3. Single'
    BY <1>1, <2>1 DEF Single
  <2>. QED
    BY <1>1, <1>2, <2>1, <2>2, <2>3 DEF OnStream
<1>. QED
  BY <1>3, <1>4, <1>5, <1>6 DEF Session

\* The socket is bound before only when another thread is on it.
LEMMA OpenSocketGood ==
    ASSUME IInv, NEW t \in Threads, OpenSocket(t)
    PROVE  IInv'
<1>. USE DEF IInv
<1>1. /\ UNCHANGED <<taskRun, threadRun, ethId, arg, src, ss, warm, recording, posted,
                     skipped, world, ui, wanted, overtaken, gaveUp>>
      /\ fd' = IF fd = NoStream THEN src[t] ELSE fd
      /\ pc' \in [Threads -> Places] /\ pc[t] = "adopted" /\ pc'[t] = "loop"
      /\ \A u \in Threads : u # t => pc'[u] = pc[u]
  BY GotoFacts DEF OpenSocket, storage, history, Places
<1>2. TypeOK'
  <2>1. fd' \in Streams \cup {NoStream}
    BY <1>1 DEF TypeOK
  <2>. QED
    BY <1>1, <2>1, ZenonT(100) DEF TypeOK, Places
<1>3. Asking'
  BY <1>1 DEF Asking
<1>4. Bound' /\ EventsEnd'
  BY <1>1 DEF Bound, EventsEnd
<1>5. ASSUME ~overtaken' PROVE Single' /\ OnStream'
  <2>1. Single /\ OnStream
    BY <1>1, <1>5 DEF Session
  <2>2. \A u \in Threads : u # t => pc[u] = "free"
    BY <1>1, <2>1 DEF Single
  <2>3. fd' = src[t]
    BY <1>1, <2>2 DEF Bound
  <2>4. Single'
    BY <1>1, <2>1 DEF Single
  <2>. QED
    BY <1>1, <2>1, <2>2, <2>3, <2>4 DEF OnStream
<1>. QED
  BY <1>2, <1>3, <1>4, <1>5 DEF Session

\* The steps of the loop about the recorded event.
LEMMA StorageGood ==
    ASSUME IInv, NEW t \in Threads, StartStorage(t) \/ StopStorage(t) \/ Warm(t)
    PROVE  IInv'
<1>. USE DEF IInv
<1>1. UNCHANGED <<taskRun, threadRun, ethId, arg, fd, pc, src, world, ui, wanted,
                  overtaken, gaveUp>>
  BY DEF StartStorage, StopStorage, Warm, history
<1>2. /\ ss' \in [Threads -> {"IDLE", "ONGOING", "STOP", "FINISH"}]
      /\ warm' \in [Threads -> BOOLEAN]
      /\ recording' \in BOOLEAN /\ posted' \in BOOLEAN /\ skipped' \in BOOLEAN
  <2>1. CASE StartStorage(t)
    BY <2>1 DEF StartStorage, TypeOK
  <2>2. CASE StopStorage(t)
    BY <2>2, ZenonT(100) DEF StopStorage, TypeOK
  <2>3. CASE Warm(t)
    BY <2>3, ZenonT(100) DEF Warm, TypeOK, storage
  <2>. QED
    BY <2>1, <2>2, <2>3
<1>3. TypeOK'
  BY <1>1, <1>2, ZenonT(100) DEF TypeOK
<1>4. Asking' /\ Bound' /\ Session'
  BY <1>1 DEF Asking, Bound, Session, Single, OnStream
<1>5. EventsEnd'
  <2>1. CASE StartStorage(t)
    BY <2>1 DEF StartStorage, EventsEnd, TypeOK
  <2>2. CASE StopStorage(t)
    BY <2>2 DEF StopStorage, EventsEnd
  <2>3. CASE Warm(t)
    BY <2>3 DEF Warm, EventsEnd, storage
  <2>. QED
    BY <2>1, <2>2, <2>3
<1>. QED
  BY <1>3, <1>4, <1>5

LEMMA LeaveGood ==
    ASSUME IInv, NEW t \in Threads, Leave(t)
    PROVE  IInv'
<1>. USE DEF IInv
<1>1. /\ UNCHANGED <<taskRun, threadRun, ethId, arg, fd, src, warm, recording, posted,
                     skipped, world, ui, wanted, overtaken, gaveUp>>
      /\ ss[t] # "ONGOING" /\ ss' = [ss EXCEPT ![t] = "FINISH"] /\ ~taskRun
      /\ pc' \in [Threads -> Places] /\ pc[t] = "loop" /\ pc'[t] = "leaving"
      /\ \A u \in Threads : u # t => pc'[u] = pc[u]
  BY GotoFacts DEF Leave, storage, history, Places
<1>2. TypeOK'
  BY <1>1, ZenonT(100) DEF TypeOK, Places
<1>3. Asking' /\ Bound'
  BY <1>1 DEF Asking, Bound
<1>4. EventsEnd'
  <2>1. \A u \in Threads : u # t => ss'[u] = ss[u]
    BY <1>1 DEF TypeOK
  <2>. QED
    BY <1>1, <2>1 DEF EventsEnd
<1>5. Session'
  BY <1>1 DEF Session, Single, OnStream
<1>. QED
  BY <1>2, <1>3, <1>4, <1>5

LEMMA CloseSocketGood ==
    ASSUME IInv, NEW t \in Threads, CloseSocket(t)
    PROVE  IInv'
<1>. USE DEF IInv
<1>1. /\ UNCHANGED <<taskRun, threadRun, ethId, arg, src, ss, warm, recording, posted,
                     skipped, world, ui, wanted, overtaken, gaveUp>>
      /\ fd' = NoStream
      /\ pc' \in [Threads -> Places] /\ pc[t] = "leaving" /\ pc'[t] = "closed"
      /\ \A u \in Threads : u # t => pc'[u] = pc[u]
  BY GotoFacts DEF CloseSocket, storage, history, Places
<1>2. TypeOK'
  BY <1>1, ZenonT(100) DEF TypeOK, Places
<1>3. Asking' /\ Bound' /\ EventsEnd'
  BY <1>1 DEF Asking, Bound, EventsEnd
<1>4. ASSUME ~overtaken' PROVE Single' /\ OnStream'
  <2>1. Single /\ OnStream
    BY <1>1, <1>4 DEF Session
  <2>2. \A u \in Threads : u # t => pc[u] = "free"
    BY <1>1, <2>1 DEF Single
  <2>. QED
    BY <1>1, <2>1, <2>2 DEF Single, OnStream
<1>. QED
  BY <1>2, <1>3, <1>4 DEF Session

LEMMA FinishGood ==
    ASSUME IInv, NEW t \in Threads, Finish(t)
    PROVE  IInv'
<1>. USE DEF IInv
<1>1. /\ UNCHANGED <<taskRun, ethId, arg, fd, src, ss, warm, recording, posted, skipped,
                     world, ui, wanted, overtaken, gaveUp>>
      /\ threadRun' = FALSE
      /\ pc' \in [Threads -> Places] /\ pc[t] = "closed" /\ pc'[t] = "free"
      /\ \A u \in Threads : u # t => pc'[u] = pc[u]
  BY GotoFacts DEF Finish, storage, history, Places
<1>2. TypeOK'
  BY <1>1, ZenonT(100) DEF TypeOK, Places
<1>3. Asking' /\ Bound' /\ EventsEnd'
  BY <1>1 DEF Asking, Bound, EventsEnd
<1>4. ASSUME ~overtaken' PROVE Single' /\ OnStream'
  <2>1. Single /\ OnStream
    BY <1>1, <1>4 DEF Session
  <2>2. \A u \in Threads : u # t => pc[u] = "free"
    BY <1>1, <2>1 DEF Single
  <2>. QED
    BY <1>1, <2>1, <2>2 DEF Single, OnStream
<1>. QED
  BY <1>2, <1>3, <1>4 DEF Session

\* What the rest of the program does to the world and to the event.
LEMMA WorldGood ==
    ASSUME IInv, Change \/ EventExpires \/ UploaderWakes
    PROVE  IInv'
<1>. USE DEF IInv
<1>1. /\ UNCHANGED <<taskRun, threadRun, ethId, arg, fd, pc, src, ss, warm, ui, wanted,
                     overtaken, gaveUp>>
      /\ world' \in Worlds /\ recording' \in {recording, FALSE}
      /\ posted' \in {posted, FALSE} /\ skipped' \in {skipped, FALSE}
      /\ ~recording' \/ UNCHANGED <<recording, skipped>>
  <2>1. CASE Change
    BY <2>1 DEF Change, threads, storage, history
  <2>2. CASE EventExpires
    BY <2>2 DEF EventExpires, history, TypeOK
  <2>3. CASE UploaderWakes
    BY <2>3 DEF UploaderWakes, history, TypeOK
  <2>. QED
    BY <2>1, <2>2, <2>3
<1>2. TypeOK'
  <2>1. recording' \in BOOLEAN /\ posted' \in BOOLEAN /\ skipped' \in BOOLEAN
    BY <1>1 DEF TypeOK
  <2>. QED
    BY <1>1, <2>1, ZenonT(100) DEF TypeOK
<1>3. Asking' /\ Bound' /\ EventsEnd'
  BY <1>1 DEF Asking, Bound, EventsEnd
<1>4. Session'
  BY <1>1 DEF Session, Single, OnStream
<1>. QED
  BY <1>2, <1>3, <1>4

----------------------------------------------------------------------------
\* A call finds the task as its flags say, and until a close overtakes a start
\* there is one thread, on the stream asked for last.
THEOREM AlwaysGood == Spec => []IInv
<1>1. Init => IInv
  BY InitGood
<1>2. IInv /\ [Next]_vars => IInv'
  <2>. SUFFICES ASSUME IInv, [Next]_vars PROVE IInv'
    OBVIOUS
  <2>1. CASE UNCHANGED vars
    <3>1. UNCHANGED <<taskRun, threadRun, ethId, arg, fd, pc, src, ss, warm, recording,
                      posted, skipped, world, ui, wanted, overtaken, gaveUp>>
      BY <2>1 DEF vars
    <3>2. TypeOK'
      BY <3>1 DEF IInv, TypeOK
    <3>3. Asking' /\ Bound' /\ EventsEnd' /\ Session'
      BY <3>1 DEF IInv, Asking, Bound, EventsEnd, Session, Single, OnStream
    <3>. QED
      BY <3>2, <3>3 DEF IInv
  <2>2. ASSUME NEW t \in Threads, Thread(t) \/ Warm(t) PROVE IInv'
    BY <2>2, BeginGood, AdoptGood, OpenSocketGood, StorageGood, LeaveGood, CloseSocketGood,
       FinishGood DEF Thread
  <2>3. CASE Next
    BY <2>2, <2>3, CloseGood, CallGood, WaitPollGood, StartGood, WorldGood DEF Next
  <2>. QED
    BY <2>1, <2>3
<1>. QED
  BY <1>1, <1>2, PTL DEF Spec

\* The variables have their types.
THEOREM TypeCorrect == Spec => []TypeOK
<1>1. IInv => TypeOK
  BY DEF IInv
<1>. QED
  BY <1>1, AlwaysGood, PTL

\* Two receiving threads exist together only when a close overtook a start,
\* however many threads the scheduler may keep waiting.
THEOREM AlwaysAlone == Spec => []Alone
<1>1. IInv => Alone
  <2>. SUFFICES ASSUME IInv, ~overtaken
                PROVE  Cardinality(Threads \ At("free")) <= 1
    BY DEF Alone
  <2>. DEFINE there == Threads \ At("free")
  <2>1. \A t, u \in there : t = u
    BY DEF IInv, Session, Single, At
  <2>. HIDE DEF there
  <2>2. CASE there = {}
    BY <2>2, FS_EmptySet DEF there
  <2>3. CASE there # {}
    <3>1. PICK t \in there : TRUE
      BY <2>3
    <3>2. there = {t}
      BY <2>1, <3>1
    <3>3. Cardinality(there) = 1
      BY <3>2, FS_Singleton
    <3>. QED
      BY <3>3 DEF there
  <2>. QED
    BY <2>2, <2>3
<1>. QED
  BY <1>1, AlwaysGood, PTL

\* After a switch the thread in its loop receives, under the right id and on
\* the right socket, what was asked for last.
THEOREM AlwaysRightStream == Spec => []RightStream
<1>1. IInv => RightStream
  BY DEF IInv, Asking, Session, OnStream, RightStream, At
<1>. QED
  BY <1>1, AlwaysGood, PTL

\* An event the cloud records never outlives the threads that started it.
THEOREM EventsAlwaysEnd == Spec => []EventsEnd
<1>1. IInv => EventsEnd
  BY DEF IInv
<1>. QED
  BY <1>1, AlwaysGood, PTL

----------------------------------------------------------------------------
\* What a mishap cannot do.  The flag of an open task is down before the last
\* thread that could serve it leaves the loop, and thread_run, on which the
\* next open waits, is up only while a thread is there that will lower it.

Served ==
    /\ taskRun => \E t \in Threads : pc[t] \in {"created", "begun", "adopted", "loop"}
    /\ threadRun =>
         \E t \in Threads : pc[t] \in {"begun", "adopted", "loop", "leaving", "closed"}

LEMMA ServedOutside ==
    ASSUME IInv, Served,
           \/ Close \/ WaitPoll \/ Change \/ EventExpires \/ UploaderWakes
           \/ \E id \in Streams : Call(id)
           \/ \E t \in Threads : StartStorage(t) \/ StopStorage(t) \/ Warm(t)
    PROVE  Served'
<1>1. pc' = pc /\ (threadRun' <=> threadRun) /\ (taskRun' => taskRun)
  BY DEF Close, Closed, WaitPoll, Change, EventExpires, UploaderWakes, Call, Open,
         SwitchSame, SwitchOther, StartStorage, StopStorage, Warm, threads
<1>. QED
  BY <1>1 DEF Served

\* The new session has a new thread, and every other is where it was.
LEMMA ServedStart ==
    ASSUME IInv, Served, Start
    PROVE  Served'
<1>1. PICK t \in Threads : pc[t] = "free" /\ pc' = [pc EXCEPT ![t] = "created"]
  BY DEF Start, At
<1>2. /\ pc'[t] = "created" /\ threadRun' = threadRun
      /\ \A u \in Threads : u # t => pc'[u] = pc[u]
  BY <1>1 DEF Start, IInv, TypeOK
<1>. QED
  BY <1>1, <1>2 DEF Served

LEMMA ServedThread ==
    ASSUME IInv, Served, NEW t \in Threads,
           \/ Begin(t) \/ Adopt(t) \/ OpenSocket(t) \/ Leave(t) \/ CloseSocket(t)
           \/ Finish(t)
    PROVE  Served'
<1>1. /\ taskRun' = taskRun
      /\ \A u \in Threads : u # t => pc'[u] = pc[u]
  BY DEF Begin, Adopt, OpenSocket, Leave, CloseSocket, Finish, Goto, IInv, TypeOK
<1>2. CASE Begin(t) \/ Adopt(t) \/ OpenSocket(t)
  <2>1. pc'[t] \in {"begun", "adopted", "loop"}
    BY <1>2 DEF Begin, Adopt, OpenSocket, Goto, IInv, TypeOK
  <2>. QED
    BY <2>1 DEF Served
<1>3. CASE Leave(t) \/ CloseSocket(t)
  <2>1. pc'[t] \in {"leaving", "closed"}
    BY <1>3 DEF Leave, CloseSocket, Goto, IInv, TypeOK
  <2>2. taskRun => pc[t] = "leaving"
    BY <1>3 DEF Leave, CloseSocket, Goto
  <2>. QED
    BY <1>1, <2>1, <2>2 DEF Served
<1>4. CASE Finish(t)
  <2>1. pc[t] = "closed" /\ threadRun' = FALSE
    BY <1>4 DEF Finish, Goto
  <2>. QED
    BY <1>1, <2>1 DEF Served
<1>. QED
  BY <1>2, <1>3, <1>4

\* An open task always has a thread that serves it or is about to, whichever
\* threads and sessions overtook one another; and where no thread is left no
\* flag is up, no socket open and no event going on whose stop was not skipped,
\* so that the next open starts at its first poll, on a socket of its own.
THEOREM NothingIsLeft ==
    Spec => []/\ taskRun => \E t \in Threads :
                              pc[t] \in {"created", "begun", "adopted", "loop"}
              /\ Gone => /\ ~taskRun /\ ~threadRun /\ fd = NoStream
                         /\ recording => skipped
<1>. DEFINE Clean ==
       /\ taskRun => \E t \in Threads : pc[t] \in {"created", "begun", "adopted", "loop"}
       /\ Gone => /\ ~taskRun /\ ~threadRun /\ fd = NoStream
                  /\ recording => skipped
<1>1. Init => Served
  BY DEF Init, Served
<1>2. IInv /\ Served /\ [Next]_vars => Served'
  <2>. SUFFICES ASSUME IInv, Served, [Next]_vars PROVE Served'
    OBVIOUS
  <2>1. CASE UNCHANGED vars
    <3>1. UNCHANGED <<taskRun, threadRun, pc>>
      BY <2>1 DEF vars
    <3>. QED
      BY <3>1 DEF Served
  <2>2. CASE Next
    BY <2>2, ServedOutside, ServedStart, ServedThread DEF Next, Thread
  <2>. QED
    BY <2>1, <2>2
<1>3. IInv /\ Served => Clean
  <2>. SUFFICES ASSUME IInv, Served, Gone
                PROVE  ~taskRun /\ ~threadRun /\ fd = NoStream /\ (recording => skipped)
    BY DEF Served
  <2>1. \A t \in Threads : pc[t] = "free"
    BY DEF Gone, At
  <2>. QED
    BY <2>1 DEF Served, IInv, Bound, EventsEnd
<1>. HIDE DEF Clean
<1>4. Spec => []Clean
  BY <1>1, <1>2, <1>3, AlwaysGood, PTL DEF Spec
<1>. QED
  BY <1>4 DEF Clean

==============================================================================
