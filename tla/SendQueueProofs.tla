--------------------------- MODULE SendQueueProofs ---------------------------
(***************************************************************************)
(* Proofs about SendQueue, for any pool, threads, cover buffer and number  *)
(* of packages and sessions.                                               *)
(*                                                                         *)
(* The invariant has three parts.  Placed says position by position what   *)
(* EachInOnePlace says of the two queues together.  Waiting says that a    *)
(* queue that is not empty has a thread that will still empty it.  Ordered *)
(* is what one thread at a time keeps, as long as no close has overtaken   *)
(* a start: what waits is of this session and in the order it was filled,  *)
(* behind what the thread holds, what covers and what was sent.            *)
(***************************************************************************)
EXTENDS SendQueue, SequenceTheorems, FiniteSetTheorems, TLAPS

Places == {"free", "created", "begun", "loop", "take", "holding", "done",
           "leaving", "releasing", "released"}

Holding(t) == pc[t] \in {"holding", "done"}

FreeOnce == \A i, j \in 1 .. Len(free) : free[i] = free[j] => i = j
HeadOnce == \A i, j \in 1 .. Len(head) : head[i] = head[j] => i = j
Apart == \A i \in 1 .. Len(free), j \in 1 .. Len(head) : free[i] # head[j]
HeldOnce ==
    /\ \A t \in Threads : node[t] # NoNode <=> Holding(t)
    /\ \A t, u \in Threads : Holding(t) /\ Holding(u) /\ node[t] = node[u] => t = u
HeldApart ==
    /\ \A t \in Threads, i \in 1 .. Len(free) : node[t] # free[i]
    /\ \A t \in Threads, i \in 1 .. Len(head) : node[t] # head[i]
Somewhere(n) ==
    \/ \E i \in 1 .. Len(free) : free[i] = n
    \/ \E i \in 1 .. Len(head) : head[i] = n
    \/ \E t \in Threads : node[t] = n

Placed ==
    /\ FreeOnce
    /\ HeadOnce
    /\ Apart
    /\ HeldOnce
    /\ HeldApart
    /\ \A n \in Nodes : Somewhere(n)

Waiting ==
    /\ ready =>
          \E t \in Threads : pc[t] \in {"loop", "take", "holding", "done", "leaving"}
    /\ head # <<>> =>
          \E t \in Threads : pc[t] \in {"loop", "take", "holding", "done",
                                        "leaving", "releasing"}

One ==
    /\ \A t, u \in Threads : pc[t] # "free" /\ pc[u] # "free" => t = u
    /\ \A t \in Threads :
          /\ pc[t] = "created" => taskRun
          /\ pc[t] \notin {"free", "created"} => threadRun

OfSession ==
    /\ \A i \in 1 .. Len(head) : package[head[i]].session = session
    /\ \A t \in Threads : Holding(t) => package[node[t]].session = session
    /\ \A t \in Threads : Covering(t) =>
          \A i \in 1 .. Len(cover[t]) : cover[t][i].session = session

QueueInOrder ==
    /\ \A i, j \in 1 .. Len(head) : i < j => package[head[i]].index < package[head[j]].index
    /\ \A i \in 1 .. Len(head) :
          /\ sent.voice <= package[head[i]].index
          /\ sent.ring <= package[head[i]].index
          /\ package[head[i]].index <= frameIndex
SentInOrder == sent.voice <= frameIndex /\ sent.ring <= frameIndex
HeldInOrder ==
    \A t \in Threads : Holding(t) =>
       /\ sent.voice <= package[node[t]].index
       /\ sent.ring <= package[node[t]].index
       /\ package[node[t]].index <= frameIndex
       /\ \A i \in 1 .. Len(head) : package[node[t]].index < package[head[i]].index
CoverInOrder ==
    \A t \in Threads : Covering(t) =>
       \A i \in 1 .. Len(cover[t]) :
          /\ sent.ring <= cover[t][i].index
          /\ cover[t][i].index <= frameIndex
          /\ Holding(t) => cover[t][i].index <= package[node[t]].index
          /\ \A j \in 1 .. Len(head) : cover[t][i].index <= package[head[j]].index

InPlaceOrder == QueueInOrder /\ SentInOrder /\ HeldInOrder /\ CoverInOrder

Ordered == ~overtaken => One /\ OfSession /\ InPlaceOrder

IInv == TypeOK /\ Placed /\ Waiting /\ Ordered

----------------------------------------------------------------------------
\* The pool starts with every node once.
LEMMA PoolFacts ==
    /\ SetToSeq(Nodes) \in Seq(Nodes)
    /\ \A i, j \in 1 .. Len(SetToSeq(Nodes)) :
          SetToSeq(Nodes)[i] = SetToSeq(Nodes)[j] => i = j
    /\ \A n \in Nodes : \E i \in 1 .. Len(SetToSeq(Nodes)) : SetToSeq(Nodes)[i] = n
<1>. DEFINE c == Cardinality(Nodes)
            q == SetToSeq(Nodes)
<1>1. c \in Nat /\ ExistsBijection(1 .. c, Nodes)
  BY QueueAssumption, FS_CardinalityType
<1>2. \E f \in [1 .. c -> Nodes] : IsInjective(f)
  BY <1>1 DEF ExistsBijection, Bijection, Injection
<1>3. q \in [1 .. c -> Nodes] /\ IsInjective(q)
  BY <1>2 DEF SetToSeq
<1>. HIDE DEF q
<1>4. IsFiniteSet(1 .. c) /\ Cardinality(1 .. c) = c
  BY <1>1, FS_Interval
<1>5. q \in Injection(1 .. c, Nodes)
  BY <1>3 DEF Injection
<1>6. q \in Surjection(1 .. c, Nodes)
  BY <1>4, <1>5, QueueAssumption, FS_Injection
<1>7. q \in Seq(Nodes) /\ Len(q) = c
  BY <1>1, <1>3
<1>. QED
  BY <1>3, <1>6, <1>7 DEF q, IsInjective, Surjection

LEMMA InitGood == Init => IInv
<1>. SUFFICES ASSUME Init PROVE IInv
  OBVIOUS
<1>1. <<>> \in Seq(Nodes) /\ <<>> \in Seq(Record) /\ Len(<<>>) = 0
  BY EmptySeq
<1>2. TypeOK
  <2>1. 0 \in 0 .. MaxPackages /\ 0 \in 0 .. MaxSessions
    BY QueueAssumption
  <2>. QED
    BY <1>1, <2>1, PoolFacts DEF Init, TypeOK, Blank, Record, Frames, Kinds
<1>3. Placed
  <2>1. \A i \in 1 .. Len(free) : free[i] \in Nodes /\ free[i] # NoNode
    BY PoolFacts, QueueAssumption DEF Init
  <2>2. FreeOnce /\ \A n \in Nodes : Somewhere(n)
    BY PoolFacts DEF Init, FreeOnce, Somewhere
  <2>3. HeadOnce /\ Apart
    BY <1>1 DEF Init, HeadOnce, Apart
  <2>4. HeldOnce
    BY DEF Init, HeldOnce, Holding
  <2>5. HeldApart
    BY <1>1, <2>1 DEF Init, HeldApart
  <2>. QED
    BY <2>2, <2>3, <2>4, <2>5 DEF Placed
<1>4. Waiting
  BY DEF Init, Waiting
<1>5. Ordered
  BY <1>1 DEF Init, Ordered, One, OfSession, InPlaceOrder, QueueInOrder, SentInOrder, HeldInOrder, CoverInOrder, Holding, Covering
<1>. QED
  BY <1>2, <1>3, <1>4, <1>5 DEF IInv

\* A thread goes from one place to another.
LEMMA GotoFacts ==
    ASSUME TypeOK, NEW t \in Threads, NEW from, NEW to \in Places, Goto(t, from, to)
    PROVE  /\ pc' \in [Threads -> Places]
           /\ pc[t] = from /\ pc'[t] = to
           /\ \A u \in Threads : u # t => pc'[u] = pc[u]
  BY DEF TypeOK, Goto, Places

\* What is placed stays placed when no node moves and the threads that hold
\* one still do.
LEMMA StillPlaced ==
    ASSUME Placed, UNCHANGED <<free, head, node>>,
           \A t \in Threads : Holding(t)' <=> Holding(t)
    PROVE  Placed'
  BY DEF Placed, FreeOnce, HeadOnce, Apart, HeldOnce, HeldApart, Somewhere, Holding

\* Everything that is compared is a number, and everything held is a record.
LEMMA NumberFacts ==
    ASSUME TypeOK, Placed
    PROVE  /\ sent.voice \in Nat /\ sent.ring \in Nat /\ frameIndex \in Nat
           /\ \A i \in 1 .. Len(head) : head[i] \in Nodes
           /\ \A t \in Threads : Holding(t) => node[t] \in Nodes
           /\ \A n \in Nodes : package[n] \in Record
           /\ \A t \in Threads : \A i \in 1 .. Len(cover[t]) : cover[t][i] \in Record
           /\ \A i \in 1 .. Len(head) : package[head[i]].index \in Nat
           /\ \A t \in Threads : Holding(t) => package[node[t]].index \in Nat
           /\ \A t \in Threads : \A i \in 1 .. Len(cover[t]) : cover[t][i].index \in Nat
<1>1. \A i \in 1 .. Len(head) : head[i] \in Nodes
  BY ElementOfSeq DEF TypeOK
<1>2. \A t \in Threads : Holding(t) => node[t] \in Nodes
  BY DEF Placed, HeldOnce, TypeOK
<1>3. \A n \in Nodes : package[n] \in Record
  BY DEF TypeOK
<1>4. \A t \in Threads : \A i \in 1 .. Len(cover[t]) : cover[t][i] \in Record
  BY ElementOfSeq DEF TypeOK
<1>5. \A r \in Record : r.index \in Nat
  BY QueueAssumption DEF Record
<1>6. sent.voice \in Nat /\ sent.ring \in Nat /\ frameIndex \in Nat
  BY QueueAssumption DEF TypeOK, Frames
<1>. QED
  BY <1>1, <1>2, <1>3, <1>4, <1>5, <1>6

\* A step that sends nothing, queues nothing and gives nobody a package keeps
\* sessions and order.
LEMMA StillOrdered ==
    ASSUME OfSession, InPlaceOrder, UNCHANGED <<package, frameIndex, session, sent>>,
           head' = head \/ head' = <<>>,
           \A t \in Threads : Holding(t)' => Holding(t) /\ node'[t] = node[t],
           \A t \in Threads : Covering(t)' =>
               (Covering(t) /\ cover'[t] = cover[t]) \/ cover'[t] = <<>>
    PROVE  OfSession' /\ InPlaceOrder'
<1>1. \A i \in 1 .. Len(head') : i \in 1 .. Len(head) /\ head' = head
  <2>1. CASE head' = head
    BY <2>1
  <2>2. CASE head' = <<>>
    BY <2>2, EmptySeq
  <2>. QED
    BY <2>1, <2>2
<1>2. \A t \in Threads : \A i \in 1 .. Len(cover'[t]) :
         Covering(t)' => Covering(t) /\ cover'[t] = cover[t] /\ i \in 1 .. Len(cover[t])
  BY EmptySeq
<1>3. OfSession'
  BY <1>1, <1>2 DEF OfSession
<1>4. QueueInOrder' /\ SentInOrder'
  BY <1>1 DEF InPlaceOrder, QueueInOrder, SentInOrder
<1>5. HeldInOrder'
  BY <1>1 DEF InPlaceOrder, HeldInOrder
<1>6. CoverInOrder'
  BY <1>1, <1>2 DEF InPlaceOrder, CoverInOrder
<1>. QED
  BY <1>3, <1>4, <1>5, <1>6 DEF InPlaceOrder

LEMMA OpenGood ==
    ASSUME IInv, Open
    PROVE  IInv'
<1>. USE DEF IInv
<1>1. PICK t \in Threads : pc[t] = "free" /\ pc' = [pc EXCEPT ![t] = "created"]
  BY DEF Open
<1>2. /\ UNCHANGED <<free, head, package, frameIndex, ready, threadRun, node, cover,
                     sent, overtaken>>
      /\ taskRun' = TRUE /\ session' = session + 1 /\ ~taskRun /\ ~threadRun
      /\ pc'[t] = "created" /\ \A u \in Threads : u # t => pc'[u] = pc[u]
  BY <1>1 DEF Open, queues, TypeOK
<1>3. TypeOK'
  BY <1>1, <1>2, QueueAssumption DEF TypeOK, Open
<1>4. Placed'
  BY <1>1, <1>2, StillPlaced DEF Holding
<1>5. Waiting'
  BY <1>1, <1>2 DEF Waiting
<1>6. ASSUME ~overtaken' PROVE One' /\ OfSession' /\ InPlaceOrder'
  <2>1. One /\ OfSession /\ InPlaceOrder
    BY <1>2, <1>6 DEF Ordered
  <2>2. \A u \in Threads : pc[u] = "free"
    BY <1>2, <2>1 DEF One
  <2>3. head = <<>>
    BY <2>2 DEF Waiting
  <2>4. One'
    BY <1>2, <2>2 DEF One
  <2>5. \A u \in Threads : ~Holding(u)' /\ ~Covering(u)'
    BY <1>2, <2>2 DEF Holding, Covering
  <2>6. OfSession'
    BY <1>2, <2>3, <2>5 DEF OfSession
  <2>7. InPlaceOrder'
    BY <1>2, <2>1, <2>3, <2>5 DEF InPlaceOrder, QueueInOrder, SentInOrder, HeldInOrder, CoverInOrder
  <2>. QED
    BY <2>4, <2>6, <2>7
<1>. QED
  BY <1>3, <1>4, <1>5, <1>6 DEF Ordered

LEMMA CloseGood ==
    ASSUME IInv, Close
    PROVE  IInv'
<1>. USE DEF IInv
<1>1. /\ UNCHANGED <<free, head, package, frameIndex, ready, threadRun, pc, node,
                     cover, session, sent>>
      /\ taskRun' = FALSE
      /\ overtaken' = (overtaken \/ \E t \in Threads : pc[t] = "created")
  BY DEF Close, queues
<1>2. TypeOK'
  BY <1>1 DEF TypeOK
<1>3. Placed' /\ Waiting'
  BY <1>1 DEF Placed, FreeOnce, HeadOnce, Apart, HeldOnce, HeldApart, Somewhere, Waiting, Holding
<1>4. ASSUME ~overtaken' PROVE One' /\ OfSession' /\ InPlaceOrder'
  <2>1. One /\ OfSession /\ InPlaceOrder /\ \A t \in Threads : pc[t] # "created"
    BY <1>1, <1>4 DEF Ordered
  <2>. QED
    BY <1>1, <2>1 DEF One, OfSession, InPlaceOrder, QueueInOrder, SentInOrder, HeldInOrder, CoverInOrder, Holding, Covering
<1>. QED
  BY <1>2, <1>3, <1>4 DEF Ordered

LEMMA PushGood ==
    ASSUME IInv, NEW kind \in Kinds, Push(kind)
    PROVE  IInv'
<1>. USE DEF IInv
<1>. DEFINE n == Head(free)
            new == [index |-> frameIndex + 1, kind |-> kind, session |-> session]
<1>1. /\ UNCHANGED <<ready, taskRun, threadRun, session, overtaken, pc, node, cover,
                     sent>>
      /\ ready /\ free # <<>> /\ frameIndex < MaxPackages
      /\ free' = Tail(free) /\ head' = Append(head, n)
      /\ package' = [package EXCEPT ![n] = new] /\ frameIndex' = frameIndex + 1
  BY DEF Push, flags
<1>2. /\ n \in Nodes /\ n = free[1] /\ Len(free) \in Nat \ {0}
      /\ free' \in Seq(Nodes) /\ Len(free') = Len(free) - 1
      /\ \A i \in 1 .. Len(free') : free'[i] = free[i + 1]
  BY <1>1, HeadTailProperties, EmptySeq DEF TypeOK
<1>3. /\ head' \in Seq(Nodes) /\ Len(head) \in Nat /\ Len(head') = Len(head) + 1
      /\ \A i \in 1 .. Len(head) : head'[i] = head[i]
      /\ head'[Len(head) + 1] = n
  BY <1>1, <1>2 DEF TypeOK
<1>4. /\ package'[n] = new /\ \A m \in Nodes : m # n => package'[m] = package[m]
      /\ new \in Record
  BY <1>1, <1>2, QueueAssumption DEF TypeOK, Record
<1>. HIDE DEF n, new
<1>5. TypeOK'
  BY <1>1, <1>2, <1>3, <1>4, QueueAssumption DEF TypeOK
<1>6. /\ \A i \in 1 .. Len(head) : head[i] \in Nodes /\ head[i] # n
      /\ \A t \in Threads : node[t] # n
      /\ \A t \in Threads : Holding(t) => node[t] \in Nodes
  <2>1. \A i \in 1 .. Len(head) : head[i] \in Nodes
    BY ElementOfSeq DEF TypeOK
  <2>2. 1 \in 1 .. Len(free)
    BY <1>2
  <2>3. \A i \in 1 .. Len(head) : head[i] # n
    BY <1>2, <2>2 DEF Placed, Apart
  <2>4. \A t \in Threads : node[t] # n
    BY <1>2, <2>2 DEF Placed, HeldApart
  <2>5. \A t \in Threads : Holding(t) => node[t] \in Nodes
    BY DEF Placed, HeldOnce, TypeOK
  <2>. QED
    BY <2>1, <2>3, <2>4, <2>5
<1>7. Placed'
  <2>1. FreeOnce'
    BY <1>2 DEF Placed, FreeOnce
  <2>2. \A i \in 1 .. Len(free') : free'[i] # n
    <3>1. ASSUME NEW i \in 1 .. Len(free') PROVE free'[i] # n
      <4>1. i + 1 \in 1 .. Len(free) /\ 1 \in 1 .. Len(free) /\ i + 1 # 1
        BY <1>2
      <4>. QED
        BY <1>2, <4>1 DEF Placed, FreeOnce
    <3>. QED
      BY <3>1
  <2>3. \A i \in 1 .. Len(head') :
             \/ i \in 1 .. Len(head) /\ head'[i] = head[i] /\ head'[i] # n
             \/ i = Len(head) + 1 /\ head'[i] = n
    BY <1>3, <1>6, SMTT(30)
  <2>4. \A i \in 1 .. Len(free') : i + 1 \in 1 .. Len(free) /\ free'[i] = free[i + 1]
    BY <1>2
  <2>5. HeadOnce'
    BY <2>3, SMTT(60) DEF Placed, HeadOnce
  <2>6. Apart'
    BY <2>2, <2>3, <2>4, ZenonT(60) DEF Placed, Apart
  <2>7. HeldOnce'
    BY <1>1 DEF Placed, HeldOnce, Holding
  <2>8. HeldApart'
    <3>1. \A t \in Threads, i \in 1 .. Len(free') : node'[t] # free'[i]
      BY <1>1, <2>4 DEF Placed, HeldApart
    <3>2. \A t \in Threads, i \in 1 .. Len(head') : node'[t] # head'[i]
      BY <1>1, <1>6, <2>3 DEF Placed, HeldApart
    <3>. QED
      BY <3>1, <3>2 DEF HeldApart
  <2>9. ASSUME NEW m \in Nodes PROVE Somewhere(m)'
    <3>1. CASE \E i \in 1 .. Len(free) : free[i] = m
      <4>1. PICK i \in 1 .. Len(free) : free[i] = m
        BY <3>1
      <4>2. CASE i = 1
        BY <1>2, <1>3, <4>1, <4>2 DEF Somewhere
      <4>3. CASE i # 1
        <5>1. i - 1 \in 1 .. Len(free') /\ free'[i - 1] = m
          BY <1>2, <4>1, <4>3
        <5>. QED
          BY <5>1 DEF Somewhere
      <4>. QED
        BY <4>2, <4>3
    <3>2. CASE \E i \in 1 .. Len(head) : head[i] = m
      BY <1>3, <3>2 DEF Somewhere
    <3>3. CASE \E t \in Threads : node[t] = m
      BY <1>1, <3>3 DEF Somewhere
    <3>. QED
      BY <3>1, <3>2, <3>3 DEF Placed, Somewhere
  <2>. QED
    BY <2>1, <2>5, <2>6, <2>7, <2>8, <2>9 DEF Placed
<1>8. Waiting'
  BY <1>1 DEF Waiting
<1>9. ASSUME ~overtaken' PROVE One' /\ OfSession' /\ InPlaceOrder'
  <2>1. One /\ OfSession /\ InPlaceOrder
    BY <1>1, <1>9 DEF Ordered
  <2>2. \A i \in 1 .. Len(head) : package'[head'[i]] = package[head[i]]
    BY <1>3, <1>4, <1>6
  <2>3. package'[head'[Len(head) + 1]] = new
    BY <1>3, <1>4
  <2>4. \A t \in Threads : Holding(t) => package'[node'[t]] = package[node[t]]
    BY <1>1, <1>4, <1>6
  <2>5. \A i \in 1 .. Len(head') : i \in 1 .. Len(head) \/ i = Len(head) + 1
    BY <1>3
  <2>6. new.index = frameIndex + 1 /\ new.session = session /\ frameIndex \in Nat
    BY QueueAssumption DEF new, TypeOK
  <2>7. \A t \in Threads : (Holding(t)' <=> Holding(t)) /\ (Covering(t)' <=> Covering(t))
    BY <1>1 DEF Holding, Covering
  <2>8. One'
    BY <1>1, <2>1 DEF One
  <2>9. OfSession'
    BY <1>1, <2>1, <2>2, <2>3, <2>4, <2>5, <2>6, <2>7 DEF OfSession
  <2>10. /\ sent.voice \in Nat /\ sent.ring \in Nat
         /\ \A i \in 1 .. Len(head) : package[head[i]].index \in Nat
         /\ \A t \in Threads : Holding(t) => package[node[t]].index \in Nat
         /\ \A t \in Threads : \A i \in 1 .. Len(cover[t]) : cover[t][i].index \in Nat
    BY NumberFacts
  <2>11. QueueInOrder'
    <3>1. \A i, j \in 1 .. Len(head') : i < j => package'[head'[i]].index < package'[head'[j]].index
      <4>1. ASSUME NEW i \in 1 .. Len(head'), NEW j \in 1 .. Len(head'), i < j
            PROVE  package'[head'[i]].index < package'[head'[j]].index
        <5>1. i \in 1 .. Len(head)
          BY <1>3, <4>1
        <5>2. CASE j = Len(head) + 1
          <6>1. package[head[i]].index <= frameIndex
            BY <2>1, <5>1 DEF InPlaceOrder, QueueInOrder
          <6>2. package'[head'[i]].index = package[head[i]].index
            BY <2>2, <5>1
          <6>3. package'[head'[j]].index = frameIndex + 1
            BY <2>3, <2>6, <5>2
          <6>4. package[head[i]].index \in Nat
            BY <2>10, <5>1
          <6>. QED
            BY <2>6, <6>1, <6>2, <6>3, <6>4
        <5>3. CASE j \in 1 .. Len(head)
          BY <2>1, <2>2, <4>1, <5>1, <5>3 DEF InPlaceOrder, QueueInOrder
        <5>. QED
          BY <2>5, <5>2, <5>3
      <4>. QED
        BY <4>1
    <3>2. ASSUME NEW i \in 1 .. Len(head')
          PROVE  /\ sent.voice <= package'[head'[i]].index
                 /\ sent.ring <= package'[head'[i]].index
                 /\ package'[head'[i]].index <= frameIndex + 1
      <4>1. CASE i = Len(head) + 1
        BY <2>1, <2>3, <2>6, <2>10, <4>1 DEF InPlaceOrder, SentInOrder
      <4>2. CASE i \in 1 .. Len(head)
        BY <2>1, <2>2, <2>6, <2>10, <4>2 DEF InPlaceOrder, QueueInOrder
      <4>. QED
        BY <2>5, <4>1, <4>2
    <3>. QED
      BY <1>1, <3>1, <3>2 DEF QueueInOrder
  <2>12. SentInOrder'
    BY <1>1, <2>1, <2>6, <2>10 DEF InPlaceOrder, SentInOrder
  <2>13. HeldInOrder'
    BY <1>1, <1>3, <2>1, <2>2, <2>3, <2>4, <2>5, <2>6, <2>7, <2>10
       DEF InPlaceOrder, HeldInOrder
  <2>14. CoverInOrder'
    <3>1. ASSUME NEW t \in Threads, Covering(t), NEW i \in 1 .. Len(cover[t])
          PROVE  /\ sent.ring <= cover[t][i].index
                 /\ cover[t][i].index <= frameIndex + 1
                 /\ Holding(t) => cover[t][i].index <= package'[node'[t]].index
                 /\ \A j \in 1 .. Len(head') : cover[t][i].index <= package'[head'[j]].index
      <4>1. /\ sent.ring <= cover[t][i].index
            /\ cover[t][i].index <= frameIndex
            /\ Holding(t) => cover[t][i].index <= package[node[t]].index
            /\ \A j \in 1 .. Len(head) : cover[t][i].index <= package[head[j]].index
            /\ cover[t][i].index \in Nat
        BY <2>1, <2>10, <3>1 DEF InPlaceOrder, CoverInOrder
      <4>2. ASSUME NEW j \in 1 .. Len(head')
            PROVE  cover[t][i].index <= package'[head'[j]].index
        <5>1. CASE j = Len(head) + 1
          BY <2>3, <2>6, <4>1, <5>1
        <5>2. CASE j \in 1 .. Len(head)
          BY <2>2, <4>1, <5>2
        <5>. QED
          BY <2>5, <5>1, <5>2
      <4>. QED
        BY <2>4, <2>6, <4>1, <4>2
    <3>. QED
      BY <1>1, <2>7, <3>1 DEF CoverInOrder
  <2>. QED
    BY <2>8, <2>9, <2>11, <2>12, <2>13, <2>14 DEF InPlaceOrder
<1>. QED
  BY <1>5, <1>7, <1>8, <1>9 DEF Ordered

----------------------------------------------------------------------------
\* The steps of a thread that move no package.
LEMMA BeginGood ==
    ASSUME IInv, NEW t \in Threads, Begin(t)
    PROVE  IInv'
<1>. USE DEF IInv
<1>1. /\ UNCHANGED <<free, head, package, frameIndex, ready, taskRun, node, session,
                     sent, overtaken>>
      /\ threadRun' = TRUE /\ cover' = [cover EXCEPT ![t] = <<>>]
      /\ pc' \in [Threads -> Places] /\ pc[t] = "created" /\ pc'[t] = "begun"
      /\ \A u \in Threads : u # t => pc'[u] = pc[u]
  BY GotoFacts DEF Begin, queues, Places
<1>2. TypeOK'
  <2>1. cover' \in [Threads -> Seq(Record)]
    BY <1>1, EmptySeq DEF TypeOK
  <2>. QED
    BY <1>1, <2>1 DEF TypeOK, Places
<1>3. Placed'
  BY <1>1, StillPlaced DEF Holding
<1>4. Waiting'
  BY <1>1 DEF Waiting
<1>5. ASSUME ~overtaken' PROVE One' /\ OfSession' /\ InPlaceOrder'
  <2>1. One /\ OfSession /\ InPlaceOrder
    BY <1>1, <1>5 DEF Ordered
  <2>2. One'
    BY <1>1, <2>1 DEF One
  <2>3. cover'[t] = <<>> /\ \A u \in Threads : u # t => cover'[u] = cover[u]
    BY <1>1 DEF TypeOK
  <2>. QED
    BY <1>1, <2>1, <2>2, <2>3, StillOrdered DEF Holding, Covering
<1>. QED
  BY <1>2, <1>3, <1>4, <1>5 DEF Ordered

LEMMA GetReadyGood ==
    ASSUME IInv, NEW t \in Threads, GetReady(t)
    PROVE  IInv'
<1>. USE DEF IInv
<1>1. /\ UNCHANGED <<free, head, package, frameIndex, taskRun, threadRun, node, cover,
                     session, sent, overtaken>>
      /\ ready' = TRUE
      /\ pc' \in [Threads -> Places] /\ pc[t] = "begun" /\ pc'[t] = "loop"
      /\ \A u \in Threads : u # t => pc'[u] = pc[u]
  BY GotoFacts DEF GetReady, queues, flags, Places
<1>2. TypeOK'
  BY <1>1 DEF TypeOK, Places
<1>3. Placed'
  BY <1>1, StillPlaced DEF Holding
<1>4. Waiting'
  BY <1>1 DEF Waiting
<1>5. ASSUME ~overtaken' PROVE One' /\ OfSession' /\ InPlaceOrder'
  <2>1. One /\ OfSession /\ InPlaceOrder
    BY <1>1, <1>5 DEF Ordered
  <2>2. One'
    BY <1>1, <2>1 DEF One
  <2>. QED
    BY <1>1, <2>1, <2>2, StillOrdered DEF Holding, Covering
<1>. QED
  BY <1>2, <1>3, <1>4, <1>5 DEF Ordered

LEMMA LoopGood ==
    ASSUME IInv, NEW t \in Threads, Loop(t)
    PROVE  IInv'
<1>. USE DEF IInv
<1>1. /\ UNCHANGED <<free, head, package, frameIndex, ready, taskRun, threadRun, node,
                     cover, session, sent, overtaken>>
      /\ pc' \in [Threads -> Places] /\ pc[t] = "loop" /\ pc'[t] \in {"take", "leaving"}
      /\ \A u \in Threads : u # t => pc'[u] = pc[u]
  BY GotoFacts DEF Loop, queues, flags, Places
<1>2. TypeOK'
  BY <1>1 DEF TypeOK, Places
<1>3. Placed'
  BY <1>1, StillPlaced DEF Holding
<1>4. Waiting'
  BY <1>1 DEF Waiting
<1>5. ASSUME ~overtaken' PROVE One' /\ OfSession' /\ InPlaceOrder'
  <2>1. One /\ OfSession /\ InPlaceOrder
    BY <1>1, <1>5 DEF Ordered
  <2>2. One'
    BY <1>1, <2>1 DEF One
  <2>. QED
    BY <1>1, <2>1, <2>2, StillOrdered DEF Holding, Covering
<1>. QED
  BY <1>2, <1>3, <1>4, <1>5 DEF Ordered

LEMMA NotReadyGood ==
    ASSUME IInv, NEW t \in Threads, NotReady(t)
    PROVE  IInv'
<1>. USE DEF IInv
<1>1. /\ UNCHANGED <<free, head, package, frameIndex, taskRun, threadRun, node, cover,
                     session, sent, overtaken>>
      /\ ready' = FALSE
      /\ pc' \in [Threads -> Places] /\ pc[t] = "leaving" /\ pc'[t] = "releasing"
      /\ \A u \in Threads : u # t => pc'[u] = pc[u]
  BY GotoFacts DEF NotReady, queues, flags, Places
<1>2. TypeOK'
  BY <1>1 DEF TypeOK, Places
<1>3. Placed'
  BY <1>1, StillPlaced DEF Holding
<1>4. Waiting'
  BY <1>1 DEF Waiting
<1>5. ASSUME ~overtaken' PROVE One' /\ OfSession' /\ InPlaceOrder'
  <2>1. One /\ OfSession /\ InPlaceOrder
    BY <1>1, <1>5 DEF Ordered
  <2>2. One'
    BY <1>1, <2>1 DEF One
  <2>. QED
    BY <1>1, <2>1, <2>2, StillOrdered DEF Holding, Covering
<1>. QED
  BY <1>2, <1>3, <1>4, <1>5 DEF Ordered

LEMMA FinishGood ==
    ASSUME IInv, NEW t \in Threads, Finish(t)
    PROVE  IInv'
<1>. USE DEF IInv
<1>1. /\ UNCHANGED <<free, head, package, frameIndex, ready, taskRun, node, cover,
                     session, sent, overtaken>>
      /\ threadRun' = FALSE
      /\ pc' \in [Threads -> Places] /\ pc[t] = "released" /\ pc'[t] = "free"
      /\ \A u \in Threads : u # t => pc'[u] = pc[u]
  BY GotoFacts DEF Finish, queues, Places
<1>2. TypeOK'
  BY <1>1 DEF TypeOK, Places
<1>3. Placed'
  BY <1>1, StillPlaced DEF Holding
<1>4. Waiting'
  BY <1>1 DEF Waiting
<1>5. ASSUME ~overtaken' PROVE One' /\ OfSession' /\ InPlaceOrder'
  <2>1. One /\ OfSession /\ InPlaceOrder
    BY <1>1, <1>5 DEF Ordered
  <2>2. One'
    BY <1>1, <2>1 DEF One
  <2>. QED
    BY <1>1, <2>1, <2>2, StillOrdered DEF Holding, Covering
<1>. QED
  BY <1>2, <1>3, <1>4, <1>5 DEF Ordered

----------------------------------------------------------------------------
\* The steps that move one.
LEMMA TakeGood ==
    ASSUME IInv, NEW t \in Threads, Take(t)
    PROVE  IInv'
<1>. USE DEF IInv
<1>1. /\ UNCHANGED <<free, package, frameIndex, ready, taskRun, threadRun, cover,
                     session, sent, overtaken>>
      /\ pc[t] = "take"
  BY DEF Take, flags
<1>2. CASE head = <<>>
  <2>1. /\ UNCHANGED <<head, node>>
        /\ pc' \in [Threads -> Places] /\ pc'[t] = "loop"
        /\ \A u \in Threads : u # t => pc'[u] = pc[u]
    BY <1>2 DEF Take, TypeOK, Places
  <2>2. TypeOK'
    BY <1>1, <2>1 DEF TypeOK, Places
  <2>3. Placed'
    BY <1>1, <2>1, StillPlaced DEF Holding
  <2>4. Waiting'
    BY <1>1, <2>1 DEF Waiting
  <2>5. ASSUME ~overtaken' PROVE One' /\ OfSession' /\ InPlaceOrder'
    <3>1. One /\ OfSession /\ InPlaceOrder
      BY <1>1, <2>5 DEF Ordered
    <3>2. One'
      BY <1>1, <2>1, <3>1 DEF One
    <3>. QED
      BY <1>1, <2>1, <3>1, <3>2, StillOrdered DEF Holding, Covering
  <2>. QED
    BY <2>2, <2>3, <2>4, <2>5 DEF Ordered
<1>3. CASE head # <<>>
  <2>. DEFINE n == Head(head)
  <2>1. /\ node' = [node EXCEPT ![t] = n] /\ head' = Tail(head)
        /\ pc' \in [Threads -> Places] /\ pc'[t] = "holding"
        /\ \A u \in Threads : u # t => pc'[u] = pc[u]
    BY <1>3 DEF Take, TypeOK, Places
  <2>2. /\ n \in Nodes /\ n = head[1] /\ Len(head) \in Nat \ {0}
        /\ head' \in Seq(Nodes) /\ Len(head') = Len(head) - 1
        /\ \A i \in 1 .. Len(head') : head'[i] = head[i + 1]
    BY <1>3, <2>1, HeadTailProperties, EmptySeq DEF TypeOK
  <2>3. node'[t] = n /\ n # NoNode /\ \A u \in Threads : u # t => node'[u] = node[u]
    BY <2>1, <2>2, QueueAssumption DEF TypeOK
  <2>. HIDE DEF n
  <2>4. TypeOK'
    BY <1>1, <2>1, <2>2 DEF TypeOK, Places
  <2>5. /\ 1 \in 1 .. Len(head)
        /\ \A i \in 1 .. Len(head') : i + 1 \in 1 .. Len(head) /\ i + 1 # 1
        /\ \A i \in 1 .. Len(head') : head'[i] # n
    <3>1. 1 \in 1 .. Len(head) /\ \A i \in 1 .. Len(head') : i + 1 \in 1 .. Len(head) /\ i + 1 # 1
      BY <2>2
    <3>. QED
      BY <2>2, <3>1 DEF Placed, HeadOnce
  <2>6. Placed'
    <3>1. FreeOnce'
      BY <1>1 DEF Placed, FreeOnce
    <3>2. HeadOnce'
      BY <2>2 DEF Placed, HeadOnce
    <3>3. Apart'
      BY <1>1, <2>2, <2>5 DEF Placed, Apart
    <3>4. \A u \in Threads : node[u] # n
      BY <2>2, <2>5 DEF Placed, HeldApart
    <3>5. \A u \in Threads : u # t => (Holding(u)' <=> Holding(u))
      BY <2>1 DEF Holding
    <3>6. Holding(t)'
      BY <2>1 DEF Holding
    <3>7. HeldOnce'
      BY <2>3, <3>4, <3>5, <3>6 DEF Placed, HeldOnce
    <3>8. HeldApart'
      BY <1>1, <2>2, <2>3, <2>5 DEF Placed, HeldApart, Apart
    <3>9. ~Holding(t) /\ node[t] = NoNode
      BY <1>1 DEF Holding, Placed, HeldOnce
    <3>10. ASSUME NEW m \in Nodes PROVE Somewhere(m)'
      <4>1. CASE \E i \in 1 .. Len(free) : free[i] = m
        BY <1>1, <4>1 DEF Somewhere
      <4>2. CASE \E i \in 1 .. Len(head) : head[i] = m
        <5>1. PICK i \in 1 .. Len(head) : head[i] = m
          BY <4>2
        <5>2. CASE i = 1
          BY <2>2, <2>3, <5>1, <5>2 DEF Somewhere
        <5>3. CASE i # 1
          <6>1. i - 1 \in 1 .. Len(head') /\ head'[i - 1] = m
            BY <2>2, <5>1, <5>3
          <6>. QED
            BY <6>1 DEF Somewhere
        <5>. QED
          BY <5>2, <5>3
      <4>3. CASE \E u \in Threads : node[u] = m
        <5>1. PICK u \in Threads : node[u] = m
          BY <4>3
        <5>2. u # t
          BY <3>9, <5>1, QueueAssumption
        <5>. QED
          BY <2>3, <5>1, <5>2 DEF Somewhere
      <4>. QED
        BY <4>1, <4>2, <4>3 DEF Placed, Somewhere
    <3>. QED
      BY <3>1, <3>2, <3>3, <3>7, <3>8, <3>10 DEF Placed
  <2>7. Waiting'
    BY <1>1, <1>3, <2>1 DEF Waiting
  <2>8. ASSUME ~overtaken' PROVE One' /\ OfSession' /\ InPlaceOrder'
    <3>1. One /\ OfSession /\ InPlaceOrder
      BY <1>1, <2>8 DEF Ordered
    <3>2. One'
      BY <1>1, <2>1, <3>1 DEF One
    <3>3. \A u \in Threads : u # t => ~Holding(u)' /\ ~Covering(u)'
      BY <1>1, <2>1, <3>1 DEF One, Holding, Covering
    <3>4. ~Holding(t) /\ Covering(t)
      BY <1>1 DEF Holding, Covering
    <3>5. package'[node'[t]] = package[head[1]]
      BY <1>1, <2>2, <2>3
    <3>6. \A i \in 1 .. Len(head') : package'[head'[i]] = package[head[i + 1]]
      BY <1>1, <2>2
    <3>7. OfSession'
      <4>1. ASSUME NEW i \in 1 .. Len(head') PROVE package'[head'[i]].session = session
        <5>1. i + 1 \in 1 .. Len(head) /\ package'[head'[i]] = package[head[i + 1]]
          BY <2>5, <3>6
        <5>2. \A j \in 1 .. Len(head) : package[head[j]].session = session
          BY <3>1 DEF OfSession
        <5>. QED
          BY <5>1, <5>2
      <4>2. package'[node'[t]].session = session
        BY <2>5, <3>1, <3>5 DEF OfSession
      <4>3. \A i \in 1 .. Len(cover[t]) : cover[t][i].session = session
        BY <3>1, <3>4 DEF OfSession
      <4>. QED
        BY <1>1, <3>3, <4>1, <4>2, <4>3 DEF OfSession
    <3>8. QueueInOrder' /\ SentInOrder'
      <4>1. \A i, j \in 1 .. Len(head') : i < j => i + 1 < j + 1
        BY <2>2
      <4>. QED
        BY <1>1, <2>5, <3>1, <3>6, <4>1 DEF InPlaceOrder, QueueInOrder, SentInOrder
    <3>9. HeldInOrder'
      <4>1. \A i \in 1 .. Len(head') : 1 < i + 1
        BY <2>2
      <4>2. /\ sent.voice <= package[head[1]].index /\ sent.ring <= package[head[1]].index
            /\ package[head[1]].index <= frameIndex
            /\ \A i \in 1 .. Len(head') : package[head[1]].index < package[head[i + 1]].index
        BY <2>5, <3>1, <4>1 DEF InPlaceOrder, QueueInOrder
      <4>. QED
        BY <1>1, <3>3, <3>5, <3>6, <4>2 DEF HeldInOrder
    <3>10. CoverInOrder'
      <4>1. ASSUME NEW i \in 1 .. Len(cover[t])
            PROVE  /\ sent.ring <= cover[t][i].index /\ cover[t][i].index <= frameIndex
                   /\ \A j \in 1 .. Len(head) : cover[t][i].index <= package[head[j]].index
        BY <3>1, <3>4 DEF InPlaceOrder, CoverInOrder
      <4>2. ASSUME NEW i \in 1 .. Len(cover[t])
            PROVE  /\ cover[t][i].index <= package'[node'[t]].index
                   /\ \A j \in 1 .. Len(head') : cover[t][i].index <= package'[head'[j]].index
        BY <2>5, <3>5, <3>6, <4>1
      <4>. QED
        BY <1>1, <3>3, <4>1, <4>2 DEF CoverInOrder
    <3>. QED
      BY <3>2, <3>7, <3>8, <3>9, <3>10 DEF InPlaceOrder
  <2>. QED
    BY <2>4, <2>6, <2>7, <2>8 DEF Ordered
<1>. QED
  BY <1>2, <1>3

LEMMA GiveBackGood ==
    ASSUME IInv, NEW t \in Threads, GiveBack(t)
    PROVE  IInv'
<1>. USE DEF IInv
<1>. DEFINE n == node[t]
<1>1. /\ UNCHANGED <<head, package, frameIndex, ready, taskRun, threadRun, cover,
                     session, sent, overtaken>>
      /\ free' = Append(free, n) /\ node' = [node EXCEPT ![t] = NoNode]
      /\ pc' \in [Threads -> Places] /\ pc[t] = "done" /\ pc'[t] = "loop"
      /\ \A u \in Threads : u # t => pc'[u] = pc[u]
  BY GotoFacts DEF GiveBack, flags, Places
<1>2. Holding(t) /\ n \in Nodes /\ n # NoNode
  BY <1>1 DEF Holding, Placed, HeldOnce, TypeOK
<1>3. /\ free' \in Seq(Nodes) /\ Len(free) \in Nat /\ Len(free') = Len(free) + 1
      /\ \A i \in 1 .. Len(free) : free'[i] = free[i]
      /\ free'[Len(free) + 1] = n
      /\ \A i \in 1 .. Len(free') : i \in 1 .. Len(free) \/ i = Len(free) + 1
  <2>1. /\ free' \in Seq(Nodes) /\ Len(free) \in Nat /\ Len(free') = Len(free) + 1
        /\ \A i \in 1 .. Len(free) : free'[i] = free[i]
        /\ free'[Len(free) + 1] = n
    BY <1>1, <1>2 DEF TypeOK
  <2>. QED
    BY <2>1
<1>4. node'[t] = NoNode /\ \A u \in Threads : u # t => node'[u] = node[u]
  BY <1>1 DEF TypeOK
<1>. HIDE DEF n
<1>5. TypeOK'
  BY <1>1, <1>3 DEF TypeOK, Places
<1>6. /\ \A i \in 1 .. Len(free) : free[i] # n
      /\ \A i \in 1 .. Len(head) : head[i] # n
  BY DEF Placed, HeldApart, n
<1>7. Placed'
  <2>1. FreeOnce'
    BY <1>3, <1>6 DEF Placed, FreeOnce
  <2>2. HeadOnce'
    BY <1>1 DEF Placed, HeadOnce
  <2>3. Apart'
    BY <1>1, <1>3, <1>6 DEF Placed, Apart
  <2>4. \A u \in Threads : u # t => (Holding(u)' <=> Holding(u))
    BY <1>1 DEF Holding
  <2>5. ~Holding(t)'
    BY <1>1 DEF Holding
  <2>6. HeldOnce'
    BY <1>4, <2>4, <2>5 DEF Placed, HeldOnce
  <2>7. \A u \in Threads : u # t => node[u] # n
    BY <1>2 DEF Placed, HeldOnce, n
  <2>8. \A i \in 1 .. Len(free') : free'[i] \in Nodes
    BY <1>3, ElementOfSeq
  <2>9. \A i \in 1 .. Len(head') : head'[i] \in Nodes
    BY <1>1, ElementOfSeq DEF TypeOK
  <2>10. HeldApart'
    BY <1>1, <1>3, <1>4, <2>7, <2>8, <2>9, QueueAssumption DEF Placed, HeldApart
  <2>11. ASSUME NEW m \in Nodes PROVE Somewhere(m)'
    <3>1. Len(free) + 1 \in 1 .. Len(free') /\ 1 .. Len(free) \subseteq 1 .. Len(free')
      BY <1>3
    <3>2. CASE \E u \in Threads : node[u] = m
      BY <1>3, <1>4, <3>1, <3>2 DEF Somewhere, n
    <3>3. CASE \E i \in 1 .. Len(free) : free[i] = m
      BY <1>3, <3>1, <3>3 DEF Somewhere
    <3>4. CASE \E i \in 1 .. Len(head) : head[i] = m
      BY <1>1, <3>4 DEF Somewhere
    <3>. QED
      BY <3>2, <3>3, <3>4 DEF Placed, Somewhere
  <2>. QED
    BY <2>1, <2>2, <2>3, <2>6, <2>10, <2>11 DEF Placed
<1>8. Waiting'
  BY <1>1 DEF Waiting
<1>9. ASSUME ~overtaken' PROVE One' /\ OfSession' /\ InPlaceOrder'
  <2>1. One /\ OfSession /\ InPlaceOrder
    BY <1>1, <1>9 DEF Ordered
  <2>2. One'
    BY <1>1, <2>1 DEF One
  <2>. QED
    BY <1>1, <1>4, <2>1, <2>2, StillOrdered DEF Holding, Covering
<1>. QED
  BY <1>5, <1>7, <1>8, <1>9 DEF Ordered

LEMMA ReleaseAllGood ==
    ASSUME IInv, NEW t \in Threads, ReleaseAll(t)
    PROVE  IInv'
<1>. USE DEF IInv
<1>1. /\ UNCHANGED <<package, frameIndex, ready, taskRun, threadRun, node, cover,
                     session, sent, overtaken>>
      /\ head' = <<>> /\ free' = free \o head
      /\ pc' \in [Threads -> Places] /\ pc[t] = "releasing" /\ pc'[t] = "released"
      /\ \A u \in Threads : u # t => pc'[u] = pc[u]
  BY GotoFacts DEF ReleaseAll, flags, Places
<1>2. /\ free' \in Seq(Nodes) /\ Len(free) \in Nat /\ Len(head) \in Nat
      /\ Len(free') = Len(free) + Len(head)
      /\ \A i \in 1 .. Len(free') :
            free'[i] = IF i <= Len(free) THEN free[i] ELSE head[i - Len(free)]
  BY <1>1, ConcatProperties, LenProperties DEF TypeOK
<1>3. \A i \in 1 .. Len(free') :
         \/ i \in 1 .. Len(free) /\ free'[i] = free[i]
         \/ /\ i \notin 1 .. Len(free) /\ i - Len(free) \in 1 .. Len(head)
            /\ free'[i] = head[i - Len(free)]
  BY <1>2
<1>4. TypeOK'
  BY <1>1, <1>2, EmptySeq DEF TypeOK, Places
<1>5. Len(head') = 0
  BY <1>1, EmptySeq
<1>6. Placed'
  <2>1. ASSUME NEW i \in 1 .. Len(free'), NEW j \in 1 .. Len(free'), free'[i] = free'[j]
        PROVE  i = j
    <3>1. CASE i \in 1 .. Len(free) /\ j \in 1 .. Len(free)
      BY <1>3, <2>1, <3>1 DEF Placed, FreeOnce
    <3>2. CASE i \notin 1 .. Len(free) /\ j \notin 1 .. Len(free)
      <4>1. i - Len(free) = j - Len(free)
        BY <1>3, <2>1, <3>2 DEF Placed, HeadOnce
      <4>. QED
        BY <1>2, <4>1
    <3>3. CASE i \in 1 .. Len(free) /\ j \notin 1 .. Len(free)
      BY <1>3, <2>1, <3>3 DEF Placed, Apart
    <3>4. CASE i \notin 1 .. Len(free) /\ j \in 1 .. Len(free)
      BY <1>3, <2>1, <3>4 DEF Placed, Apart
    <3>. QED
      BY <3>1, <3>2, <3>3, <3>4
  <2>2. FreeOnce'
    BY <2>1 DEF FreeOnce
  <2>3. HeadOnce' /\ Apart'
    BY <1>5 DEF HeadOnce, Apart
  <2>4. HeldOnce'
    <3>1. \A u \in Threads : Holding(u)' <=> Holding(u)
      BY <1>1 DEF Holding
    <3>. QED
      BY <1>1, <3>1 DEF Placed, HeldOnce
  <2>5. HeldApart'
    BY <1>1, <1>3, <1>5 DEF Placed, HeldApart
  <2>6. ASSUME NEW m \in Nodes PROVE Somewhere(m)'
    <3>1. CASE \E i \in 1 .. Len(free) : free[i] = m
      <4>1. PICK i \in 1 .. Len(free) : free[i] = m
        BY <3>1
      <4>2. i \in 1 .. Len(free') /\ free'[i] = m
        BY <1>2, <4>1
      <4>. QED
        BY <4>2 DEF Somewhere
    <3>2. CASE \E i \in 1 .. Len(head) : head[i] = m
      <4>1. PICK i \in 1 .. Len(head) : head[i] = m
        BY <3>2
      <4>. DEFINE j == i + Len(free)
      <4>2. j \in 1 .. Len(free') /\ ~(j <= Len(free)) /\ j - Len(free) = i
        <5>1. i \in Nat /\ 1 <= i /\ i <= Len(head) /\ Len(free) \in Nat /\ Len(head) \in Nat
              /\ Len(free') = Len(free) + Len(head)
          BY <1>2
        <5>. QED
          BY <5>1
      <4>. HIDE DEF j
      <4>3. free'[j] = m
        BY <1>2, <4>1, <4>2
      <4>. QED
        BY <4>2, <4>3 DEF Somewhere
    <3>3. CASE \E u \in Threads : node[u] = m
      BY <1>1, <3>3 DEF Somewhere
    <3>. QED
      BY <3>1, <3>2, <3>3 DEF Placed, Somewhere
  <2>. QED
    BY <2>2, <2>3, <2>4, <2>5, <2>6 DEF Placed
<1>7. Waiting'
  BY <1>1 DEF Waiting
<1>8. ASSUME ~overtaken' PROVE One' /\ OfSession' /\ InPlaceOrder'
  <2>1. One /\ OfSession /\ InPlaceOrder
    BY <1>1, <1>8 DEF Ordered
  <2>2. One'
    BY <1>1, <2>1 DEF One
  <2>. QED
    BY <1>1, <2>1, <2>2, StillOrdered DEF Holding, Covering
<1>. QED
  BY <1>4, <1>6, <1>7, <1>8 DEF Ordered

----------------------------------------------------------------------------
\* The steps that send.
LEMMA SendVoiceGood ==
    ASSUME IInv, NEW t \in Threads, SendVoice(t)
    PROVE  IInv'
<1>. USE DEF IInv
<1>. DEFINE p == package[node[t]]
<1>1. /\ UNCHANGED <<free, head, package, frameIndex, ready, taskRun, threadRun, node,
                     cover, session, overtaken>>
      /\ sent' = [sent EXCEPT !.voice = p.index, !.from = {p.session}]
      /\ pc' \in [Threads -> Places] /\ pc[t] = "holding" /\ pc'[t] = "done"
      /\ \A u \in Threads : u # t => pc'[u] = pc[u]
  BY GotoFacts DEF SendVoice, queues, flags, Places
<1>2. Holding(t) /\ p \in Record
  BY <1>1, NumberFacts DEF Holding
<1>3. sent' \in Frames /\ sent'.voice = p.index /\ sent'.ring = sent.ring
  BY <1>1, <1>2 DEF TypeOK, Frames, Record
<1>4. TypeOK'
  BY <1>1, <1>3 DEF TypeOK, Places
<1>5. \A u \in Threads :
         (Holding(u)' <=> Holding(u)) /\ (Covering(u)' <=> Covering(u))
  BY <1>1 DEF Holding, Covering
<1>6. Placed'
  BY <1>1, <1>5, StillPlaced
<1>7. Waiting'
  BY <1>1 DEF Waiting
<1>8. ASSUME ~overtaken' PROVE One' /\ OfSession' /\ InPlaceOrder'
  <2>1. One /\ OfSession /\ InPlaceOrder
    BY <1>1, <1>8 DEF Ordered
  <2>2. One'
    BY <1>1, <2>1 DEF One
  <2>3. \A u \in Threads : u # t => ~Holding(u)
    BY <1>1, <2>1 DEF One, Holding
  <2>4. OfSession'
    BY <1>1, <1>5, <2>1 DEF OfSession
  <2>5. QueueInOrder'
    BY <1>1, <1>2, <1>3, <2>1, NumberFacts DEF InPlaceOrder, QueueInOrder, HeldInOrder
  <2>6. SentInOrder'
    BY <1>1, <1>2, <1>3, <2>1 DEF InPlaceOrder, SentInOrder, HeldInOrder
  <2>7. HeldInOrder'
    BY <1>1, <1>2, <1>3, <1>5, <2>1, <2>3, NumberFacts DEF InPlaceOrder, HeldInOrder
  <2>8. CoverInOrder'
    BY <1>1, <1>3, <1>5, <2>1 DEF InPlaceOrder, CoverInOrder
  <2>. QED
    BY <2>2, <2>4, <2>5, <2>6, <2>7, <2>8 DEF InPlaceOrder
<1>. QED
  BY <1>4, <1>6, <1>7, <1>8 DEF Ordered

\* The frame that leaves when the cover buffer is full ends with its last
\* package, which waited behind none of the queue.
LEMMA CoverRingGood ==
    ASSUME IInv, NEW t \in Threads, CoverRing(t)
    PROVE  IInv'
<1>. USE DEF IInv
<1>. DEFINE p == package[node[t]]
            full == Len(cover[t]) = CoverMax
            last == Last(cover[t])
<1>1. /\ UNCHANGED <<free, head, package, frameIndex, ready, taskRun, threadRun, node,
                     session, overtaken>>
      /\ pc' \in [Threads -> Places] /\ pc[t] = "holding" /\ pc'[t] = "done"
      /\ \A u \in Threads : u # t => pc'[u] = pc[u]
  BY GotoFacts DEF CoverRing, queues, flags, Places
<1>2. Holding(t) /\ Covering(t) /\ p \in Record
  BY <1>1, NumberFacts DEF Holding, Covering
<1>3. /\ cover[t] \in Seq(Record) /\ Len(cover[t]) \in Nat
      /\ \A i \in 1 .. Len(cover[t]) : cover[t][i] \in Record
  BY NumberFacts, LenProperties DEF TypeOK
<1>4. ASSUME full
      PROVE  /\ Len(cover[t]) \in 1 .. Len(cover[t]) /\ last = cover[t][Len(cover[t])]
             /\ last \in Record
  BY <1>3, <1>4, QueueAssumption DEF Last
<1>5. /\ sent' \in Frames /\ sent'.voice = sent.voice
      /\ full => sent'.ring = last.index
      /\ ~full => sent' = sent
  <2>1. CASE full
    <3>1. sent' = [sent EXCEPT !.ring = last.index,
                               !.from = {cover[t][i].session : i \in DOMAIN cover[t]}]
      BY <2>1 DEF CoverRing
    <3>2. {cover[t][i].session : i \in DOMAIN cover[t]} \in SUBSET (0 .. MaxSessions)
      <4>1. DOMAIN cover[t] = 1 .. Len(cover[t])
        BY <1>3, LenProperties
      <4>2. \A r \in Record : r.session \in 0 .. MaxSessions
        BY DEF Record
      <4>. QED
        BY <1>3, <4>1, <4>2
    <3>3. last.index \in 0 .. MaxPackages
      BY <1>4, <2>1 DEF Record
    <3>. HIDE DEF last
    <3>. QED
      BY <2>1, <3>1, <3>2, <3>3 DEF TypeOK, Frames
  <2>2. CASE ~full
    BY <2>2 DEF CoverRing, TypeOK
  <2>. QED
    BY <2>1, <2>2
<1>6. /\ cover' \in [Threads -> Seq(Record)]
      /\ \A u \in Threads : u # t => cover'[u] = cover[u]
      /\ \A i \in 1 .. Len(cover'[t]) :
            \/ cover'[t][i] = p
            \/ ~full /\ i \in 1 .. Len(cover[t]) /\ cover'[t][i] = cover[t][i]
  <2>1. CASE full
    <3>1. cover' = [cover EXCEPT ![t] = <<p>>]
      BY <2>1 DEF CoverRing
    <3>2. <<p>> \in Seq(Record) /\ Len(<<p>>) = 1 /\ <<p>>[1] = p
      BY <1>2
    <3>. QED
      BY <3>1, <3>2 DEF TypeOK
  <2>2. CASE ~full
    <3>1. cover' = [cover EXCEPT ![t] = Append(cover[t], p)]
      BY <2>2 DEF CoverRing
    <3>2. /\ Append(cover[t], p) \in Seq(Record)
          /\ Len(Append(cover[t], p)) = Len(cover[t]) + 1
          /\ \A i \in 1 .. Len(cover[t]) : Append(cover[t], p)[i] = cover[t][i]
          /\ Append(cover[t], p)[Len(cover[t]) + 1] = p
      BY <1>2, <1>3, AppendProperties
    <3>3. \A i \in 1 .. Len(cover[t]) + 1 : i \in 1 .. Len(cover[t]) \/ i = Len(cover[t]) + 1
      BY <1>3
    <3>4. cover'[t] = Append(cover[t], p)
      BY <3>1 DEF TypeOK
    <3>5. /\ cover' \in [Threads -> Seq(Record)]
          /\ \A u \in Threads : u # t => cover'[u] = cover[u]
      BY <3>1, <3>2 DEF TypeOK
    <3>. QED
      BY <2>2, <3>2, <3>3, <3>4, <3>5
  <2>. QED
    BY <2>1, <2>2
<1>7. TypeOK'
  BY <1>1, <1>5, <1>6 DEF TypeOK, Places
<1>8. \A u \in Threads :
         (Holding(u)' <=> Holding(u)) /\ (Covering(u)' <=> Covering(u))
  BY <1>1 DEF Holding, Covering
<1>9. Placed'
  BY <1>1, <1>8, StillPlaced
<1>10. Waiting'
  BY <1>1 DEF Waiting
<1>11. ASSUME ~overtaken' PROVE One' /\ OfSession' /\ InPlaceOrder'
  <2>1. One /\ OfSession /\ InPlaceOrder
    BY <1>1, <1>11 DEF Ordered
  <2>2. One'
    BY <1>1, <2>1 DEF One
  <2>3. \A u \in Threads : u # t => ~Holding(u) /\ ~Covering(u)
    BY <1>1, <2>1 DEF One, Holding, Covering
  <2>4. p.session = session
    BY <1>2, <2>1 DEF OfSession
  <2>5. /\ sent.voice <= p.index /\ sent.ring <= p.index /\ p.index <= frameIndex
        /\ \A i \in 1 .. Len(head) : p.index < package[head[i]].index
        /\ p.index \in Nat
    BY <1>2, <2>1, NumberFacts DEF InPlaceOrder, HeldInOrder
  <2>6. ASSUME NEW i \in 1 .. Len(cover[t])
        PROVE  /\ sent.ring <= cover[t][i].index /\ cover[t][i].index <= p.index
               /\ cover[t][i].index <= frameIndex
               /\ \A j \in 1 .. Len(head) : cover[t][i].index <= package[head[j]].index
               /\ cover[t][i].session = session
    BY <1>2, <2>1 DEF InPlaceOrder, CoverInOrder, OfSession
  <2>7. /\ sent'.ring <= p.index /\ sent'.ring <= frameIndex
        /\ \A i \in 1 .. Len(head) : sent'.ring <= package[head[i]].index
    <3>1. CASE full
      BY <1>4, <1>5, <2>6, <3>1
    <3>2. CASE ~full
      BY <1>5, <2>1, <2>5, <3>2 DEF InPlaceOrder, QueueInOrder, SentInOrder
    <3>. QED
      BY <3>1, <3>2
  <2>. HIDE DEF last, full
  <2>8. OfSession'
    <3>1. \A i \in 1 .. Len(cover'[t]) : cover'[t][i].session = session
      BY <1>6, <2>4, <2>6
    <3>. QED
      BY <1>1, <1>6, <1>8, <2>1, <2>3, <3>1 DEF OfSession
  <2>9. QueueInOrder'
    BY <1>1, <1>5, <2>1, <2>7 DEF InPlaceOrder, QueueInOrder
  <2>10. SentInOrder'
    BY <1>1, <1>5, <2>1, <2>7 DEF InPlaceOrder, SentInOrder
  <2>11. HeldInOrder'
    BY <1>1, <1>5, <1>8, <2>1, <2>3, <2>5, <2>7 DEF InPlaceOrder, HeldInOrder
  <2>12. ASSUME NEW i \in 1 .. Len(cover'[t])
         PROVE  /\ sent'.ring <= cover'[t][i].index /\ cover'[t][i].index <= frameIndex
                /\ cover'[t][i].index <= p.index
                /\ \A j \in 1 .. Len(head) : cover'[t][i].index <= package[head[j]].index
    <3>1. CASE cover'[t][i] = p
      <4>1. \A j \in 1 .. Len(head) : package[head[j]].index \in Nat
        BY NumberFacts
      <4>. QED
        BY <2>5, <2>7, <3>1, <4>1
    <3>2. CASE ~full /\ i \in 1 .. Len(cover[t]) /\ cover'[t][i] = cover[t][i]
      BY <1>5, <2>6, <3>2
    <3>. QED
      BY <1>6, <3>1, <3>2
  <2>13. CoverInOrder'
    BY <1>1, <1>8, <2>3, <2>12 DEF CoverInOrder
  <2>. QED
    BY <2>2, <2>8, <2>9, <2>10, <2>11, <2>13 DEF InPlaceOrder
<1>. QED
  BY <1>7, <1>9, <1>10, <1>11 DEF Ordered

----------------------------------------------------------------------------
\* In every state the packages are placed, a queue that is not empty has a
\* thread to empty it, and what waits is of this session and in order.
THEOREM AlwaysGood == Spec => []IInv
<1>1. Init => IInv
  BY InitGood
<1>2. IInv /\ [Next]_vars => IInv'
  <2>. SUFFICES ASSUME IInv, [Next]_vars PROVE IInv'
    OBVIOUS
  <2>1. CASE Open
    BY <2>1, OpenGood
  <2>2. CASE Close
    BY <2>2, CloseGood
  <2>3. CASE \E kind \in Kinds : Push(kind)
    BY <2>3, PushGood
  <2>4. ASSUME NEW t \in Threads, Thread(t) PROVE IInv'
    BY <2>4, BeginGood, GetReadyGood, LoopGood, TakeGood, SendVoiceGood, CoverRingGood,
       GiveBackGood, NotReadyGood, ReleaseAllGood, FinishGood DEF Thread
  <2>5. CASE UNCHANGED vars
    <3>1. UNCHANGED <<free, head, package, frameIndex, ready, taskRun, threadRun, pc, node,
                      cover, session, sent, overtaken>>
      BY <2>5 DEF vars
    <3>2. TypeOK'
      BY <3>1 DEF IInv, TypeOK
    <3>3. Placed'
      BY <3>1, StillPlaced DEF IInv, Holding
    <3>4. Waiting'
      BY <3>1 DEF IInv, Waiting
    <3>5. Ordered'
      BY <3>1 DEF IInv, Ordered, One, OfSession, InPlaceOrder, QueueInOrder, SentInOrder,
                  HeldInOrder, CoverInOrder, Holding, Covering
    <3>. QED
      BY <3>2, <3>3, <3>4, <3>5 DEF IInv
  <2>. QED
    BY <2>1, <2>2, <2>3, <2>4, <2>5 DEF Next
<1>. QED
  BY <1>1, <1>2, PTL DEF Spec

\* The variables have their types: no frame index or session passes its bound,
\* no thread holds what is not a package.
THEOREM TypeCorrect == Spec => []TypeOK
<1>1. IInv => TypeOK
  BY DEF IInv
<1>. QED
  BY <1>1, AlwaysGood, PTL

\* No package of the pool is ever leaked, queued twice or in two hands.
THEOREM AlwaysEachInOnePlace == Spec => []EachInOnePlace
<1>1. IInv => EachInOnePlace
  <2>. SUFFICES ASSUME IInv PROVE EachInOnePlace
    OBVIOUS
  <2>. DEFINE all == free \o head
  <2>1. /\ all \in Seq(Nodes) /\ Len(free) \in Nat /\ Len(head) \in Nat
        /\ Len(all) = Len(free) + Len(head) /\ DOMAIN all = 1 .. Len(all)
        /\ \A i \in 1 .. Len(all) :
              all[i] = IF i <= Len(free) THEN free[i] ELSE head[i - Len(free)]
    BY ConcatProperties, LenProperties DEF IInv, TypeOK
  <2>2. \A i \in 1 .. Len(all) :
           \/ i \in 1 .. Len(free) /\ all[i] = free[i]
           \/ /\ i \notin 1 .. Len(free) /\ i - Len(free) \in 1 .. Len(head)
              /\ all[i] = head[i - Len(free)]
    BY <2>1
  <2>. HIDE DEF all
  <2>3. ASSUME NEW i \in DOMAIN all, NEW j \in DOMAIN all, all[i] = all[j]
        PROVE  i = j
    <3>1. CASE i \in 1 .. Len(free) /\ j \in 1 .. Len(free)
      BY <2>1, <2>2, <2>3, <3>1 DEF IInv, Placed, FreeOnce
    <3>2. CASE i \notin 1 .. Len(free) /\ j \notin 1 .. Len(free)
      <4>1. i - Len(free) = j - Len(free)
        BY <2>1, <2>2, <2>3, <3>2 DEF IInv, Placed, HeadOnce
      <4>. QED
        BY <2>1, <4>1
    <3>3. CASE i \in 1 .. Len(free) /\ j \notin 1 .. Len(free)
      BY <2>1, <2>2, <2>3, <3>3 DEF IInv, Placed, Apart
    <3>4. CASE i \notin 1 .. Len(free) /\ j \in 1 .. Len(free)
      BY <2>1, <2>2, <2>3, <3>4 DEF IInv, Placed, Apart
    <3>. QED
      BY <3>1, <3>2, <3>3, <3>4
  <2>4. IsInjective(all)
    BY <2>3 DEF IsInjective
  <2>5. ToSet(all) \cap Held = {}
    BY <2>1, <2>2 DEF ToSet, Held, IInv, Placed, HeldApart
  <2>6. ASSUME NEW n \in Nodes PROVE n \in ToSet(all) \cup Held
    <3>1. CASE \E i \in 1 .. Len(free) : free[i] = n
      <4>1. PICK i \in 1 .. Len(free) : free[i] = n
        BY <3>1
      <4>2. i \in 1 .. Len(all) /\ all[i] = n
        BY <2>1, <4>1
      <4>. QED
        BY <2>1, <4>2 DEF ToSet
    <3>2. CASE \E i \in 1 .. Len(head) : head[i] = n
      <4>1. PICK i \in 1 .. Len(head) : head[i] = n
        BY <3>2
      <4>. DEFINE j == i + Len(free)
      <4>2. j \in 1 .. Len(all) /\ ~(j <= Len(free)) /\ j - Len(free) = i
        <5>1. /\ i \in Nat /\ 1 <= i /\ i <= Len(head) /\ Len(free) \in Nat
              /\ Len(head) \in Nat /\ Len(all) = Len(free) + Len(head)
          BY <2>1
        <5>. QED
          BY <5>1
      <4>. HIDE DEF j
      <4>3. all[j] = n
        BY <2>1, <4>1, <4>2
      <4>. QED
        BY <2>1, <4>2, <4>3 DEF ToSet
    <3>3. CASE \E t \in Threads : node[t] = n
      BY <3>3, QueueAssumption DEF Held
    <3>. QED
      BY <3>1, <3>2, <3>3 DEF IInv, Placed, Somewhere
  <2>7. ToSet(all) \subseteq Nodes
    BY <2>1, ElementOfSeq DEF ToSet
  <2>8. Held \subseteq Nodes
    BY DEF Held, IInv, TypeOK
  <2>9. \A t, u \in Threads : node[t] = node[u] /\ node[t] # NoNode => t = u
    BY DEF IInv, Placed, HeldOnce
  <2>. QED
    BY <2>4, <2>5, <2>6, <2>7, <2>8, <2>9 DEF EachInOnePlace, all
<1>. QED
  BY <1>1, AlwaysGood, PTL

\* No package slips in between the release of the queue and the end of its
\* thread, for any number of threads.
THEOREM AlwaysDrained == Spec => []DrainedAtEnd
<1>1. IInv => DrainedAtEnd
  BY DEF IInv, Waiting, DrainedAtEnd
<1>. QED
  BY <1>1, AlwaysGood, PTL

\* A step that sends is one of two.
LEMMA SendSteps ==
    ASSUME IInv, Next, sent' # sent
    PROVE  \E t \in Threads : SendVoice(t) \/ (CoverRing(t) /\ Len(cover[t]) = CoverMax)
  BY DEF Next, Open, Close, Push, Thread, Begin, GetReady, Loop, Take, CoverRing, GiveBack,
         NotReady, ReleaseAll, Finish

\* No sample of one session goes out in another, as long as no close
\* overtakes the start of a thread.
THEOREM SendsOwnSession == Spec => OwnSession
<1>1. ASSUME IInv, Next, sent' # sent, ~overtaken PROVE sent'.from = {session}
  <2>1. OfSession
    BY <1>1 DEF IInv, Ordered
  <2>2. PICK t \in Threads : SendVoice(t) \/ (CoverRing(t) /\ Len(cover[t]) = CoverMax)
    BY <1>1, SendSteps
  <2>3. sent \in Frames
    BY <1>1 DEF IInv, TypeOK
  <2>4. CASE SendVoice(t)
    <3>1. Holding(t) /\ package[node[t]].session = session
      BY <2>1, <2>4 DEF SendVoice, Goto, Holding, OfSession
    <3>2. sent' = [sent EXCEPT !.voice = package[node[t]].index,
                               !.from = {package[node[t]].session}]
      BY <2>4 DEF SendVoice
    <3>. QED
      BY <2>3, <3>1, <3>2 DEF Frames
  <2>5. CASE CoverRing(t) /\ Len(cover[t]) = CoverMax
    <3>1. cover[t] \in Seq(Record) /\ DOMAIN cover[t] = 1 .. Len(cover[t])
          /\ 1 \in 1 .. Len(cover[t])
      BY <1>1, <2>5, QueueAssumption, LenProperties DEF IInv, TypeOK
    <3>2. \A i \in DOMAIN cover[t] : cover[t][i].session = session
      BY <2>1, <2>5, <3>1 DEF CoverRing, Goto, Covering, OfSession
    <3>3. {cover[t][i].session : i \in DOMAIN cover[t]} = {session}
      BY <3>1, <3>2
    <3>4. sent' = [sent EXCEPT !.ring = Last(cover[t]).index,
                               !.from = {cover[t][i].session : i \in DOMAIN cover[t]}]
      BY <2>5 DEF CoverRing
    <3>. QED
      BY <2>3, <3>3, <3>4 DEF Frames
  <2>. QED
    BY <2>2, <2>4, <2>5
<1>2. IInv /\ [Next]_vars => [sent' # sent /\ ~overtaken => sent'.from = {session}]_vars
  BY <1>1 DEF vars
<1>. QED
  BY <1>2, AlwaysGood, PTL DEF Spec, OwnSession

\* Frames of a kind leave in the order their packages were filled, under the
\* same condition.
THEOREM SendsInOrder == Spec => InOrder
<1>1. ASSUME IInv, Next, ~overtaken
      PROVE  sent'.voice >= sent.voice /\ sent'.ring >= sent.ring
  <2>1. /\ InPlaceOrder /\ sent \in Frames
        /\ sent.voice \in Nat /\ sent.ring \in Nat
    BY <1>1, NumberFacts DEF IInv, Ordered, TypeOK
  <2>2. CASE sent' = sent
    BY <2>1, <2>2
  <2>3. CASE sent' # sent
    <3>1. PICK t \in Threads : SendVoice(t) \/ (CoverRing(t) /\ Len(cover[t]) = CoverMax)
      BY <1>1, <2>3, SendSteps
    <3>2. CASE SendVoice(t)
      <4>1. Holding(t) /\ sent.voice <= package[node[t]].index
            /\ package[node[t]].index \in Nat
        BY <1>1, <2>1, <3>2, NumberFacts DEF SendVoice, Goto, Holding, InPlaceOrder, HeldInOrder, IInv
      <4>2. sent' = [sent EXCEPT !.voice = package[node[t]].index,
                                 !.from = {package[node[t]].session}]
        BY <3>2 DEF SendVoice
      <4>3. sent'.voice = package[node[t]].index /\ sent'.ring = sent.ring
        BY <2>1, <4>2 DEF Frames
      <4>. QED
        BY <2>1, <4>1, <4>3
    <3>3. CASE CoverRing(t) /\ Len(cover[t]) = CoverMax
      <4>1. cover[t] \in Seq(Record) /\ Len(cover[t]) \in 1 .. Len(cover[t])
        BY <1>1, <3>3, QueueAssumption, LenProperties DEF IInv, TypeOK
      <4>2. Last(cover[t]) = cover[t][Len(cover[t])] /\ Covering(t)
        BY <3>3 DEF Last, CoverRing, Goto, Covering
      <4>3. sent.ring <= Last(cover[t]).index /\ Last(cover[t]).index \in Nat
        BY <1>1, <2>1, <4>1, <4>2, NumberFacts DEF InPlaceOrder, CoverInOrder, IInv
      <4>4. sent' = [sent EXCEPT !.ring = Last(cover[t]).index,
                                 !.from = {cover[t][i].session : i \in DOMAIN cover[t]}]
        BY <3>3 DEF CoverRing
      <4>5. sent'.ring = Last(cover[t]).index /\ sent'.voice = sent.voice
        BY <2>1, <4>4 DEF Frames
      <4>. QED
        BY <2>1, <4>3, <4>5
    <3>. QED
      BY <3>1, <3>2, <3>3
  <2>. QED
    BY <2>2, <2>3
<1>2. IInv /\ [Next]_vars =>
         [~overtaken => sent'.voice >= sent.voice /\ sent'.ring >= sent.ring]_vars
  BY <1>1 DEF vars
<1>. QED
  BY <1>2, AlwaysGood, PTL DEF Spec, InOrder

----------------------------------------------------------------------------
\* The queue implements Outbox.  What is numbered must be told apart: the
\* packages that wait or are in a hand, and the records in cover buffers, have
\* different numbers, none beyond the last one given, whether or not a close
\* has overtaken a start.

Queued(n) == \E i \in 1 .. Len(head) : head[i] = n
InHand(n) == \E t \in Threads : pc[t] = "holding" /\ node[t] = n
Live(n) == Queued(n) \/ InHand(n)

LiveNumbers ==
    /\ \A n \in Nodes : Live(n) => package[n].index <= frameIndex
    /\ \A m, n \in Nodes :
          Live(m) /\ Live(n) /\ package[m].index = package[n].index => m = n
CoverNumbers ==
    \A t \in Threads : Covering(t) =>
       \A i \in 1 .. Len(cover[t]) :
          /\ cover[t][i].index <= frameIndex
          /\ \A n \in Nodes : Live(n) => package[n].index # cover[t][i].index
          /\ \A u \in Threads : Covering(u) =>
                \A j \in 1 .. Len(cover[u]) :
                   cover[u][j].index = cover[t][i].index => u = t /\ j = i
Numbered == LiveNumbers /\ CoverNumbers

\* Pending in these terms, in a state and in the next.
InBuffer(k) ==
    \E t \in Threads : Covering(t) /\ \E i \in 1 .. Len(cover[t]) : cover[t][i].index = k
InPackage(k) == \E n \in Nodes : Live(n) /\ package[n].index = k
PendingIs == \A k : k \in Pending <=> InPackage(k) \/ InBuffer(k)

LEMMA PendingFacts == IInv => PendingIs
<1>. SUFFICES ASSUME IInv, NEW k PROVE k \in Pending <=> InPackage(k) \/ InBuffer(k)
  BY DEF PendingIs
<1>1. ToSet(head) = {head[i] : i \in 1 .. Len(head)}
  BY LenProperties DEF ToSet, IInv, TypeOK
<1>2. \A n : n \in ToSet(head) <=> Queued(n)
  BY <1>1 DEF Queued
<1>3. \A n : Live(n) => n \in Nodes
  BY NumberFacts DEF Live, Queued, InHand, Holding, IInv
<1>4. \A t \in Threads : DOMAIN cover[t] = 1 .. Len(cover[t])
  BY LenProperties DEF IInv, TypeOK
<1>5. k \in {package[n].index : n \in ToSet(head)} <=>
        \E n \in Nodes : Queued(n) /\ package[n].index = k
  BY <1>2, <1>3 DEF Live
<1>6. k \in {package[node[t]].index : t \in {u \in Threads : pc[u] = "holding"}} <=>
        \E n \in Nodes : InHand(n) /\ package[n].index = k
  BY <1>3 DEF Live, InHand
<1>7. k \in UNION {{cover[t][i].index : i \in DOMAIN cover[t]} :
                       t \in {u \in Threads : Covering(u)}} <=> InBuffer(k)
  BY <1>4 DEF InBuffer
<1>. QED
  BY <1>5, <1>6, <1>7 DEF Pending, Live, InPackage

LEMMA PendingFactsNext == IInv' => PendingIs'
  BY PendingFacts, PTL

\* A step that queues nothing and covers nothing makes at most fewer of them.
LEMMA FewerPending ==
    ASSUME IInv, IInv', Numbered, UNCHANGED <<package, frameIndex>>,
           \A n \in Nodes : Live(n)' => Live(n),
           \A t \in Threads : Covering(t)' =>
               (Covering(t) /\ cover'[t] = cover[t]) \/ cover'[t] = <<>>
    PROVE  Numbered' /\ Pending' \subseteq Pending
<1>1. \A t \in Threads : \A i \in 1 .. Len(cover'[t]) :
         Covering(t)' => Covering(t) /\ cover'[t] = cover[t] /\ i \in 1 .. Len(cover[t])
  BY EmptySeq
<1>2. LiveNumbers'
  BY DEF Numbered, LiveNumbers
<1>3. CoverNumbers'
  BY <1>1 DEF Numbered, CoverNumbers
<1>4. ASSUME NEW k, InPackage(k)' \/ InBuffer(k)' PROVE InPackage(k) \/ InBuffer(k)
  BY <1>1, <1>4 DEF InPackage, InBuffer
<1>5. Pending' \subseteq Pending
  BY <1>4, PendingFacts, PendingFactsNext DEF PendingIs
<1>. QED
  BY <1>2, <1>3, <1>5 DEF Numbered

\* To the outbox such a step throws away what is not pending any more.
LEMMA FewerIsDiscard ==
    ASSUME UNCHANGED <<frameIndex, sent>>, Pending' \subseteq Pending
    PROVE  [Promise!OutboxNext]_(Promise!outboxVars)
<1>. DEFINE lost == Pending \ Pending'
<1>1. lost \in SUBSET Pending /\ Pending' = Pending \ lost
  OBVIOUS
<1>2. Promise!Discard(lost)
  BY <1>1 DEF Promise!Discard
<1>. QED
  BY <1>1, <1>2 DEF Promise!OutboxNext

\* Opening, closing, and the steps of a thread that send and cover nothing.
LEMMA OutsideQuiet ==
    ASSUME IInv, IInv', Numbered, Open \/ Close
    PROVE  Numbered' /\ [Promise!OutboxNext]_(Promise!outboxVars)
<1>1. UNCHANGED <<head, package, frameIndex, node, cover, sent>>
  BY DEF Open, Close, queues
<1>2. \A t \in Threads : pc'[t] = pc[t] \/ pc'[t] = "created"
  BY DEF Open, Close, IInv, TypeOK
<1>3. \A n \in Nodes : Live(n)' => Live(n)
  BY <1>1, <1>2 DEF Live, Queued, InHand
<1>4. \A t \in Threads : Covering(t)' => Covering(t) /\ cover'[t] = cover[t]
  BY <1>1, <1>2 DEF Covering
<1>. QED
  BY <1>1, <1>3, <1>4, FewerPending, FewerIsDiscard

LEMMA ThreadQuiet ==
    ASSUME IInv, IInv', Numbered, NEW t \in Threads,
           \/ Begin(t) \/ GetReady(t) \/ Loop(t) \/ GiveBack(t)
           \/ NotReady(t) \/ ReleaseAll(t) \/ Finish(t)
    PROVE  Numbered' /\ [Promise!OutboxNext]_(Promise!outboxVars)
<1>1. /\ UNCHANGED <<package, frameIndex, sent>>
      /\ head' = head \/ head' = <<>>
      /\ \A u \in Threads : u # t =>
            pc'[u] = pc[u] /\ node'[u] = node[u] /\ cover'[u] = cover[u]
      /\ pc'[t] # "holding"
      /\ \/ ~Covering(t)'
         \/ Covering(t) /\ cover'[t] = cover[t]
         \/ cover'[t] = <<>>
  BY DEF Begin, GetReady, Loop, GiveBack, NotReady, ReleaseAll, Finish, Goto, queues, flags,
         Covering, IInv, TypeOK
<1>2. \A n : Queued(n)' => Queued(n)
  BY <1>1, EmptySeq DEF Queued
<1>3. \A n \in Nodes : Live(n)' => Live(n)
  BY <1>1, <1>2 DEF Live, InHand
<1>4. \A u \in Threads : Covering(u)' =>
         (Covering(u) /\ cover'[u] = cover[u]) \/ cover'[u] = <<>>
  BY <1>1 DEF Covering
<1>. QED
  BY <1>1, <1>3, <1>4, FewerPending, FewerIsDiscard

\* What is taken off the queue is in a hand.
LEMMA TakeQuiet ==
    ASSUME IInv, IInv', Numbered, NEW t \in Threads, Take(t)
    PROVE  Numbered' /\ [Promise!OutboxNext]_(Promise!outboxVars)
<1>1. /\ UNCHANGED <<package, frameIndex, sent, cover>>
      /\ pc[t] = "take" /\ pc'[t] \in {"loop", "holding"}
      /\ \A u \in Threads : u # t => pc'[u] = pc[u] /\ node'[u] = node[u]
  BY DEF Take, IInv, TypeOK
<1>2. \A u \in Threads : Covering(u)' => Covering(u)
  BY <1>1 DEF Covering
<1>3. \A n \in Nodes : Live(n)' => Live(n)
  <2>1. CASE head = <<>>
    BY <1>1, <2>1 DEF Take, Live, Queued, InHand, IInv, TypeOK
  <2>2. CASE head # <<>>
    <3>1. head' = Tail(head) /\ node'[t] = Head(head)
      BY <2>2 DEF Take, IInv, TypeOK
    <3>2. /\ Len(head) \in Nat \ {0} /\ Head(head) = head[1] /\ Len(head') = Len(head) - 1
          /\ \A i \in 1 .. Len(head') : head'[i] = head[i + 1]
      BY <2>2, <3>1, HeadTailProperties, EmptySeq DEF IInv, TypeOK
    <3>3. \A n : Queued(n)' => Queued(n)
      BY <3>2 DEF Queued
    <3>4. Queued(node'[t])
      BY <3>1, <3>2 DEF Queued
    <3>. QED
      BY <1>1, <3>3, <3>4 DEF Live, InHand
  <2>. QED
    BY <2>1, <2>2
<1>. QED
  BY <1>1, <1>2, <1>3, FewerPending, FewerIsDiscard

\* A package in a hand is nowhere else.
LEMMA HandFacts ==
    ASSUME IInv, NEW t \in Threads, pc[t] = "holding"
    PROVE  /\ node[t] \in Nodes /\ Live(node[t]) /\ ~Queued(node[t])
           /\ \A u \in Threads : pc[u] = "holding" /\ node[u] = node[t] => u = t
<1>1. Holding(t) /\ \A u \in Threads : pc[u] = "holding" => Holding(u)
  BY DEF Holding
<1>2. node[t] \in Nodes
  BY <1>1, NumberFacts DEF IInv
<1>3. ~Queued(node[t])
  BY DEF Queued, IInv, Placed, HeldApart
<1>. QED
  BY <1>1, <1>2, <1>3 DEF Live, InHand, IInv, Placed, HeldOnce

\* Then the thread lets go of it.
LEMMA LetGoFacts ==
    ASSUME IInv, NEW t \in Threads, pc[t] = "holding", UNCHANGED <<head, node>>,
           pc' = [pc EXCEPT ![t] = "done"]
    PROVE  \A n \in Nodes : Live(n)' <=> Live(n) /\ n # node[t]
  BY HandFacts DEF Live, Queued, InHand, IInv, TypeOK

\* A voice package that goes out has a number that nothing else has.
LEMMA SendVoiceOut ==
    ASSUME IInv, IInv', Numbered, NEW t \in Threads, SendVoice(t)
    PROVE  Numbered' /\ [Promise!OutboxNext]_(Promise!outboxVars)
<1>. DEFINE p == package[node[t]].index
<1>1. /\ UNCHANGED <<head, package, frameIndex, node, cover>>
      /\ pc[t] = "holding" /\ pc' = [pc EXCEPT ![t] = "done"]
      /\ sent'.voice = p /\ sent'.ring = sent.ring
  BY DEF SendVoice, Goto, queues, IInv, TypeOK, Frames
<1>2. \A n \in Nodes : Live(n)' <=> Live(n) /\ n # node[t]
  BY <1>1, LetGoFacts
<1>3. \A u \in Threads : Covering(u)' <=> Covering(u)
  BY <1>1 DEF Covering, IInv, TypeOK
<1>4. Numbered'
  BY <1>1, <1>2, <1>3, FewerPending
<1>5. node[t] \in Nodes /\ Live(node[t])
  BY <1>1, HandFacts
<1>6. ASSUME NEW k PROVE InPackage(k)' <=> InPackage(k) /\ k # p
  BY <1>1, <1>2, <1>5 DEF InPackage, Numbered, LiveNumbers
<1>7. ASSUME NEW k PROVE (InBuffer(k)' <=> InBuffer(k)) /\ (InBuffer(k) => k # p)
  BY <1>1, <1>3, <1>5 DEF InBuffer, Numbered, CoverNumbers
<1>8. InPackage(p)
  BY <1>5 DEF InPackage
<1>. HIDE DEF p
<1>9. p \in Pending /\ Pending' = Pending \ {p}
  BY <1>6, <1>7, <1>8, PendingFacts, PendingFactsNext DEF PendingIs
<1>10. Promise!SendVoiceFrame(p)
  BY <1>1, <1>9 DEF Promise!SendVoiceFrame
<1>. QED
  BY <1>4, <1>9, <1>10 DEF Promise!OutboxNext

\* A ring tone package goes from a hand to the end of a cover buffer that is
\* not full, or is the first of the next when the full one has gone out.
LEMMA CoverFacts ==
    ASSUME IInv, NEW t \in Threads, CoverRing(t)
    PROVE  LET full == Len(cover[t]) = CoverMax
               at == Len(cover'[t])
           IN  /\ at \in 1 .. Len(cover'[t]) /\ cover'[t][at] = package[node[t]]
               /\ \A i \in 1 .. Len(cover'[t]) : i # at =>
                     ~full /\ i \in 1 .. Len(cover[t]) /\ cover'[t][i] = cover[t][i]
               /\ ~full => \A i \in 1 .. Len(cover[t]) :
                     i \in 1 .. Len(cover'[t]) /\ cover'[t][i] = cover[t][i]
               /\ full => Len(cover[t]) \in 1 .. Len(cover[t])
                          /\ Last(cover[t]) = cover[t][Len(cover[t])]
               /\ \A u \in Threads : u # t => cover'[u] = cover[u]
<1>. DEFINE p == package[node[t]]
<1>1. cover[t] \in Seq(Record) /\ Len(cover[t]) \in Nat
  BY LenProperties DEF IInv, TypeOK
<1>2. p \in Record
  BY HandFacts, NumberFacts DEF CoverRing, Goto, IInv
<1>3. CASE Len(cover[t]) = CoverMax
  <2>1. cover' = [cover EXCEPT ![t] = <<p>>]
    BY <1>3 DEF CoverRing
  <2>2. cover'[t] = <<p>> /\ \A u \in Threads : u # t => cover'[u] = cover[u]
    BY <2>1 DEF IInv, TypeOK
  <2>3. Len(<<p>>) = 1 /\ <<p>>[1] = p
    OBVIOUS
  <2>4. Len(cover[t]) \in 1 .. Len(cover[t])
    BY <1>1, <1>3, QueueAssumption
  <2>. QED
    BY <1>3, <2>2, <2>3, <2>4 DEF Last
<1>4. CASE Len(cover[t]) # CoverMax
  <2>1. cover' = [cover EXCEPT ![t] = Append(cover[t], p)]
    BY <1>4 DEF CoverRing
  <2>2. cover'[t] = Append(cover[t], p) /\ \A u \in Threads : u # t => cover'[u] = cover[u]
    BY <2>1 DEF IInv, TypeOK
  <2>3. /\ Len(cover'[t]) = Len(cover[t]) + 1
        /\ \A i \in 1 .. Len(cover[t]) : cover'[t][i] = cover[t][i]
        /\ cover'[t][Len(cover[t]) + 1] = p
    BY <1>1, <1>2, <2>2, AppendProperties
  <2>. HIDE DEF p
  <2>4. \A i \in 1 .. Len(cover[t]) + 1 : i \in 1 .. Len(cover[t]) \/ i = Len(cover[t]) + 1
    BY <1>1
  <2>5. /\ Len(cover[t]) + 1 \in 1 .. Len(cover[t]) + 1
        /\ \A i \in 1 .. Len(cover[t]) : i \in 1 .. Len(cover[t]) + 1
    BY <1>1
  <2>. QED
    BY <1>4, <2>2, <2>3, <2>4, <2>5 DEF p
<1>. QED
  BY <1>3, <1>4

LEMMA CoverRingOut ==
    ASSUME IInv, IInv', Numbered, NEW t \in Threads, CoverRing(t)
    PROVE  Numbered' /\ [Promise!OutboxNext]_(Promise!outboxVars)
<1>. DEFINE p == package[node[t]].index
            full == Len(cover[t]) = CoverMax
            at == Len(cover'[t])
            frame == {cover[t][i].index : i \in 1 .. Len(cover[t])}
<1>1. /\ UNCHANGED <<head, package, frameIndex, node>>
      /\ pc[t] = "holding" /\ pc' = [pc EXCEPT ![t] = "done"]
      /\ sent'.voice = sent.voice
      /\ full => sent'.ring = Last(cover[t]).index
      /\ ~full => sent' = sent
  BY DEF CoverRing, Goto, queues, IInv, TypeOK, Frames
<1>2. \A n \in Nodes : Live(n)' <=> Live(n) /\ n # node[t]
  BY <1>1, LetGoFacts
<1>3. Covering(t) /\ \A u \in Threads : Covering(u)' <=> Covering(u)
  BY <1>1 DEF Covering, IInv, TypeOK
<1>4. node[t] \in Nodes /\ Live(node[t])
  BY <1>1, HandFacts
<1>5. /\ at \in 1 .. Len(cover'[t]) /\ cover'[t][at].index = p
      /\ \A i \in 1 .. Len(cover'[t]) : i # at =>
            ~full /\ i \in 1 .. Len(cover[t]) /\ cover'[t][i] = cover[t][i]
      /\ ~full => \A i \in 1 .. Len(cover[t]) :
            i \in 1 .. Len(cover'[t]) /\ cover'[t][i] = cover[t][i]
      /\ full => Last(cover[t]).index \in frame
      /\ \A u \in Threads : u # t => cover'[u] = cover[u]
  BY CoverFacts
<1>6. p <= frameIndex /\ \A n \in Nodes : Live(n)' => package'[n].index # p
  BY <1>1, <1>2, <1>4 DEF Numbered, LiveNumbers
<1>7. \A u \in Threads : Covering(u) => \A i \in 1 .. Len(cover[u]) : cover[u][i].index # p
  BY <1>4 DEF Numbered, CoverNumbers
<1>. HIDE DEF p, full, at, frame
<1>8. LiveNumbers'
  BY <1>1, <1>2 DEF Numbered, LiveNumbers
\* In the next state every record in a buffer is the new one or an old one.
<1>9. ASSUME NEW u \in Threads, Covering(u)', NEW i \in 1 .. Len(cover'[u])
      PROVE  \/ u = t /\ i = at /\ cover'[u][i].index = p
             \/ Covering(u) /\ i \in 1 .. Len(cover[u]) /\ cover'[u][i] = cover[u][i]
  BY <1>3, <1>5, <1>9
<1>10. CoverNumbers'
  <2>1. ASSUME NEW u \in Threads, Covering(u)', NEW i \in 1 .. Len(cover'[u])
        PROVE  /\ cover'[u][i].index <= frameIndex'
               /\ \A n \in Nodes : Live(n)' => package'[n].index # cover'[u][i].index
    BY <1>1, <1>2, <1>6, <1>9, <2>1 DEF Numbered, CoverNumbers
  <2>2. ASSUME NEW u \in Threads, Covering(u)', NEW i \in 1 .. Len(cover'[u]),
               NEW v \in Threads, Covering(v)', NEW j \in 1 .. Len(cover'[v]),
               cover'[v][j].index = cover'[u][i].index
        PROVE  v = u /\ j = i
    <3>1. CASE cover'[u][i].index = p
      BY <1>7, <1>9, <2>2, <3>1
    <3>2. CASE cover'[u][i].index # p
      <4>1. /\ Covering(u) /\ i \in 1 .. Len(cover[u]) /\ cover'[u][i] = cover[u][i]
            /\ Covering(v) /\ j \in 1 .. Len(cover[v]) /\ cover'[v][j] = cover[v][j]
        BY <1>9, <2>2, <3>2
      <4>. QED
        BY <2>2, <4>1 DEF Numbered, CoverNumbers
    <3>. QED
      BY <3>1, <3>2
  <2>. QED
    BY <2>1, <2>2 DEF CoverNumbers
<1>11. \A k : InPackage(k) <=> InPackage(k)' \/ k = p
  BY <1>1, <1>2, <1>4, <1>6 DEF InPackage, p
<1>12. CASE ~full
  <2>1. ASSUME NEW k PROVE InBuffer(k)' <=> InBuffer(k) \/ k = p
    <3>1. InBuffer(k)' => InBuffer(k) \/ k = p
      BY <1>9 DEF InBuffer
    <3>2. k = p => InBuffer(k)'
      BY <1>3, <1>5 DEF InBuffer
    <3>3. InBuffer(k) => InBuffer(k)'
      BY <1>3, <1>5, <1>12 DEF InBuffer
    <3>. QED
      BY <3>1, <3>2, <3>3
  <2>2. Pending' = Pending
    BY <1>11, <2>1, PendingFacts, PendingFactsNext DEF PendingIs
  <2>. QED
    BY <1>1, <1>8, <1>10, <1>12, <2>2, FewerIsDiscard DEF Numbered
<1>13. CASE full
  <2>1. \A k : k \in frame => InBuffer(k)
    BY <1>3 DEF frame, InBuffer
  <2>2. ASSUME NEW k PROVE InBuffer(k)' <=> (InBuffer(k) /\ k \notin frame) \/ k = p
    <3>1. k = p => InBuffer(k)'
      BY <1>3, <1>5 DEF InBuffer
    <3>2. ASSUME InBuffer(k)', k # p PROVE InBuffer(k) /\ k \notin frame
      <4>1. PICK u \in Threads : /\ u # t /\ Covering(u)
                                 /\ \E i \in 1 .. Len(cover[u]) : cover[u][i].index = k
        BY <1>3, <1>5, <1>13, <3>2 DEF InBuffer
      <4>. QED
        BY <1>3, <4>1 DEF frame, InBuffer, Numbered, CoverNumbers
    <3>3. ASSUME InBuffer(k), k \notin frame PROVE InBuffer(k)'
      BY <1>3, <1>5, <3>3 DEF frame, InBuffer
    <3>. QED
      BY <3>1, <3>2, <3>3
  <2>3. \A k : k \in frame => ~InPackage(k) /\ k # p
    BY <1>3, <1>7 DEF frame, InPackage, Numbered, CoverNumbers
  <2>4. frame \subseteq Pending /\ Pending' = Pending \ frame
    BY <1>11, <2>1, <2>2, <2>3, PendingFacts, PendingFactsNext DEF PendingIs
  <2>5. Promise!SendRingFrame(frame)
    BY <1>1, <1>5, <1>13, <2>4 DEF Promise!SendRingFrame
  <2>. QED
    BY <1>8, <1>10, <2>4, <2>5 DEF Promise!OutboxNext, Numbered
<1>. QED
  BY <1>12, <1>13

\* A push gives the next number, to a package that was in nobody's hand.
LEMMA PushOffers ==
    ASSUME IInv, IInv', Numbered, NEW kind \in Kinds, Push(kind)
    PROVE  Numbered' /\ Promise!Offer
<1>. DEFINE n == Head(free)
<1>1. /\ UNCHANGED <<pc, node, cover, sent>> /\ free # <<>>
      /\ head' = Append(head, n) /\ frameIndex' = frameIndex + 1
      /\ package' = [package EXCEPT ![n] =
            [index |-> frameIndex + 1, kind |-> kind, session |-> session]]
  BY DEF Push, flags
<1>2. n \in Nodes /\ n = free[1] /\ 1 \in 1 .. Len(free)
  BY <1>1, HeadTailProperties, EmptySeq DEF IInv, TypeOK
<1>3. ~Live(n)
  BY <1>2 DEF Live, Queued, InHand, IInv, Placed, Apart, HeldApart
<1>4. /\ package'[n].index = frameIndex + 1
      /\ \A m \in Nodes : m # n => package'[m] = package[m]
  BY <1>1, <1>2 DEF IInv, TypeOK
<1>5. /\ Len(head) \in Nat /\ Len(head') = Len(head) + 1 /\ head'[Len(head) + 1] = n
      /\ \A i \in 1 .. Len(head) : head'[i] = head[i]
  BY <1>1, <1>2, AppendProperties, LenProperties DEF IInv, TypeOK
<1>. HIDE DEF n
<1>6. \A m : Queued(m)' <=> Queued(m) \/ m = n
  <2>1. \A i \in 1 .. Len(head) + 1 : i \in 1 .. Len(head) \/ i = Len(head) + 1
    BY <1>5
  <2>2. /\ Len(head) + 1 \in 1 .. Len(head) + 1
        /\ \A i \in 1 .. Len(head) : i \in 1 .. Len(head) + 1
    BY <1>5
  <2>. QED
    BY <1>5, <2>1, <2>2 DEF Queued
<1>7. \A m \in Nodes : Live(m)' <=> Live(m) \/ m = n
  BY <1>1, <1>6 DEF Live, InHand
<1>8. /\ frameIndex \in Nat
      /\ \A m \in Nodes : package[m].index \in Nat
      /\ \A t \in Threads : \A i \in 1 .. Len(cover[t]) : cover[t][i].index \in Nat
  BY NumberFacts DEF IInv, Record
<1>9. LiveNumbers'
  <2>1. \A m \in Nodes : Live(m) => m # n /\ package'[m].index = package[m].index
                                    /\ package'[m].index <= frameIndex
    BY <1>3, <1>4 DEF Numbered, LiveNumbers
  <2>2. \A m \in Nodes : Live(m) => package'[m].index # package'[n].index
    BY <1>4, <1>8, <2>1
  <2>3. ASSUME NEW l \in Nodes, NEW m \in Nodes, Live(l)', Live(m)',
               package'[l].index = package'[m].index
        PROVE  l = m
    BY <1>7, <2>1, <2>2, <2>3 DEF Numbered, LiveNumbers
  <2>4. ASSUME NEW m \in Nodes, Live(m)' PROVE package'[m].index <= frameIndex'
    BY <1>1, <1>4, <1>7, <1>8, <2>1, <2>4
  <2>. QED
    BY <2>3, <2>4 DEF LiveNumbers
<1>10. CoverNumbers'
  <2>1. ASSUME NEW t \in Threads, Covering(t), NEW i \in 1 .. Len(cover[t])
        PROVE  /\ cover[t][i].index <= frameIndex + 1
               /\ cover[t][i].index # frameIndex + 1
               /\ \A m \in Nodes : Live(m) => package[m].index # cover[t][i].index
    BY <1>8, <2>1 DEF Numbered, CoverNumbers
  <2>2. ASSUME NEW t \in Threads, Covering(t), NEW i \in 1 .. Len(cover[t]),
               NEW m \in Nodes, Live(m)'
        PROVE  package'[m].index # cover[t][i].index
    BY <1>3, <1>4, <1>7, <2>1, <2>2
  <2>. QED
    BY <1>1, <2>1, <2>2 DEF Numbered, CoverNumbers, Covering
<1>11. \A k : InBuffer(k)' <=> InBuffer(k)
  BY <1>1 DEF InBuffer, Covering
<1>12. \A k : InPackage(k)' <=> InPackage(k) \/ k = frameIndex + 1
  BY <1>2, <1>3, <1>4, <1>7 DEF InPackage
<1>13. Pending' = Pending \cup {frameIndex'}
  BY <1>1, <1>11, <1>12, PendingFacts, PendingFactsNext DEF PendingIs
<1>. QED
  BY <1>1, <1>9, <1>10, <1>13 DEF Numbered, Promise!Offer

\* Every step of the queue is a step of the outbox, or nothing to it.
LEMMA OutboxStep ==
    ASSUME IInv, IInv', Numbered, [Next]_vars
    PROVE  Numbered' /\ [Promise!OutboxNext]_(Promise!outboxVars)
<1>1. CASE Open \/ Close
  BY <1>1, OutsideQuiet
<1>2. ASSUME NEW kind \in Kinds, Push(kind)
      PROVE  Numbered' /\ [Promise!OutboxNext]_(Promise!outboxVars)
  BY <1>2, PushOffers DEF Promise!OutboxNext
<1>3. ASSUME NEW t \in Threads, Thread(t)
      PROVE  Numbered' /\ [Promise!OutboxNext]_(Promise!outboxVars)
  BY <1>3, ThreadQuiet, TakeQuiet, SendVoiceOut, CoverRingOut DEF Thread
<1>4. CASE UNCHANGED vars
  <2>1. UNCHANGED <<head, package, frameIndex, pc, node, cover, sent>>
    BY <1>4 DEF vars
  <2>2. Numbered'
    BY <2>1 DEF Numbered, LiveNumbers, CoverNumbers, Live, Queued, InHand, Covering
  <2>3. Pending' = Pending
    BY <2>1 DEF Pending, Covering
  <2>. QED
    BY <2>1, <2>2, <2>3 DEF Promise!outboxVars
<1>. QED
  BY <1>1, <1>2, <1>3, <1>4 DEF Next

LEMMA OutboxStart == Init => Promise!OutboxInit /\ Numbered
<1>. SUFFICES ASSUME Init PROVE Promise!OutboxInit /\ Numbered
  OBVIOUS
<1>1. \A n : ~Live(n)
  BY EmptySeq DEF Init, Live, Queued, InHand
<1>2. \A t \in Threads : ~Covering(t)
  BY DEF Init, Covering
<1>3. Numbered
  BY <1>1, <1>2 DEF Numbered, LiveNumbers, CoverNumbers
<1>4. Pending = {}
  BY <1>1, <1>2, InitGood, PendingFacts DEF PendingIs, InPackage, InBuffer
<1>. QED
  BY <1>3, <1>4 DEF Init, Promise!OutboxInit

LEMMA AlwaysNumbered == Spec => []Numbered
<1>1. IInv /\ IInv' /\ Numbered /\ [Next]_vars => Numbered'
  BY OutboxStep
<1>. QED
  BY <1>1, OutboxStart, AlwaysGood, PTL DEF Spec

\* The pool is used without ever sending a package twice, sending one that was
\* thrown away, or sending one that was not pushed, for any pool, threads,
\* cover buffer and sessions, and whatever closes overtake.
THEOREM IsOutbox == Spec => ImplementsOutbox
<1>1. IInv /\ IInv' /\ Numbered /\ [Next]_vars
        => [Promise!OutboxNext]_(Promise!outboxVars)
  BY OutboxStep
<1>. QED
  BY <1>1, OutboxStart, AlwaysGood, AlwaysNumbered, PTL
     DEF Spec, ImplementsOutbox, Promise!OutboxSpec

\* What that means for one package: once it has gone out or was thrown away it
\* never waits to be sent again, in this session or in another.
THEOREM NothingComesBack ==
    Spec => [][\A k \in 1 .. frameIndex : k \notin Pending => k \notin Pending']_vars
<1>1. ASSUME IInv, [Promise!OutboxNext]_(Promise!outboxVars),
             NEW k \in 1 .. frameIndex, k \notin Pending
      PROVE  k \notin Pending'
  <2>1. CASE Promise!Offer
    <3>1. k # frameIndex + 1
      BY <1>1, NumberFacts DEF IInv
    <3>. QED
      BY <1>1, <2>1, <3>1 DEF Promise!Offer
  <2>2. ASSUME NEW p \in Pending, Promise!SendVoiceFrame(p) PROVE k \notin Pending'
    BY <1>1, <2>2 DEF Promise!SendVoiceFrame
  <2>3. ASSUME NEW frame \in SUBSET Pending, Promise!SendRingFrame(frame) PROVE k \notin Pending'
    BY <1>1, <2>3 DEF Promise!SendRingFrame
  <2>4. ASSUME NEW lost \in SUBSET Pending, Promise!Discard(lost) PROVE k \notin Pending'
    BY <1>1, <2>4 DEF Promise!Discard
  <2>5. CASE UNCHANGED Promise!outboxVars
    BY <1>1, <2>5 DEF Promise!outboxVars
  <2>. QED
    BY <1>1, <2>1, <2>2, <2>3, <2>4, <2>5 DEF Promise!OutboxNext
<1>2. IInv /\ IInv' /\ Numbered /\ [Next]_vars =>
         [\A k \in 1 .. frameIndex : k \notin Pending => k \notin Pending']_vars
  BY <1>1, OutboxStep
<1>. QED
  BY <1>2, AlwaysGood, AlwaysNumbered, PTL DEF Spec

\* When the threads of all sessions have gone the whole pool is free again: the
\* next session finds as many packages as the first.
THEOREM PoolIsWhole ==
    Spec => []((\A t \in Threads : pc[t] = "free") => ToSet(free) = Nodes)
<1>1. ASSUME IInv, \A t \in Threads : pc[t] = "free" PROVE ToSet(free) = Nodes
  <2>1. head = <<>> /\ \A t \in Threads : node[t] = NoNode
    BY <1>1 DEF IInv, Waiting, Placed, HeldOnce, Holding
  <2>2. \A n \in Nodes : \E i \in 1 .. Len(free) : free[i] = n
    BY <1>1, <2>1, EmptySeq, QueueAssumption DEF IInv, Placed, Somewhere
  <2>3. ToSet(free) = {free[i] : i \in 1 .. Len(free)} /\ \A i \in 1 .. Len(free) : free[i] \in Nodes
    BY <1>1, LenProperties, ElementOfSeq DEF ToSet, IInv, TypeOK
  <2>. QED
    BY <2>2, <2>3
<1>2. IInv => ((\A t \in Threads : pc[t] = "free") => ToSet(free) = Nodes)
  BY <1>1
<1>. QED
  BY <1>2, AlwaysGood, PTL

==============================================================================
