------------------------ MODULE FrameReassemblyProofs ------------------------
(***************************************************************************)
(* Proofs about FrameReassembly, for any datagram, frame limit, sizes and  *)
(* number of frames.                                                       *)
(*                                                                         *)
(* The invariant follows one frame through its datagrams.  As long as      *)
(* nothing of the last frame is lost, what is collected is its beginning   *)
(* (Gathered); once something is lost, what is collected is too short to   *)
(* be completed by the rest of that frame, so only a later frame whose     *)
(* header is lost can complete it (NoneSince, Broken).  Led carries the    *)
(* run of headers back to a key frame, and Latest, Keyed and Flows say     *)
(* when the loop is ready for the next frame.                              *)
(***************************************************************************)
EXTENDS FrameReassembly, SequenceTheorems, TLAPS

Prefix(k, c) == [u \in 1 .. c |-> [frame |-> k, unit |-> u]]

\* Nothing of the last frame is lost so far.
SoFar == arrived[Last] = 1 .. cut

\* An unbroken run of headers from a key frame to k.
Chain(k) ==
    \E j \in 1 .. k : frames[j].key /\ \A i \in j .. k : HeaderArrived(i)

Sending ==
    /\ Last <= MaxFrames
    /\ Last > 0 => cut \in 0 .. frames[Last].size /\ arrived[Last] \subseteq 1 .. cut

Collecting ==
    start => /\ index \in 1 .. Last
             /\ len = frames[index].size
             /\ len <= FrameMax
             /\ Len(data) < len

NoneSince == start => \A k \in index + 1 .. Last : ~HeaderArrived(k)

Gathered ==
    start /\ index = Last =>
        \/ SoFar /\ data = Prefix(Last, cut)
        \/ ~SoFar /\ Len(data) < cut

Broken == start /\ index < Last => ~AllArrived(index)

Led ==
    /\ start => Chain(index)
    /\ first => prev \in 1 .. Last /\ Chain(prev)

\* A frame that was given to the loop whole so far is being collected.
Started ==
    cut > 0 /\ cut < frames[Last].size => start /\ index = Last

Keyed ==
    Last > 0 /\ frames[Last].key /\ frames[Last].size <= FrameMax /\ SoFar => Started

\* An ordinary frame whose header arrived last is the one to compare with.
Latest ==
    /\ Last = 0 \/ (Last = 1 /\ cut = 0) => ~first
    /\ first /\ Last > 0 /\ HeaderArrived(Last) /\ ~frames[Last].key => prev = Last
    /\ first /\ Last > 1 /\ cut = 0 /\ HeaderArrived(Last - 1) /\ ~frames[Last - 1].key
          => prev = Last - 1

\* A group that flows: from a key frame that follows an ordinary one, nothing
\* is lost up to the last frame.
Begins(j) == frames[j].key /\ (j = 1 \/ (HeaderArrived(j - 1) /\ ~frames[j - 1].key))
Group(j) ==
    /\ Begins(j)
    /\ \A i \in j .. Last - 1 : AllArrived(i)
    /\ \A i \in j .. Last : frames[i].size <= FrameMax
    /\ SoFar
Flows ==
    \A j \in 1 .. Last : Group(j) =>
        /\ cut = 0 /\ j < Last => first /\ prev = Last - 1
        /\ cut > 0 => first /\ prev = Last
        /\ Started

Uploaded == uploads.any \/ tuyaFirst => uploads.key

IInv ==
    /\ TypeOK
    /\ Sending
    /\ Collecting /\ NoneSince /\ Gathered /\ Broken
    /\ Led
    /\ Keyed
    /\ Latest /\ Flows
    /\ Uploaded
    /\ Untorn /\ ChainUnbroken

----------------------------------------------------------------------------
\* Frames and their parts.
LEMMA FrameFacts ==
    ASSUME TypeOK, Sending
    PROVE  /\ Last \in 0 .. MaxFrames /\ Last \in Nat /\ MaxFrames \in Nat
           /\ DOMAIN frames = 1 .. Last /\ Len(arrived) = Last
           /\ \A k \in 1 .. Last :
                 /\ frames[k] \in [key : BOOLEAN, size : Sizes]
                 /\ frames[k].key \in BOOLEAN
                 /\ frames[k].size \in Sizes /\ frames[k].size \in Nat \ {0}
                 /\ arrived[k] \in SUBSET Nat
           /\ cut \in Nat
           /\ AllSent <=> Last = 0 \/ cut = frames[Last].size
<1>1. Last \in Nat /\ MaxFrames \in Nat /\ DOMAIN frames = 1 .. Last
  BY LenProperties, FrameAssumption DEF TypeOK, Last
<1>2. \A k \in 1 .. Last : frames[k] \in [key : BOOLEAN, size : Sizes]
  BY ElementOfSeq DEF TypeOK, Last
<1>3. \A k \in 1 .. Last : frames[k].key \in BOOLEAN /\ frames[k].size \in Sizes
  BY <1>2
<1>4. \A k \in 1 .. Last : arrived[k] \in SUBSET Nat
  BY ElementOfSeq DEF TypeOK
<1>5. frames = <<>> <=> Last = 0
  BY EmptySeq DEF TypeOK, Last
<1>6. AllSent <=> Last = 0 \/ cut = frames[Last].size
  BY <1>5 DEF AllSent
<1>7. Last \in 0 .. MaxFrames
  BY <1>1 DEF Sending
<1>8. \A k \in 1 .. Last : frames[k].size \in Nat \ {0}
  BY <1>3, FrameAssumption
<1>9. Len(arrived) = Last /\ cut \in Nat
  BY DEF TypeOK
<1>. QED
  BY <1>1, <1>2, <1>3, <1>4, <1>6, <1>7, <1>8, <1>9

LEMMA ChunkFacts ==
    ASSUME TypeOK, Sending, ~AllSent
    PROVE  /\ Last \in 1 .. MaxFrames /\ Last \in Nat
           /\ frames[Last].size \in Sizes /\ frames[Last].size \in Nat \ {0}
           /\ cut \in Nat /\ cut < frames[Last].size
           /\ Len(Chunk) \in Nat \ {0} /\ cut + Len(Chunk) <= frames[Last].size
           /\ Chunk \in Seq(Units)
           /\ \A i \in 1 .. Len(Chunk) : Chunk[i] = [frame |-> Last, unit |-> cut + i]
<1>. DEFINE rest == frames[Last].size - cut
            n == IF rest > Datagram THEN Datagram ELSE rest
<1>1. /\ Last \in 1 .. MaxFrames /\ Last \in Nat
      /\ frames[Last].size \in Sizes /\ frames[Last].size \in Nat \ {0}
      /\ cut \in Nat /\ cut \in 0 .. frames[Last].size /\ cut # frames[Last].size
  BY FrameFacts DEF Sending
<1>2. cut < frames[Last].size
  BY <1>1
<1>3. n \in Nat \ {0} /\ cut + n <= frames[Last].size
  BY <1>1, <1>2, FrameAssumption
<1>4. Chunk = [i \in 1 .. n |-> [frame |-> Last, unit |-> cut + i]]
  BY DEF Chunk
<1>. HIDE DEF n
<1>5. \A i \in 1 .. n : [frame |-> Last, unit |-> cut + i] \in Units
  BY <1>1, <1>3 DEF Units
<1>6. Chunk \in [1 .. n -> Units]
  BY <1>4, <1>5
<1>7. Chunk \in Seq(Units)
  BY <1>3, <1>6, SeqDef
<1>8. Len(Chunk) = n
  BY <1>3, <1>6, <1>7, LenProperties
<1>. QED
  BY <1>1, <1>2, <1>3, <1>4, <1>7, <1>8

LEMMA PrefixFacts ==
    ASSUME NEW k \in 1 .. MaxFrames, NEW c \in Nat
    PROVE  /\ Prefix(k, c) \in Seq(Units) /\ Len(Prefix(k, c)) = c
           /\ \A u \in 1 .. c : Prefix(k, c)[u] = [frame |-> k, unit |-> u]
<1>1. \A u \in 1 .. c : [frame |-> k, unit |-> u] \in Units
  BY DEF Units
<1>2. Prefix(k, c) \in [1 .. c -> Units]
  BY <1>1 DEF Prefix
<1>3. Prefix(k, c) \in Seq(Units)
  BY <1>2, SeqDef
<1>4. Len(Prefix(k, c)) = c
  BY <1>2, <1>3, LenProperties
<1>. QED
  BY <1>3, <1>4 DEF Prefix

\* The beginning of a frame and its next datagram are a longer beginning.
LEMMA PrefixGrows ==
    ASSUME TypeOK, Sending, ~AllSent
    PROVE  /\ Prefix(Last, cut) \o Chunk = Prefix(Last, cut + Len(Chunk))
           /\ cut = 0 => Prefix(Last, cut) = <<>>
<1>. DEFINE p == Prefix(Last, cut)
            n == Len(Chunk)
            q == Prefix(Last, cut + n)
<1>1. /\ Last \in 1 .. MaxFrames /\ cut \in Nat /\ n \in Nat /\ cut + n \in Nat
      /\ Chunk \in Seq(Units)
      /\ \A i \in 1 .. n : Chunk[i] = [frame |-> Last, unit |-> cut + i]
  BY ChunkFacts
<1>2. /\ p \in Seq(Units) /\ Len(p) = cut /\ q \in Seq(Units) /\ Len(q) = cut + n
      /\ \A u \in 1 .. cut : p[u] = [frame |-> Last, unit |-> u]
      /\ \A u \in 1 .. cut + n : q[u] = [frame |-> Last, unit |-> u]
  BY <1>1, PrefixFacts
<1>3. /\ p \o Chunk \in Seq(Units) /\ Len(p \o Chunk) = cut + n
      /\ \A i \in 1 .. cut + n : (p \o Chunk)[i] = IF i <= cut THEN p[i] ELSE Chunk[i - cut]
  BY <1>1, <1>2, ConcatProperties
<1>4. cut = 0 => p = <<>>
  BY <1>2, EmptySeq
<1>. HIDE DEF p, q, n
<1>5. ASSUME NEW i \in 1 .. cut + n PROVE (p \o Chunk)[i] = q[i]
  <2>1. CASE i <= cut
    BY <1>1, <1>2, <1>3, <2>1
  <2>2. CASE ~(i <= cut)
    <3>1. i - cut \in 1 .. n /\ cut + (i - cut) = i
      BY <1>1, <2>2
    <3>. QED
      BY <1>1, <1>2, <1>3, <2>2, <3>1
  <2>. QED
    BY <2>1, <2>2
<1>6. p \o Chunk = q
  BY <1>2, <1>3, <1>5, SeqEqual
<1>. QED
  BY <1>4, <1>6 DEF p, q, n

\* A datagram that arrives leaves the other frames alone, and completes what
\* arrived of its own frame just when nothing was lost before.
LEMMA ArriveFacts ==
    ASSUME TypeOK, Sending, ~AllSent, frames' = frames, cut' = cut + Len(Chunk),
           arrived' = [arrived EXCEPT ![Last] =
                          arrived[Last] \cup (cut + 1) .. (cut + Len(Chunk))]
    PROVE  /\ arrived' \in Seq(SUBSET Nat) /\ Len(arrived') = Last
           /\ cut' \in 1 .. frames[Last].size /\ cut < cut'
           /\ arrived'[Last] \subseteq 1 .. cut'
           /\ arrived'[Last] = 1 .. cut' <=> SoFar
           /\ \A k \in 1 .. Last : k # Last => arrived'[k] = arrived[k]
           /\ \A k \in 1 .. Last : HeaderArrived(k) => 1 \in arrived'[k]
           /\ cut = 0 => 1 \in arrived'[Last]
           /\ cut > 0 => (1 \in arrived'[Last] <=> HeaderArrived(Last))
<1>. DEFINE n == Len(Chunk)
            old == arrived[Last]
            new == arrived[Last] \cup (cut + 1) .. (cut + n)
<1>1. /\ Last \in 1 .. MaxFrames /\ Last \in Nat /\ cut \in Nat /\ n \in Nat \ {0}
      /\ cut + n <= frames[Last].size /\ frames[Last].size \in Nat
  BY ChunkFacts
<1>2. /\ arrived \in Seq(SUBSET Nat) /\ Len(arrived) = Last /\ old \subseteq 1 .. cut
      /\ old \in SUBSET Nat
  BY <1>1, FrameFacts DEF TypeOK, Sending
<1>3. new \in SUBSET Nat /\ Last \in 1 .. Len(arrived)
  BY <1>1, <1>2
<1>4. /\ arrived' \in Seq(SUBSET Nat) /\ Len(arrived') = Last
      /\ \A k \in 1 .. Last : arrived'[k] = IF k = Last THEN new ELSE arrived[k]
  BY <1>2, <1>3, ExceptSeq
<1>5. arrived'[Last] = new
  BY <1>1, <1>4
<1>6. cut' \in 1 .. frames[Last].size /\ cut < cut' /\ cut' = cut + n /\ cut' \in Nat
  BY <1>1
<1>7. new \subseteq 1 .. cut'
  BY <1>1, <1>2, <1>6
<1>8. ASSUME old = 1 .. cut PROVE new = 1 .. cut'
  BY <1>1, <1>6, <1>8
<1>9. ASSUME new = 1 .. cut' PROVE old = 1 .. cut
  <2>1. ASSUME NEW u \in 1 .. cut PROVE u \in old
    <3>1. u \in 1 .. cut' /\ u \notin (cut + 1) .. (cut + n)
      BY <1>1, <1>6
    <3>. QED
      BY <1>9, <3>1
  <2>. QED
    BY <1>2, <2>1
<1>10. cut = 0 => 1 \in new
  BY <1>1
<1>11. cut > 0 => 1 \notin (cut + 1) .. (cut + n)
  BY <1>1
<1>. HIDE DEF n
<1>12. \A k \in 1 .. Last : HeaderArrived(k) => 1 \in arrived'[k]
  BY <1>4 DEF HeaderArrived
<1>. QED
  BY <1>4, <1>5, <1>6, <1>7, <1>8, <1>9, <1>10, <1>11, <1>12 DEF SoFar, HeaderArrived

\* A run of headers lasts.
LEMMA ChainKept ==
    ASSUME NEW k, Chain(k),
           \A i \in 1 .. k : /\ frames'[i].key = frames[i].key
                             /\ HeaderArrived(i) => 1 \in arrived'[i]
    PROVE  \E j \in 1 .. k : frames'[j].key /\ \A i \in j .. k : 1 \in arrived'[i]
<1>1. PICK j \in 1 .. k : frames[j].key /\ \A i \in j .. k : HeaderArrived(i)
  BY DEF Chain
<1>2. \A i \in j .. k : i \in 1 .. k
  BY <1>1
<1>3. \A i \in j .. k : 1 \in arrived'[i]
  BY <1>1, <1>2
<1>4. frames'[j].key
  BY <1>1
<1>. QED
  BY <1>1, <1>3, <1>4

LEMMA InitGood == Init => IInv
<1>. SUFFICES ASSUME Init PROVE IInv
  OBVIOUS
<1>1. Last = 0 /\ Len(arrived) = 0
  BY EmptySeq DEF Init, Last
<1>2. TypeOK
  <2>1. <<>> \in Seq(Units) /\ Len(<<>>) = 0 /\ <<>> \in Seq(SUBSET Nat)
        /\ <<>> \in Seq([key : BOOLEAN, size : Sizes])
    BY EmptySeq
  <2>2. 0 \in 0 .. Last /\ 0 <= FrameMax /\ 0 \in Nat
    BY <1>1, FrameAssumption
  <2>. QED
    BY <1>1, <2>1, <2>2 DEF Init, TypeOK, NoFrame
<1>3. Sending
  BY <1>1, FrameAssumption DEF Sending
<1>4. Collecting /\ NoneSince /\ Gathered /\ Broken /\ Led /\ Latest /\ Uploaded
  BY DEF Init, Collecting, NoneSince, Gathered, Broken, Led, Latest, Uploaded
<1>5. Keyed /\ Flows
  BY <1>1 DEF Keyed, Flows
<1>6. Untorn /\ ChainUnbroken
  BY DEF Init, Untorn, ChainUnbroken
<1>. QED
  BY <1>2, <1>3, <1>4, <1>5, <1>6 DEF IInv

LEMMA WatchGood ==
    ASSUME IInv, Watch
    PROVE  IInv'
<1>. USE DEF IInv
<1>1. /\ UNCHANGED <<frames, arrived, cut, first, start, len, index, prev, data,
                     tuyaFirst, uploads>>
      /\ watched' \in Watchers /\ out' = NoFrame
  BY DEF Watch, sender
<1>2. Last' = Last
  BY <1>1 DEF Last
<1>3. TypeOK'
  <2>1. NoFrame \in [index : 0 .. Last, data : Seq(Units)]
    <3>1. 0 \in 0 .. Last /\ <<>> \in Seq(Units)
      BY EmptySeq, FrameFacts
    <3>. QED
      BY <3>1 DEF NoFrame
  <2>. QED
    BY <1>1, <1>2, <2>1 DEF TypeOK
<1>4. Sending' /\ Collecting' /\ NoneSince' /\ Broken' /\ Led' /\ Latest' /\ Uploaded'
  BY <1>1, <1>2 DEF Sending, Collecting, NoneSince, Broken, Led, Chain, Latest, Uploaded,
                    HeaderArrived, AllArrived
<1>5. Gathered' /\ Keyed' /\ Flows'
  BY <1>1, <1>2 DEF Gathered, Keyed, Flows, Group, Begins, Started, SoFar, Prefix,
                    HeaderArrived, AllArrived
<1>6. Untorn' /\ ChainUnbroken'
  BY <1>1 DEF Untorn, ChainUnbroken, NoFrame
<1>. QED
  BY <1>3, <1>4, <1>5, <1>6

\* After a loss the last frame cannot be completed from its own datagrams.
LEMMA LostGood ==
    ASSUME IInv, Lost
    PROVE  IInv'
<1>. USE DEF IInv
<1>1. /\ UNCHANGED <<frames, arrived, first, start, len, index, prev, data, watched,
                     tuyaFirst, uploads>>
      /\ ~AllSent /\ cut' = cut + Len(Chunk) /\ out' = NoFrame
  BY DEF Lost
<1>2. /\ Last' = Last /\ Last \in 1 .. MaxFrames /\ Last \in Nat
      /\ cut \in Nat /\ cut' \in Nat /\ cut < cut' /\ cut' \in 0 .. frames[Last].size
      /\ arrived[Last] \subseteq 1 .. cut
  <2>1. Last' = Last
    BY <1>1 DEF Last
  <2>. QED
    BY <1>1, <2>1, ChunkFacts DEF Sending
<1>3. TypeOK'
  <2>1. NoFrame \in [index : 0 .. Last, data : Seq(Units)]
    <3>1. 0 \in 0 .. Last /\ <<>> \in Seq(Units)
      BY EmptySeq, FrameFacts
    <3>. QED
      BY <3>1 DEF NoFrame
  <2>. QED
    BY <1>1, <1>2, <2>1 DEF TypeOK
<1>4. Sending'
  BY <1>1, <1>2 DEF Sending
<1>5. arrived[Last] # 1 .. cut'
  BY <1>2
<1>6. Collecting' /\ NoneSince' /\ Broken' /\ Led' /\ Uploaded'
  BY <1>1, <1>2 DEF Collecting, NoneSince, Broken, Led, Chain, Uploaded, HeaderArrived,
                    AllArrived
<1>7. Gathered'
  <2>1. ASSUME start, index = Last PROVE Len(data) < cut'
    <3>1. CASE data = Prefix(Last, cut)
      BY <1>2, <3>1, PrefixFacts
    <3>2. CASE Len(data) < cut
      BY <1>2, <3>2 DEF TypeOK
    <3>. QED
      BY <2>1, <3>1, <3>2 DEF Gathered
  <2>. QED
    BY <1>1, <1>2, <1>5, <2>1 DEF Gathered, SoFar
<1>8. Keyed' /\ Flows'
  BY <1>1, <1>2, <1>5 DEF Keyed, Flows, Group, SoFar
<1>9. Latest'
  BY <1>1, <1>2 DEF Latest, HeaderArrived
<1>10. Untorn' /\ ChainUnbroken'
  BY <1>1 DEF Untorn, ChainUnbroken, NoFrame
<1>. QED
  BY <1>3, <1>4, <1>6, <1>7, <1>8, <1>9, <1>10

\* The frame before ends here: what is still collected of it is known to lack
\* something, and the loop is ready for the next if nothing did.
LEMMA NewFrameGood ==
    ASSUME IInv, NEW key \in BOOLEAN, NEW size \in Sizes, NewFrame(key, size)
    PROVE  IInv'
<1>. USE DEF IInv
<1>. DEFINE next == Last + 1
            f == [key |-> key, size |-> size]
<1>1. /\ UNCHANGED <<first, start, len, index, prev, data, watched, tuyaFirst, uploads>>
      /\ AllSent /\ Last < MaxFrames /\ cut' = 0 /\ out' = NoFrame
      /\ frames' = Append(frames, f) /\ arrived' = Append(arrived, {})
  BY DEF NewFrame
<1>2. /\ Last \in Nat /\ MaxFrames \in Nat /\ Len(arrived) = Last
      /\ f \in [key : BOOLEAN, size : Sizes]
  BY FrameFacts
<1>3. /\ frames' \in Seq([key : BOOLEAN, size : Sizes]) /\ Last' = next
      /\ \A k \in 1 .. Last : frames'[k] = frames[k]
      /\ frames'[next] = f
  BY <1>1, <1>2, AppendProperties DEF TypeOK, Last
<1>4. /\ arrived' \in Seq(SUBSET Nat) /\ Len(arrived') = next
      /\ \A k \in 1 .. Last : arrived'[k] = arrived[k]
      /\ arrived'[next] = {}
  <2>1. {} \in SUBSET Nat
    OBVIOUS
  <2>. QED
    BY <1>1, <1>2, <2>1, AppendProperties DEF TypeOK
<1>. HIDE DEF f
<1>5. TypeOK'
  <2>1. /\ index \in 0 .. next /\ prev \in 0 .. next
        /\ index \in 0 .. Last
    BY <1>2 DEF TypeOK
  <2>2. NoFrame \in [index : 0 .. next, data : Seq(Units)]
    <3>1. 0 \in 0 .. next /\ <<>> \in Seq(Units)
      BY <1>2, EmptySeq
    <3>. QED
      BY <3>1 DEF NoFrame
  <2>. QED
    BY <1>1, <1>3, <1>4, <2>1, <2>2 DEF TypeOK
<1>6. Sending'
  <2>1. next <= MaxFrames /\ f.size \in Nat
    BY <1>1, <1>2, FrameAssumption DEF f
  <2>2. 0 \in 0 .. f.size
    BY <2>1
  <2>. QED
    BY <1>1, <1>3, <1>4, <2>1, <2>2 DEF Sending
<1>7. Collecting'
  <2>1. 1 .. Last \subseteq 1 .. next
    BY <1>2
  <2>. QED
    BY <1>1, <1>3, <2>1 DEF Collecting
<1>8. NoneSince'
  <2>1. ASSUME start, NEW k \in index + 1 .. next PROVE ~(1 \in arrived'[k])
    <3>1. index \in 1 .. Last
      BY <2>1 DEF Collecting
    <3>2. CASE k = next
      BY <1>4, <3>2
    <3>3. CASE k # next
      <4>1. k \in index + 1 .. Last /\ k \in 1 .. Last
        BY <1>2, <2>1, <3>1, <3>3
      <4>. QED
        BY <1>4, <2>1, <4>1 DEF NoneSince, HeaderArrived
    <3>. QED
      BY <3>2, <3>3
  <2>. QED
    BY <1>1, <1>3, <2>1 DEF NoneSince, HeaderArrived
<1>9. Gathered'
  BY <1>1, <1>2, <1>3 DEF Gathered, Collecting
<1>10. Broken'
  <2>1. ASSUME start PROVE arrived[index] # 1 .. frames[index].size
    <3>1. CASE index < Last
      BY <2>1, <3>1 DEF Broken, AllArrived
    <3>2. CASE ~(index < Last)
      <4>1. index \in 1 .. Last /\ index = Last /\ Last \in 1 .. MaxFrames
        BY <1>1, <1>2, <2>1, <3>2 DEF Collecting
      <4>2. cut = frames[Last].size /\ cut \in Nat
        BY <1>1, <4>1, FrameFacts
      <4>3. Len(data) < cut
        BY <2>1, <4>1, <4>2 DEF Collecting
      <4>4. ~SoFar
        BY <2>1, <4>1, <4>2, <4>3, PrefixFacts DEF Gathered
      <4>. QED
        BY <4>1, <4>2, <4>4 DEF SoFar
    <3>. QED
      BY <3>1, <3>2
  <2>. QED
    BY <1>1, <1>3, <1>4, <2>1 DEF Broken, Collecting, AllArrived
<1>11. Led'
  <2>1. ASSUME NEW k \in 1 .. Last, Chain(k)
        PROVE  \E j \in 1 .. k : frames'[j].key /\ \A i \in j .. k : 1 \in arrived'[i]
    <3>1. \A i \in 1 .. k : i \in 1 .. Last
      BY <1>2
    <3>. QED
      BY <1>3, <1>4, <2>1, <3>1, ChainKept DEF HeaderArrived
  <2>2. start => index \in 1 .. Last
    BY DEF Collecting
  <2>3. 1 .. Last \subseteq 1 .. next
    BY <1>2
  <2>. QED
    BY <1>1, <1>3, <2>1, <2>2, <2>3 DEF Led, Chain, HeaderArrived
<1>12. Keyed'
  BY <1>1 DEF Keyed, Started
<1>13. Latest'
  <2>1. next # 0 /\ (next = 1 => Last = 0) /\ next - 1 = Last
        /\ (next > 1 => Last > 0 /\ Last \in 1 .. Last)
    BY <1>2
  <2>. QED
    BY <1>1, <1>3, <1>4, <2>1 DEF Latest, HeaderArrived
<1>14. Flows'
  <2>1. ASSUME NEW j \in 1 .. Last,
               frames'[j].key,
               j = 1 \/ (1 \in arrived'[j - 1] /\ ~frames'[j - 1].key),
               \A i \in j .. Last : arrived'[i] = 1 .. frames'[i].size,
               \A i \in j .. next : frames'[i].size <= FrameMax
        PROVE  first /\ prev = Last
    <3>1. /\ \A i \in j .. Last : i \in 1 .. Last /\ i \in j .. next
          /\ \A i \in j .. Last - 1 : i \in j .. Last
          /\ j # 1 => j - 1 \in 1 .. Last
          /\ Last \in j .. Last /\ Last > 0
      BY <1>2
    <3>2. cut = frames[Last].size /\ cut > 0
      BY <1>1, <3>1, FrameFacts
    <3>3. \A i \in j .. Last : AllArrived(i) /\ frames[i].size <= FrameMax
      BY <1>3, <1>4, <2>1, <3>1 DEF AllArrived
    <3>4. Begins(j)
      BY <1>3, <1>4, <2>1, <3>1 DEF Begins, HeaderArrived
    <3>5. SoFar
      BY <3>1, <3>2, <3>3 DEF SoFar, AllArrived
    <3>6. Group(j)
      BY <3>1, <3>3, <3>4, <3>5 DEF Group
    <3>. QED
      BY <3>2, <3>6 DEF Flows
  <2>2. next - 1 = Last /\ \A j \in 1 .. next : j < next => j \in 1 .. Last
    BY <1>2
  <2>3. ASSUME NEW j \in 1 .. Last', Group(j)'
        PROVE  j < next => first /\ prev = Last
    <3>1. /\ frames'[j].key
          /\ j = 1 \/ (1 \in arrived'[j - 1] /\ ~frames'[j - 1].key)
          /\ \A i \in j .. next - 1 : arrived'[i] = 1 .. frames'[i].size
          /\ \A i \in j .. next : frames'[i].size <= FrameMax
      BY <1>3, <2>3 DEF Group, Begins, HeaderArrived, AllArrived
    <3>2. j \in 1 .. next
      BY <1>3
    <3>. QED
      BY <2>1, <2>2, <3>1, <3>2
  <2>4. Started'
    BY <1>1 DEF Started
  <2>. QED
    BY <1>1, <1>3, <2>2, <2>3, <2>4 DEF Flows
<1>15. Uploaded' /\ Untorn' /\ ChainUnbroken'
  BY <1>1 DEF Uploaded, Untorn, ChainUnbroken, NoFrame
<1>. QED
  BY <1>5, <1>6, <1>7, <1>8, <1>9, <1>10, <1>11, <1>12, <1>13, <1>14, <1>15

----------------------------------------------------------------------------
\* A datagram with a header arrives.  Taken says that the loop goes on, or
\* starts, with its frame.
Taken == Accepted(Last, frames[Last].key) /\ frames[Last].size <= FrameMax

LEMMA HeaderFacts ==
    ASSUME TypeOK, Sending, Header
    PROVE  /\ frames' = frames /\ Last' = Last /\ watched' = watched
           /\ ~AllSent /\ cut = 0 /\ cut' = cut + Len(Chunk)
           /\ arrived' = [arrived EXCEPT ![Last] =
                             arrived[Last] \cup (cut + 1) .. (cut + Len(Chunk))]
           /\ SoFar
           /\ len' = frames[Last].size /\ index' = Last /\ prev' = NewPrev(Last)
           /\ first' = Taken
           /\ start' = (Taken /\ cut' # frames[Last].size)
           /\ data' = IF Taken THEN Prefix(Last, cut') ELSE <<>>
           /\ \/ /\ Taken /\ cut' = frames[Last].size
                 /\ Complete(Prefix(Last, cut'), Last)
              \/ /\ ~(Taken /\ cut' = frames[Last].size)
                 /\ out' = NoFrame /\ UNCHANGED <<tuyaFirst, uploads>>
<1>. DEFINE n == Len(Chunk)
            size == frames[Last].size
            ok == Accepted(Last, frames[Last].key)
<1>1. /\ frames' = frames /\ watched' = watched /\ ~AllSent /\ cut = 0 /\ cut' = n
      /\ arrived' = [arrived EXCEPT ![Last] = arrived[Last] \cup 1 .. n]
      /\ len' = size /\ index' = Last /\ prev' = NewPrev(Last)
      /\ Payload(<<>>, ok, ok /\ size <= FrameMax, size, Last)
  BY DEF Header
<1>2. /\ Last \in 1 .. MaxFrames /\ n \in Nat \ {0} /\ n <= size /\ size \in Nat
      /\ 0 + n = n /\ 0 + 1 = 1
  BY <1>1, ChunkFacts
<1>3. <<>> \o Chunk = Prefix(Last, n) /\ Len(Prefix(Last, n)) = n
  BY <1>1, <1>2, PrefixGrows, PrefixFacts
<1>4. SoFar
  BY <1>1, <1>2 DEF SoFar, Sending
<1>5. Last' = Last
  BY <1>1 DEF Last
<1>. HIDE DEF n, size, ok
<1>6. /\ first' = (ok /\ (ok /\ size <= FrameMax) /\ n <= size)
      /\ start' = ((ok /\ size <= FrameMax) /\ ~(n = size))
      /\ data' = IF (ok /\ size <= FrameMax) /\ n <= size THEN Prefix(Last, n) ELSE <<>>
      /\ IF (ok /\ size <= FrameMax) /\ n = size
         THEN Complete(Prefix(Last, n), Last)
         ELSE /\ out' = NoFrame
              /\ UNCHANGED <<tuyaFirst, uploads>>
  BY <1>1, <1>3 DEF Payload
<1>7. Taken <=> ok /\ size <= FrameMax
  BY DEF Taken, ok, size
<1>8. /\ first' = Taken /\ start' = (Taken /\ cut' # size)
      /\ data' = IF Taken THEN Prefix(Last, cut') ELSE <<>>
  <2>1. Taken \in BOOLEAN
    BY DEF Taken
  <2>. QED
    BY <1>1, <1>2, <1>6, <1>7, <2>1
<1>9. \/ Taken /\ cut' = size /\ Complete(Prefix(Last, cut'), Last)
      \/ /\ ~(Taken /\ cut' = size)
         /\ out' = NoFrame /\ UNCHANGED <<tuyaFirst, uploads>>
  BY <1>1, <1>6, <1>7
<1>10. /\ cut' = cut + Len(Chunk)
       /\ arrived' = [arrived EXCEPT ![Last] =
                         arrived[Last] \cup (cut + 1) .. (cut + Len(Chunk))]
  BY <1>1, <1>2 DEF n
<1>. QED
  BY <1>1, <1>4, <1>5, <1>8, <1>9, <1>10 DEF size

\* What the frame that is handed over is.
LEMMA CompleteFacts ==
    ASSUME TypeOK, NEW whole, NEW i, Complete(whole, i), Uploaded
    PROVE  /\ out' = [index |-> i, data |-> whole]
           /\ out'.index = i /\ out'.data = whole
           /\ tuyaFirst' \in BOOLEAN /\ uploads' \in [key : BOOLEAN, any : BOOLEAN]
           /\ uploads'.any \/ tuyaFirst' => uploads'.key
<1>. DEFINE begun == tuyaFirst \/ (watched /\ frames[i].key)
<1>1. /\ out' = [index |-> i, data |-> whole] /\ tuyaFirst' = begun
      /\ uploads' = IF watched /\ begun
                    THEN [key |-> uploads.key \/ frames[i].key, any |-> TRUE]
                    ELSE uploads
  BY DEF Complete
<1>2. /\ uploads \in [key : BOOLEAN, any : BOOLEAN] /\ tuyaFirst \in BOOLEAN
      /\ uploads.any \/ tuyaFirst => uploads.key
  BY DEF TypeOK, Uploaded
<1>3. CASE watched /\ begun
  <2>1. uploads' = [key |-> uploads.key \/ frames[i].key, any |-> TRUE]
    BY <1>1, <1>3
  <2>2. uploads.key \/ frames[i].key
    BY <1>2, <1>3
  <2>3. uploads' = [key |-> TRUE, any |-> TRUE]
    BY <2>1, <2>2
  <2>4. uploads' \in [key : BOOLEAN, any : BOOLEAN] /\ uploads'.key
    BY <2>3
  <2>5. tuyaFirst' \in BOOLEAN
    BY <1>1 DEF begun
  <2>. QED
    BY <1>1, <2>4, <2>5
<1>4. CASE ~(watched /\ begun)
  <2>1. uploads' = uploads /\ (begun => tuyaFirst)
    BY <1>1, <1>4
  <2>. QED
    BY <1>1, <1>2, <2>1
<1>. QED
  BY <1>3, <1>4

LEMMA HeaderGood ==
    ASSUME IInv, Header
    PROVE  IInv'
<1>. USE DEF IInv
<1>1. /\ frames' = frames /\ Last' = Last /\ watched' = watched
      /\ cut = 0 /\ SoFar
      /\ len' = frames[Last].size /\ index' = Last /\ prev' = NewPrev(Last)
      /\ first' = Taken
      /\ start' = (Taken /\ cut' # frames[Last].size)
      /\ data' = IF Taken THEN Prefix(Last, cut') ELSE <<>>
      /\ \/ /\ Taken /\ cut' = frames[Last].size
            /\ Complete(Prefix(Last, cut'), Last)
         \/ /\ ~(Taken /\ cut' = frames[Last].size)
            /\ out' = NoFrame /\ UNCHANGED <<tuyaFirst, uploads>>
  BY HeaderFacts
<1>2. /\ arrived' \in Seq(SUBSET Nat) /\ Len(arrived') = Last
      /\ cut' \in 1 .. frames[Last].size
      /\ arrived'[Last] \subseteq 1 .. cut' /\ arrived'[Last] = 1 .. cut'
      /\ \A k \in 1 .. Last : k # Last => arrived'[k] = arrived[k]
      /\ \A k \in 1 .. Last : HeaderArrived(k) => 1 \in arrived'[k]
      /\ 1 \in arrived'[Last]
  BY HeaderFacts, ArriveFacts
<1>3. /\ Last \in 1 .. MaxFrames /\ Last \in Nat /\ Last \in 1 .. Last
      /\ frames[Last].size \in Sizes /\ frames[Last].size \in Nat \ {0}
      /\ cut' \in Nat
  <2>1. ~AllSent
    BY HeaderFacts
  <2>. QED
    BY <1>2, <2>1, ChunkFacts
<1>4. Prefix(Last, cut') \in Seq(Units) /\ Len(Prefix(Last, cut')) = cut'
  BY <1>3, PrefixFacts
<1>5. Taken \in BOOLEAN /\ prev' \in {prev, Last}
  BY <1>1 DEF Taken, NewPrev
<1>6. /\ out' \in [index : 0 .. Last, data : Seq(Units)]
      /\ tuyaFirst' \in BOOLEAN /\ uploads' \in [key : BOOLEAN, any : BOOLEAN]
      /\ Uploaded'
  <2>1. CASE Taken /\ cut' = frames[Last].size /\ Complete(Prefix(Last, cut'), Last)
    <3>1. Last \in 0 .. Last
      BY <1>3
    <3>2. [index |-> Last, data |-> Prefix(Last, cut')] \in [index : 0 .. Last, data : Seq(Units)]
      BY <1>4, <3>1
    <3>. QED
      BY <2>1, <3>2, CompleteFacts DEF Uploaded
  <2>2. CASE out' = NoFrame /\ UNCHANGED <<tuyaFirst, uploads>>
    <3>1. 0 \in 0 .. Last /\ <<>> \in Seq(Units)
      BY <1>3, EmptySeq
    <3>2. NoFrame \in [index : 0 .. Last, data : Seq(Units)]
      BY <3>1 DEF NoFrame
    <3>. QED
      BY <2>2, <3>2 DEF TypeOK, Uploaded
  <2>. QED
    BY <1>1, <2>1, <2>2
<1>7. TypeOK'
  <2>1. data' \in Seq(Units) /\ Len(data') <= FrameMax
    <3>1. CASE Taken
      BY <1>1, <1>2, <1>3, <1>4, <3>1, FrameAssumption DEF Taken
    <3>2. CASE ~Taken
      BY <1>1, <3>2, EmptySeq, FrameAssumption
    <3>. QED
      BY <3>1, <3>2
  <2>2. index' \in 0 .. Last /\ prev' \in 0 .. Last
    BY <1>1, <1>3, <1>5 DEF TypeOK
  <2>3. first' \in BOOLEAN /\ start' \in BOOLEAN /\ len' \in Sizes \cup {0}
    BY <1>1, <1>3, <1>5
  <2>. QED
    BY <1>1, <1>2, <1>3, <1>6, <2>1, <2>2, <2>3 DEF TypeOK
<1>8. Sending'
  BY <1>1, <1>2, <1>3 DEF Sending
<1>9. Collecting'
  <2>1. ASSUME Taken, cut' # frames[Last].size
        PROVE  Len(data') < frames[Last].size
    BY <1>1, <1>2, <1>3, <1>4, <2>1
  <2>. QED
    BY <1>1, <1>3, <2>1 DEF Collecting, Taken
<1>10. NoneSince' /\ Gathered' /\ Broken'
  <2>1. \A k \in Last + 1 .. Last : FALSE
    BY <1>3
  <2>2. ~(Last < Last)
    BY <1>3
  <2>. QED
    BY <1>1, <1>2, <2>1, <2>2 DEF NoneSince, Gathered, Broken, SoFar, Prefix
<1>11. ASSUME NEW k \in 1 .. Last, Chain(k)
       PROVE  \E j \in 1 .. k : frames[j].key /\ \A i \in j .. k : 1 \in arrived'[i]
  <2>1. \A i \in 1 .. k : i \in 1 .. Last
    BY <1>3
  <2>2. \A i \in 1 .. k : /\ frames'[i].key = frames[i].key
                          /\ HeaderArrived(i) => 1 \in arrived'[i]
    BY <1>1, <1>2, <2>1
  <2>. QED
    BY <1>1, <1>11, <2>2, ChainKept
<1>12. ASSUME Taken
       PROVE  \E j \in 1 .. Last : frames[j].key /\ \A i \in j .. Last : 1 \in arrived'[i]
  <2>1. CASE frames[Last].key
    <3>1. \A i \in Last .. Last : i = Last
      BY <1>3
    <3>. QED
      BY <1>2, <1>3, <2>1, <3>1
  <2>2. CASE ~frames[Last].key
    <3>1. first /\ Last = prev + 1
      BY <1>12, <2>2 DEF Taken, Accepted
    <3>2. prev \in 1 .. Last /\ Chain(prev)
      BY <3>1 DEF Led
    <3>3. PICK j \in 1 .. prev : frames[j].key /\ \A i \in j .. prev : 1 \in arrived'[i]
      BY <1>11, <3>2
    <3>4. j \in 1 .. Last /\ \A i \in j .. Last : i \in j .. prev \/ i = Last
      BY <1>3, <3>1, <3>2
    <3>. QED
      BY <1>2, <3>3, <3>4
  <2>. QED
    BY <2>1, <2>2
<1>13. Led'
  <2>1. ASSUME Taken
        PROVE  /\ prev' \in 1 .. Last
               /\ \E j \in 1 .. prev' : frames[j].key /\ \A i \in j .. prev' : 1 \in arrived'[i]
    <3>1. CASE prev' = Last
      BY <1>3, <1>12, <2>1, <3>1
    <3>2. CASE prev' # Last
      <4>1. prev' = prev /\ first
        BY <1>1, <3>2 DEF NewPrev
      <4>. QED
        BY <1>11, <4>1 DEF Led
    <3>. QED
      BY <3>1, <3>2
  <2>. QED
    BY <1>1, <1>12, <2>1 DEF Led, Chain, HeaderArrived
<1>14. Keyed'
  <2>1. frames[Last].key /\ frames[Last].size <= FrameMax => Taken
    BY DEF Taken, Accepted
  <2>2. cut' < frames[Last].size => cut' # frames[Last].size
    BY <1>3
  <2>. QED
    BY <1>1, <2>1, <2>2 DEF Keyed, Started
<1>15. Latest'
  <2>1. cut' # 0
    BY <1>2
  <2>2. Taken /\ ~frames[Last].key => prev' = Last
    BY <1>1 DEF Taken, Accepted, NewPrev
  <2>. QED
    BY <1>1, <1>3, <2>1, <2>2 DEF Latest
<1>16. Flows'
  <2>1. ASSUME NEW j \in 1 .. Last,
               frames[j].key,
               j = 1 \/ (1 \in arrived'[j - 1] /\ ~frames[j - 1].key),
               \A i \in j .. Last - 1 : arrived'[i] = 1 .. frames[i].size,
               \A i \in j .. Last : frames[i].size <= FrameMax
        PROVE  Taken /\ prev' = Last
    <3>1. /\ \A i \in j .. Last - 1 : i \in 1 .. Last /\ i # Last
          /\ j # 1 => j - 1 \in 1 .. Last /\ j - 1 # Last
          /\ Last \in j .. Last
      BY <1>3
    <3>2. /\ \A i \in j .. Last - 1 : AllArrived(i)
          /\ Begins(j)
      BY <1>2, <2>1, <3>1 DEF AllArrived, Begins, HeaderArrived
    <3>3. Group(j)
      BY <1>1, <2>1, <3>2 DEF Group
    <3>4. CASE j < Last
      <4>1. first /\ prev = Last - 1 /\ Last = prev + 1
        BY <1>1, <1>3, <3>3, <3>4 DEF Flows
      <4>. QED
        BY <1>1, <2>1, <3>1, <4>1 DEF Taken, Accepted, NewPrev
    <3>5. CASE ~(j < Last)
      <4>1. j = Last
        BY <1>3, <3>5
      <4>2. Taken
        BY <2>1, <3>1, <4>1 DEF Taken, Accepted
      <4>3. first => Last = prev + 1
        <5>1. CASE Last = 1
          BY <1>1, <5>1 DEF Latest
        <5>2. CASE Last # 1
          <6>1. Last > 1 /\ HeaderArrived(Last - 1) /\ ~frames[Last - 1].key
            BY <1>3, <3>2, <4>1, <5>2 DEF Begins
          <6>2. first => prev = Last - 1
            BY <1>1, <1>3, <6>1 DEF Latest
          <6>. QED
            BY <1>3, <6>2
        <5>. QED
          BY <5>1, <5>2
      <4>. QED
        BY <1>1, <4>2, <4>3 DEF NewPrev
    <3>. QED
      BY <3>4, <3>5
  <2>2. ASSUME NEW j \in 1 .. Last', Group(j)'
        PROVE  Taken /\ prev' = Last
    <3>1. /\ frames[j].key
          /\ j = 1 \/ (1 \in arrived'[j - 1] /\ ~frames[j - 1].key)
          /\ \A i \in j .. Last - 1 : arrived'[i] = 1 .. frames[i].size
          /\ \A i \in j .. Last : frames[i].size <= FrameMax
          /\ j \in 1 .. Last
      BY <1>1, <2>2 DEF Group, Begins, HeaderArrived, AllArrived
    <3>. QED
      BY <2>1, <3>1
  <2>3. cut' # 0 /\ (cut' < frames[Last].size => cut' # frames[Last].size)
    BY <1>2, <1>3
  <2>. QED
    BY <1>1, <2>2, <2>3 DEF Flows, Started
<1>17. Untorn' /\ ChainUnbroken'
  <2>1. CASE Taken /\ cut' = frames[Last].size /\ Complete(Prefix(Last, cut'), Last)
    <3>1. out' = [index |-> Last, data |-> Prefix(Last, cut')] /\ out'.index = Last
      BY <2>1, CompleteFacts
    <3>2. Prefix(Last, cut') = [u \in 1 .. frames[Last].size |-> [frame |-> Last, unit |-> u]]
      BY <2>1 DEF Prefix
    <3>3. Untorn'
      BY <1>1, <3>1, <3>2 DEF Untorn, Delivered, Whole
    <3>4. ChainUnbroken'
      BY <1>1, <1>12, <2>1, <3>1 DEF ChainUnbroken, HeaderArrived
    <3>. QED
      BY <3>3, <3>4
  <2>2. CASE out' = NoFrame
    BY <2>2 DEF Untorn, ChainUnbroken, NoFrame
  <2>. QED
    BY <1>1, <2>1, <2>2
<1>. QED
  BY <1>6, <1>7, <1>8, <1>9, <1>10, <1>13, <1>14, <1>15, <1>16, <1>17

----------------------------------------------------------------------------
\* One without a header arrives.  Fits and Done are about what is collected
\* with it.
Joined == data \o Chunk
Fits == Len(Joined) <= len
Done == Len(Joined) = len

LEMMA ContinuationFacts ==
    ASSUME TypeOK, Sending, Continuation
    PROVE  /\ frames' = frames /\ Last' = Last /\ watched' = watched
           /\ ~AllSent /\ cut > 0 /\ cut' = cut + Len(Chunk)
           /\ arrived' = [arrived EXCEPT ![Last] =
                             arrived[Last] \cup (cut + 1) .. (cut + Len(Chunk))]
           /\ UNCHANGED <<len, index, prev>>
           /\ first' = (first /\ start /\ Fits) /\ start' = (start /\ ~Done)
           /\ data' = IF start /\ Fits THEN Joined ELSE data
           /\ \/ start /\ Done /\ Complete(Joined, index)
              \/ /\ ~(start /\ Done)
                 /\ out' = NoFrame /\ UNCHANGED <<tuyaFirst, uploads>>
           /\ Joined \in Seq(Units) /\ Len(Joined) = Len(data) + Len(Chunk)
           /\ Len(data) \in Nat /\ Len(Joined) \in Nat /\ len \in Nat
<1>1. /\ frames' = frames /\ watched' = watched /\ ~AllSent /\ cut > 0
      /\ cut' = cut + Len(Chunk)
      /\ arrived' = [arrived EXCEPT ![Last] =
                        arrived[Last] \cup (cut + 1) .. (cut + Len(Chunk))]
      /\ UNCHANGED <<len, index, prev>>
      /\ Payload(data, first, start, len, index)
  BY DEF Continuation
<1>2. /\ first' = (first /\ start /\ Fits) /\ start' = (start /\ ~Done)
      /\ data' = IF start /\ Fits THEN Joined ELSE data
      /\ IF start /\ Done
         THEN Complete(Joined, index)
         ELSE /\ out' = NoFrame
              /\ UNCHANGED <<tuyaFirst, uploads>>
  BY <1>1 DEF Payload, Fits, Done, Joined
<1>3. Joined \in Seq(Units) /\ Len(Joined) = Len(data) + Len(Chunk)
  BY <1>1, ChunkFacts, ConcatProperties DEF TypeOK, Joined
<1>4. Len(data) \in Nat /\ Len(Joined) \in Nat /\ len \in Nat
  BY <1>3, LenProperties, FrameAssumption DEF TypeOK
<1>5. Last' = Last
  BY <1>1 DEF Last
<1>. QED
  BY <1>1, <1>2, <1>3, <1>4, <1>5

\* As long as nothing of its frame is lost, what a datagram continues is the
\* beginning of that frame, and a longer beginning comes of it.
LEMMA JoinedFacts ==
    ASSUME IInv, Continuation, start, index = Last
    PROVE  /\ SoFar => Joined = Prefix(Last, cut') /\ Len(Joined) = cut' /\ Fits
           /\ ~SoFar => Len(Joined) < cut'
<1>. USE DEF IInv
<1>1. /\ ~AllSent /\ cut' = cut + Len(Chunk) /\ Len(Joined) = Len(data) + Len(Chunk)
      /\ Len(data) \in Nat
  BY ContinuationFacts
<1>2. /\ Last \in 1 .. MaxFrames /\ cut \in Nat /\ Len(Chunk) \in Nat \ {0} /\ cut' \in Nat
      /\ cut' <= frames[Last].size
  BY <1>1, ChunkFacts
<1>3. len = frames[Last].size
  BY DEF Collecting
<1>4. Prefix(Last, cut) \o Chunk = Prefix(Last, cut')
      /\ Len(Prefix(Last, cut)) = cut /\ Len(Prefix(Last, cut')) = cut'
  BY <1>1, <1>2, PrefixGrows, PrefixFacts
<1>5. ASSUME SoFar PROVE Joined = Prefix(Last, cut') /\ Len(Joined) = cut' /\ Fits
  <2>1. data = Prefix(Last, cut)
    BY <1>5 DEF Gathered
  <2>2. Joined = Prefix(Last, cut')
    BY <1>4, <2>1 DEF Joined
  <2>. QED
    BY <1>2, <1>3, <1>4, <2>2 DEF Fits
<1>6. ASSUME ~SoFar PROVE Len(Joined) < cut'
  <2>1. Len(data) < cut
    BY <1>6 DEF Gathered
  <2>. QED
    BY <1>1, <1>2, <2>1
<1>. QED
  BY <1>5, <1>6

LEMMA ContinuationGood ==
    ASSUME IInv, Continuation
    PROVE  IInv'
<1>. USE DEF IInv
<1>1. /\ frames' = frames /\ Last' = Last /\ watched' = watched /\ cut > 0
      /\ UNCHANGED <<len, index, prev>>
      /\ first' = (first /\ start /\ Fits) /\ start' = (start /\ ~Done)
      /\ data' = IF start /\ Fits THEN Joined ELSE data
      /\ \/ start /\ Done /\ Complete(Joined, index)
         \/ /\ ~(start /\ Done)
            /\ out' = NoFrame /\ UNCHANGED <<tuyaFirst, uploads>>
      /\ Joined \in Seq(Units)
      /\ Len(data) \in Nat /\ Len(Joined) \in Nat /\ len \in Nat
  BY ContinuationFacts
<1>2. /\ arrived' \in Seq(SUBSET Nat) /\ Len(arrived') = Last
      /\ cut' \in 1 .. frames[Last].size /\ cut < cut'
      /\ arrived'[Last] \subseteq 1 .. cut' /\ (arrived'[Last] = 1 .. cut' <=> SoFar)
      /\ \A k \in 1 .. Last : k # Last => arrived'[k] = arrived[k]
      /\ \A k \in 1 .. Last : HeaderArrived(k) => 1 \in arrived'[k]
      /\ 1 \in arrived'[Last] <=> HeaderArrived(Last)
  BY ContinuationFacts, ArriveFacts
<1>3. /\ Last \in 1 .. MaxFrames /\ Last \in Nat /\ Last \in 1 .. Last
      /\ frames[Last].size \in Nat \ {0}
      /\ cut \in Nat /\ cut' \in Nat /\ cut < frames[Last].size
      /\ cut' < frames[Last].size \/ cut' = frames[Last].size
  <2>1. ~AllSent
    BY ContinuationFacts
  <2>. QED
    BY <1>2, <2>1, ChunkFacts
<1>4. start => /\ index \in 1 .. Last /\ index \in Nat /\ len = frames[index].size
               /\ len <= FrameMax /\ Len(data) < len
  BY <1>3 DEF Collecting
<1>5. /\ out' \in [index : 0 .. Last, data : Seq(Units)]
      /\ tuyaFirst' \in BOOLEAN /\ uploads' \in [key : BOOLEAN, any : BOOLEAN]
      /\ Uploaded'
  <2>1. CASE start /\ Done /\ Complete(Joined, index)
    <3>1. index \in 0 .. Last
      BY <1>3, <1>4, <2>1
    <3>2. [index |-> index, data |-> Joined] \in [index : 0 .. Last, data : Seq(Units)]
      BY <1>1, <3>1
    <3>. QED
      BY <2>1, <3>2, CompleteFacts DEF Uploaded
  <2>2. CASE out' = NoFrame /\ UNCHANGED <<tuyaFirst, uploads>>
    <3>1. 0 \in 0 .. Last /\ <<>> \in Seq(Units)
      BY <1>3, EmptySeq
    <3>2. NoFrame \in [index : 0 .. Last, data : Seq(Units)]
      BY <3>1 DEF NoFrame
    <3>. QED
      BY <2>2, <3>2 DEF TypeOK, Uploaded
  <2>. QED
    BY <1>1, <2>1, <2>2
<1>6. TypeOK'
  <2>1. data' \in Seq(Units) /\ Len(data') <= FrameMax
    <3>1. CASE start /\ Fits
      BY <1>1, <1>4, <3>1, FrameAssumption DEF Fits
    <3>2. CASE ~(start /\ Fits)
      BY <1>1, <3>2 DEF TypeOK
    <3>. QED
      BY <3>1, <3>2
  <2>2. first' \in BOOLEAN /\ start' \in BOOLEAN
    BY <1>1
  <2>. QED
    BY <1>1, <1>2, <1>3, <1>5, <2>1, <2>2 DEF TypeOK
<1>7. Sending'
  BY <1>1, <1>2, <1>3 DEF Sending
<1>8. Collecting'
  <2>1. ASSUME start, ~Done PROVE Len(data') < len
    <3>1. CASE Fits
      BY <1>1, <2>1, <3>1 DEF Fits, Done
    <3>2. CASE ~Fits
      BY <1>1, <1>4, <2>1, <3>2
    <3>. QED
      BY <3>1, <3>2
  <2>. QED
    BY <1>1, <1>4, <2>1 DEF Collecting
<1>9. NoneSince'
  <2>1. ASSUME start, NEW k \in index + 1 .. Last PROVE ~(1 \in arrived'[k])
    <3>1. k \in 1 .. Last /\ ~HeaderArrived(k)
      BY <1>3, <1>4, <2>1 DEF NoneSince
    <3>. QED
      BY <1>2, <3>1 DEF HeaderArrived
  <2>. QED
    BY <1>1, <2>1 DEF NoneSince, HeaderArrived
<1>10. Gathered'
  <2>1. ASSUME start, index = Last
        PROVE  \/ SoFar /\ data' = Prefix(Last, cut')
               \/ ~SoFar /\ Len(data') < cut'
    <3>1. CASE SoFar
      BY <1>1, <2>1, <3>1, JoinedFacts
    <3>2. CASE ~SoFar
      <4>1. Len(Joined) < cut' /\ Len(data) < cut'
        BY <1>1, <1>2, <1>3, <2>1, <3>2, JoinedFacts DEF Gathered
      <4>. QED
        BY <1>1, <3>2, <4>1
    <3>. QED
      BY <3>1, <3>2
  <2>. QED
    BY <1>1, <1>2, <2>1 DEF Gathered, SoFar, Prefix
<1>11. Broken'
  <2>1. ASSUME start, index < Last PROVE arrived'[index] # 1 .. frames[index].size
    <3>1. index # Last
      BY <1>3, <1>4, <2>1
    <3>. QED
      BY <1>2, <1>4, <2>1, <3>1 DEF Broken, AllArrived
  <2>. QED
    BY <1>1, <2>1 DEF Broken, AllArrived
<1>12. ASSUME NEW k \in 1 .. Last, Chain(k)
       PROVE  \E j \in 1 .. k : frames[j].key /\ \A i \in j .. k : 1 \in arrived'[i]
  <2>1. \A i \in 1 .. k : i \in 1 .. Last
    BY <1>3
  <2>2. \A i \in 1 .. k : /\ frames'[i].key = frames[i].key
                          /\ HeaderArrived(i) => 1 \in arrived'[i]
    BY <1>1, <1>2, <2>1
  <2>. QED
    BY <1>1, <1>12, <2>2, ChainKept
<1>13. Led'
  BY <1>1, <1>4, <1>12 DEF Led, Chain, HeaderArrived
<1>14. ASSUME SoFar, Started
       PROVE  /\ start /\ index = Last /\ Fits
              /\ cut' < frames[Last].size => start'
  <2>1. start /\ index = Last
    BY <1>1, <1>3, <1>14 DEF Started
  <2>2. Fits /\ Len(Joined) = cut' /\ len = frames[Last].size
    BY <1>4, <1>14, <2>1, JoinedFacts
  <2>3. cut' < frames[Last].size => ~Done
    BY <1>3, <2>2 DEF Done
  <2>. QED
    BY <1>1, <2>1, <2>2, <2>3
<1>15. Keyed'
  BY <1>1, <1>2, <1>14 DEF Keyed, Started, SoFar
<1>16. Latest'
  <2>1. cut' # 0 /\ Last # 0
    BY <1>2, <1>3
  <2>. QED
    BY <1>1, <1>2, <2>1 DEF Latest, HeaderArrived
<1>17. Flows'
  <2>1. ASSUME NEW j \in 1 .. Last', Group(j)'
        PROVE  Group(j) /\ j \in 1 .. Last
    <3>1. /\ frames[j].key
          /\ j = 1 \/ (1 \in arrived'[j - 1] /\ ~frames[j - 1].key)
          /\ \A i \in j .. Last - 1 : arrived'[i] = 1 .. frames[i].size
          /\ \A i \in j .. Last : frames[i].size <= FrameMax
          /\ j \in 1 .. Last /\ arrived'[Last] = 1 .. cut'
      BY <1>1, <2>1 DEF Group, Begins, HeaderArrived, AllArrived, SoFar
    <3>2. /\ \A i \in j .. Last - 1 : i \in 1 .. Last /\ i # Last
          /\ j # 1 => j - 1 \in 1 .. Last /\ j - 1 # Last
      BY <1>3, <3>1
    <3>3. SoFar
      BY <1>2, <3>1
    <3>4. \A i \in j .. Last - 1 : AllArrived(i)
      BY <1>2, <3>1, <3>2 DEF AllArrived
    <3>5. Begins(j)
      BY <1>2, <3>1, <3>2 DEF Begins, HeaderArrived
    <3>. QED
      BY <3>1, <3>3, <3>4, <3>5 DEF Group
  <2>2. ASSUME NEW j \in 1 .. Last', Group(j)'
        PROVE  first' /\ prev = Last /\ (cut' < frames[Last].size => start' /\ index = Last)
    <3>1. first /\ prev = Last /\ SoFar /\ Started
      BY <1>1, <2>1, <2>2 DEF Flows, Group
    <3>. QED
      BY <1>1, <1>14, <3>1
  <2>3. cut' # 0
    BY <1>2
  <2>. QED
    BY <1>1, <2>2, <2>3 DEF Flows, Started
<1>18. Untorn' /\ ChainUnbroken'
  <2>1. CASE start /\ Done /\ Complete(Joined, index)
    <3>1. out' = [index |-> index, data |-> Joined] /\ out'.index = index
      BY <2>1, CompleteFacts
    <3>2. CASE index = Last
      <4>1. Len(Joined) = frames[Last].size
        BY <1>4, <2>1, <3>2 DEF Done
      <4>2. SoFar
        BY <1>2, <1>3, <2>1, <3>2, <4>1, JoinedFacts
      <4>3. Joined = Prefix(Last, frames[Last].size)
        BY <2>1, <3>2, <4>1, <4>2, JoinedFacts
      <4>. QED
        BY <1>1, <1>4, <1>12, <2>1, <3>1, <3>2, <4>3
           DEF Untorn, Delivered, Whole, Prefix, ChainUnbroken, Led, HeaderArrived
    <3>3. CASE index # Last
      <4>1. index < Last /\ Last \in index + 1 .. Last
        BY <1>3, <1>4, <2>1, <3>3
      <4>2. arrived'[index] # 1 .. frames[index].size
        BY <1>2, <1>4, <2>1, <3>3, <4>1 DEF Broken, AllArrived
      <4>3. ~(1 \in arrived'[Last])
        BY <1>2, <2>1, <4>1 DEF NoneSince
      <4>4. Untorn'
        BY <1>1, <3>1, <4>1, <4>2, <4>3 DEF Untorn, AllArrived, HeaderArrived
      <4>5. ChainUnbroken'
        BY <1>1, <1>4, <1>12, <2>1, <3>1 DEF ChainUnbroken, Led, HeaderArrived
      <4>. QED
        BY <4>4, <4>5
    <3>. QED
      BY <3>2, <3>3
  <2>2. CASE out' = NoFrame
    BY <2>2 DEF Untorn, ChainUnbroken, NoFrame
  <2>. QED
    BY <1>1, <2>1, <2>2
<1>. QED
  BY <1>5, <1>6, <1>7, <1>8, <1>9, <1>10, <1>11, <1>13, <1>15, <1>16, <1>17, <1>18

----------------------------------------------------------------------------
\* What is collected, and what the loop waits for, is always as said above.
THEOREM AlwaysGood == Spec => []IInv
<1>1. Init => IInv
  BY InitGood
<1>2. IInv /\ [Next]_vars => IInv'
  <2>. SUFFICES ASSUME IInv, [Next]_vars PROVE IInv'
    OBVIOUS
  <2>1. CASE UNCHANGED vars
    <3>1. /\ UNCHANGED <<frames, arrived, cut, first, start, len, index, prev, data, out,
                         watched, tuyaFirst, uploads>>
          /\ Last' = Last
      BY <2>1 DEF vars, sender, receiver, Last
    <3>2. TypeOK' /\ Sending' /\ Collecting' /\ NoneSince' /\ Broken'
      BY <3>1 DEF IInv, TypeOK, Sending, Collecting, NoneSince, Broken, HeaderArrived,
                  AllArrived
    <3>3. Led' /\ Latest' /\ Uploaded' /\ Gathered' /\ Keyed'
      BY <3>1 DEF IInv, Led, Chain, Latest, Uploaded, Gathered, Keyed, Started, SoFar,
                  Prefix, HeaderArrived
    <3>4. Flows'
      BY <3>1 DEF IInv, Flows, Group, Begins, Started, SoFar, HeaderArrived, AllArrived
    <3>5. Untorn' /\ ChainUnbroken'
      BY <3>1 DEF IInv, Untorn, ChainUnbroken, Delivered, Whole, HeaderArrived, AllArrived
    <3>. QED
      BY <3>2, <3>3, <3>4, <3>5 DEF IInv
  <2>2. CASE Next
    BY <2>2, NewFrameGood, LostGood, HeaderGood, ContinuationGood, WatchGood DEF Next
  <2>. QED
    BY <2>1, <2>2
<1>. QED
  BY <1>1, <1>2, PTL DEF Spec

\* The variables have their types: whatever the lengths and losses, no index
\* runs ahead of the sender and no frame overflows its buffer.
THEOREM TypeCorrect == Spec => []TypeOK
<1>1. IInv => TypeOK
  BY DEF IInv
<1>. QED
  BY <1>1, AlwaysGood, PTL

\* A frame is torn only if a part of it and the header of a later one are lost.
THEOREM NeverTorn == Spec => []Untorn
<1>1. IInv => Untorn
  BY DEF IInv
<1>. QED
  BY <1>1, AlwaysGood, PTL

\* An ordinary frame reaches the decoder only at the end of a run of headers
\* that starts at a key frame.  Frames of the run may lack a
\* continuation, and need not have reached it.
THEOREM NeverOutOfChain == Spec => []ChainUnbroken
<1>1. IInv => ChainUnbroken
  BY DEF IInv
<1>. QED
  BY <1>1, AlwaysGood, PTL

\* What is uploaded starts with a key frame.
THEOREM UploadsStartWithKey == Spec => []UploadsFromKey
<1>1. IInv => UploadsFromKey
  BY DEF IInv, Uploaded, UploadsFromKey
<1>. QED
  BY <1>1, AlwaysGood, PTL

\* The datagram that makes a frame complete, and the state before it: the
\* frame is the last, nothing of it was lost, and the datagram is its last one.
LEMMA Completing ==
    ASSUME IInv, Next, NEW k \in 1 .. Last, ~AllArrived(k),
           arrived'[k] = 1 .. frames'[k].size
    PROVE  /\ k = Last /\ SoFar /\ cut' = frames[Last].size
           /\ frames' = frames
           /\ \A i \in 1 .. Last : i # Last => arrived'[i] = arrived[i]
           /\ Header \/ (Continuation /\ cut > 0 /\ cut < frames[Last].size)
<1>. USE DEF IInv
<1>1. Last \in Nat /\ Last \in 1 .. Last
  BY FrameFacts
<1>2. ~Lost /\ ~Watch
  BY DEF Lost, Watch, sender, AllArrived
<1>3. ASSUME NEW key \in BOOLEAN, NEW size \in Sizes, NewFrame(key, size) PROVE FALSE
  <2>1. frames' = Append(frames, [key |-> key, size |-> size]) /\ arrived' = Append(arrived, {})
    BY <1>3 DEF NewFrame
  <2>2. [key |-> key, size |-> size] \in [key : BOOLEAN, size : Sizes] /\ {} \in SUBSET Nat
    OBVIOUS
  <2>3. frames'[k] = frames[k] /\ arrived'[k] = arrived[k]
    BY <2>1, <2>2, FrameFacts, AppendProperties DEF TypeOK, Last
  <2>. QED
    BY <2>3 DEF AllArrived
<1>4. Header \/ Continuation
  BY <1>2, <1>3 DEF Next
<1>5. /\ frames' = frames /\ ~AllSent /\ cut' = cut + Len(Chunk)
      /\ arrived' = [arrived EXCEPT ![Last] =
                        arrived[Last] \cup (cut + 1) .. (cut + Len(Chunk))]
      /\ Continuation => cut > 0
  BY <1>4, HeaderFacts, ContinuationFacts
<1>6. /\ cut' \in 1 .. frames[Last].size /\ arrived'[Last] \subseteq 1 .. cut'
      /\ arrived'[Last] = 1 .. cut' <=> SoFar
      /\ \A i \in 1 .. Last : i # Last => arrived'[i] = arrived[i]
      /\ frames[Last].size \in Nat \ {0} /\ cut < frames[Last].size
  BY <1>5, ArriveFacts, ChunkFacts
<1>7. k = Last
  BY <1>5, <1>6 DEF AllArrived
<1>8. cut' = frames[Last].size
  <2>1. frames[Last].size \in 1 .. frames[Last].size
    BY <1>6
  <2>2. frames[Last].size \in 1 .. cut'
    BY <1>5, <1>6, <1>7, <2>1
  <2>. QED
    BY <1>6, <2>2
<1>. QED
  BY <1>4, <1>5, <1>6, <1>7, <1>8

\* A frame whose last datagram arrives, nothing lost, is handed over when the
\* loop has gone on with its header, or has started it before.
LEMMA Delivers ==
    ASSUME IInv, Next, SoFar, cut' = frames[Last].size, frames' = frames,
           \/ Header /\ Taken
           \/ Continuation /\ Started /\ cut > 0 /\ cut < frames[Last].size
    PROVE  out' = [index |-> Last,
                   data |-> [u \in 1 .. frames'[Last].size |-> [frame |-> Last, unit |-> u]]]
<1>. USE DEF IInv
<1>1. CASE Header /\ Taken
  <2>1. Complete(Prefix(Last, cut'), Last)
    BY <1>1, HeaderFacts
  <2>. QED
    BY <2>1, CompleteFacts DEF Prefix
<1>2. CASE Continuation /\ Started /\ cut > 0 /\ cut < frames[Last].size
  <2>1. start /\ index = Last /\ len = frames[Last].size
    BY <1>2 DEF Started, Collecting
  <2>2. Joined = Prefix(Last, cut') /\ Len(Joined) = cut'
    BY <1>2, <2>1, JoinedFacts
  <2>3. Complete(Joined, index)
    BY <1>2, <2>1, <2>2, ContinuationFacts DEF Done
  <2>. QED
    BY <2>1, <2>2, <2>3, CompleteFacts DEF Prefix
<1>. QED
  BY <1>1, <1>2

\* Whatever was lost before, a key frame that arrives completely is handed
\* over: for any number of frames, any sizes and any datagram.
THEOREM AlwaysRecovers == Spec => KeyFrameRecovers
<1>1. ASSUME IInv, Next, NEW k \in DOMAIN frames, frames[k].key, frames[k].size <= FrameMax,
             ~AllArrived(k), AllArrived(k)'
      PROVE  Delivered(k)'
  <2>1. k \in 1 .. Last /\ arrived'[k] = 1 .. frames'[k].size
    BY <1>1, FrameFacts DEF IInv, AllArrived
  <2>2. /\ k = Last /\ SoFar /\ cut' = frames[Last].size /\ frames' = frames
        /\ Header \/ (Continuation /\ cut > 0 /\ cut < frames[Last].size)
    BY <1>1, <2>1, Completing
  <2>3. Taken
    BY <1>1, <2>2 DEF Taken, Accepted
  <2>4. Continuation => Started
    BY <1>1, <2>1, <2>2, FrameFacts DEF IInv, Keyed
  <2>5. out' = [index |-> Last,
                data |-> [u \in 1 .. frames'[Last].size |-> [frame |-> Last, unit |-> u]]]
    BY <1>1, <2>2, <2>3, <2>4, Delivers
  <2>. QED
    BY <2>2, <2>5 DEF Delivered, Whole
<1>2. IInv /\ [Next]_vars =>
         [\A k \in DOMAIN frames :
            /\ frames[k].key
            /\ frames[k].size <= FrameMax
            /\ ~AllArrived(k)
            /\ AllArrived(k)'
            => Delivered(k)']_vars
  BY <1>1
<1>. QED
  BY <1>2, AlwaysGood, PTL DEF Spec, KeyFrameRecovers

\* The frames of a group that follows an ordinary frame are handed over one
\* by one as they arrive, as long as nothing is lost: for groups of any length.
THEOREM AlwaysFlows == Spec => GroupFlows
<1>1. ASSUME IInv, Next, NEW j \in DOMAIN frames, NEW k \in DOMAIN frames, Begins(j),
             j <= k, \A i \in j .. k : arrived'[i] = 1 .. frames'[i].size,
             \A i \in j .. k : frames[i].size <= FrameMax,
             ~AllArrived(k)
      PROVE  Delivered(k)'
  <2>1. /\ k \in 1 .. Last /\ j \in 1 .. Last /\ Last \in Nat /\ k \in j .. k
        /\ cut \in Nat /\ frames[Last].key \in BOOLEAN
    BY <1>1, FrameFacts DEF IInv
  <2>2. /\ k = Last /\ SoFar /\ cut' = frames[Last].size /\ frames' = frames
        /\ \A i \in 1 .. Last : i # Last => arrived'[i] = arrived[i]
        /\ Header \/ (Continuation /\ cut > 0 /\ cut < frames[Last].size)
    BY <1>1, <2>1, Completing
  <2>3. ASSUME NEW i \in j .. Last - 1 PROVE AllArrived(i)
    <3>1. i \in j .. k /\ i \in 1 .. Last /\ i # Last
      BY <2>1, <2>2
    <3>. QED
      BY <1>1, <2>2, <3>1 DEF AllArrived
  <2>4. Group(j)
    BY <1>1, <2>2, <2>3 DEF Group
  <2>5. /\ cut = 0 /\ j < Last => first /\ prev = Last - 1
        /\ Started
    BY <1>1, <2>1, <2>4 DEF IInv, Flows
  <2>6. Header => Taken
    <3>1. CASE j < Last
      <4>1. Header => first /\ Last = prev + 1
        BY <2>1, <2>5, <3>1 DEF Header
      <4>. QED
        BY <1>1, <2>1, <2>2, <4>1 DEF Taken, Accepted
    <3>2. CASE j = Last
      BY <1>1, <2>1, <2>2, <3>2 DEF Taken, Accepted, Begins
    <3>. QED
      BY <2>1, <3>1, <3>2
  <2>7. out' = [index |-> Last,
                data |-> [u \in 1 .. frames'[Last].size |-> [frame |-> Last, unit |-> u]]]
    BY <1>1, <2>2, <2>5, <2>6, Delivers
  <2>. QED
    BY <2>2, <2>7 DEF Delivered, Whole
<1>2. IInv /\ [Next]_vars =>
         [\A j, k \in DOMAIN frames :
            /\ frames[j].key
            /\ j = 1 \/ (HeaderArrived(j - 1) /\ ~frames[j - 1].key)
            /\ j <= k
            /\ \A i \in j .. k : AllArrived(i)' /\ frames[i].size <= FrameMax
            /\ ~AllArrived(k)
            => Delivered(k)']_vars
  BY <1>1 DEF Begins, AllArrived
<1>. QED
  BY <1>2, AlwaysGood, PTL DEF Spec, GroupFlows

----------------------------------------------------------------------------
\* The loop implements LossyStream.  What it needs besides the invariant: a
\* frame of which nothing was sent yet is not the one collected last.
Ahead == Last > 0 /\ cut = 0 => index < Last

LEMMA StreamNewFrame ==
    ASSUME IInv, NEW key \in BOOLEAN, NEW size \in Sizes, NewFrame(key, size)
    PROVE  Ahead' /\ Stream!Make
<1>1. /\ frames' = Append(frames, [key |-> key, size |-> size])
      /\ out' = NoFrame /\ UNCHANGED <<start, index>>
  BY DEF NewFrame
<1>2. Last' = Last + 1
  BY <1>1, AppendProperties DEF IInv, TypeOK, Last
<1>3. Last \in Nat /\ index \in 0 .. Last
  BY FrameFacts DEF IInv, TypeOK
<1>. QED
  BY <1>1, <1>2, <1>3 DEF Ahead, Stream!Make, Passed, NoFrame

\* Datagrams that are lost, and phones, pass over nothing.
LEMMA StreamNothing ==
    ASSUME IInv, Ahead, Lost \/ Watch
    PROVE  Ahead' /\ Stream!PassOver(Passed) /\ Passed \in Passed .. Last
<1>1. /\ UNCHANGED <<frames, start, index>> /\ out' = NoFrame
      /\ cut' = cut \/ (~AllSent /\ cut' = cut + Len(Chunk))
  BY DEF Lost, Watch, sender
<1>2. Last' = Last
  BY <1>1 DEF Last
<1>3. Last \in Nat /\ index \in 0 .. Last /\ cut \in Nat
  BY FrameFacts DEF IInv, TypeOK
<1>4. cut' = 0 => cut = 0
  <2>1. ASSUME ~AllSent PROVE Len(Chunk) \in Nat \ {0}
    BY <2>1, ChunkFacts DEF IInv
  <2>. QED
    BY <1>1, <1>3, <2>1
<1>5. Passed \in Passed .. Last
  BY <1>3 DEF Passed, IInv, Collecting
<1>. QED
  BY <1>1, <1>2, <1>4, <1>5 DEF Ahead, Stream!PassOver, Passed, NoFrame

\* A header begins the last frame: those before it are over, and it is too if
\* it is whole at once, which is new then, or is not taken.
LEMMA StreamHeader ==
    ASSUME IInv, Ahead, Header
    PROVE  Ahead' /\ Stream!StreamNext
<1>1. /\ Last' = Last /\ ~AllSent /\ cut = 0 /\ cut' = cut + Len(Chunk) /\ index' = Last
      /\ start' = (Taken /\ cut' # frames[Last].size)
      /\ \/ /\ Taken /\ cut' = frames[Last].size
            /\ Complete(Prefix(Last, cut'), Last)
         \/ out' = NoFrame
  BY HeaderFacts DEF IInv
<1>2. Last \in Nat \ {0} /\ Len(Chunk) \in Nat \ {0} /\ index \in 0 .. Last
  BY <1>1, ChunkFacts DEF IInv, TypeOK
<1>3. index < Last /\ Ahead'
  BY <1>1, <1>2 DEF Ahead
<1>4. Passed \in Int /\ Passed < Last
  BY <1>2, <1>3 DEF Passed
<1>5. CASE Complete(Prefix(Last, cut'), Last) /\ cut' = frames[Last].size
  <2>1. out'.index = Last /\ Passed' = Last
    BY <1>1, <1>5 DEF Complete, Passed
  <2>2. Stream!HandOver(Last)
    BY <1>1, <2>1 DEF Stream!HandOver
  <2>3. Last \in Passed + 1 .. Last
    BY <1>2, <1>4
  <2>. QED
    BY <1>3, <2>2, <2>3 DEF Stream!StreamNext
<1>6. CASE out' = NoFrame
  <2>1. Passed' \in Passed .. Last
    BY <1>1, <1>2, <1>4 DEF Passed
  <2>2. Stream!PassOver(Passed')
    BY <1>1, <1>6 DEF Stream!PassOver, NoFrame
  <2>. QED
    BY <1>3, <2>1, <2>2 DEF Stream!StreamNext
<1>. QED
  BY <1>1, <1>5, <1>6

\* A continuation may complete the frame that is collected, which is the first
\* that is not over.
LEMMA StreamContinuation ==
    ASSUME IInv, Ahead, Continuation
    PROVE  Ahead' /\ Stream!StreamNext
<1>1. /\ Last' = Last /\ ~AllSent /\ cut > 0 /\ cut' = cut + Len(Chunk) /\ index' = index
      /\ start' = (start /\ ~Done)
      /\ \/ start /\ Done /\ Complete(Joined, index)
         \/ ~(start /\ Done) /\ out' = NoFrame
  BY ContinuationFacts DEF IInv
<1>2. Last \in Nat /\ Len(Chunk) \in Nat \ {0} /\ cut \in Nat /\ index \in 0 .. Last
  BY <1>1, ChunkFacts DEF IInv, TypeOK
<1>3. Ahead'
  BY <1>1, <1>2 DEF Ahead
<1>4. CASE start /\ Done /\ Complete(Joined, index)
  <2>1. out'.index = index /\ Passed' = index /\ Passed = index - 1
    BY <1>1, <1>4 DEF Complete, Passed
  <2>2. index \in Passed + 1 .. Last
    BY <1>2, <2>1
  <2>3. Stream!HandOver(index)
    BY <1>1, <2>1 DEF Stream!HandOver
  <2>. QED
    BY <1>3, <2>2, <2>3 DEF Stream!StreamNext
<1>5. CASE ~(start /\ Done) /\ out' = NoFrame
  <2>1. Passed' = Passed
    BY <1>1, <1>5 DEF Passed
  <2>2. Passed \in Passed .. Last
    BY <1>2 DEF Passed, IInv, Collecting
  <2>3. Stream!PassOver(Passed)
    BY <1>1, <1>5, <2>1 DEF Stream!PassOver, NoFrame
  <2>. QED
    BY <1>3, <2>2, <2>3 DEF Stream!StreamNext
<1>. QED
  BY <1>1, <1>4, <1>5

LEMMA StreamStep ==
    ASSUME IInv, Ahead, [Next]_vars
    PROVE  Ahead' /\ [Stream!StreamNext]_(Stream!streamVars)
<1>1. ASSUME NEW key \in BOOLEAN, NEW size \in Sizes, NewFrame(key, size)
      PROVE  Ahead' /\ Stream!StreamNext
  BY <1>1, StreamNewFrame DEF Stream!StreamNext
<1>2. CASE Lost \/ Watch
  BY <1>2, StreamNothing DEF Stream!StreamNext
<1>3. CASE UNCHANGED vars
  BY <1>3 DEF vars, sender, receiver, Ahead, Last, Passed, Stream!streamVars
<1>. QED
  BY <1>1, <1>2, <1>3, StreamHeader, StreamContinuation DEF Next

\* For any lengths and losses the decoder gets frames in the order they were
\* sent, none of them twice, and none after a later one.
THEOREM IsLossyStream == Spec => ImplementsStream
<1>1. Init => Stream!StreamInit /\ Ahead
  BY EmptySeq DEF Init, Stream!StreamInit, Ahead, Last, Passed, NoFrame
<1>2. IInv /\ Ahead /\ [Next]_vars => Ahead' /\ [Stream!StreamNext]_(Stream!streamVars)
  BY StreamStep
<1>. QED
  BY <1>1, <1>2, AlwaysGood, PTL DEF Spec, ImplementsStream, Stream!StreamSpec

==============================================================================
