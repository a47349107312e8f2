-------------------------- MODULE RingBufferProofs ---------------------------
(***************************************************************************)
(* The invariants of RingBuffer, and that it implements LossyFifo, for     *)
(* every ring length, every set of block sizes and every bound.            *)
(***************************************************************************)
EXTENDS RingBuffer, TLAPS

\* The inductive invariant: no part is inductive without the others.  The
\* contents are in order only because the pointers agree, and the pointers
\* stay in range only because of the types.
IInv == TypeOK /\ PointersAgree /\ ContentsInOrder /\ CountersConsistent

----------------------------------------------------------------------------
\* Adding less than a ring to an address and folding it back gives an address;
\* it denotes the cell that many places further on.
LEMMA AdvanceFacts ==
    ASSUME NEW p \in 0 .. RingLen, NEW n \in 0 .. RingLen
    PROVE  /\ Advance(p, n) \in 0 .. RingLen
           /\ Cell(Advance(p, n)) = Cell(Cell(p) + n)
  BY RingAssumption DEF Advance, Cell

LEMMA CellFacts ==
    ASSUME NEW p \in 0 .. RingLen, NEW i \in 0 .. RingLen - 1
    PROVE  Cell(p + i) \in Cells
  BY RingAssumption DEF Cell, Cells

LEMMA OverflowFacts ==
    ASSUME TypeOK, NEW n \in Nat, n <= RingLen
    PROVE  /\ Overflow(n) \in 0 .. n
           /\ Overflow(n) \in 0 .. RingLen
           /\ cacheLen + n - Overflow(n) \in 0 .. RingLen
  BY RingAssumption DEF Overflow, TypeOK

LEMMA InitIInv == Init => IInv
  BY RingAssumption DEF Init, IInv, TypeOK, PointersAgree, ContentsInOrder,
     CountersConsistent, NoCounts, Cells, Cell

\* A write keeps the ring together: this is the step in which both pointers,
\* the length, the contents and the counters all change.
LEMMA WriteIInv ==
    ASSUME IInv, NEW n \in WriteSizes, Write(n)
    PROVE  IInv'
  <1>1. n \in Nat /\ n <= RingLen
    BY RingAssumption DEF Write
  <1>2. /\ Overflow(n) \in 0 .. n
        /\ Overflow(n) \in 0 .. RingLen
        /\ cacheLen + n - Overflow(n) \in 0 .. RingLen
    BY <1>1, OverflowFacts DEF IInv
  <1>3. TypeOK'
    <2>1. rAddr' \in 0 .. RingLen /\ wAddr' \in 0 .. RingLen
      BY <1>1, <1>2, AdvanceFacts DEF IInv, TypeOK, Write
    <2>2. mem' \in [Cells -> Nat]
      BY <1>1, RingAssumption DEF IInv, TypeOK, Write, Copied, Cells
    <2>3. perf' \in [writes : Nat, overwrites : Nat, written : Nat,
                     overwritten : Nat, peak : Nat]
      BY <1>1, <1>2 DEF IInv, TypeOK, Write, Counted
    <2>4. QED
      BY <1>1, <1>2, <2>1, <2>2, <2>3, RingAssumption DEF IInv, TypeOK, Write
  <1>4. PointersAgree'
    <2>1. (cacheLen <= total)'
      BY <1>1, <1>2 DEF IInv, TypeOK, PointersAgree, Write
    <2>2. Cell(wAddr') = Cell(Cell(wAddr) + n)
      BY <1>1, AdvanceFacts DEF IInv, TypeOK, Write
    <2>3. Cell(rAddr') = Cell(Cell(rAddr) + Overflow(n))
      BY <1>2, AdvanceFacts DEF IInv, TypeOK, Write
    <2>4. Cell(wAddr') = Cell(Cell(rAddr') + cacheLen')
      BY <1>1, <1>2, <2>2, <2>3, RingAssumption
         DEF IInv, TypeOK, PointersAgree, Write, Cell, Overflow
    <2>5. QED
      BY <2>1, <2>4 DEF PointersAgree, Cell
  <1>5. ContentsInOrder'
    <2>1. SUFFICES ASSUME NEW i \in 0 .. cacheLen' - 1
                   PROVE  mem'[Cell(rAddr' + i)] = total' - cacheLen' + i
      BY DEF ContentsInOrder, Cell
    <2>2. i \in 0 .. RingLen - 1
      BY <1>2, <2>1, RingAssumption DEF Write
    <2>3. Cell(rAddr' + i) \in Cells
      BY <1>3, <2>2, CellFacts DEF TypeOK
    <2>4. CASE i + Overflow(n) < cacheLen
      <3>1. i + Overflow(n) \in 0 .. cacheLen - 1
        BY <1>2, <2>2, <2>4 DEF IInv, TypeOK
      <3>2. mem[Cell(rAddr + (i + Overflow(n)))]
                = total - cacheLen + (i + Overflow(n))
        BY <3>1 DEF IInv, ContentsInOrder, Write
      <3>3. Cell(rAddr' + i) = Cell(rAddr + (i + Overflow(n)))
        BY <1>2, <2>2, <3>1, RingAssumption
           DEF IInv, TypeOK, Write, Advance, Cell
      <3>4. LET c == Cell(rAddr' + i)
            IN  ~(c >= wAddr /\ c < wAddr + n) /\ ~(c + RingLen < wAddr + n)
        BY <1>1, <1>2, <2>2, <2>4, <3>1, <3>3, RingAssumption
           DEF IInv, TypeOK, PointersAgree, Cell, Overflow
      <3>5. mem'[Cell(rAddr' + i)] = mem[Cell(rAddr' + i)]
        BY <2>3, <3>4 DEF Write, Copied
      <3>6. QED
        BY <1>1, <1>2, <3>2, <3>3, <3>5 DEF IInv, TypeOK, Write
    <2>5. CASE i + Overflow(n) >= cacheLen
      <3> DEFINE j == i + Overflow(n) - cacheLen
      <3>1. j \in 0 .. n - 1
        BY <1>1, <1>2, <2>1, <2>5 DEF IInv, TypeOK, Write
      <3>2. Cell(rAddr' + i) = Cell(Cell(wAddr) + j)
        BY <1>1, <1>2, <2>2, <3>1, RingAssumption
           DEF IInv, TypeOK, PointersAgree, Write, Advance, Cell, Overflow
      <3>3. mem'[Cell(rAddr' + i)] = total + j
        <4> DEFINE c == Cell(rAddr' + i)
        <4>1. c \in Cells /\ mem'[c] = Copied(wAddr, n)[c]
          BY <2>3 DEF Write
        <4>2. wAddr \in 0 .. RingLen /\ total \in Nat
          BY DEF IInv, TypeOK
        <4>3. CASE c >= wAddr /\ c < wAddr + n
          <5>1. c = wAddr + j
            BY <1>1, <3>1, <3>2, <4>1, <4>2, <4>3, RingAssumption
               DEF Cell, Cells
          <5>2. QED
            BY <1>1, <3>1, <4>1, <4>2, <4>3, <5>1, RingAssumption
               DEF Copied, Cells
        <4>4. CASE ~(c >= wAddr /\ c < wAddr + n)
          <5>1. c + RingLen = wAddr + j
            BY <1>1, <3>1, <3>2, <4>1, <4>2, <4>4, RingAssumption
               DEF Cell, Cells
          <5>2. c + RingLen < wAddr + n
            BY <1>1, <3>1, <4>2, <5>1, RingAssumption
          <5>3. mem'[c] = total + (c + RingLen - wAddr)
            BY <4>1, <4>4, <5>2 DEF Copied
          <5>4. QED
            BY <1>1, <3>1, <4>1, <4>2, <5>1, <5>3, RingAssumption DEF Cells
        <4>5. QED
          BY <4>3, <4>4
      <3>4. total + j = total' - cacheLen' + i
        BY <1>1, <1>2, <2>2 DEF IInv, TypeOK, Write
      <3>5. QED
        BY <3>3, <3>4
    <2>6. QED
      BY <1>2, <2>2, <2>4, <2>5 DEF IInv, TypeOK
  <1>6. CountersConsistent'
    BY <1>1, <1>2, RingAssumption
       DEF IInv, TypeOK, CountersConsistent, Write, Counted
  <1>7. QED
    BY <1>3, <1>4, <1>5, <1>6 DEF IInv

LEMMA ReadBytesIInv ==
    ASSUME IInv, ReadBytes
    PROVE  IInv'
  <1>1. /\ ReadSize \in 1 .. cacheLen
        /\ ReadSize \in 0 .. RingLen
        /\ cacheLen \in 0 .. RingLen
    BY RingAssumption DEF IInv, TypeOK, ReadBytes, ReadSize
  <1>2. rAddr' \in 0 .. RingLen /\ Cell(rAddr') = Cell(Cell(rAddr) + ReadSize)
    BY <1>1, AdvanceFacts, RingAssumption DEF IInv, TypeOK, ReadBytes
  <1>3. TypeOK'
    BY <1>1, <1>2, RingAssumption DEF IInv, TypeOK, ReadBytes
  <1>4. PointersAgree'
    <2>1. /\ wAddr' = wAddr
          /\ cacheLen' = cacheLen - ReadSize
          /\ Cell(wAddr) = Cell(Cell(rAddr) + cacheLen)
          /\ rAddr \in 0 .. RingLen
      BY DEF IInv, TypeOK, PointersAgree, ReadBytes
    <2>2. Cell(wAddr') = Cell(Cell(rAddr') + cacheLen')
      <3>1. ASSUME NEW a \in 0 .. RingLen - 1
            PROVE  Cell(Cell(a + ReadSize) + (cacheLen - ReadSize))
                       = Cell(a + cacheLen)
        BY <1>1, RingAssumption DEF Cell
      <3>2. Cell(rAddr) \in 0 .. RingLen - 1
        BY <2>1, RingAssumption DEF Cell
      <3>3. QED
        BY <1>2, <2>1, <3>1, <3>2
    <2>3. QED
      BY <1>1, <2>2 DEF IInv, TypeOK, PointersAgree, ReadBytes, Cell
  <1>5. ContentsInOrder'
    <2>1. SUFFICES ASSUME NEW i \in 0 .. cacheLen' - 1
                   PROVE  mem'[Cell(rAddr' + i)] = total' - cacheLen' + i
      BY DEF ContentsInOrder, Cell
    <2>2. i + ReadSize \in 0 .. cacheLen - 1
      BY <1>1, <2>1, RingAssumption DEF ReadBytes
    <2>3. mem[Cell(rAddr + (i + ReadSize))] = total - cacheLen + (i + ReadSize)
      BY <2>2 DEF IInv, ContentsInOrder, ReadBytes
    <2>4. Cell(rAddr' + i) = Cell(rAddr + (i + ReadSize))
      BY <1>1, <2>2, RingAssumption DEF IInv, TypeOK, ReadBytes, Advance, Cell
    <2>5. QED
      BY <1>1, <2>2, <2>3, <2>4, RingAssumption DEF IInv, TypeOK, ReadBytes
  <1>6. CountersConsistent'
    BY <1>1, RingAssumption DEF IInv, TypeOK, CountersConsistent, ReadBytes
  <1>7. QED
    BY <1>3, <1>4, <1>5, <1>6 DEF IInv

LEMMA NextIInv == IInv /\ [Next]_vars => IInv'
  <1> SUFFICES ASSUME IInv, [Next]_vars
               PROVE  IInv'
    OBVIOUS
  <1> USE DEF IInv, TypeOK, PointersAgree, ContentsInOrder, CountersConsistent
  <1>1. ASSUME NEW n \in WriteSizes, Write(n) PROVE IInv'
    BY <1>1, WriteIInv
  <1>2. CASE Snapshot
    BY <1>2, RingAssumption DEF Snapshot, NoCounts, Cell
  <1>3. ASSUME NEW n \in ReadSizes, ReadCall(n) PROVE IInv'
    BY <1>3, RingAssumption DEF ReadCall, Cell
  <1>4. CASE ReadWake
    BY <1>4 DEF ReadWake, Cell
  <1>5. CASE ReadNothing
    BY <1>5 DEF ReadNothing, Cell
  <1>6. CASE ReadBytes
    BY <1>6, ReadBytesIInv
  <1>7. CASE Release
    BY <1>7 DEF Release, Cell
  <1>8. CASE Reinit
    BY <1>8, RingAssumption DEF Reinit, NoCounts, Cell, Cells
  <1>9. CASE UNCHANGED vars
    BY <1>9 DEF vars, Cell
  <1>10. QED
    BY <1>1, <1>2, <1>3, <1>4, <1>5, <1>6, <1>7, <1>8, <1>9 DEF Next, Read

\* The strengthened invariant holds in every reachable state.
THEOREM Invariance == Spec => []IInv
  BY InitIInv, NextIInv, PTL DEF Spec

\* ring_buffer.c keeps its variables in range for every ring length and every
\* block size.
THEOREM TypeCorrect == Spec => []TypeOK
  BY Invariance, PTL DEF IInv

\* The write pointer is always cache_len past the read pointer.
THEOREM PointersAlwaysAgree == Spec => []PointersAgree
  BY Invariance, PTL DEF IInv

\* Between the pointers are the newest bytes accepted, in order.
THEOREM ContentsAlwaysInOrder == Spec => []ContentsInOrder
  BY Invariance, PTL DEF IInv

\* The performance counters are consistent with each other and the buffer.
THEOREM CountersAlwaysConsistent == Spec => []CountersConsistent
  BY Invariance, PTL DEF IInv

----------------------------------------------------------------------------
\* Each locked section of ring_buffer.c is one step of the abstract FIFO or
\* leaves it alone.
LEMMA StepRefines ==
    ASSUME IInv, IInv', [Next]_vars
    PROVE  [Fifo!FifoNext]_(Fifo!fifoVars)
  <1> USE DEF Fifo!fifoVars, Held
  <1>1. ASSUME NEW n \in WriteSizes, Write(n) PROVE Fifo!Put(n)
    <2>1. n \in Nat /\ n <= RingLen
      BY <1>1, RingAssumption DEF Write
    <2>2. QED
      BY <1>1, <2>1, RingAssumption
         DEF Write, Fifo!Put, IInv, TypeOK, PointersAgree, Overflow
  <1>2. CASE Snapshot
    BY <1>2 DEF Snapshot
  <1>3. ASSUME NEW n \in ReadSizes, ReadCall(n) PROVE UNCHANGED Fifo!fifoVars
    BY <1>3 DEF ReadCall
  <1>4. CASE ReadWake
    BY <1>4 DEF ReadWake
  <1>5. CASE ReadNothing
    BY <1>5 DEF ReadNothing, Fifo!TakeNothing, Fifo!FifoNext, IInv, TypeOK
  <1>6. CASE ReadBytes
    <2>1. reader.size \in ReadSizes /\ reader.size \in Nat \ {0}
      BY <1>6, RingAssumption DEF ReadBytes, IInv, TypeOK
    <2>2. /\ cacheLen \in 1 .. RingLen
          /\ total \in Nat
          /\ cacheLen <= total
          /\ rAddr \in 0 .. RingLen
      BY <1>6, RingAssumption DEF ReadBytes, IInv, TypeOK, PointersAgree
    <2>3. Fifo!Smaller(reader.size, total - (total - cacheLen)) = ReadSize
      BY <2>1, <2>2, RingAssumption DEF Fifo!Smaller, ReadSize
    <2>4. ReadSize \in 1 .. cacheLen
      BY <2>1, <2>2, RingAssumption DEF ReadSize
    <2>5. \A i \in 1 .. ReadSize :
              mem[Cell(rAddr + i - 1)] = total - cacheLen + i - 1
      <3>1. SUFFICES ASSUME NEW i \in 1 .. ReadSize
                     PROVE  mem[Cell(rAddr + i - 1)] = total - cacheLen + i - 1
        OBVIOUS
      <3>2. i - 1 \in 0 .. cacheLen - 1 /\ rAddr + (i - 1) = rAddr + i - 1
        BY <2>2, <2>4, <3>1, RingAssumption
      <3>3. mem[Cell(rAddr + (i - 1))] = total - cacheLen + (i - 1)
        BY <1>6, <3>2 DEF ReadBytes, IInv, ContentsInOrder
      <3>4. QED
        BY <2>2, <3>2, <3>3, RingAssumption
    <2>6. got' = [i \in 1 .. ReadSize |-> total - cacheLen + i - 1]
      BY <1>6, <2>5 DEF ReadBytes
    <2>7. Fifo!Take(reader.size)
      <3>1. Held = cacheLen /\ Held' = cacheLen - ReadSize /\ total' = total
        BY <1>6 DEF ReadBytes
      <3>2. total - Held < total
        BY <2>2, <3>1, RingAssumption
      <3>3. (total - Held)' = total - Held + ReadSize
        BY <2>2, <2>4, <3>1, RingAssumption
      <3>4. QED
        BY <2>3, <2>6, <3>1, <3>2, <3>3 DEF Fifo!Take
    <2>8. QED
      BY <2>1, <2>7 DEF Fifo!FifoNext
  <1>7. CASE Release
    BY <1>7 DEF Release, Fifo!Discard, Fifo!FifoNext, IInv, TypeOK
  <1>8. CASE Reinit
    BY <1>8 DEF Reinit, Fifo!Discard, Fifo!FifoNext, IInv, TypeOK
  <1>9. CASE UNCHANGED vars
    BY <1>9 DEF vars
  <1>10. QED
    BY <1>1, <1>2, <1>3, <1>4, <1>5, <1>6, <1>7, <1>8, <1>9
       DEF Next, Read, Fifo!FifoNext

LEMMA InitRefines == Init => Fifo!FifoInit
  BY DEF Init, Fifo!FifoInit, Held

\* The decoder's buffer is, for every size, a FIFO that loses its oldest
\* bytes: nothing is returned twice, out of order, or after newer bytes.
THEOREM Refinement == Spec => ImplementsFifo
  <1>1. IInv /\ IInv' /\ [Next]_vars => [Fifo!FifoNext]_(Fifo!fifoVars)
    BY StepRefines
  <1>2. QED
    BY <1>1, InitRefines, Invariance, PTL
       DEF Spec, ImplementsFifo, Fifo!FifoSpec

==============================================================================
