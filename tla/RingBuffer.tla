----------------------------- MODULE RingBuffer ------------------------------
(***************************************************************************)
(* src/src/api/queue/ring_buffer.c as the video decoder uses it: the       *)
(* network thread writes whole frames, the decoder thread reads blocks,    *)
(* and the user-interface thread releases and reinitialises the buffer     *)
(* (video_decode_queue_reset).  Every operation is one critical section of *)
(* ring->mutex, except a read, which is two: it first waits on the         *)
(* condition for 10 ms, drops the mutex, and takes it again to copy.       *)
(*                                                                         *)
(* Addresses are offsets from head; both pointers may rest on tail, the    *)
(* offset RingLen, which is the same place as 0.  A byte is the number of  *)
(* bytes accepted before it.  ring_buffer_init takes no lock: the model    *)
(* performs it in one step.                                                *)
(***************************************************************************)
EXTENDS Naturals

CONSTANTS
    RingLen,        \* ring_len
    WriteSizes,     \* sizes passed to ring_buffer_write
    ReadSizes,      \* sizes passed to ring_buffer_read
    MaxBytes        \* bound: bytes accepted over the life of the model

ASSUME RingAssumption ==
    /\ RingLen \in Nat \ {0}
    /\ WriteSizes \subseteq Nat
    /\ ReadSizes \subseteq Nat \ {0}
    /\ MaxBytes \in Nat

VARIABLES
    alive,          \* head # NULL
    mem,            \* the bytes from head to tail
    rAddr,          \* r_addr - head
    wAddr,          \* w_addr - head
    cacheLen,       \* cache_len
    perf,           \* the perf_ counters since the last snapshot with reset
    reader,         \* where the reading thread is, and the size it asked for
    total,          \* bytes accepted so far: the number of the next byte
    got             \* the bytes the last read returned

vars == <<alive, mem, rAddr, wAddr, cacheLen, perf, reader, total, got>>

Cells == 0 .. RingLen - 1

\* The cell an address denotes: tail is head again.
Cell(p) == IF p >= RingLen THEN p - RingLen ELSE p

\* Mutant: the part of the block beyond tail is forgotten.
AdvanceToHead(p, n) == IF p + n > RingLen THEN 0 ELSE p + n

\* Both pointers move alike: past tail they continue from head, up to tail
\* they just advance.
Advance(p, n) == IF p + n > RingLen THEN p + n - RingLen ELSE p + n

NoCounts == [writes |-> 0, overwrites |-> 0, written |-> 0,
             overwritten |-> 0, peak |-> 0]

Init ==
    /\ alive = TRUE
    /\ mem = [c \in Cells |-> 0]
    /\ rAddr = 0
    /\ wAddr = 0
    /\ cacheLen = 0
    /\ perf = NoCounts
    /\ reader = [pc |-> "idle", size |-> 0]
    /\ total = 0
    /\ got = <<>>

----------------------------------------------------------------------------
\* Mutants: the second memcpy is missing; the second memcpy copies from the
\* start of the block again.
CopiedOnce(w, n) ==
    [c \in Cells |-> IF c >= w /\ c < w + n THEN total + (c - w) ELSE mem[c]]
CopiedFromStart(w, n) ==
    [c \in Cells |->
        IF c >= w /\ c < w + n THEN total + (c - w)
        ELSE IF c + RingLen < w + n THEN total + c
        ELSE mem[c]]

\* The one or two memcpy calls of a write of n bytes at address w.
Copied(w, n) ==
    [c \in Cells |->
        IF c >= w /\ c < w + n THEN total + (c - w)
        ELSE IF c + RingLen < w + n THEN total + (c + RingLen - w)
        ELSE mem[c]]

\* Bytes a write of n pushes out of a full buffer.
Overflow(n) == IF cacheLen + n > RingLen THEN cacheLen + n - RingLen ELSE 0

Counted(n) ==
    LET lost == Overflow(n)
        now == cacheLen + n - lost
    IN  [writes |-> perf.writes + 1,
         overwrites |-> perf.overwrites + (IF lost > 0 THEN 1 ELSE 0),
         written |-> perf.written + n,
         overwritten |-> perf.overwritten + lost,
         peak |-> IF now > perf.peak THEN now ELSE perf.peak]

Write(n) ==
    /\ alive
    /\ n <= RingLen
    /\ total + n <= MaxBytes
    /\ mem' = Copied(wAddr, n)
    /\ wAddr' = Advance(wAddr, n)
    /\ rAddr' = Advance(rAddr, Overflow(n))
    /\ cacheLen' = cacheLen + n - Overflow(n)
    /\ perf' = Counted(n)
    /\ total' = total + n
    /\ UNCHANGED <<alive, reader, got>>

\* Mutant: the peak of the new interval starts at nothing instead of the fill
\* level it starts with.
SnapshotForgetsFill ==
    /\ perf' = NoCounts
    /\ UNCHANGED <<alive, mem, rAddr, wAddr, cacheLen, reader, total, got>>

\* ring_buffer_perf_stats_snapshot with reset_interval; it does not look at
\* head.
Snapshot ==
    /\ perf' = [NoCounts EXCEPT !.peak = cacheLen]
    /\ UNCHANGED <<alive, mem, rAddr, wAddr, cacheLen, reader, total, got>>

\* ring_buffer_read: the wait, which another thread's write or 10 ms end.
ReadCall(n) ==
    /\ reader.pc = "idle"
    /\ reader' = [pc |-> "timedwait", size |-> n]
    /\ UNCHANGED <<alive, mem, rAddr, wAddr, cacheLen, perf, total, got>>

\* Mutant: the wait has no timeout and ends only when all that was asked for
\* is there.
ReadWakeWhenAllThere ==
    /\ reader.pc = "timedwait"
    /\ cacheLen >= reader.size
    /\ reader' = [reader EXCEPT !.pc = "copy"]
    /\ UNCHANGED <<alive, mem, rAddr, wAddr, cacheLen, perf, total, got>>

ReadWake ==
    /\ reader.pc = "timedwait"
    /\ reader' = [reader EXCEPT !.pc = "copy"]
    /\ UNCHANGED <<alive, mem, rAddr, wAddr, cacheLen, perf, total, got>>

\* The second critical section: -1 without a buffer, 0 when empty, otherwise
\* as much as there is of what was asked for.
ReadNothing ==
    /\ reader.pc = "copy"
    /\ ~alive \/ cacheLen = 0
    /\ got' = <<>>
    /\ reader' = [pc |-> "idle", size |-> 0]
    /\ UNCHANGED <<alive, mem, rAddr, wAddr, cacheLen, perf, total>>

ReadSize == IF reader.size > cacheLen THEN cacheLen ELSE reader.size

ReadBytes ==
    /\ reader.pc = "copy"
    /\ alive
    /\ cacheLen > 0
    /\ got' = [i \in 1 .. ReadSize |-> mem[Cell(rAddr + i - 1)]]
    /\ rAddr' = Advance(rAddr, ReadSize)
    /\ cacheLen' = cacheLen - ReadSize
    /\ reader' = [pc |-> "idle", size |-> 0]
    /\ UNCHANGED <<alive, mem, wAddr, perf, total>>

\* ring_buffer_release; the pointers and cache_len keep their values.
Release ==
    /\ alive
    /\ alive' = FALSE
    /\ UNCHANGED <<mem, rAddr, wAddr, cacheLen, perf, reader, total, got>>

\* ring_buffer_init, after a release (video_decode_queue_reset) or over a
\* buffer that is still there (the old one is freed first).
Reinit ==
    /\ alive' = TRUE
    /\ mem' = [c \in Cells |-> 0]
    /\ rAddr' = 0
    /\ wAddr' = 0
    /\ cacheLen' = 0
    /\ perf' = NoCounts
    /\ UNCHANGED <<reader, total, got>>

Read ==
    \/ \E n \in ReadSizes : ReadCall(n)
    \/ ReadWake
    \/ ReadNothing
    \/ ReadBytes

Next ==
    \/ \E n \in WriteSizes : Write(n)
    \/ Snapshot
    \/ Read
    \/ Release
    \/ Reinit

Spec == Init /\ [][Next]_vars

\* The decoder thread calls ring_buffer_read in a loop, and a wait ends by
\* itself.
FairSpec == Spec /\ WF_vars(Read)

----------------------------------------------------------------------------
TypeOK ==
    /\ alive \in BOOLEAN
    /\ mem \in [Cells -> Nat]
    /\ rAddr \in 0 .. RingLen
    /\ wAddr \in 0 .. RingLen
    /\ cacheLen \in 0 .. RingLen
    /\ perf \in [writes : Nat, overwrites : Nat, written : Nat,
                 overwritten : Nat, peak : Nat]
    /\ reader \in [pc : {"idle", "timedwait", "copy"}, size : Nat]
    /\ reader.pc # "idle" => reader.size \in ReadSizes
    /\ total \in Nat

\* The two pointers and cache_len, three variables updated by four different
\* branches, never disagree: the write pointer is exactly cache_len past the
\* read pointer, whichever of the two is resting on tail.
PointersAgree ==
    /\ cacheLen <= total
    /\ Cell(wAddr) = Cell(Cell(rAddr) + cacheLen)

\* What is between the pointers is the newest cache_len bytes accepted, in
\* order: the wrapped copies of writes and the overwriting of old bytes never
\* mix generations.
ContentsInOrder ==
    alive => \A i \in 0 .. cacheLen - 1 :
        mem[Cell(rAddr + i)] = total - cacheLen + i

\* The counters the decoder's trace prints are consistent with each other
\* and with the buffer: nothing is counted lost that was not counted written
\* since the same snapshot, and the peak is a fill level the interval saw.
CountersConsistent ==
    /\ perf.overwritten <= perf.written
    /\ perf.overwrites <= perf.writes
    /\ cacheLen <= perf.peak
    /\ perf.peak <= RingLen

\* Seen from outside the buffer is a FIFO that loses its oldest bytes: a read
\* returns consecutive bytes, older ones first, and over the life of the buffer
\* no byte comes out twice, whatever overwrites, releases and
\* reinitialisations happen between the two halves of a read.
Held == IF alive THEN cacheLen ELSE 0

Fifo == INSTANCE LossyFifo
    WITH Capacity <- RingLen, low <- total - Held, high <- total

ImplementsFifo == Fifo!FifoSpec

\* Nothing stays in the buffer for ever: every accepted byte is eventually
\* read, overwritten or released.
BytesLeave ==
    \A k \in 1 .. MaxBytes : (total >= k) ~> (total - Held >= k)

==============================================================================
