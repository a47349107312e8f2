------------------------------ MODULE LossyFifo ------------------------------
(***************************************************************************)
(* What the decoder's byte buffer promises its two users.  The bytes that  *)
(* the network thread hands over are numbered 0, 1, 2, ... in the order it *)
(* writes them; the buffer holds the interval low .. high-1.  A write adds *)
(* at the high end and, when the buffer is full, silently gives up the     *)
(* oldest bytes; a read takes the oldest ones; a release gives up all.     *)
(***************************************************************************)
EXTENDS Naturals

CONSTANTS
    Capacity,       \* bytes the buffer holds
    WriteSizes,     \* sizes of the blocks offered by the writer
    ReadSizes       \* sizes asked for by the reader

VARIABLES
    low,            \* the oldest byte held
    high,           \* the next byte to be written
    got             \* the bytes the last read returned

fifoVars == <<low, high, got>>

Smaller(a, b) == IF a < b THEN a ELSE b

FifoInit ==
    /\ low = 0
    /\ high = 0
    /\ got = <<>>

\* A block of n bytes is accepted whole; what no longer fits is dropped from
\* the old end.
Put(n) ==
    /\ n <= Capacity
    /\ high' = high + n
    /\ low' = IF high + n - low > Capacity THEN high + n - Capacity ELSE low
    /\ UNCHANGED got

\* The oldest bytes, in order, and no more than the buffer has.
Take(n) ==
    /\ low < high
    /\ LET k == Smaller(n, high - low)
       IN  /\ got' = [i \in 1 .. k |-> low + i - 1]
           /\ low' = low + k
    /\ UNCHANGED high

TakeNothing ==
    /\ low = high
    /\ got' = <<>>
    /\ UNCHANGED <<low, high>>

Discard ==
    /\ low' = high
    /\ UNCHANGED <<high, got>>

FifoNext ==
    \/ \E n \in WriteSizes : Put(n)
    \/ \E n \in ReadSizes : Take(n)
    \/ TakeNothing
    \/ Discard

FifoSpec == FifoInit /\ [][FifoNext]_fifoVars

==============================================================================
