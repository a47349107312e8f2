----------------------------- MODULE LossyStream -----------------------------
(***************************************************************************)
(* What the video receiver promises the decoder of the frames that are     *)
(* sent, numbered 1, 2, ...: it hands them over in the order they were     *)
(* sent, each at most once; any may be missing, and of one that is not     *)
(* handed over when a later one is, nothing comes any more.                *)
(***************************************************************************)
EXTENDS Naturals

VARIABLES
    made,           \* frames sent so far
    passed,         \* the last that is over: handed over, or given up
    handed          \* what the last step handed over, 0 if nothing

streamVars == <<made, passed, handed>>

StreamInit ==
    /\ made = 0
    /\ passed = 0
    /\ handed = 0

Make ==
    /\ made' = made + 1
    /\ handed' = 0
    /\ UNCHANGED passed

HandOver(k) ==
    /\ passed' = k
    /\ handed' = k
    /\ UNCHANGED made

\* Frames up to k are given up, or nothing happens to any.
PassOver(k) ==
    /\ passed' = k
    /\ handed' = 0
    /\ UNCHANGED made

StreamNext ==
    \/ Make
    \/ \E k \in passed + 1 .. made : HandOver(k)
    \/ \E k \in passed .. made : PassOver(k)

StreamSpec == StreamInit /\ [][StreamNext]_streamVars

==============================================================================
