--------------------------- MODULE BoundedDetector ---------------------------
(***************************************************************************)
(* What the presence table of the bus promises its readers: a detector of  *)
(* silence with two bounds.  A peer that is up is given up only after more *)
(* than Patience seconds of silence, and never believed to be up after     *)
(* more than Limit of them.  Some signs of life bring a peer up, others    *)
(* only keep up one that is.  The Assumed are up without a sign when the   *)
(* detector starts, and their silence counts from the second before.       *)
(***************************************************************************)
EXTENDS Naturals

CONSTANTS
    Peers,
    Assumed,        \* peers taken for up at the start
    Patience,       \* seconds of silence nobody is given up for
    Limit           \* seconds of silence nobody survives

VARIABLES
    up,             \* who is believed to be there
    silent          \* seconds since each peer was heard

detectorVars == <<up, silent>>

DetectorInit ==
    /\ up = [p \in Peers |-> p \in Assumed]
    /\ silent = [p \in Peers |-> 1]

Hears(p) ==
    /\ up' = [up EXCEPT ![p] = TRUE]
    /\ silent' = [silent EXCEPT ![p] = 0]

Notices(p) ==
    /\ UNCHANGED up
    /\ silent' = [silent EXCEPT ![p] = 0]

\* Any number of peers together, all of them silent for too long.
GiveUp ==
    /\ UNCHANGED silent
    /\ up' \in [Peers -> BOOLEAN]
    /\ \A p \in Peers : up'[p] # up[p] => up[p] /\ silent[p] > Patience

\* A second passes only if nobody is overdue.
Second ==
    /\ UNCHANGED up
    /\ \A p \in Peers : up[p] => silent[p] < Limit
    /\ silent' = [p \in Peers |-> silent[p] + 1]

DetectorNext ==
    \/ GiveUp
    \/ Second
    \/ \E p \in Peers : Hears(p) \/ Notices(p)

DetectorSpec == DetectorInit /\ [][DetectorNext]_detectorVars

==============================================================================
