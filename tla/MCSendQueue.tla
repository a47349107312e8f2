----------------------------- MODULE MCSendQueue -----------------------------
(***************************************************************************)
(* SendQueue with a pool of two packages, so that a push finds it empty,   *)
(* and sessions that follow each other while threads linger.               *)
(***************************************************************************)
EXTENDS SendQueue, TLC

==============================================================================
