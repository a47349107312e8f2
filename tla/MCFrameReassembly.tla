-------------------------- MODULE MCFrameReassembly --------------------------
(***************************************************************************)
(* FrameReassembly with frames of one, two and three datagrams, the last   *)
(* one short or full, and one that is too long.                            *)
(***************************************************************************)
EXTENDS FrameReassembly

==============================================================================
