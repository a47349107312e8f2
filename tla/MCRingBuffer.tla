---------------------------- MODULE MCRingBuffer -----------------------------
(***************************************************************************)
(* RingBuffer on a ring of a few bytes: write sizes that fill it exactly,  *)
(* wrap in the middle, and are too large; reads shorter and longer than    *)
(* what is there.                                                          *)
(***************************************************************************)
EXTENDS RingBuffer


==============================================================================
