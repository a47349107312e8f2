----------------------------- MODULE MCTuyaClaim -----------------------------
(***************************************************************************)
(* TuyaClaim with three units whose clocks do not change to the            *)
(* next second in the same slot.                                           *)
(***************************************************************************)
EXTENDS TuyaClaim

CONSTANTS u1, u2, u3

Three == {u1, u2, u3}
Apart == [u \in Units |-> IF u = u1 THEN 0 ELSE IF u = u2 THEN 1 ELSE 2]

==============================================================================
