---------------------------- MODULE MCVideoReceive ---------------------------
(***************************************************************************)
(* VideoReceive with two streams, room for two threads, so that a close    *)
(* can overtake the start of a thread, and the worlds that take every path *)
(* of the recording: none wanted, one that waits for its audio, one that   *)
(* may begin at once, and one that must begin over a running upload.       *)
(***************************************************************************)
EXTENDS VideoReceive

Quiet == [call |-> FALSE, card |-> FALSE, clients |-> FALSE, other |-> FALSE,
          audio |-> FALSE]

Asked == [Quiet EXCEPT !.call = TRUE, !.card = TRUE]

StorageWorlds ==
    {Quiet, Asked,
     [Asked EXCEPT !.audio = TRUE],
     [Asked EXCEPT !.audio = TRUE, !.clients = TRUE]}

==============================================================================
