---------------------------- MODULE MCAudioTasks -----------------------------
(***************************************************************************)
(* AudioTasks with two devices and room for two threads of a task, so that *)
(* a close can overtake the start of a thread.                             *)
(***************************************************************************)
EXTENDS AudioTasks

OneTask == <<"receive">>

==============================================================================
