--------------------------- MODULE MCMonitorSession --------------------------
(***************************************************************************)
(* MonitorSession with its two doors.                                      *)
(***************************************************************************)
EXTENDS MonitorSession

==============================================================================
