----------------------------- MODULE Processes -----------------------------
(* The server processes that run on one machine, over the same files.      *)
CONSTANTS
  Process,
  Nobody     \* the owner of what no process has

ASSUME ProcessAssumption == Process # {} /\ Nobody \notin Process
=============================================================================
