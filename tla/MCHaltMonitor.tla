--------------------------- MODULE MCHaltMonitor ---------------------------
(* Small instances of HaltMonitor for TLC.                                 *)
EXTENDS HaltMonitor
=============================================================================
