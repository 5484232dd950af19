---------------------------- MODULE MCClockQueue ----------------------------
(* A small instance of ClockQueue for TLC.                                 *)
EXTENDS ClockQueue
=============================================================================
