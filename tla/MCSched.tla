------------------------------- MODULE MCSched -------------------------------
(* A small instance of the scheduling server for TLC.                       *)
EXTENDS Sched
=============================================================================
