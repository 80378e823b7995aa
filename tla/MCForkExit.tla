----------------------------- MODULE MCForkExit -----------------------------
(* Small instances of the process life cycle for TLC.                       *)
EXTENDS ForkExit
=============================================================================
