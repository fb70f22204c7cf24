------------------------------- MODULE MCRestart -------------------------------
(* A few calls and a restart. *)
EXTENDS Restart
===============================================================================
