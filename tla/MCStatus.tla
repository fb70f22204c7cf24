-------------------------------- MODULE MCStatus -------------------------------
(* A report on a profile two commands set up. *)
EXTENDS Status, TLC

Symmetry == Permutations(Secrets) \union Permutations(Procs)
===============================================================================
