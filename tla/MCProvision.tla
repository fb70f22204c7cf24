------------------------------ MODULE MCProvision ------------------------------
(* Installs of one profile, from nothing and at once. *)
EXTENDS Provision, TLC
===============================================================================
