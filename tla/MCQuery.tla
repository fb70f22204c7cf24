--------------------------------- MODULE MCQuery --------------------------------
(* More calls than clients. *)
EXTENDS ReadOnlyQuery, TLC
===============================================================================
