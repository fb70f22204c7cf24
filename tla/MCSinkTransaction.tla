--------------------------- MODULE MCSinkTransaction ---------------------------
(* Two syncs of one bank, a reset and an unlink. *)
EXTENDS SinkTransaction, TLC

Symmetry == Permutations(Syncs) \union Permutations(Txns)
===============================================================================
