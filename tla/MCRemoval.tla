------------------------------- MODULE MCRemoval -------------------------------
(* A few banks, tokens and removals that cross. *)
EXTENDS Removal, TLC

Symmetry == Permutations(Banks) \union Permutations(Procs) \union Permutations(Tokens)

\* Two removals at once are about one bank.
Small == Cardinality(Calling) <= 1 \/ Cardinality({b \in Banks : plaid[b] # "new"}) <= 1

MCSpec == Init /\ [][Next /\ Small']_vars
===============================================================================
