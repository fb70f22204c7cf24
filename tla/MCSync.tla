--------------------------------- MODULE MCSync ---------------------------------
(* One bank, or two: interleavings of runs, Plaid and the user. *)
EXTENDS SyncPipeline, TLC

Symmetry == Permutations(Txns) \union Permutations(Procs)

(* A bound: no run begins or pulls while a reset is under way.  What was pulled    *)
(* by then may be written at any moment of it.  A write between the DELETE and the *)
(* UPDATE is the same as one after both, which touches no row that it reads.       *)
Pulled     == \A p \in Procs : run[p].pc \in {"idle", "write"}
OnlyWrites == UNCHANGED plaidVars /\ (UNCHANGED run \/ \E p \in Procs : Commit(p))
At(pc)     == \E k \in Resets : reset[k].pc = pc
Apart ==
  \/ NoReset /\ (NoReset' \/ Pulled)
  \/ At("delete") /\ At("update")'
  \/ At("update") /\ OnlyWrites

\* The counts of a pull that is over are never read again.
Counted(r) == IF r.pc = "write" THEN [r EXCEPT !.attempt = 0, !.pages = 0, !.torn = FALSE]
                                ELSE r
Told == <<plaidVars, dbVars, raced, [p \in Procs |-> Counted(run[p])]>>

MCSpec == Init /\ [][Next /\ Apart]_vars

(* Runs and Plaid only: the user links the bank and then leaves it alone. *)
OverlapSpec ==
  Init /\ [][PlaidNext \/ (\E p \in Procs : SyncNext(p)) \/ LinkNext]_vars
===============================================================================
