--------------------------------- MODULE Batch ---------------------------------
(***************************************************************************)
(* What the transactions sink makes of the entries a pull has collected:   *)
(* the rows to write, the rows to delete, and the table that results.      *)
(***************************************************************************)
EXTENDS Ledger

\* Faulty variant of Dedupe: the lists in the other order, so that added wins.
DedupeAddedWins(got, t) ==
  LET added == Positions(Named(About(got, t), "added"))
  IN  IF added # {} THEN Latest(added)
                    ELSE Latest(Positions(Named(About(got, t), "modified")))

\* dedupe(added, modified): one version per transaction, and modified wins.
Dedupe(got, t) ==
  LET modified == Positions(Named(About(got, t), "modified"))
  IN  IF modified # {} THEN Latest(modified)
                       ELSE Latest(Positions(Named(About(got, t), "added")))

Upserts(got) == {e.txn : e \in Named(got, "added") \union Named(got, "modified")}

\* Faulty variant of Written: delete first, upsert second.
WrittenDeletesFirst(table, got) ==
  [t \in Txns |-> IF t \in Upserts(got) THEN Dedupe(got, t)
                  ELSE IF Removes(got, t) THEN NoRow
                  ELSE table[t]]

\* The sink: upsert what dedupe left, then delete what was removed.
Written(table, got) ==
  [t \in Txns |-> IF Removes(got, t)        THEN NoRow
                  ELSE IF t \in Upserts(got) THEN Dedupe(got, t)
                  ELSE table[t]]
===============================================================================
