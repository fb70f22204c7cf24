-------------------------------- MODULE Replica --------------------------------
(***************************************************************************)
(* What a synced bank promises whoever queries it, with nothing said about *)
(* pages, restarts, transactions or processes: the local table of a bank   *)
(* is always what its ledger said up to the stored cursor, the cursor only *)
(* moves forward together with the rows it describes, and the one other    *)
(* thing that happens to it is that rows and cursor are forgotten at once. *)
(***************************************************************************)
EXTENDS Ledger

CONSTANT Items      \* bank logins

VARIABLES
  log,      \* what Plaid reports about each bank
  cursor,   \* how far the local copy of each bank got
  rows      \* the local copy of each bank

replicaVars == <<log, cursor, rows>>

Init ==
  /\ log    = [i \in Items |-> {}]
  /\ cursor = [i \in Items |-> NoCursor]
  /\ rows   = [i \in Items |-> EmptyTable]

\* Plaid reports a new change, beyond everything anyone was given.
Publish(i) ==
  /\ \E e \in Entry :
       /\ \A f \in log[i] : f.ver < e.ver
       /\ e.ver > cursor[i]
       /\ MayReport(log[i], e.txn, e.op)
       /\ log' = [log EXCEPT ![i] = @ \union {e}]
  /\ UNCHANGED <<cursor, rows>>

\* Plaid thinks again about changes the local copy has not applied.
Revise(i) ==
  /\ \E v \in Vers :
       /\ v >= cursor[i]
       /\ log' = [log EXCEPT ![i] = Upto(@, v)]
  /\ UNCHANGED <<cursor, rows>>

\* The local copy moves forward to a later position, rows and cursor at once.
CatchUp(i) ==
  /\ \E v \in Vers :
       /\ v >= cursor[i]
       /\ cursor' = [cursor EXCEPT ![i] = v]
       /\ rows'   = [rows EXCEPT ![i] = View(log[i], v)]
  /\ UNCHANGED log

\* The local copies of some banks are dropped, rows and cursor at once.
Forget(S) ==
  /\ cursor' = [i \in Items |-> IF i \in S THEN NoCursor   ELSE cursor[i]]
  /\ rows'   = [i \in Items |-> IF i \in S THEN EmptyTable ELSE rows[i]]
  /\ UNCHANGED log

Next ==
  \/ \E i \in Items : Publish(i) \/ Revise(i) \/ CatchUp(i)
  \/ \E S \in SUBSET Items : Forget(S)

Spec == Init /\ [][Next]_replicaVars
===============================================================================
