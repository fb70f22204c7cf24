---------------------------- MODULE SinkTransaction ----------------------------
(***************************************************************************)
(* The transactions that write one bank, statement by statement and row by *)
(* row: the sink's and the cursor's (a sync), resetSyncedData and          *)
(* deleteItem, from any number of processes.  SyncPipeline takes those of  *)
(* a sync and of an unlink for one step each, and a reset's for its        *)
(* statements: SyncIsOneStep and ResetLeavesOnlyLater say why.             *)
(*                                                                         *)
(* They run under READ COMMITTED: a statement sees what was committed when *)
(* it began, a row that is written stays locked until the end of the       *)
(* transaction, and who needs it waits.  DELETE never sees, and so never   *)
(* waits for, a row another transaction has inserted and not committed.    *)
(* A foreign key is checked when the statement ends, and takes a share of  *)
(* the row it refers to.                                                   *)
(***************************************************************************)
EXTENDS Batch

CONSTANTS
  Syncs,     \* transactions of Pipeline.runOne, each one after the other
  Resets,    \* those of resetSyncedData
  Unlinks,   \* those of deleteItem
  Account    \* the row of accounts every transaction of the bank belongs to

ASSUME SinkAssumption ==
  /\ Account \notin Txns
  /\ Syncs \intersect Resets = {} /\ Syncs \intersect Unlinks = {}
  /\ Resets \intersect Unlinks = {}

Actors == Syncs \union Resets \union Unlinks

VARIABLES
  ledger,    \* what Plaid reports of the bank sooner or later
  item,      \* has the bank a row in items?
  account,   \* ... and one in accounts?
  table,     \* the rows of transactions
  cursor,    \* items.cursor.  All of these as they are committed.
  tx,        \* what each transaction has read, locked and changed
  raced,     \* history: was a batch written over another cursor than its own?
  later      \* history: the rows other transactions committed since the
             \* statement of a reset that deletes began

dbVars == <<item, account, table, cursor>>
vars == <<ledger, dbVars, tx, raced, later>>

Phases ==
  {"idle", "accounts", "accountKey", "upserting", "cascade", "deleting", "commit"}

Tx == [at       : Phases,
       base     : Vers,                    \* the cursor the batch was pulled from
       next     : Vers,                    \* its checkpoint
       todo     : SUBSET Txns,             \* rows the statement has still to lock
       inserted : BOOLEAN,                 \* has it inserted any?
       holds    : SUBSET (Txns \union {Account}),
       gone     : SUBSET Txns,             \* rows deleted
       share    : {"none", "key", "update", "delete"}]   \* the lock on the item

IdleTx == [at |-> "idle", base |-> NoCursor, next |-> NoCursor, todo |-> {},
           inserted |-> FALSE, holds |-> {}, gone |-> {}, share |-> "none"]

\* The batch: all that was reported between the two cursors.
Got(r) == Past(Upto(ledger, r.next), r.base)

TypeOK ==
  /\ ledger \in SUBSET Entry
  /\ item \in BOOLEAN /\ account \in BOOLEAN
  /\ table \in [Txns -> Vers] /\ cursor \in Vers
  /\ tx \in [Actors -> Tx]
  /\ raced \in BOOLEAN
  /\ later \in [Resets -> SUBSET Txns]
  /\ \A p, q \in Actors : p # q => tx[p].holds \intersect tx[q].holds = {}
  /\ account => item                                 \* the foreign keys
  /\ ~ account => table = EmptyTable
  /\ ~ item => cursor = NoCursor

\* One position may carry several changes: one transaction settles as another.
Told(L) ==
  \A t \in Txns : /\ WellFormed(About(L, t))
                  /\ About(L, t) # {} => Named(About(L, t), "added") # {}

Init ==
  /\ ledger \in {L \in SUBSET Entry : Positions(L) = 1 .. MaxVer /\ Told(L)}
  /\ item = TRUE /\ account = FALSE
  /\ cursor = NoCursor /\ table = EmptyTable
  /\ tx = [p \in Actors |-> IdleTx]
  /\ raced = FALSE
  /\ later = [r \in Resets |-> {}]

-------------------------------------------------------------------------------
(* Locks *)

Others(p) == Actors \ {p}

\* Who has the row, or the key of a row not yet committed.
Unlocked(p, row) == \A q \in Others(p) : row \notin tx[q].holds

Conflicts(lock) ==
  CASE lock = "key"    -> {"delete"}
    [] lock = "update" -> {"update", "delete"}
    [] lock = "delete" -> {"key", "update", "delete"}

MayLockItem(p, lock) == \A q \in Others(p) : tx[q].share \notin Conflicts(lock)

Goes(p, r) == tx' = [tx EXCEPT ![p] = r] /\ UNCHANGED <<ledger, dbVars, raced>>

\* The error of a statement, a deadlock, the end of the process.
Rollback(p) ==
  /\ tx[p].at # "idle"
  /\ Goes(p, IdleTx)
  /\ later' = [q \in Resets |-> IF q = p THEN {} ELSE later[q]]

-------------------------------------------------------------------------------
(* The statements of a sync *)

\* upsertMany of transactions begins.
Upserting(r) == [r EXCEPT !.at = "upserting", !.todo = Upserts(Got(r))]

\* pull, which is no part of the transaction: up to any position Plaid has come
\* to, or the answer of a bank that is not ready.  A batch with rows lists their
\* account.
Pull(s) ==
  /\ tx[s].at = "idle" /\ item
  /\ \E next \in {NoCursor} \union (cursor .. MaxVer) :
       LET r == [IdleTx EXCEPT !.at = "accounts", !.base = cursor, !.next = next]
       IN  Goes(s, r) \/ (Upserts(Got(r)) = {} /\ Goes(s, Upserting(r)))
  /\ UNCHANGED later

\* Fault: ON CONFLICT DO NOTHING, which locks nothing.
UpsertAccountsNothing(s) ==
  LET held == [tx[s] EXCEPT !.holds = @ \union {Account}]
  IN  /\ tx[s].at = "accounts"
      /\ Unlocked(s, Account)
      /\ Goes(s, IF account THEN Upserting(tx[s]) ELSE [held EXCEPT !.at = "accountKey"])
      /\ UNCHANGED later

\* upsertMany of accounts: update the row, or insert one whose bank must be there.
UpsertAccounts(s) ==
  LET held == [tx[s] EXCEPT !.holds = @ \union {Account}]
  IN  /\ tx[s].at = "accounts"
      /\ Unlocked(s, Account)
      /\ Goes(s, IF account THEN Upserting(held) ELSE [held EXCEPT !.at = "accountKey"])
      /\ UNCHANGED later

\* ON CONFLICT updates the row as it is by then.
UpsertRow(s) ==
  LET r == tx[s]
  IN  /\ r.at = "upserting"
      /\ \E t \in r.todo :
           /\ Unlocked(s, t)
           /\ Goes(s, [r EXCEPT !.todo = @ \ {t}, !.holds = @ \union {t},
                                !.inserted = @ \/ table[t] = NoRow])
      /\ UNCHANGED later

\* Rows were inserted by a statement that is about to end: the foreign key on
\* items is to be checked.
Unchecked(r) == r.inserted /\ r.share = "none"

\* Without a bank the check, and so the statement, fails.
CheckKey(s) ==
  LET r == tx[s]
      checked == [r EXCEPT !.share = "key"]
  IN  /\ item /\ MayLockItem(s, "key")
      /\ \/ r.at = "accountKey" /\ Goes(s, Upserting(checked))
         \/ r.at = "upserting" /\ r.todo = {} /\ Unchecked(r) /\ Goes(s, checked)
      /\ UNCHANGED later

\* deleteByIds sees the transaction's own rows and the committed ones.
DeleteByIds(s) ==
  LET r == tx[s]
      seen == {t \in Txns : t \in r.holds \/ table[t] # NoRow}
  IN  /\ r.at = "upserting" /\ r.todo = {} /\ ~ Unchecked(r)
      /\ Goes(s, [r EXCEPT !.at = "deleting", !.todo = {t \in seen : Removes(Got(r), t)}])
      /\ UNCHANGED later

\* Fault: SKIP LOCKED.
DeleteRowSkipping(p) ==
  LET r == tx[p]
  IN  /\ r.at = "deleting"
      /\ \E t \in r.todo :
           Goes(p, IF Unlocked(p, t)
                   THEN [r EXCEPT !.todo = @ \ {t}, !.holds = @ \union {t}, !.gone = @ \union {t}]
                   ELSE [r EXCEPT !.todo = @ \ {t}])
      /\ UNCHANGED later

\* Any DELETE, one row after the other.
DeleteRow(p) ==
  LET r == tx[p]
  IN  /\ r.at = "deleting"
      /\ \E t \in r.todo :
           /\ Unlocked(p, t)
           /\ Goes(p, [r EXCEPT !.todo = @ \ {t}, !.holds = @ \union {t}, !.gone = @ \union {t}])
      /\ UNCHANGED later

\* setItemCursor and clearCursors, which find a row or none.
UpdateItem(p) ==
  LET r == tx[p]
  IN  /\ p \notin Unlinks /\ r.at = "deleting" /\ r.todo = {}
      /\ \/ ~ item /\ Goes(p, [r EXCEPT !.at = "commit"])
         \/ item /\ MayLockItem(p, "update")
              /\ Goes(p, [r EXCEPT !.at = "commit", !.share = "update"])
      /\ UNCHANGED later

-------------------------------------------------------------------------------
(* Those of a reset and of an unlink *)

DeleteAll(r) ==
  /\ tx[r].at = "idle"
  /\ Goes(r, [IdleTx EXCEPT !.at = "deleting", !.todo = {t \in Txns : table[t] # NoRow}])
  /\ UNCHANGED later

DeleteItem(u) ==
  /\ tx[u].at = "idle" /\ item
  /\ MayLockItem(u, "delete")
  /\ Goes(u, [IdleTx EXCEPT !.at = "cascade", !.share = "delete"])
  /\ UNCHANGED later

\* ON DELETE CASCADE: the account, if there is one to be seen, and its rows.
Cascade(u) ==
  /\ tx[u].at = "cascade"
  /\ account => Unlocked(u, Account)
  /\ Goes(u, [tx[u] EXCEPT !.at = "deleting",
                           !.holds = IF account THEN {Account} ELSE {},
                           !.todo = {t \in Txns : table[t] # NoRow}])
  /\ UNCHANGED later

-------------------------------------------------------------------------------
\* The rows as a transaction leaves them.
Left(r) ==
  [t \in Txns |-> IF t \in r.gone THEN NoRow
                  ELSE IF t \in r.holds THEN Dedupe(Got(r), t)
                  ELSE table[t]]

CursorKeptByReset(p) ==
  IF p \in Syncs /\ item /\ tx[p].next # NoCursor THEN tx[p].next ELSE cursor

\* COALESCE for a sync; a bank that is gone has no cursor.
Cursor(p) ==
  CASE p \in Resets \/ p \in Unlinks \/ ~ item -> NoCursor
    [] p \in Syncs /\ item -> IF tx[p].next = NoCursor THEN cursor ELSE tx[p].next

Committing(p) ==
  \/ tx[p].at = "commit"
  \/ p \in Unlinks /\ tx[p].at = "deleting" /\ tx[p].todo = {}

\* COMMIT: what was changed is there for all; a DELETE that waited for a row
\* that is gone now passes it over.
Commit(p) ==
  LET r == tx[p]
  IN  /\ Committing(p)
      /\ table' = Left(r)
      /\ item' = (item /\ p \notin Unlinks)
      /\ account' = ((account \/ Account \in r.holds) /\ ~ (p \in Unlinks /\ Account \in r.holds))
      /\ cursor' = Cursor(p)
      /\ raced' = IF p \in Syncs THEN raced \/ (item /\ r.next # NoCursor /\ cursor # r.base)
                                 ELSE FALSE
      /\ later' = [q \in Resets |-> IF q = p \/ tx[q].at = "idle" THEN {}
                                    ELSE later[q] \union (r.holds \intersect Txns)]
      /\ tx' = [q \in Actors |->
                  IF q = p THEN IdleTx
                  ELSE IF tx[q].at = "deleting" THEN [tx[q] EXCEPT !.todo = @ \ r.gone]
                  ELSE tx[q]]
      /\ UNCHANGED ledger

Next ==
  \/ \E s \in Syncs : \/ Pull(s) \/ UpsertAccounts(s) \/ UpsertRow(s)
                      \/ CheckKey(s) \/ DeleteByIds(s)
  \/ \E r \in Resets : DeleteAll(r)
  \/ \E u \in Unlinks : DeleteItem(u) \/ Cascade(u)
  \/ \E p \in Actors : DeleteRow(p) \/ UpdateItem(p) \/ Commit(p) \/ Rollback(p)

Spec == Init /\ [][Next]_vars

-------------------------------------------------------------------------------
Commits(p) == Committing(p) /\ Commit(p)

(***************************************************************************)
(* The transaction of a sync with rows to write is one step: whatever was  *)
(* committed while it ran, it leaves the table that the batch makes of the *)
(* one it finds when it commits.  This is what SyncPipeline takes for      *)
(* granted of a sync.  It is the row of the account that makes it so,      *)
(* which the sink locks first: a batch of removals only may list no        *)
(* account, and its DELETE misses what a stale batch inserts at the time.  *)
(***************************************************************************)
SyncIsOneStep ==
  [][\A s \in Syncs : Commits(s) /\ Upserts(Got(tx[s])) # {}
       => table' = Written(table, Got(tx[s]))]_vars

(***************************************************************************)
(* Every row the cursor vouches for is there, unless a batch was written   *)
(* over another cursor than its own: resetSyncedData deletes rows and      *)
(* clears cursors in one transaction, "leaving cursors intact after        *)
(* dropping the rows they describe" would lose them for good.              *)
(***************************************************************************)
HistoryHeld ==
  ~ raced => \A t \in Txns : View(ledger, cursor)[t] # NoRow => table[t] # NoRow

(***************************************************************************)
(* A reset is not one step: rows may be left when it commits.  But all of  *)
(* them were committed after it began to delete, which is how SyncPipeline *)
(* has its DELETE: it sees the rows there are when it begins, and no later *)
(* ones.                                                                   *)
(***************************************************************************)
ResetLeavesOnlyLater ==
  [][\A r \in Resets : Commits(r) => \A t \in Txns : table'[t] # NoRow => t \in later[r]]_vars

(***************************************************************************)
(* Between transactions the table is the ledger up to the cursor.  It      *)
(* would be if each of them were one step, and is not: the rows a reset    *)
(* left are under no cursor.                                               *)
(***************************************************************************)
ExactBetween ==
  ~ raced /\ (\A p \in Actors : tx[p].at = "idle") => table = View(ledger, cursor)
===============================================================================
