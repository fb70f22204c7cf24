----------------------------- MODULE SyncPipeline -----------------------------
(***************************************************************************)
(* `costingly sync`: Pipeline.run with the Plaid source, the transactions  *)
(* sink and the item cursor store it is built from, run by any number of   *)
(* processes (a CLI and an MCP server) against one database and one Plaid, *)
(* while the user links, repairs, unlinks and resets banks.                *)
(*                                                                         *)
(* One request to Plaid is one step, and so is one database transaction    *)
(* but that of a reset: its DELETE misses what others have not committed   *)
(* yet (SinkTransaction), so each of its statements is a step.  Everything *)
(* between two steps can be interleaved with anything.                     *)
(***************************************************************************)
EXTENDS Batch

CONSTANTS
  Items,        \* Plaid item_ids, one per bank login
  Procs,        \* processes that can run a sync
  Resets,       \* processes that can run resetSyncedData
  NoItem,       \* no bank: what a run that is between banks works on
  NetChanges,   \* may Plaid leave out a transaction that came and went?
  MaxRestarts,  \* MAX_PAGINATION_RESTARTS, 5 in the source
  MaxPages      \* MAX_PAGES_PER_ATTEMPT, 1000 in the source

ASSUME PipelineAssumption ==
  /\ NoItem \notin Items
  /\ NetChanges \in BOOLEAN
  /\ MaxRestarts \in Nat
  /\ MaxPages \in Nat

VARIABLES
  log,      \* Plaid: what it reports about each bank
  clock,    \* Plaid: the last position it used for each bank
  sealed,   \* Plaid: the last position handed out with has_more = false
  status,   \* items.status, "absent" when the bank has no row in items
  cursor,   \* items.cursor
  rows,     \* the rows of transactions, by bank and transaction id
  reset,    \* what the transaction of each reset has seen
  run,      \* what each process holds in memory
  raced     \* history: banks some batch was written over a cursor it was not
            \* pulled from, or between the statements of a reset

plaidVars == <<log, clock, sealed>>
dbVars    == <<status, cursor, rows, reset>>
vars      == <<log, clock, sealed, status, cursor, rows, reset, run, raced>>

-------------------------------------------------------------------------------
(* The state of one run. *)

Statuses == {"absent", "active", "login_required"}
Phases   == {"idle", "next", "pull", "write", "mark"}

Run == [pc      : Phases,
        todo    : SUBSET Items,            \* partitions not attempted yet
        snap    : [Items -> Vers],         \* item.cursor, read by partitions()
        cur     : Items \union {NoItem},   \* the bank being attempted
        at      : Vers,                    \* pull's `cursor`
        got     : SUBSET Entry,            \* pull's added, modified, removed
        attempt : 0 .. MaxRestarts,        \* pull's `attempt`
        pages   : 0 .. MaxPages,           \* pull's `pages`
        torn    : BOOLEAN]                 \* Plaid mutated under these pages

IdleRun == [pc |-> "idle", todo |-> {}, snap |-> [i \in Items |-> NoCursor],
            cur |-> NoItem, at |-> NoCursor, got |-> {}, attempt |-> 0,
            pages |-> 0, torn |-> FALSE]

\* A run that has finished with a bank, successfully or not.
Between(r) == [IdleRun EXCEPT !.pc = "next", !.todo = r.todo, !.snap = r.snap]

\* Faulty variants of Fresh, for the mutation runs: the accumulators declared
\* outside the loop, and a restart from an intermediate cursor.
FreshKeepingPages(r, i, n) ==
  [r EXCEPT !.pc = "pull", !.cur = i, !.at = r.snap[i],
            !.attempt = n, !.pages = 0, !.torn = FALSE]

FreshMidway(r, i, n) ==
  [r EXCEPT !.pc = "pull", !.cur = i, !.at = IF n = 0 THEN r.snap[i] ELSE @,
            !.got = {}, !.attempt = n, !.pages = 0, !.torn = FALSE]

\* The head of pull's attempt loop: every accumulator is declared anew and the
\* cursor is the one partitions() read.
Fresh(r, i, n) ==
  [r EXCEPT !.pc = "pull", !.cur = i, !.at = r.snap[i], !.got = {},
            !.attempt = n, !.pages = 0, !.torn = FALSE]

\* Nothing a reset changes is seen before it commits; missed is a history: banks
\* a batch with rows was written to since the DELETE began.
Reset == [pc     : {"idle", "delete", "update"},
          saw    : [Items -> SUBSET Txns],   \* the rows its DELETE removes
          banks  : SUBSET Items,             \* whose cursors its UPDATE clears
          missed : SUBSET Items]

IdleReset == [pc |-> "idle", saw |-> [i \in Items |-> {}], banks |-> {}, missed |-> {}]

\* The cursor the batch of a run was pulled from.
Base(r) == r.snap[r.cur]

Present(i) == status[i] # "absent"

TypeOK ==
  /\ log    \in [Items -> SUBSET Entry]
  /\ clock  \in [Items -> Vers]
  /\ sealed \in [Items -> Vers]
  /\ status \in [Items -> Statuses]
  /\ cursor \in [Items -> Vers]
  /\ rows   \in [Items -> [Txns -> Vers]]
  /\ reset  \in [Resets -> Reset]
  /\ run    \in [Procs -> Run]
  /\ raced  \in SUBSET Items

Init ==
  /\ log    = [i \in Items |-> {}]
  /\ clock  = [i \in Items |-> 0]
  /\ sealed = [i \in Items |-> 0]
  /\ status = [i \in Items |-> "absent"]
  /\ cursor = [i \in Items |-> NoCursor]
  /\ rows   = [i \in Items |-> EmptyTable]
  /\ reset  = [k \in Resets |-> IdleReset]
  /\ run    = [p \in Procs |-> IdleRun]
  /\ raced  = {}

-------------------------------------------------------------------------------
(* Plaid. *)

\* The bank reports a change.
Report(i) ==
  /\ clock[i] < MaxVer
  /\ \E t \in Txns, op \in Ops :
       /\ MayReport(log[i], t, op)
       /\ log' = [log EXCEPT ![i] =
                    @ \union {[ver |-> clock[i] + 1, txn |-> t, op |-> op]}]
  /\ clock' = [clock EXCEPT ![i] = @ + 1]
  /\ UNCHANGED <<sealed, dbVars, run, raced>>

\* Plaid changes its mind about entries no finished pagination has covered.
\* This is the mutation during pagination: the pages a run already collected
\* no longer belong together, and Plaid will refuse to serve the next one.
Retract(i) ==
  /\ \E v \in Vers :
       /\ v >= sealed[i]
       /\ Past(log[i], v) # {}
       /\ log' = [log EXCEPT ![i] = Upto(@, v)]
  /\ run' = [p \in Procs |->
               IF run[p].pc = "pull" /\ run[p].cur = i /\ run[p].pages > 0
                 THEN [run[p] EXCEPT !.torn = TRUE]
                 ELSE run[p]]
  /\ UNCHANGED <<clock, sealed, dbVars, raced>>

\* Transactions that came and went after position v.  Asked from v, Plaid may
\* tell the whole story or leave them out: the net change is none.
Gone(L, v) == {t \in Txns : About(Upto(L, v), t) = {} /\ Removes(L, t)}

Untold(L, v) == IF NetChanges THEN SUBSET Gone(L, v) ELSE {{}}

-------------------------------------------------------------------------------
(* A run of the pipeline. *)

\* partitions(): every active bank, with its cursor, read once per run.  They
\* are attempted oldest-synced first, which is any order here.
Start(p) ==
  /\ run[p].pc = "idle"
  /\ run' = [run EXCEPT ![p] =
               [IdleRun EXCEPT !.pc   = "next",
                               !.todo = {i \in Items : status[i] = "active"},
                               !.snap = cursor]]
  /\ UNCHANGED <<plaidVars, dbVars, raced>>

BeginPull(p) ==
  /\ run[p].pc = "next"
  /\ \E i \in run[p].todo :
       run' = [run EXCEPT ![p] = Fresh([run[p] EXCEPT !.todo = @ \ {i}], i, 0)]
  /\ UNCHANGED <<plaidVars, dbVars, raced>>

Finish(p) ==
  /\ run[p].pc = "next"
  /\ run[p].todo = {}
  /\ run' = [run EXCEPT ![p] = IdleRun]
  /\ UNCHANGED <<plaidVars, dbVars, raced>>

\* A page of /transactions/sync after position run[p].at.  Plaid says there is
\* nothing more only when there is not; it may claim more when there is none.
PageArrives(p) ==
  LET r == run[p]
      L == log[r.cur]
  IN  /\ r.pc = "pull"
      /\ r.pages < MaxPages
      /\ ~ r.torn
      /\ \E v \in Positions(Past(L, r.at)) \union {r.at},
            untold \in Untold(L, r.at), hasMore \in BOOLEAN :
           LET page == {e \in Past(Upto(L, v), r.at) : e.txn \notin untold}
           IN  /\ ~ hasMore => Past(L, v) = {}
               /\ run' = [run EXCEPT ![p] =
                            [r EXCEPT !.pc    = IF hasMore THEN "pull" ELSE "write",
                                      !.at    = v,
                                      !.got   = @ \union page,
                                      !.pages = @ + 1]]
               /\ sealed' = IF ~ hasMore /\ v > sealed[r.cur]
                              THEN [sealed EXCEPT ![r.cur] = v]
                              ELSE sealed
  /\ UNCHANGED <<log, clock, dbVars, raced>>

\* Plaid has nothing to show yet: an empty page with an empty next_cursor.
NotReady(p) ==
  LET r == run[p]
  IN  /\ r.pc = "pull"
      /\ r.pages < MaxPages
      /\ r.got = {}
      /\ ~ r.torn
      /\ run' = [run EXCEPT ![p] = [r EXCEPT !.pc = "write", !.at = NoCursor,
                                             !.pages = @ + 1]]
  /\ UNCHANGED <<plaidVars, dbVars, raced>>

\* Faulty variant of RestartPull: without the count.
RestartUncounted(p) ==
  /\ run[p].pc = "pull"
  /\ run[p].pages < MaxPages
  /\ run[p].attempt < MaxRestarts
  /\ run' = [run EXCEPT ![p] = Fresh(@, @.cur, @.attempt)]
  /\ UNCHANGED <<plaidVars, dbVars, raced>>

\* TRANSACTIONS_SYNC_MUTATION_DURING_PAGINATION: drop the pages, walk again.
RestartPull(p) ==
  /\ run[p].pc = "pull"
  /\ run[p].pages < MaxPages
  /\ run[p].attempt < MaxRestarts
  /\ run' = [run EXCEPT ![p] = Fresh(@, @.cur, @.attempt + 1)]
  /\ UNCHANGED <<plaidVars, dbVars, raced>>

\* Faulty variant of PullFails: every failure is taken for an expired login.
PullFailsForGood(p) ==
  /\ run[p].pc = "pull"
  /\ run' = [run EXCEPT ![p] = [Between(@) EXCEPT !.pc = "mark", !.cur = run[p].cur]]
  /\ UNCHANGED <<plaidVars, dbVars, raced>>

\* The pull throws: the restarts are used up, the page cap is reached, or the
\* request failed in any way but an expired login.
PullFails(p) ==
  /\ run[p].pc = "pull"
  /\ run' = [run EXCEPT ![p] = Between(@)]
  /\ UNCHANGED <<plaidVars, dbVars, raced>>

\* ITEM_LOGIN_REQUIRED: the pull throws and onFailure goes on to mark the bank.
LoginExpired(p) ==
  /\ run[p].pc = "pull"
  /\ run[p].pages < MaxPages
  /\ run' = [run EXCEPT ![p] = [Between(@) EXCEPT !.pc = "mark", !.cur = run[p].cur]]
  /\ UNCHANGED <<plaidVars, dbVars, raced>>

\* markLoginRequired; an UPDATE that finds no row changes nothing.
MarkLoginRequired(p) ==
  /\ run[p].pc = "mark"
  /\ status' = IF Present(run[p].cur)
                 THEN [status EXCEPT ![run[p].cur] = "login_required"]
                 ELSE status
  /\ run' = [run EXCEPT ![p] = Between(@)]
  /\ UNCHANGED <<plaidVars, cursor, rows, reset, raced>>

\* markLoginRequired throws, which is swallowed.
MarkFails(p) ==
  /\ run[p].pc = "mark"
  /\ run' = [run EXCEPT ![p] = Between(@)]
  /\ UNCHANGED <<plaidVars, dbVars, raced>>

-------------------------------------------------------------------------------
(* Writing a batch. *)

\* Faulty variant of SetItemCursor: no WHERE.
SetEveryCursor(i, checkpoint) ==
  cursor' = IF checkpoint = NoCursor
              THEN cursor
              ELSE [j \in Items |-> IF Present(j) THEN checkpoint ELSE cursor[j]]

\* setItemCursor: a null checkpoint is COALESCEd away, and an UPDATE that finds
\* no row changes nothing.
SetItemCursor(i, checkpoint) ==
  cursor' = IF Present(i) /\ checkpoint # NoCursor
              THEN [cursor EXCEPT ![i] = checkpoint]
              ELSE cursor

\* Faulty variant of Accepted: tables without the foreign keys.
AcceptedAlways(i, got) == TRUE

\* A bank that is no longer in items has no row for the foreign keys, so a
\* batch with something to insert for it is refused.
Accepted(i, got) == Present(i) \/ Upserts(got) = {}

\* What the rows of i that others commit are to a reset under way: those that are
\* gone are passed over, and new ones it does not see.
Witness(r, i, new) ==
  IF r.pc = "idle" THEN r
  ELSE [r EXCEPT !.saw    = [j \in Items |-> {t \in r.saw[j] : rows'[j][t] # NoRow}],
                 !.missed = IF new THEN @ \union {i} ELSE @]

\* The transaction commits: rows and cursor in one step.
Commit(p) ==
  LET r == run[p]
      i == r.cur
  IN  /\ r.pc = "write"
      /\ Accepted(i, r.got)
      /\ rows' = [rows EXCEPT ![i] = Written(@, r.got)]
      /\ SetItemCursor(i, r.at)
      /\ run' = [run EXCEPT ![p] = Between(r)]
      /\ raced' = IF Present(i) /\ r.at # NoCursor /\ cursor[i] # Base(r)
                    THEN raced \union {i}
                    ELSE raced
      /\ reset' = [k \in Resets |-> Witness(reset[k], i, Upserts(r.got) # {})]
      /\ UNCHANGED <<plaidVars, status>>

\* The transaction rolls back, whatever the reason.
WriteFails(p) ==
  /\ run[p].pc = "write"
  /\ run' = [run EXCEPT ![p] = Between(@)]
  /\ UNCHANGED <<plaidVars, dbVars, raced>>

\* The process dies; what it held in memory is gone.
Crash(p) ==
  /\ run[p].pc # "idle"
  /\ run' = [run EXCEPT ![p] = IdleRun]
  /\ UNCHANGED <<plaidVars, dbVars, raced>>

-------------------------------------------------------------------------------
(* The user's other commands. *)

\* saveItem: a new bank starts with a NULL cursor, a known one keeps its own.
Link(i) ==
  /\ status' = [status EXCEPT ![i] = "active"]
  /\ UNCHANGED <<plaidVars, cursor, rows, reset, run, raced>>

\* markItemRepaired.
Repair(i) ==
  /\ Present(i)
  /\ status' = [status EXCEPT ![i] = "active"]
  /\ UNCHANGED <<plaidVars, cursor, rows, reset, run, raced>>

\* deleteItem, or deleteAll: cursors go with their banks, and transactions by ON
\* DELETE CASCADE.  A bank may be linked again, and has the same item_id then.
Unlink(S) ==
  /\ \E i \in S : Present(i)
  /\ status' = [i \in Items |-> IF i \in S THEN "absent"   ELSE status[i]]
  /\ cursor' = [i \in Items |-> IF i \in S THEN NoCursor   ELSE cursor[i]]
  /\ rows'   = [i \in Items |-> IF i \in S THEN EmptyTable ELSE rows[i]]
  /\ raced'  = raced \ S
  /\ reset'  = [k \in Resets |->
                  LET r == reset[k]
                  IN  [r EXCEPT !.saw    = [i \in Items |-> IF i \in S THEN {} ELSE r.saw[i]],
                                !.banks  = @ \ S,
                                !.missed = @ \ S]]
  /\ UNCHANGED <<plaidVars, run>>

\* resetSyncedData keeps the links and forgets what was synced.  Its DELETE is to
\* remove the rows that are committed by now.
ResetDeletes(k) ==
  /\ reset[k].pc = "idle"
  /\ reset' = [reset EXCEPT ![k] =
       [IdleReset EXCEPT !.pc  = "delete",
                         !.saw = [i \in Items |-> {t \in Txns : rows[i][t] # NoRow}]]]
  /\ UNCHANGED <<plaidVars, status, cursor, rows, run, raced>>

\* clearCursors: the banks there are.
ResetUpdates(k) ==
  /\ reset[k].pc = "delete"
  /\ reset' = [reset EXCEPT ![k].pc = "update", ![k].banks = {i \in Items : Present(i)}]
  /\ UNCHANGED <<plaidVars, status, cursor, rows, run, raced>>

\* Faulty variant of CursorsAfter: the rows go, the cursors stay.
CursorsKept(r) == cursor

CursorsAfter(r) == [i \in Items |-> IF i \in r.banks THEN NoCursor ELSE cursor[i]]

RowsAfter(r) == [i \in Items |-> [t \in Txns |-> IF t \in r.saw[i] THEN NoRow ELSE rows[i][t]]]

ResetCommits(k) ==
  LET r == reset[k]
  IN  /\ r.pc = "update"
      /\ rows'   = RowsAfter(r)
      /\ cursor' = CursorsAfter(r)
      /\ raced'  = (raced \ r.banks) \union (r.banks \intersect r.missed)
      /\ reset'  = [j \in Resets |-> IF j = k THEN IdleReset
                                     ELSE Witness(reset[j], NoItem, FALSE)]
      /\ UNCHANGED <<plaidVars, status, run>>

\* The transaction rolls back, or the process of the command dies.
ResetFails(k) ==
  /\ reset[k].pc # "idle"
  /\ reset' = [reset EXCEPT ![k] = IdleReset]
  /\ UNCHANGED <<plaidVars, status, cursor, rows, run, raced>>

ResetSyncedData(k) == ResetDeletes(k) \/ ResetUpdates(k) \/ ResetCommits(k) \/ ResetFails(k)

-------------------------------------------------------------------------------

\* What a run does once started, if nothing kills it.
Step(p) ==
  \/ BeginPull(p) \/ Finish(p)
  \/ PageArrives(p) \/ NotReady(p) \/ RestartPull(p)
  \/ PullFails(p) \/ LoginExpired(p) \/ MarkLoginRequired(p) \/ MarkFails(p)
  \/ Commit(p) \/ WriteFails(p)

SyncNext(p) == Start(p) \/ Step(p) \/ Crash(p)

PlaidNext == \E i \in Items : Report(i) \/ Retract(i)

LinkNext == \E i \in Items : Link(i) \/ Repair(i)

\* unlink names one bank, reset names them all.
ClearNext == \/ \E i \in Items : Unlink({i})
             \/ Unlink(Items)
             \/ \E k \in Resets : ResetSyncedData(k)

Next ==
  \/ PlaidNext
  \/ \E p \in Procs : SyncNext(p)
  \/ LinkNext
  \/ ClearNext

Spec == Init /\ [][Next]_vars

\* A run that is not killed keeps going: every await in it settles.
FairSpec == Spec /\ \A p \in Procs : WF_vars(Step(p))

(***************************************************************************)
(* One sync at a time and nothing cleared under it, which nothing in the   *)
(* code enforces.  Banks are linked and repaired at any moment: a daemon   *)
(* syncs while the user is at it in a browser.                             *)
(***************************************************************************)
Quiet(S) == \A p \in S : run[p].pc = "idle"

NoReset == \A k \in Resets : reset[k].pc = "idle"

Undisturbed(p) == Quiet(Procs \ {p}) /\ NoReset

SerialNext ==
  \/ PlaidNext
  \/ \E p \in Procs : Undisturbed(p) /\ SyncNext(p)
  \/ LinkNext
  \/ Quiet(Procs) /\ ClearNext

SerialSpec == Init /\ [][SerialNext]_vars

SerialFairSpec == SerialSpec /\ \A p \in Procs : WF_vars(Undisturbed(p) /\ Step(p))

-------------------------------------------------------------------------------
(* What makes a synced bank trustworthy. *)

(***************************************************************************)
(* The claim itself, as item-cursor.store.ts and checkpoint-store.ts put   *)
(* it: everything Plaid reported up to the stored cursor is in the table.  *)
(* For each such entry the table holds that version of the transaction or  *)
(* a later one, or the transaction is gone because Plaid removed it.       *)
(***************************************************************************)
CursorClaim ==
  \A i \in Items : \A e \in Upto(log[i], cursor[i]) :
    \/ rows[i][e.txn] >= e.ver /\ e.op # "removed"
    \/ rows[i][e.txn] = NoRow /\ Removes(log[i], e.txn)

(***************************************************************************)
(* The table of a bank is exactly its ledger up to the stored cursor,      *)
(* unless some batch was written over a cursor other than the one it was   *)
(* pulled from, or rows while a reset deleted.  Pages, restarts, failed    *)
(* writes, resets that roll back, crashes, unlinking and relinking in the  *)
(* middle of a run cannot break the claim; only a batch whose base went    *)
(* stale between partitions() and the write can, and one that comes        *)
(* between the DELETE and the COMMIT of a reset.                           *)
(***************************************************************************)
ExactUnlessRaced ==
  \A i \in Items \ raced : rows[i] = View(log[i], cursor[i])

(***************************************************************************)
(* A row is always some version Plaid stands by, however runs overlap:     *)
(* nothing of an attempt that was thrown away for a mutation during        *)
(* pagination ever reaches the table.                                      *)
(***************************************************************************)
NoPhantomRows ==
  \A i \in Items, t \in Txns :
    rows[i][t] # NoRow =>
      \E e \in About(log[i], t) : e.ver = rows[i][t] /\ e.op # "removed"

(***************************************************************************)
(* A batch about to be written with a checkpoint says everything between   *)
(* the cursor the run started from and that checkpoint, whichever page it  *)
(* came on and however often the pull restarted.  Only transactions that   *)
(* came and went in between may be missing.                                *)
(***************************************************************************)
BatchComplete ==
  \A p \in Procs :
    LET r == run[p]
        L == log[r.cur]
        gap == Past(Upto(L, r.at), Base(r))
    IN  r.pc = "write" /\ r.at # NoCursor =>
          /\ r.got \subseteq gap
          /\ \A e \in gap \ r.got : e.txn \in Gone(Upto(L, r.at), Base(r))

(***************************************************************************)
(* A bank removed while a run is working on it stays removed: the run      *)
(* leaves neither rows nor a cursor behind for a bank that is not there.   *)
(***************************************************************************)
UnlinkedLeavesNothing ==
  \A i \in Items : ~ Present(i) => rows[i] = EmptyTable /\ cursor[i] = NoCursor

(***************************************************************************)
(* Every run ends: restarts and pages are bounded, and a bank that fails   *)
(* is left behind, so that a Plaid which mutates or claims has_more for    *)
(* ever cannot keep a run from its other banks.                            *)
(***************************************************************************)
RunsEnd == \A p \in Procs : run[p].pc # "idle" ~> run[p].pc = "idle"

(***************************************************************************)
(* One sync at a time, a bank whose batches keep being committed with a    *)
(* checkpoint is caught up with again and again: no change Plaid reported  *)
(* stays missing.                                                          *)
(***************************************************************************)
Caught(i) == rows[i] = View(log[i], clock[i])

CommitOf(i) ==
  \E p \in Procs : run[p].cur = i /\ run[p].at # NoCursor /\ Commit(p)

CatchesUp ==
  \A i \in Items : []<><<CommitOf(i)>>_vars => []<>Caught(i)

(***************************************************************************)
(* A verdict may land after the repair it does not know of; but it is one  *)
(* verdict.  A bank Plaid has stopped turning away, and that its user goes *)
(* on repairing, is in the end left alone: nothing else marks it, so no    *)
(* failure of another kind sends the user back to the bank.                *)
(***************************************************************************)
TurnedAway(i)  == \E p \in Procs : run[p].cur = i /\ LoginExpired(p)

RepairsLast ==
  \A i \in Items :
    <>[][~ TurnedAway(i)]_vars /\ []<><<Repair(i)>>_vars => <>[](status[i] # "login_required")

\* No batch was written over a cursor it was not pulled from, nor under a reset.
NeverRaced == raced = {}

\* One sync at a time, the pipeline keeps the promise of Replica: the ledger,
\* the cursors and the table are what Replica means by them.
Replicated == INSTANCE Replica WITH log <- log, cursor <- cursor, rows <- rows
ImplementsReplica == Replicated!Spec
===============================================================================
