-------------------------- MODULE SyncPipeline_proofs --------------------------
(***************************************************************************)
(* Proofs about SyncPipeline: what a batch holds when it is written, and   *)
(* that the table of a bank is its ledger up to the cursor unless a batch  *)
(* was written over a cursor it was not pulled from, or while a reset had  *)
(* deleted what it was added to.                                           *)
(***************************************************************************)
EXTENDS SyncPipeline, WellFoundedInduction, TLAPS

-------------------------------------------------------------------------------
(* Ledgers, positions and views *)

(***************************************************************************)
(* Positions are natural numbers.                                          *)
(***************************************************************************)
LEMMA VersAreNumbers ==
  MaxVer \in Int /\ Vers \subseteq Nat /\ Vers \subseteq Int /\ NoCursor \in Vers
BY LedgerAssumption DEF Vers, NoCursor

(***************************************************************************)
(* A nonempty set of positions has a largest one: positions are bounded by *)
(* MaxVer, so the distances to MaxVer have a least element.                *)
(***************************************************************************)
LEMMA LargestExists ==
  ASSUME NEW S, S \subseteq Vers, S # {}
  PROVE  \E v \in S : \A w \in S : w <= v
<1> DEFINE D == {MaxVer - v : v \in S}
<1>1. D \subseteq Nat /\ D # {}
  <2>1. \A v \in S : v \in Int /\ MaxVer - v \in Nat
    BY LedgerAssumption DEF Vers
  <2> QED
    BY <2>1
<1>2. PICK d \in D : \A e \in D : ~ (<<e, d>> \in OpToRel(<, Nat))
  <2>1. IsWellFoundedOn(OpToRel(<, Nat), Nat)
    BY NatLessThanWellFounded
  <2>2. QED
    BY <1>1, <2>1, WFMin
<1>3. \A e \in D : ~ (e < d)
  BY <1>1, <1>2 DEF OpToRel
<1>4. PICK v \in S : d = MaxVer - v
  OBVIOUS
<1>5. \A w \in S : MaxVer - w \in D
  OBVIOUS
<1>6. ASSUME NEW w \in S PROVE w <= v
  <2>1. ~ (MaxVer - w < MaxVer - v)
    BY <1>3, <1>4, <1>5
  <2>2. v \in Int /\ w \in Int /\ MaxVer \in Int
    BY VersAreNumbers
  <2> QED
    BY <2>1, <2>2
<1> QED
  BY <1>6

(***************************************************************************)
(* Latest returns the largest position of a nonempty set.                  *)
(***************************************************************************)
LEMMA LatestIsLargest ==
  ASSUME NEW S, S \subseteq Vers, S # {}
  PROVE  Latest(S) \in S /\ \A w \in S : w <= Latest(S)
BY LargestExists DEF Latest

(***************************************************************************)
(* Whatever is at least as large as the rest of its set is its Latest.     *)
(***************************************************************************)
LEMMA LatestUnique ==
  ASSUME NEW S, S \subseteq Vers, NEW v \in S, \A w \in S : w <= v
  PROVE  Latest(S) = v
<1>1. Latest(S) \in S /\ \A w \in S : w <= Latest(S)
  BY LatestIsLargest
<1>2. v \in Int /\ Latest(S) \in Int
  BY <1>1, VersAreNumbers
<1>3. Latest(S) <= v /\ v <= Latest(S)
  BY <1>1
<1> QED
  BY <1>2, <1>3

(***************************************************************************)
(* Nothing has been applied at NoCursor: the view there is empty.          *)
(***************************************************************************)
LEMMA ViewAtNoCursor ==
  ASSUME NEW L, L \subseteq Entry
  PROVE  View(L, NoCursor) = EmptyTable
<1>1. Upto(L, NoCursor) = {}
  BY DEF Upto, NoCursor, Entry
<1> QED
  BY <1>1 DEF View, EmptyTable, About

(***************************************************************************)
(* The view at v depends on the entries up to v only, so that a ledger     *)
(* that agrees up to v gives the same view.                                *)
(***************************************************************************)
LEMMA ViewOfPrefix ==
  ASSUME NEW L, NEW M, NEW v, Upto(L, v) = Upto(M, v)
  PROVE  View(L, v) = View(M, v)
BY DEF View

-------------------------------------------------------------------------------
(* Batches *)

(***************************************************************************)
(* What a batch says of the entries between its base b and the position a  *)
(* it reached: all of them, but for transactions that came after b and are *)
(* removed in the ledger H, of which it may have missed a beginning.       *)
(***************************************************************************)
Told(L, H, b, a, got) ==
  /\ got \subseteq Past(Upto(L, a), b)
  /\ \A e \in Past(Upto(L, a), b) \ got :
       /\ About(Upto(L, b), e.txn) = {}
       /\ Removes(H, e.txn)
       /\ \A f \in About(got, e.txn) : e.ver < f.ver

(***************************************************************************)
(* Writing a batch that tells everything since b into the view at b gives  *)
(* the view at a, whatever the pages it came on: the upserts that dedupe   *)
(* leaves are the latest versions, and the deletes come last.              *)
(***************************************************************************)
LEMMA WrittenIsView ==
  ASSUME NEW L, L \subseteq Entry, WellFormed(L),
         NEW b \in Vers, NEW a \in Vers, b <= a,
         NEW got, Told(L, Upto(L, a), b, a, got)
  PROVE  Written(View(L, b), got) = View(L, a)
<1> DEFINE gap == Past(Upto(L, a), b)
           seen(t) == About(Upto(L, a), t)
<1>1. /\ \A e \in L : /\ e.ver \in Vers /\ e.ver \in Int /\ e.op \in Ops
                      /\ e.txn \in Txns
      /\ a \in Int /\ b \in Int
  BY LedgerAssumption, VersAreNumbers DEF Entry, Vers
<1>2. got \subseteq gap /\ gap \subseteq Upto(L, a) /\ gap \subseteq L
  BY DEF Told, Past, Upto
<1>3. \A e \in Upto(L, a) : e \in gap \/ e \in Upto(L, b)
  BY <1>1 DEF Past, Upto
<1>4. \A e \in Upto(L, b) : e \in Upto(L, a)
  BY <1>1 DEF Upto
<1>5. \A e \in gap, f \in Upto(L, b) : f.ver <= b /\ b < e.ver
  BY <1>1 DEF Past, Upto
<1> SUFFICES ASSUME NEW t \in Txns
             PROVE  Written(View(L, b), got)[t] = View(L, a)[t]
  BY DEF Written, View
<1>6. CASE Removes(got, t)
  <2>1. Removes(Upto(L, a), t)
    BY <1>2, <1>6 DEF Removes, Named, About
  <2> QED
    BY <2>1, <1>6 DEF Written, View
<1>7. CASE ~ Removes(got, t) /\ t \in Upserts(got)
  <2>1. PICK g \in got : g.txn = t
    BY <1>7 DEF Upserts, Named
  <2>2. \A x \in L : x.txn = t /\ x.op = "removed" => x.ver >= g.ver
    BY <1>1, <1>2, <2>1 DEF WellFormed
  <2>3. ~ Removes(Upto(L, a), t)
    <3> SUFFICES ASSUME NEW x \in Upto(L, a), x.txn = t, x.op = "removed"
                 PROVE  FALSE
      BY DEF Removes, Named, About
    <3>1. CASE x \in Upto(L, b)
      BY <3>1, <1>1, <1>2, <1>5, <2>1, <2>2 DEF Upto
    <3>2. CASE x \in gap
      <4>1. x \notin got
        BY <1>7 DEF Removes, Named, About
      <4>2. x.ver < g.ver
        BY <3>2, <4>1, <2>1 DEF Told, About
      <4> QED
        BY <4>2, <1>1, <1>2, <2>1, <2>2, <3>2
    <3> QED
      BY <1>3, <3>1, <3>2
  <2>4. \A e \in gap : e.txn = t => e \in got
    BY <2>3 DEF Told
  <2>5. seen(t) # {}
    BY <1>2, <2>1 DEF About
  <2>6. View(L, a)[t] = Latest(Positions(seen(t)))
    BY <2>3, <2>5 DEF View
  <2> DEFINE modified == Positions(Named(About(got, t), "modified"))
             added    == Positions(Named(About(got, t), "added"))
  <2>7. modified \subseteq Vers /\ added \subseteq Vers
    BY <1>1, <1>2 DEF Positions, Named, About
  <2>8. Positions(seen(t)) \subseteq Vers
    BY <1>1 DEF Positions, About, Upto
  <2>9. \A f \in L : f.txn = t /\ f.op = "added" =>
          \A e \in L : e.txn = t => f.ver <= e.ver
    BY DEF WellFormed
  <2>10. CASE modified # {}
    <3> DEFINE m == Latest(modified)
    <3>1. m \in modified /\ \A w \in modified : w <= m
      BY <2>7, <2>10, LatestIsLargest
    <3>2. PICK h \in got : h.txn = t /\ h.op = "modified" /\ h.ver = m
      BY <3>1 DEF Positions, Named, About
    <3>3. m \in Positions(seen(t))
      BY <3>2, <1>2 DEF Positions, About
    <3>4. ASSUME NEW e \in seen(t) PROVE e.ver <= m
      <4>1. e \in L /\ e.txn = t /\ e \in Upto(L, a) /\ h \in L
        BY <1>2, <3>2 DEF About, Upto
      <4>2. CASE e.op = "added"
        BY <4>1, <4>2, <2>9, <3>2
      <4>3. CASE e.op = "modified" /\ e \in gap
        BY <4>1, <4>3, <2>4, <3>1 DEF Positions, Named, About
      <4>4. CASE e \in Upto(L, b)
        BY <4>1, <4>4, <1>1, <1>2, <1>5, <3>2
      <4>5. e.op # "removed"
        BY <4>1, <2>3 DEF Removes, Named, About
      <4> QED
        BY <4>1, <4>2, <4>3, <4>4, <4>5, <1>1, <1>3 DEF Ops
    <3>5. \A w \in Positions(seen(t)) : w <= m
      BY <3>4 DEF Positions
    <3>6. Latest(Positions(seen(t))) = m
      BY <3>3, <3>5, <2>8, LatestUnique
    <3> QED
      BY <3>6, <2>6, <2>10, <1>7 DEF Written, Dedupe
  <2>11. CASE modified = {}
    <3>1. \A e \in got : e.txn = t => e.op = "added"
      BY <2>11, <1>1, <1>2, <1>7 DEF Positions, Named, About, Removes, Ops
    <3>2. added # {}
      BY <3>1, <2>1 DEF Positions, Named, About
    <3> DEFINE m == Latest(added)
    <3>3. m \in added
      BY <2>7, <3>2, LatestIsLargest
    <3>4. PICK h \in got : h.txn = t /\ h.op = "added" /\ h.ver = m
      BY <3>3 DEF Positions, Named, About
    <3>5. m \in Positions(seen(t))
      BY <3>4, <1>2 DEF Positions, About
    <3>6. ASSUME NEW e \in seen(t) PROVE e.ver <= m
      <4>1. e \in L /\ e.txn = t /\ e \in Upto(L, a) /\ h \in L
        BY <1>2, <3>4 DEF About, Upto
      <4>2. h.ver <= e.ver
        BY <4>1, <3>4, <2>9
      <4>3. CASE e \in gap
        BY <4>1, <4>3, <2>4, <2>9, <3>1, <3>4
      <4>4. CASE e \in Upto(L, b)
        BY <4>1, <4>2, <4>4, <1>1, <1>2, <1>5, <3>4
      <4> QED
        BY <4>1, <4>3, <4>4, <1>3
    <3>7. \A w \in Positions(seen(t)) : w <= m
      BY <3>6 DEF Positions
    <3>8. Latest(Positions(seen(t))) = m
      BY <3>5, <3>7, <2>8, LatestUnique
    <3> QED
      BY <3>8, <2>6, <2>11, <1>7 DEF Written, Dedupe
  <2> QED
    BY <2>10, <2>11
<1>8. CASE ~ Removes(got, t) /\ t \notin Upserts(got)
  <2>1. \A e \in got : e.txn # t
    BY <1>1, <1>2, <1>8 DEF Removes, Upserts, Named, About, Ops
  <2>2. Written(View(L, b), got)[t] = View(L, b)[t]
    BY <1>8 DEF Written
  <2>3. CASE \E e \in gap : e.txn = t
    <3>1. About(Upto(L, b), t) = {} /\ Removes(Upto(L, a), t)
      BY <2>1, <2>3 DEF Told
    <3> QED
      BY <2>2, <3>1 DEF View
  <2>4. CASE ~ \E e \in gap : e.txn = t
    <3>1. seen(t) = About(Upto(L, b), t)
      BY <2>4, <1>3, <1>4 DEF About
    <3>2. Removes(Upto(L, a), t) <=> Removes(Upto(L, b), t)
      BY <3>1 DEF Removes
    <3> QED
      BY <2>2, <3>1, <3>2 DEF View
  <2> QED
    BY <2>3, <2>4
<1> QED
  BY <1>6, <1>7, <1>8

-------------------------------------------------------------------------------
(* The inductive invariant, in named parts. *)

\* Plaid: ledgers are well formed, and a cursor anyone holds was handed out by
\* a finished pagination, so that Plaid stands by everything up to it.
PlaidOK ==
  \A i \in Items :
    /\ WellFormed(log[i])
    /\ \A e \in log[i] : e.ver <= clock[i]
    /\ cursor[i] <= sealed[i]
    /\ sealed[i] <= clock[i]

\* A run: its cursors are no older than what Plaid stands by, and its batch
\* tells everything since the cursor it started from, unless Plaid tore it.
RunOK(r) ==
  /\ \A i \in Items : r.snap[i] <= sealed[i]
  /\ r.pc \in {"pull", "write", "mark"} => r.cur \in Items
  /\ r.pc = "pull" =>
       /\ Base(r) <= r.at
       /\ r.at <= clock[r.cur]
       /\ r.pages = 0 => r.got = {} /\ r.at = Base(r)
       /\ ~ r.torn => Told(log[r.cur], log[r.cur], Base(r), r.at, r.got)
  /\ r.pc = "write" =>
       /\ r.at = NoCursor => r.got = {}
       /\ r.at # NoCursor =>
            /\ Base(r) <= r.at
            /\ r.at <= sealed[r.cur]
            /\ Told(log[r.cur], Upto(log[r.cur], r.at), Base(r), r.at, r.got)

RunsOK == \A p \in Procs : RunOK(run[p])

\* Rows are versions Plaid stands by.
RowsSealed == \A i \in Items, t \in Txns : rows[i][t] <= sealed[i]

\* A reset: it has seen every row it is to delete, and every row there is of a
\* bank it has not missed; what it does not clear the cursor of had none.
ResetOK(r, table) ==
  r.pc # "idle" =>
    \A i \in Items :
      /\ \A t \in r.saw[i] : table[i][t] # NoRow
      /\ i \notin r.missed => \A t \in Txns : table[i][t] # NoRow => t \in r.saw[i]
      /\ r.pc = "update" /\ i \notin r.banks => r.saw[i] = {}

ResetsOK == \A k \in Resets : ResetOK(reset[k], rows)

IInv ==
  /\ TypeOK
  /\ ResetsOK
  /\ PlaidOK
  /\ RunsOK
  /\ RowsSealed
  /\ ExactUnlessRaced
  /\ NoPhantomRows
  /\ UnlinkedLeavesNothing

(***************************************************************************)
(* Where the stored cursor of a bank lies.                                 *)
(***************************************************************************)
LEMMA CursorBounds ==
  ASSUME TypeOK, PlaidOK, NEW i \in Items
  PROVE  /\ cursor[i] \in Vers /\ sealed[i] \in Vers /\ clock[i] \in Vers
         /\ cursor[i] \in Int  /\ sealed[i] \in Int  /\ clock[i] \in Int
         /\ cursor[i] <= sealed[i] /\ sealed[i] <= clock[i] /\ cursor[i] <= clock[i]
<1>1. cursor[i] \in Vers /\ sealed[i] \in Vers /\ clock[i] \in Vers
  BY DEF TypeOK
<1>2. cursor[i] \in Int  /\ sealed[i] \in Int  /\ clock[i] \in Int
  BY <1>1, VersAreNumbers
<1>3. cursor[i] <= sealed[i] /\ sealed[i] <= clock[i]
  BY DEF PlaidOK
<1> QED
  BY <1>1, <1>2, <1>3

(***************************************************************************)
(* Where the cursors of a run that works on a bank lie.                    *)
(***************************************************************************)
LEMMA RunBounds ==
  ASSUME TypeOK, PlaidOK, NEW r \in Run, RunOK(r),
         r.pc \in {"pull", "write"}
  PROVE  /\ r.cur \in Items
         /\ Base(r) \in Vers /\ Base(r) \in Int /\ r.at \in Vers /\ r.at \in Int
         /\ Base(r) <= sealed[r.cur] /\ Base(r) <= clock[r.cur]
         /\ r.at <= clock[r.cur]
<1>1. r.cur \in Items
  BY DEF RunOK
<1>2. Base(r) \in Vers /\ r.at \in Vers /\ Base(r) <= sealed[r.cur]
  BY <1>1 DEF Base, Run, RunOK
<1>3. Base(r) \in Int /\ r.at \in Int
  BY <1>2, VersAreNumbers
<1>4. /\ sealed[r.cur] \in Int /\ clock[r.cur] \in Int
      /\ sealed[r.cur] <= clock[r.cur] /\ clock[r.cur] \in Vers
  BY <1>1, CursorBounds
<1>5. Base(r) <= clock[r.cur]
  BY <1>2, <1>3, <1>4
<1>6. r.at <= clock[r.cur]
  <2>1. CASE r.pc = "pull"
    BY <2>1 DEF RunOK
  <2>2. CASE r.pc = "write" /\ r.at # NoCursor
    <3>1. r.at <= sealed[r.cur]
      BY <2>2 DEF RunOK
    <3> QED
      BY <3>1, <1>3, <1>4
  <2>3. CASE r.at = NoCursor
    BY <2>3, <1>4, LedgerAssumption DEF NoCursor, Vers
  <2> QED
    BY <2>1, <2>2, <2>3
<1> QED
  BY <1>1, <1>2, <1>3, <1>5, <1>6

(***************************************************************************)
(* A run may start any attempt it likes: what Fresh builds is in order.    *)
(***************************************************************************)
LEMMA FreshIsOK ==
  ASSUME TypeOK, PlaidOK, NEW r \in Run, NEW i \in Items, NEW n \in 0 .. MaxRestarts,
         \A j \in Items : r.snap[j] <= sealed[j]
  PROVE  Fresh(r, i, n) \in Run /\ RunOK(Fresh(r, i, n))
<1> DEFINE f == Fresh(r, i, n)
<1>1. f \in Run
  <2>1. "pull" \in Phases /\ 0 \in 0 .. MaxPages /\ r.snap[i] \in Vers
    BY PipelineAssumption DEF Phases, Run
  <2> QED
    BY <2>1 DEF Fresh, Run
<1>2. /\ f.pc = "pull" /\ f.cur = i /\ f.at = r.snap[i] /\ f.got = {}
      /\ f.pages = 0 /\ f.torn = FALSE /\ f.snap = r.snap
  BY DEF Fresh, Run
<1>3. r.snap[i] \in Int /\ sealed[i] \in Int /\ clock[i] \in Int
  BY VersAreNumbers DEF Run, TypeOK
<1>4. Past(Upto(log[i], r.snap[i]), r.snap[i]) = {}
  <2>1. \A e \in log[i] : e.ver \in Int
    BY DEF TypeOK, Entry
  <2> QED
    BY <2>1, <1>3 DEF Past, Upto
<1>5. Told(log[i], log[i], r.snap[i], r.snap[i], {})
  BY <1>4 DEF Told
<1>6. r.snap[i] <= clock[i]
  BY <1>3 DEF PlaidOK
<1> QED
  BY <1>1, <1>2, <1>3, <1>5, <1>6 DEF RunOK, Base

(***************************************************************************)
(* A run between two banks, or idle, is in order.                          *)
(***************************************************************************)
LEMMA BetweenIsOK ==
  ASSUME TypeOK, PlaidOK, NEW r \in Run, \A i \in Items : r.snap[i] <= sealed[i]
  PROVE  /\ Between(r) \in Run /\ RunOK(Between(r))
         /\ IdleRun \in Run /\ RunOK(IdleRun)
<1>1. IdleRun \in Run
  BY PipelineAssumption, VersAreNumbers DEF IdleRun, Run, Phases, NoCursor
<1>2. Between(r) \in Run
  <2>1. r.todo \in SUBSET Items /\ r.snap \in [Items -> Vers]
    BY DEF Run
  <2>2. "next" \in Phases
    BY DEF Phases
  <2> QED
    BY <1>1, <2>1, <2>2 DEF Between, Run
<1>3. \A i \in Items : IdleRun.snap[i] <= sealed[i]
  BY LedgerAssumption DEF IdleRun, NoCursor, TypeOK, Vers
<1>4. IdleRun.pc = "idle" /\ Between(r).pc = "next" /\ Between(r).snap = r.snap
  BY DEF IdleRun, Between
<1> QED
  BY <1>1, <1>2, <1>3, <1>4 DEF RunOK

(***************************************************************************)
(* A step of one run that writes nothing keeps the invariant if it leaves  *)
(* the run in order.                                                       *)
(***************************************************************************)
LEMMA RunStep ==
  ASSUME IInv, UNCHANGED <<plaidVars, dbVars, raced>>,
         NEW p \in Procs, NEW r \in Run, RunOK(r),
         run' = [run EXCEPT ![p] = r]
  PROVE  IInv'
<1>1. TypeOK'
  BY DEF IInv, TypeOK, plaidVars, dbVars
<1>2. RunsOK'
  <2> SUFFICES ASSUME NEW q \in Procs PROVE RunOK(run[q])'
    BY DEF RunsOK
  <2>1. CASE q = p
    <3>1. run'[q] = r
      BY <2>1 DEF IInv, TypeOK
    <3> QED
      BY <3>1 DEF RunOK, Base, plaidVars
  <2>2. CASE q # p
    <3>1. run'[q] = run[q] /\ RunOK(run[q])
      BY <2>2 DEF IInv, TypeOK, RunsOK
    <3> QED
      BY <3>1 DEF RunOK, Base, plaidVars
  <2> QED
    BY <2>1, <2>2
<1> QED
  BY <1>1, <1>2 DEF IInv, PlaidOK, RowsSealed, ExactUnlessRaced, NoPhantomRows,
     UnlinkedLeavesNothing, Present, plaidVars, dbVars, ResetsOK

-------------------------------------------------------------------------------
(* One lemma per step that does more than move a run. *)

LEMMA InitOK == Init => IInv
<1> SUFFICES ASSUME Init PROVE IInv
  OBVIOUS
<1>1. IdleRun \in Run
  BY PipelineAssumption, VersAreNumbers DEF IdleRun, Run, Phases, NoCursor
<1>2. 0 \in Vers /\ NoCursor = 0 /\ EmptyTable \in [Txns -> Vers]
  BY LedgerAssumption DEF Vers, NoCursor, EmptyTable, NoRow
<1>3. TypeOK
  <2>1. IdleReset \in Reset
    BY DEF IdleReset, Reset
  <2> QED
    BY <1>1, <1>2, <2>1 DEF Init, TypeOK, Statuses
<1>4. PlaidOK
  BY <1>2 DEF Init, PlaidOK, WellFormed
<1>5. RunsOK
  BY <1>2 DEF Init, RunsOK, RunOK, IdleRun
<1>6. RowsSealed
  BY DEF Init, RowsSealed, EmptyTable, NoRow
<1>7. ExactUnlessRaced
  BY ViewAtNoCursor DEF Init, ExactUnlessRaced
<1>8. NoPhantomRows /\ UnlinkedLeavesNothing /\ ResetsOK
  BY DEF Init, NoPhantomRows, UnlinkedLeavesNothing, EmptyTable, ResetsOK, ResetOK, IdleReset
<1> QED
  BY <1>3, <1>4, <1>5, <1>6, <1>7, <1>8 DEF IInv

(***************************************************************************)
(* A change the bank reports lies beyond every position anyone holds.      *)
(***************************************************************************)
LEMMA ReportStep ==
  ASSUME IInv, NEW i \in Items, Report(i)
  PROVE  IInv'
<1> USE DEF IInv
<1>1. PICK t \in Txns, op \in Ops :
        /\ MayReport(log[i], t, op)
        /\ log' = [log EXCEPT ![i] =
                     @ \union {[ver |-> clock[i] + 1, txn |-> t, op |-> op]}]
  BY DEF Report
<1> DEFINE new == [ver |-> clock[i] + 1, txn |-> t, op |-> op]
<1>2. /\ clock[i] \in Int /\ clock[i] >= 0 /\ clock[i] < MaxVer
      /\ clock' = [clock EXCEPT ![i] = @ + 1]
      /\ UNCHANGED <<sealed, status, cursor, rows, reset, run, raced>>
  BY LedgerAssumption DEF Report, TypeOK, Vers, dbVars
<1>3. new \in Entry
  BY <1>2, LedgerAssumption DEF Entry
<1>4. TypeOK'
  <2>1. clock[i] + 1 \in Vers
    BY <1>2, LedgerAssumption DEF Vers
  <2> QED
    BY <1>1, <1>2, <1>3, <2>1 DEF TypeOK
<1>5. \A e \in log[i] : e \in Entry /\ e.ver \in Int /\ e.ver <= clock[i]
  BY DEF TypeOK, PlaidOK, Entry
<1>6. /\ log'[i] = log[i] \union {new}
      /\ \A j \in Items \ {i} : log'[j] = log[j] /\ clock'[j] = clock[j]
      /\ clock'[i] = clock[i] + 1
  BY <1>1, <1>2 DEF TypeOK
<1>7. WellFormed(log'[i])
  <2>1. WellFormed(log[i])
    BY DEF PlaidOK
  <2>2. new.ver = clock[i] + 1 /\ new.txn = t /\ new.op = op
    OBVIOUS
  <2>3. op = "added" => \A e \in log[i] : e.txn # t
    BY <1>1 DEF MayReport, About
  <2>4. op # "added" => \A e \in log[i] : e.txn = t => e.op # "removed"
    BY <1>1 DEF MayReport, About, Removes, Named
  <2> SUFFICES ASSUME NEW e \in log'[i], NEW f \in log'[i]
               PROVE  /\ e.ver = f.ver => e = f
                      /\ (e.txn = f.txn /\ f.op = "added")   => f.ver <= e.ver
                      /\ (e.txn = f.txn /\ e.op = "removed") => f.ver <= e.ver
    BY DEF WellFormed
  <2>5. CASE e \in log[i] /\ f \in log[i]
    BY <2>1, <2>5 DEF WellFormed
  <2>6. CASE e = new /\ f = new
    BY <2>6, <2>2, <1>2
  <2>7. CASE e = new /\ f \in log[i]
    BY <2>7, <2>2, <2>3, <1>2, <1>5
  <2>8. CASE e \in log[i] /\ f = new
    BY <2>8, <2>2, <2>3, <2>4, <1>2, <1>5
  <2> QED
    BY <1>6, <2>5, <2>6, <2>7, <2>8
<1>8. \A v \in Vers : v <= clock[i] => Upto(log'[i], v) = Upto(log[i], v)
  BY <1>2, <1>6, VersAreNumbers DEF Upto
<1>9. PlaidOK'
  <2> SUFFICES ASSUME NEW j \in Items
               PROVE  /\ WellFormed(log'[j])
                      /\ \A e \in log'[j] : e.ver <= clock'[j]
                      /\ cursor'[j] <= sealed'[j]
                      /\ sealed'[j] <= clock'[j]
    BY DEF PlaidOK
  <2>1. CASE j = i
    <3>1. sealed[i] \in Int /\ sealed[i] <= clock[i]
      BY VersAreNumbers DEF TypeOK, PlaidOK
    <3> QED
      BY <2>1, <3>1, <1>2, <1>5, <1>6, <1>7 DEF PlaidOK
  <2>2. CASE j # i
    BY <2>2, <1>2, <1>6 DEF PlaidOK
  <2> QED
    BY <2>1, <2>2
<1>10. \A j \in Items : Upto(log'[j], cursor[j]) = Upto(log[j], cursor[j])
  <2>1. cursor[i] \in Vers /\ cursor[i] <= clock[i]
    BY CursorBounds
  <2> QED
    BY <1>6, <1>8, <2>1
<1>11. ExactUnlessRaced'
  BY <1>2, <1>10, ViewOfPrefix DEF ExactUnlessRaced
<1>12. NoPhantomRows'
  BY <1>2, <1>6 DEF NoPhantomRows, About
<1>13. RunsOK'
  <2> SUFFICES ASSUME NEW p \in Procs PROVE RunOK(run[p])'
    BY DEF RunsOK
  <2> DEFINE r == run[p]
  <2>1. RunOK(r) /\ r \in Run /\ run'[p] = r
    BY <1>2 DEF RunsOK, TypeOK
  <2>2. CASE r.pc \notin {"pull", "write"} \/ r.cur # i
    BY <2>1, <2>2, <1>2, <1>6 DEF RunOK, Base
  <2>3. CASE r.pc = "pull" /\ r.cur = i
    <3>1. /\ r.at \in Vers /\ r.at <= clock[i] /\ Base(r) \in Vers
          /\ Base(r) <= clock[i] /\ r.at \in Int
      BY <2>1, <2>3, RunBounds
    <3>2. /\ Upto(log'[i], r.at) = Upto(log[i], r.at)
          /\ Upto(log'[i], Base(r)) = Upto(log[i], Base(r))
      BY <3>1, <1>8
    <3>3. \A u \in Txns : Removes(log[i], u) => Removes(log'[i], u)
      BY <1>6 DEF Removes, Named, About
    <3>4. Told(log[i], log[i], Base(r), r.at, r.got)
            => Told(log'[i], log'[i], Base(r), r.at, r.got)
      <4>1. \A e \in Past(Upto(log[i], r.at), Base(r)) : e.txn \in Txns
        BY <1>5 DEF Past, Upto, Entry
      <4> QED
        BY <3>2, <3>3, <4>1 DEF Told
    <3>5. r.at <= clock'[i]
      BY <3>1, <1>2, <1>6
    <3> QED
      BY <2>1, <2>3, <3>4, <3>5, <1>2 DEF RunOK, Base
  <2>4. CASE r.pc = "write" /\ r.cur = i
    <3>1. CASE r.at = NoCursor
      BY <2>1, <2>4, <3>1, <1>2 DEF RunOK, Base
    <3>2. CASE r.at # NoCursor
      <4>1. /\ r.at \in Vers /\ r.at <= clock[i] /\ Base(r) \in Vers
            /\ Base(r) <= clock[i]
        BY <2>1, <2>4, RunBounds
      <4>2. /\ Upto(log'[i], r.at) = Upto(log[i], r.at)
            /\ Upto(log'[i], Base(r)) = Upto(log[i], Base(r))
        BY <4>1, <1>8
      <4>3. Told(log'[i], Upto(log'[i], r.at), Base(r), r.at, r.got)
        BY <2>1, <2>4, <3>2, <4>2 DEF Told, RunOK
      <4> QED
        BY <2>1, <2>4, <3>2, <4>3, <1>2 DEF RunOK, Base
    <3> QED
      BY <3>1, <3>2
  <2> QED
    BY <2>2, <2>3, <2>4
<1>14. RowsSealed' /\ UnlinkedLeavesNothing' /\ ResetsOK'
  BY <1>2 DEF RowsSealed, UnlinkedLeavesNothing, Present, ResetsOK
<1> QED
  BY <1>4, <1>9, <1>11, <1>12, <1>13, <1>14

(***************************************************************************)
(* What Plaid takes back lies beyond every stored cursor and every batch   *)
(* that is about to be written, and it tears the pulls it does not.        *)
(***************************************************************************)
LEMMA RetractStep ==
  ASSUME IInv, NEW i \in Items, Retract(i)
  PROVE  IInv'
<1> USE DEF IInv
<1>1. PICK v \in Vers : v >= sealed[i] /\ log' = [log EXCEPT ![i] = Upto(@, v)]
  BY DEF Retract
<1> DEFINE torn(q) == run[q].pc = "pull" /\ run[q].cur = i /\ run[q].pages > 0
<1>2. /\ run' = [q \in Procs |-> IF torn(q) THEN [run[q] EXCEPT !.torn = TRUE]
                                          ELSE run[q]]
      /\ UNCHANGED <<clock, sealed, status, cursor, rows, reset, raced>>
  BY DEF Retract, dbVars
<1>3. /\ log'[i] = Upto(log[i], v) /\ log'[i] \subseteq log[i]
      /\ \A j \in Items \ {i} : log'[j] = log[j]
  BY <1>1 DEF TypeOK, Upto
<1>4. \A e \in log[i] : e \in Entry /\ e.ver \in Int
  BY DEF TypeOK, Entry
<1>5. v \in Int
  BY VersAreNumbers
<1>6. \A q \in Procs : [run[q] EXCEPT !.torn = TRUE] \in Run
  BY DEF TypeOK, Run
<1>7. TypeOK'
  <2>1. log' \in [Items -> SUBSET Entry]
    BY <1>1, <1>3 DEF TypeOK
  <2>2. run' \in [Procs -> Run]
    BY <1>2, <1>6 DEF TypeOK
  <2> QED
    BY <2>1, <2>2, <1>2 DEF TypeOK
<1>8. PlaidOK'
  BY <1>2, <1>3 DEF PlaidOK, WellFormed
<1>9. \A u \in Vers : u <= sealed[i] => Upto(log'[i], u) = Upto(log[i], u)
  <2> SUFFICES ASSUME NEW u \in Vers, u <= sealed[i]
               PROVE  Upto(log'[i], u) = Upto(log[i], u)
    OBVIOUS
  <2>1. u \in Int /\ u <= v
    <3>1. u \in Int /\ sealed[i] \in Int
      BY CursorBounds, VersAreNumbers
    <3> QED
      BY <3>1, <1>1, <1>5
  <2> QED
    BY <1>3, <1>4, <1>5, <2>1 DEF Upto
<1>10. \A j \in Items : Upto(log'[j], cursor[j]) = Upto(log[j], cursor[j])
  BY <1>3, <1>9, CursorBounds
<1>11. ExactUnlessRaced'
  BY <1>2, <1>10, ViewOfPrefix DEF ExactUnlessRaced
<1>12. NoPhantomRows'
  <2> SUFFICES ASSUME NEW j \in Items, NEW t \in Txns, rows[j][t] # NoRow
               PROVE  \E e \in About(log'[j], t) : e.ver = rows[j][t] /\ e.op # "removed"
    BY <1>2 DEF NoPhantomRows
  <2>1. PICK e \in About(log[j], t) : e.ver = rows[j][t] /\ e.op # "removed"
    BY DEF NoPhantomRows
  <2>2. CASE j = i
    <3>1. e.ver <= sealed[i]
      BY <2>1, <2>2 DEF RowsSealed
    <3>2. e \in log[i] /\ e.ver <= v
      BY <2>1, <2>2, <3>1, <1>1, <1>4, <1>5, CursorBounds DEF About
    <3> QED
      BY <2>1, <2>2, <3>2, <1>3 DEF About, Upto
  <2>3. CASE j # i
    BY <2>1, <2>3, <1>3 DEF About
  <2> QED
    BY <2>2, <2>3
<1>13. RunsOK'
  <2> SUFFICES ASSUME NEW p \in Procs PROVE RunOK(run[p])'
    BY DEF RunsOK
  <2> DEFINE r == run[p]
  <2>1. RunOK(r) /\ r \in Run
    BY DEF RunsOK, TypeOK
  <2>2. CASE r.pc \notin {"pull", "write"} \/ r.cur # i
    <3>1. run'[p] = r
      BY <1>2, <2>2
    <3> QED
      BY <2>1, <2>2, <3>1, <1>2, <1>3 DEF RunOK, Base
  <2>3. CASE torn(p)
    <3>1. /\ run'[p].torn = TRUE /\ run'[p].pc = "pull" /\ run'[p].cur = i
          /\ run'[p].snap = r.snap /\ run'[p].at = r.at /\ run'[p].got = r.got
          /\ run'[p].pages = r.pages
      BY <2>1, <2>3, <1>2 DEF Run
    <3> QED
      BY <2>1, <2>3, <3>1, <1>2 DEF RunOK, Base
  <2>4. CASE r.pc = "pull" /\ r.cur = i /\ ~ torn(p)
    <3>1. run'[p] = r /\ r.pages = 0
      BY <2>1, <2>4, <1>2, PipelineAssumption DEF Run
    <3>2. r.got = {} /\ r.at = Base(r) /\ Base(r) \in Int
      BY <2>1, <2>4, <3>1, RunBounds DEF RunOK
    <3>3. Past(Upto(log'[i], Base(r)), Base(r)) = {}
      BY <3>2, <1>3, <1>4 DEF Past, Upto
    <3>4. Told(log'[i], log'[i], Base(r), r.at, r.got)
      BY <3>2, <3>3 DEF Told
    <3> QED
      BY <2>1, <2>4, <3>1, <3>4, <1>2 DEF RunOK, Base
  <2>5. CASE r.pc = "write" /\ r.cur = i
    <3>1. run'[p] = r
      BY <2>5, <1>2
    <3>2. CASE r.at = NoCursor
      BY <2>1, <2>5, <3>1, <3>2, <1>2 DEF RunOK, Base
    <3>3. CASE r.at # NoCursor
      <4>1. r.at <= sealed[i] /\ r.at \in Vers /\ Base(r) \in Vers /\ Base(r) <= sealed[i]
        BY <2>1, <2>5, <3>3, RunBounds DEF RunOK
      <4>2. /\ Upto(log'[i], r.at) = Upto(log[i], r.at)
            /\ Upto(log'[i], Base(r)) = Upto(log[i], Base(r))
        BY <4>1, <1>9
      <4>3. Told(log'[i], Upto(log'[i], r.at), Base(r), r.at, r.got)
        BY <2>1, <2>5, <3>3, <4>2 DEF Told, RunOK
      <4> QED
        BY <2>1, <2>5, <3>1, <3>3, <4>3, <1>2 DEF RunOK, Base
    <3> QED
      BY <3>2, <3>3
  <2> QED
    BY <2>2, <2>3, <2>4, <2>5
<1>14. RowsSealed' /\ UnlinkedLeavesNothing' /\ ResetsOK'
  BY <1>2 DEF RowsSealed, UnlinkedLeavesNothing, Present, ResetsOK
<1> QED
  BY <1>7, <1>8, <1>11, <1>12, <1>13, <1>14

(***************************************************************************)
(* A page adds what Plaid told to the batch, and the last one settles what *)
(* Plaid stands by.                                                        *)
(***************************************************************************)
LEMMA PageStep ==
  ASSUME IInv, NEW p \in Procs, PageArrives(p)
  PROVE  IInv'
<1> USE DEF IInv
<1> DEFINE r == run[p]
           i == r.cur
           L == log[i]
<1>1. /\ r \in Run /\ RunOK(r) /\ r.pc = "pull" /\ ~ r.torn /\ r.pages < MaxPages
      /\ UNCHANGED <<log, clock, status, cursor, rows, reset, raced>>
  BY DEF PageArrives, TypeOK, RunsOK, dbVars
<1>2. /\ i \in Items /\ Base(r) \in Vers /\ Base(r) \in Int /\ r.at \in Vers
      /\ r.at \in Int /\ Base(r) <= sealed[i] /\ Base(r) <= clock[i]
      /\ r.at <= clock[i]
  BY <1>1, RunBounds
<1>3. PICK v \in Positions(Past(L, r.at)) \union {r.at},
           untold \in Untold(L, r.at), hasMore \in BOOLEAN :
        /\ ~ hasMore => Past(L, v) = {}
        /\ run' = [run EXCEPT ![p] =
                     [r EXCEPT !.pc    = IF hasMore THEN "pull" ELSE "write",
                               !.at    = v,
                               !.got   = @ \union {e \in Past(Upto(L, v), r.at) :
                                                     e.txn \notin untold},
                               !.pages = @ + 1]]
        /\ sealed' = IF ~ hasMore /\ v > sealed[i]
                       THEN [sealed EXCEPT ![i] = v]
                       ELSE sealed
  BY DEF PageArrives
<1> DEFINE page == {e \in Past(Upto(L, v), r.at) : e.txn \notin untold}
           s    == run'[p]
<1>4. \A e \in L : e \in Entry /\ e.ver \in Int /\ e.ver \in Vers /\ e.ver <= clock[i]
  BY <1>2, LedgerAssumption DEF TypeOK, Entry, Vers, PlaidOK
<1>5. v \in Vers /\ v \in Int /\ r.at <= v /\ v <= clock[i]
  <2>1. CASE v = r.at
    BY <2>1, <1>2
  <2>2. CASE v \in Positions(Past(L, r.at))
    <3>1. PICK e \in L : e.ver = v /\ e.ver > r.at
      BY <2>2 DEF Positions, Past
    <3> QED
      BY <3>1, <1>2, <1>4
  <2> QED
    BY <2>1, <2>2
<1>6. /\ s = [r EXCEPT !.pc    = IF hasMore THEN "pull" ELSE "write",
                       !.at    = v,
                       !.got   = @ \union page,
                       !.pages = @ + 1]
      /\ \A q \in Procs \ {p} : run'[q] = run[q]
  BY <1>3 DEF TypeOK
<1>7. /\ s.pc = IF hasMore THEN "pull" ELSE "write"
      /\ s.at = v /\ s.got = r.got \union page /\ s.pages = r.pages + 1
      /\ s.snap = r.snap /\ s.cur = i /\ s.torn = r.torn /\ s.todo = r.todo
      /\ s.attempt = r.attempt
  BY <1>1, <1>6 DEF Run
<1>8. s \in Run
  <2>1. page \subseteq Entry
    BY <1>4 DEF Past, Upto
  <2>2. r.pages + 1 \in 0 .. MaxPages
    BY <1>1, PipelineAssumption DEF Run
  <2>3. r.got \union page \in SUBSET Entry
    BY <2>1, <1>1 DEF Run
  <2>4. (IF hasMore THEN "pull" ELSE "write") \in Phases
    BY DEF Phases
  <2> QED
    BY <1>1, <1>5, <1>6, <2>2, <2>3, <2>4 DEF Run
<1>9. /\ sealed' \in [Items -> Vers]
      /\ \A j \in Items : sealed[j] <= sealed'[j] /\ sealed'[j] <= clock[j]
      /\ ~ hasMore => v <= sealed'[i]
  <2>1. CASE ~ hasMore /\ v > sealed[i]
    BY <2>1, <1>2, <1>3, <1>5, CursorBounds DEF TypeOK
  <2>2. CASE ~ (~ hasMore /\ v > sealed[i])
    BY <2>2, <1>2, <1>3, <1>5, CursorBounds DEF TypeOK
  <2> QED
    BY <2>1, <2>2
<1>10. TypeOK'
  BY <1>1, <1>3, <1>8, <1>9 DEF TypeOK
<1>11. \A j \in Items : /\ sealed[j] \in Int /\ sealed'[j] \in Int /\ clock[j] \in Int
                        /\ cursor[j] \in Int /\ cursor[j] <= sealed[j]
  BY <1>9, CursorBounds, VersAreNumbers
<1>12. PlaidOK'
  BY <1>1, <1>9, <1>11 DEF PlaidOK
<1>13. RowsSealed'
  <2> SUFFICES ASSUME NEW j \in Items, NEW t \in Txns PROVE rows[j][t] <= sealed'[j]
    BY <1>1 DEF RowsSealed
  <2>1. rows[j][t] \in Int /\ rows[j][t] <= sealed[j]
    BY VersAreNumbers DEF TypeOK, RowsSealed
  <2> QED
    BY <2>1, <1>9, <1>11
<1>14. Told(L, L, Base(r), r.at, r.got)
  BY <1>1 DEF RunOK
<1>15. Told(L, L, Base(r), v, s.got)
  <2>1. \A e \in Past(Upto(L, v), Base(r)) :
          e \in Past(Upto(L, r.at), Base(r)) \/ e \in Past(Upto(L, v), r.at)
    BY <1>2, <1>4 DEF Past, Upto
  <2>2. Past(Upto(L, r.at), Base(r)) \subseteq Past(Upto(L, v), Base(r))
    BY <1>2, <1>4, <1>5 DEF Past, Upto
  <2>3. Past(Upto(L, v), r.at) \subseteq Past(Upto(L, v), Base(r))
    <3>1. Base(r) <= r.at
      BY <1>1 DEF RunOK
    <3> QED
      BY <3>1, <1>2, <1>4 DEF Past, Upto
  <2>4. s.got \subseteq Past(Upto(L, v), Base(r))
    BY <2>2, <2>3, <1>7, <1>14 DEF Told
  <2> SUFFICES ASSUME NEW e \in Past(Upto(L, v), Base(r)) \ s.got
               PROVE  /\ About(Upto(L, Base(r)), e.txn) = {}
                      /\ Removes(L, e.txn)
                      /\ \A f \in About(s.got, e.txn) : e.ver < f.ver
    BY <2>4 DEF Told
  <2>5. CASE e \in Past(Upto(L, r.at), Base(r))
    <3>1. e \notin r.got
      BY <1>7
    <3>2. /\ About(Upto(L, Base(r)), e.txn) = {}
          /\ Removes(L, e.txn)
          /\ \A f \in About(r.got, e.txn) : e.ver < f.ver
      BY <2>5, <3>1, <1>14 DEF Told
    <3>3. \A f \in page : e.ver < f.ver
      BY <2>5, <1>2, <1>4 DEF Past, Upto
    <3> QED
      BY <3>2, <3>3, <1>7 DEF About
  <2>6. CASE e \in Past(Upto(L, v), r.at)
    <3>1. e \notin page
      BY <1>7
    <3>2. e.txn \in Gone(L, r.at)
      BY <2>6, <3>1, <1>3 DEF Untold
    <3>3. About(Upto(L, r.at), e.txn) = {} /\ Removes(L, e.txn)
      BY <3>2 DEF Gone
    <3>4. About(Upto(L, Base(r)), e.txn) = {}
      <4>1. Base(r) <= r.at
        BY <1>1 DEF RunOK
      <4> QED
        BY <3>3, <4>1, <1>2, <1>4 DEF About, Upto
    <3>5. \A f \in r.got : f.txn # e.txn
      BY <3>3, <1>14 DEF Told, About, Past
    <3>6. \A f \in page : f.txn # e.txn
      BY <2>6, <3>1
    <3> QED
      BY <3>3, <3>4, <3>5, <3>6, <1>7 DEF About
  <2> QED
    BY <2>1, <2>5, <2>6
<1>16. Base(s) = Base(r) /\ Base(r) <= v
  <2>1. Base(r) <= r.at
    BY <1>1 DEF RunOK
  <2> QED
    BY <2>1, <1>2, <1>5, <1>7 DEF Base
<1>17. RunOK(run[p])'
  <2>1. \A j \in Items : s.snap[j] <= sealed'[j]
    <3> SUFFICES ASSUME NEW j \in Items PROVE r.snap[j] <= sealed'[j]
      BY <1>7
    <3>1. r.snap[j] \in Int /\ r.snap[j] <= sealed[j]
      BY <1>1, VersAreNumbers DEF Run, RunOK
    <3> QED
      BY <3>1, <1>9, <1>11
  <2>2. CASE hasMore
    <3>1. s.pages # 0
      BY <1>1, <1>7, PipelineAssumption DEF Run
    <3> QED
      BY <2>1, <2>2, <3>1, <1>1, <1>2, <1>5, <1>7, <1>15, <1>16 DEF RunOK, Base
  <2>3. CASE ~ hasMore
    <3>1. Upto(L, v) = L
      BY <2>3, <1>3, <1>4, <1>5 DEF Past, Upto
    <3>2. v = NoCursor => s.got = {}
      <4> SUFFICES ASSUME v = NoCursor, NEW e \in s.got PROVE FALSE
        OBVIOUS
      <4>1. e \in L /\ e.ver <= NoCursor
        BY <1>15 DEF Told, Past, Upto
      <4> QED
        BY <4>1, <1>4 DEF Entry, NoCursor
    <3> QED
      BY <2>1, <2>3, <3>1, <3>2, <1>1, <1>2, <1>7, <1>9, <1>15, <1>16 DEF RunOK, Base
  <2> QED
    BY <2>2, <2>3
<1>18. RunsOK'
  <2> SUFFICES ASSUME NEW q \in Procs, q # p PROVE RunOK(run[q])'
    BY <1>17 DEF RunsOK
  <2> DEFINE o == run[q]
  <2>1. run'[q] = o /\ RunOK(o) /\ o \in Run
    BY <1>6 DEF RunsOK, TypeOK
  <2>2. \A j \in Items : o.snap[j] <= sealed'[j]
    <3> SUFFICES ASSUME NEW j \in Items PROVE o.snap[j] <= sealed'[j]
      OBVIOUS
    <3>1. o.snap[j] \in Int /\ o.snap[j] <= sealed[j]
      BY <2>1, VersAreNumbers DEF Run, RunOK
    <3> QED
      BY <3>1, <1>9, <1>11
  <2>3. o.pc = "write" /\ o.at # NoCursor => o.at <= sealed'[o.cur]
    <3> SUFFICES ASSUME o.pc = "write", o.at # NoCursor PROVE o.at <= sealed'[o.cur]
      OBVIOUS
    <3>1. o.cur \in Items /\ o.at <= sealed[o.cur] /\ o.at \in Int
      BY <2>1, RunBounds DEF RunOK
    <3> QED
      BY <3>1, <1>9, <1>11
  <2> QED
    BY <2>1, <2>2, <2>3, <1>1 DEF RunOK, Base
<1>19. ExactUnlessRaced' /\ NoPhantomRows' /\ UnlinkedLeavesNothing' /\ ResetsOK'
  BY <1>1 DEF ExactUnlessRaced, NoPhantomRows, UnlinkedLeavesNothing, Present, ResetsOK
<1> QED
  BY <1>10, <1>12, <1>13, <1>18, <1>19

(***************************************************************************)
(* The rows a commit writes come from the batch or were there before.      *)
(***************************************************************************)
LEMMA WrittenRow ==
  ASSUME NEW got, got \subseteq Entry, NEW table \in [Txns -> Vers], NEW t \in Txns,
         Written(table, got)[t] # NoRow, Written(table, got)[t] # table[t]
  PROVE  \E e \in About(got, t) : e.ver = Written(table, got)[t] /\ e.op # "removed"
<1>1. /\ ~ Removes(got, t) /\ t \in Upserts(got)
      /\ Written(table, got)[t] = Dedupe(got, t)
  BY DEF Written
<1> DEFINE modified == Positions(Named(About(got, t), "modified"))
           added    == Positions(Named(About(got, t), "added"))
<1>2. modified \subseteq Vers /\ added \subseteq Vers
  BY LedgerAssumption DEF Positions, Named, About, Entry, Vers
<1>3. CASE modified # {}
  <2>1. Dedupe(got, t) \in modified
    BY <1>2, <1>3, LatestIsLargest DEF Dedupe
  <2> QED
    BY <1>1, <2>1 DEF Positions, Named
<1>4. CASE modified = {}
  <2>1. added # {}
    BY <1>1, <1>4 DEF Upserts, Positions, Named, About
  <2>2. Dedupe(got, t) \in added
    BY <1>2, <1>4, <2>1, LatestIsLargest DEF Dedupe
  <2> QED
    BY <1>1, <2>2 DEF Positions, Named
<1> QED
  BY <1>3, <1>4

(***************************************************************************)
(* A table written is a table.                                             *)
(***************************************************************************)
LEMMA WrittenType ==
  ASSUME NEW got, got \subseteq Entry, NEW table \in [Txns -> Vers]
  PROVE  Written(table, got) \in [Txns -> Vers]
<1> SUFFICES ASSUME NEW t \in Txns PROVE Written(table, got)[t] \in Vers
  BY DEF Written
<1>1. CASE Written(table, got)[t] = NoRow \/ Written(table, got)[t] = table[t]
  BY <1>1, LedgerAssumption DEF NoRow, Vers
<1>2. CASE Written(table, got)[t] # NoRow /\ Written(table, got)[t] # table[t]
  <2>1. PICK e \in About(got, t) : e.ver = Written(table, got)[t]
    BY <1>2, WrittenRow
  <2> QED
    BY <2>1, LedgerAssumption DEF About, Entry, Vers
<1> QED
  BY <1>1, <1>2

(***************************************************************************)
(* A reset that sees others commit rows, of banks it has missed by then,   *)
(* stays in order.                                                         *)
(***************************************************************************)
LEMMA WitnessIsOK ==
  ASSUME NEW r \in Reset, ResetOK(r, rows), NEW i \in Items \union {NoItem}, NEW new \in BOOLEAN,
         new => i \in Items,
         \A j \in Items, t \in Txns : rows'[j][t] # NoRow /\ rows[j][t] = NoRow => new /\ j = i
  PROVE  Witness(r, i, new) \in Reset /\ ResetOK(Witness(r, i, new), rows')
<1>1. CASE r.pc = "idle"
  BY <1>1 DEF Witness, ResetOK
<1>2. CASE r.pc # "idle"
  <2> DEFINE w == Witness(r, i, new)
  <2>1. /\ w.pc = r.pc /\ w.banks = r.banks
        /\ w.saw = [j \in Items |-> {t \in r.saw[j] : rows'[j][t] # NoRow}]
        /\ w.missed = IF new THEN r.missed \union {i} ELSE r.missed
    BY <1>2 DEF Witness, Reset
  <2>2. w.missed \in SUBSET Items /\ w.saw \in [Items -> SUBSET Txns]
    BY <2>1 DEF Reset
  <2>3. w \in Reset
    BY <1>2, <2>1, <2>2 DEF Witness, Reset
  <2> HIDE DEF w
  <2>4. ASSUME NEW j \in Items
        PROVE  /\ \A t \in w.saw[j] : rows'[j][t] # NoRow
               /\ j \notin w.missed => \A t \in Txns : rows'[j][t] # NoRow => t \in w.saw[j]
               /\ w.pc = "update" /\ j \notin w.banks => w.saw[j] = {}
    <3>1. /\ j \notin r.missed => \A t \in Txns : rows[j][t] # NoRow => t \in r.saw[j]
          /\ r.pc = "update" /\ j \notin r.banks => r.saw[j] = {}
      BY <1>2 DEF ResetOK
    <3> QED
      BY <2>1, <3>1
  <2>5. ResetOK(w, rows')
    BY <2>4 DEF ResetOK
  <2> QED
    BY <2>3, <2>5 DEF w
<1> QED
  BY <1>1, <1>2

(***************************************************************************)
(* A batch lands: on the cursor it was pulled from it moves the table to   *)
(* the view at its checkpoint, on any other cursor the bank is raced.      *)
(***************************************************************************)
LEMMA CommitStep ==
  ASSUME IInv, NEW p \in Procs, Commit(p)
  PROVE  IInv'
<1> USE DEF IInv
<1> DEFINE r == run[p]
           i == r.cur
           L == log[i]
<1>1. /\ r \in Run /\ RunOK(r) /\ r.pc = "write" /\ Accepted(i, r.got)
      /\ rows' = [rows EXCEPT ![i] = Written(@, r.got)]
      /\ SetItemCursor(i, r.at)
      /\ run' = [run EXCEPT ![p] = Between(r)]
      /\ raced' = IF Present(i) /\ r.at # NoCursor /\ cursor[i] # Base(r)
                    THEN raced \union {i}
                    ELSE raced
      /\ reset' = [k \in Resets |-> Witness(reset[k], i, Upserts(r.got) # {})]
      /\ UNCHANGED <<log, clock, sealed, status>>
  BY DEF Commit, TypeOK, RunsOK, plaidVars
<1>2. /\ i \in Items /\ Base(r) \in Vers /\ Base(r) \in Int /\ r.at \in Vers
      /\ r.at \in Int /\ Base(r) <= sealed[i]
  BY <1>1, RunBounds
<1>3. r.got \subseteq Entry
  BY <1>1 DEF Run
<1>4. L \subseteq Entry /\ WellFormed(L) /\ rows[i] \in [Txns -> Vers]
  BY <1>2 DEF TypeOK, PlaidOK
<1>5. /\ rows'[i] = Written(rows[i], r.got)
      /\ \A j \in Items \ {i} : rows'[j] = rows[j] /\ cursor'[j] = cursor[j]
      /\ cursor'[i] = IF Present(i) /\ r.at # NoCursor THEN r.at ELSE cursor[i]
  BY <1>1, <1>2 DEF TypeOK, SetItemCursor
<1>6. r.at # NoCursor =>
        /\ Base(r) <= r.at /\ r.at <= sealed[i]
        /\ Told(L, Upto(L, r.at), Base(r), r.at, r.got)
  BY <1>1 DEF RunOK
<1>7. r.at = NoCursor => r.got = {}
  BY <1>1 DEF RunOK
<1>8. \A T \in [Txns -> Vers] : Upserts({}) = {} /\ Written(T, {}) = T
  BY DEF Written, Upserts, Removes, Named, About
<1>9. r.got \subseteq L /\ \A e \in r.got : e.ver <= sealed[i]
  <2>1. CASE r.at = NoCursor
    BY <2>1, <1>7
  <2>2. CASE r.at # NoCursor
    <3>1. \A e \in r.got : e \in L /\ e.ver <= r.at
      BY <2>2, <1>6 DEF Told, Past, Upto
    <3>2. \A e \in L : e.ver \in Int
      BY <1>4 DEF Entry
    <3>3. sealed[i] \in Int /\ r.at <= sealed[i]
      BY <2>2, <1>2, <1>6, CursorBounds
    <3> QED
      BY <3>1, <3>2, <3>3, <1>2
  <2> QED
    BY <2>1, <2>2
<1>10. \A j \in Items : /\ cursor'[j] \in Vers /\ cursor'[j] <= sealed[j]
                        /\ sealed[j] <= clock[j]
  <2> SUFFICES ASSUME NEW j \in Items
               PROVE  cursor'[j] \in Vers /\ cursor'[j] <= sealed[j] /\ sealed[j] <= clock[j]
    OBVIOUS
  <2>1. CASE j = i /\ Present(i) /\ r.at # NoCursor
    BY <2>1, <1>2, <1>5, <1>6, CursorBounds
  <2>2. CASE ~ (j = i /\ Present(i) /\ r.at # NoCursor)
    BY <2>2, <1>5, CursorBounds
  <2> QED
    BY <2>1, <2>2
<1>11. Between(r) \in Run /\ RunOK(Between(r))
  BY <1>1, BetweenIsOK DEF RunOK
<1>18. ASSUME NEW k \in Resets PROVE reset'[k] \in Reset /\ ResetOK(reset'[k], rows')
  <2>1. reset[k] \in Reset /\ ResetOK(reset[k], rows)
    BY DEF ResetsOK, TypeOK
  <2>2. ASSUME NEW j \in Items, NEW t \in Txns, rows'[j][t] # NoRow, rows[j][t] = NoRow
        PROVE  Upserts(r.got) # {} /\ j = i
    BY <2>2, <1>5 DEF Written
  <2> DEFINE new == Upserts(r.got) # {}
  <2>3. reset'[k] = Witness(reset[k], i, new)
    BY <1>1
  <2>4. Witness(reset[k], i, new) \in Reset /\ ResetOK(Witness(reset[k], i, new), rows')
    <3>1. new \in BOOLEAN /\ \A j \in Items, t \in Txns :
             rows'[j][t] # NoRow /\ rows[j][t] = NoRow => new /\ j = i
      BY <2>2
    <3> HIDE DEF new
    <3> QED
      BY <1>2, <2>1, <3>1, WitnessIsOK
  <2> QED
    BY <2>3, <2>4
<1>12. TypeOK'
  <2>4. reset' \in [Resets -> Reset]
    BY <1>1, <1>18
  <2>1. cursor' \in [Items -> Vers]
    BY <1>1, <1>2, <1>10 DEF SetItemCursor, TypeOK
  <2>2. rows' \in [Items -> [Txns -> Vers]]
    BY <1>1, <1>3, <1>4, <1>5, WrittenType DEF TypeOK
  <2>3. raced' \in SUBSET Items
    BY <1>1, <1>2 DEF TypeOK
  <2> QED
    BY <1>1, <1>11, <2>1, <2>2, <2>3, <2>4 DEF TypeOK
<1>13. PlaidOK'
  BY <1>1, <1>10 DEF PlaidOK
<1>14. RunsOK'
  <2> SUFFICES ASSUME NEW q \in Procs PROVE RunOK(run[q])'
    BY DEF RunsOK
  <2>1. RunOK(run'[q])
    BY <1>1, <1>11 DEF RunsOK, TypeOK
  <2> QED
    BY <2>1, <1>1 DEF RunOK, Base
<1>15. RowsSealed' /\ NoPhantomRows'
  <2> SUFFICES ASSUME NEW j \in Items, NEW t \in Txns
               PROVE  /\ rows'[j][t] <= sealed[j]
                      /\ rows'[j][t] # NoRow =>
                           \E e \in About(log[j], t) : e.ver = rows'[j][t] /\ e.op # "removed"
    BY <1>1 DEF RowsSealed, NoPhantomRows
  <2>1. CASE rows'[j][t] = rows[j][t]
    BY <2>1 DEF RowsSealed, NoPhantomRows
  <2>2. CASE rows'[j][t] = NoRow
    BY <2>2, CursorBounds, LedgerAssumption DEF NoRow, Vers
  <2>3. CASE rows'[j][t] # NoRow /\ rows'[j][t] # rows[j][t]
    <3>1. j = i
      BY <2>3, <1>5
    <3>2. PICK e \in About(r.got, t) : e.ver = rows'[i][t] /\ e.op # "removed"
      BY <2>3, <3>1, <1>3, <1>4, <1>5, WrittenRow
    <3> QED
      BY <3>1, <3>2, <1>9 DEF About
  <2> QED
    BY <2>1, <2>2, <2>3
<1>16. ExactUnlessRaced'
  <2> SUFFICES ASSUME NEW j \in Items \ raced'
               PROVE  rows'[j] = View(log[j], cursor'[j])
    BY <1>1 DEF ExactUnlessRaced
  <2>1. j \notin raced /\ rows[j] = View(log[j], cursor[j])
    BY <1>1 DEF ExactUnlessRaced
  <2>2. CASE j # i
    BY <2>1, <2>2, <1>5
  <2>3. CASE j = i /\ r.at = NoCursor
    <3>1. rows'[i] = rows[i] /\ cursor'[i] = cursor[i]
      BY <2>3, <1>4, <1>5, <1>7, <1>8
    <3> QED
      BY <2>1, <2>3, <3>1
  <2>4. CASE j = i /\ r.at # NoCursor /\ ~ Present(i)
    <3>1. rows[i] = EmptyTable /\ cursor'[i] = cursor[i] /\ Upserts(r.got) = {}
      BY <2>4, <1>1, <1>2, <1>5 DEF UnlinkedLeavesNothing, Accepted
    <3>2. Written(EmptyTable, r.got) = EmptyTable
      BY <3>1 DEF Written, EmptyTable
    <3> QED
      BY <2>1, <2>4, <3>1, <3>2, <1>5
  <2>5. CASE j = i /\ r.at # NoCursor /\ Present(i)
    <3>1. cursor[i] = Base(r)
      BY <2>5, <1>1
    <3>2. Written(View(L, Base(r)), r.got) = View(L, r.at)
      BY <2>5, <1>2, <1>4, <1>6, WrittenIsView
    <3> QED
      BY <2>1, <2>5, <3>1, <3>2, <1>5
  <2> QED
    BY <2>2, <2>3, <2>4, <2>5
<1>17. UnlinkedLeavesNothing'
  <2> SUFFICES ASSUME NEW j \in Items, ~ Present(j)
               PROVE  rows'[j] = EmptyTable /\ cursor'[j] = NoCursor
    BY <1>1 DEF UnlinkedLeavesNothing, Present
  <2>1. rows[j] = EmptyTable /\ cursor[j] = NoCursor
    BY DEF UnlinkedLeavesNothing
  <2>2. CASE j # i
    BY <2>1, <2>2, <1>5
  <2>3. CASE j = i
    <3>1. Upserts(r.got) = {}
      BY <2>3, <1>1 DEF Accepted
    <3>2. Written(EmptyTable, r.got) = EmptyTable
      BY <3>1 DEF Written, EmptyTable
    <3> QED
      BY <2>1, <2>3, <3>2, <1>5
  <2> QED
    BY <2>2, <2>3
<1>19. ResetsOK'
  BY <1>18 DEF ResetsOK
<1> QED
  BY <1>12, <1>13, <1>14, <1>15, <1>16, <1>17, <1>19

(***************************************************************************)
(* Rows go, and the cursors of banks that are empty then: they are what    *)
(* Plaid said up to no cursor at all.                                      *)
(***************************************************************************)
LEMMA RowsGo ==
  ASSUME IInv, UNCHANGED <<log, clock, sealed, run>>,
         status' \in [Items -> Statuses], rows' \in [Items -> [Txns -> Vers]],
         cursor' \in [Items -> Vers], raced' \in SUBSET Items,
         reset' \in [Resets -> Reset], ResetsOK',
         \A i \in Items, t \in Txns : rows'[i][t] \in {rows[i][t], NoRow},
         \A i \in Items : cursor'[i] \in {cursor[i], NoCursor},
         \A i \in Items \ raced' :
           \/ rows'[i] = EmptyTable /\ cursor'[i] = NoCursor
           \/ rows'[i] = rows[i] /\ cursor'[i] = cursor[i] /\ i \notin raced,
         \A i \in Items : status'[i] = "absent" =>
           \/ status[i] = "absent"
           \/ rows'[i] = EmptyTable /\ cursor'[i] = NoCursor
  PROVE  IInv'
<1> USE DEF IInv
<1>1. TypeOK'
  BY DEF TypeOK
<1>2. \A i \in Items : NoCursor <= sealed[i] /\ NoRow <= sealed[i]
  BY CursorBounds, LedgerAssumption DEF NoCursor, NoRow, Vers
<1>3. PlaidOK' /\ RowsSealed' /\ NoPhantomRows'
  <2>1. PlaidOK'
    BY <1>2 DEF PlaidOK
  <2>2. RowsSealed'
    BY <1>2 DEF RowsSealed
  <2>3. NoPhantomRows'
    BY DEF NoPhantomRows
  <2> QED
    BY <2>1, <2>2, <2>3
<1>4. RunsOK'
  BY DEF RunsOK, RunOK, Base
<1>5. ExactUnlessRaced'
  <2>1. \A i \in Items : View(log[i], NoCursor) = EmptyTable
    BY ViewAtNoCursor DEF TypeOK
  <2> QED
    BY <2>1 DEF ExactUnlessRaced
<1>6. UnlinkedLeavesNothing'
  <2> SUFFICES ASSUME NEW i \in Items, status'[i] = "absent"
               PROVE  rows'[i] = EmptyTable /\ cursor'[i] = NoCursor
    BY DEF UnlinkedLeavesNothing, Present
  <2>1. CASE status[i] = "absent"
    <3>1. rows[i] = EmptyTable /\ cursor[i] = NoCursor
      BY <2>1 DEF UnlinkedLeavesNothing, Present
    <3>2. \A t \in Txns : rows'[i][t] = NoRow
      BY <3>1 DEF EmptyTable
    <3>3. rows'[i] = EmptyTable
      BY <3>2 DEF EmptyTable
    <3> QED
      BY <3>1, <3>3
  <2> QED
    BY <2>1
<1> QED
  BY <1>1, <1>3, <1>4, <1>5, <1>6

(***************************************************************************)
(* A bank that is unlinked has nothing left, and a reset under way neither *)
(* sees nor clears any of it.                                              *)
(***************************************************************************)
LEMMA UnlinkStep ==
  ASSUME IInv, NEW S \in SUBSET Items, Unlink(S)
  PROVE  IInv'
<1>1. TypeOK /\ ResetsOK /\ EmptyTable \in [Txns -> Vers] /\ NoCursor \in Vers /\ "absent" \in Statuses
  BY LedgerAssumption DEF IInv, EmptyTable, NoRow, NoCursor, Vers, Statuses
<1>2. /\ status' = [i \in Items |-> IF i \in S THEN "absent"   ELSE status[i]]
      /\ cursor' = [i \in Items |-> IF i \in S THEN NoCursor   ELSE cursor[i]]
      /\ rows'   = [i \in Items |-> IF i \in S THEN EmptyTable ELSE rows[i]]
      /\ raced'  = raced \ S /\ UNCHANGED <<log, clock, sealed, run>>
  BY DEF Unlink, plaidVars
<1>3. /\ status' \in [Items -> Statuses] /\ cursor' \in [Items -> Vers]
      /\ rows' \in [Items -> [Txns -> Vers]] /\ raced' \in SUBSET Items
  BY <1>1, <1>2 DEF TypeOK
<1>4. ASSUME NEW k \in Resets PROVE reset'[k] \in Reset /\ ResetOK(reset'[k], rows')
  <2> DEFINE r == reset[k]
             w == reset'[k]
  <2>1. r \in Reset /\ ResetOK(r, rows)
    BY <1>1 DEF TypeOK, ResetsOK
  <2>2. w = [r EXCEPT !.saw    = [i \in Items |-> IF i \in S THEN {} ELSE r.saw[i]],
                      !.banks  = @ \ S,
                      !.missed = @ \ S]
    BY DEF Unlink
  <2>3. /\ w.pc = r.pc /\ w.banks = r.banks \ S /\ w.missed = r.missed \ S
        /\ w.saw = [i \in Items |-> IF i \in S THEN {} ELSE r.saw[i]]
    BY <2>1, <2>2 DEF Reset
  <2>4. w.saw \in [Items -> SUBSET Txns] /\ w.missed \in SUBSET Items /\ w.banks \in SUBSET Items
    BY <2>1, <2>3 DEF Reset
  <2>5. w \in Reset
    BY <2>1, <2>2, <2>4 DEF Reset
  <2> HIDE DEF w
  <2>6. ResetOK(w, rows')
    BY <1>2, <2>1, <2>3 DEF ResetOK, EmptyTable
  <2> QED
    BY <2>5, <2>6 DEF w
<1>5. reset' \in [Resets -> Reset] /\ ResetsOK'
  <2>1. DOMAIN reset' = Resets /\ reset' = [k \in Resets |-> reset'[k]]
    BY DEF Unlink
  <2> QED
    BY <1>4, <2>1 DEF ResetsOK
<1>6. \A i \in Items, t \in Txns : rows'[i][t] \in {rows[i][t], NoRow}
  BY <1>2 DEF EmptyTable
<1> QED
  BY <1>2, <1>3, <1>5, <1>6, RowsGo DEF IInv, ExactUnlessRaced

(***************************************************************************)
(* Until it commits a reset only looks.                                    *)
(***************************************************************************)
LEMMA ResetLooks ==
  ASSUME IInv, NEW k \in Resets, ResetDeletes(k) \/ ResetUpdates(k) \/ ResetFails(k)
  PROVE  IInv'
<1>1. TypeOK /\ ResetsOK /\ IdleReset \in Reset /\ reset[k] \in Reset /\ ResetOK(reset[k], rows)
  BY DEF IInv, TypeOK, ResetsOK, IdleReset, Reset
<1>2. UNCHANGED <<log, clock, sealed, status, cursor, rows, run, raced>>
  BY DEF ResetDeletes, ResetUpdates, ResetFails, plaidVars
<1>3. PICK w \in Reset : reset' = [reset EXCEPT ![k] = w] /\ ResetOK(w, rows)
  <2>1. CASE ResetDeletes(k)
    <3> DEFINE w == [IdleReset EXCEPT !.pc  = "delete",
                         !.saw = [i \in Items |-> {t \in Txns : rows[i][t] # NoRow}]]
    <3>1. w \in Reset /\ w.pc = "delete" /\ w.saw = [i \in Items |-> {t \in Txns : rows[i][t] # NoRow}]
      BY DEF IdleReset, Reset
    <3>2. ResetOK(w, rows)
      BY <3>1 DEF ResetOK
    <3> QED
      BY <2>1, <3>1, <3>2 DEF ResetDeletes
  <2>2. CASE ResetUpdates(k)
    <3> DEFINE r == reset[k]
               w == [r EXCEPT !.pc = "update", !.banks = {i \in Items : Present(i)}]
    <3>1. w \in Reset /\ w.saw = r.saw /\ w.missed = r.missed /\ w.pc = "update"
          /\ w.banks = {i \in Items : Present(i)}
      BY <1>1 DEF Reset
    <3>2. r.pc = "delete" /\ reset' = [reset EXCEPT ![k] = w]
      BY <1>1, <2>2 DEF ResetUpdates, TypeOK
    <3>3. ASSUME NEW i \in Items, ~ Present(i) PROVE r.saw[i] = {}
      <4>1. \A t \in Txns : rows[i][t] = NoRow
        BY <3>3 DEF IInv, UnlinkedLeavesNothing, EmptyTable
      <4>2. r.saw[i] \subseteq Txns /\ \A t \in r.saw[i] : rows[i][t] # NoRow
        BY <1>1, <3>2 DEF ResetOK, Reset
      <4> QED
        BY <4>1, <4>2
    <3>4. ResetOK(w, rows)
      <4> HIDE DEF w
      <4> QED
        BY <1>1, <3>1, <3>2, <3>3 DEF ResetOK
    <3> QED
      BY <3>1, <3>2, <3>4
  <2>3. CASE ResetFails(k)
    <3>1. ResetOK(IdleReset, rows)
      BY DEF ResetOK, IdleReset
    <3> QED
      BY <1>1, <2>3, <3>1 DEF ResetFails
  <2> QED
    BY <2>1, <2>2, <2>3
<1>4. reset' \in [Resets -> Reset] /\ ResetsOK'
  BY <1>1, <1>2, <1>3 DEF TypeOK, ResetsOK
<1>5. TypeOK' /\ PlaidOK' /\ RunsOK'
  BY <1>2, <1>4 DEF IInv, TypeOK, PlaidOK, RunsOK, RunOK, Base
<1> QED
  BY <1>2, <1>4, <1>5 DEF IInv, RowsSealed, ExactUnlessRaced, NoPhantomRows,
     UnlinkedLeavesNothing, Present

(***************************************************************************)
(* When it commits, the rows it saw and the cursors it found go at once.   *)
(* What is left of a bank was committed meanwhile, and the bank is raced.  *)
(***************************************************************************)
LEMMA ResetStep ==
  ASSUME IInv, NEW k \in Resets, ResetCommits(k)
  PROVE  IInv'
<1> DEFINE r == reset[k]
<1>1. TypeOK /\ ResetsOK /\ r \in Reset /\ ResetOK(r, rows) /\ r.pc = "update"
  BY DEF IInv, TypeOK, ResetsOK, ResetCommits
<1>2. /\ rows' = [i \in Items |-> [t \in Txns |-> IF t \in r.saw[i] THEN NoRow ELSE rows[i][t]]]
      /\ cursor' = [i \in Items |-> IF i \in r.banks THEN NoCursor ELSE cursor[i]]
      /\ raced' = (raced \ r.banks) \union (r.banks \intersect r.missed)
      /\ reset' = [j \in Resets |-> IF j = k THEN IdleReset ELSE Witness(reset[j], NoItem, FALSE)]
      /\ UNCHANGED <<log, clock, sealed, status, run>>
  BY DEF ResetCommits, RowsAfter, CursorsAfter, plaidVars
<1>3. NoRow \in Vers /\ NoCursor \in Vers
  BY LedgerAssumption DEF NoRow, NoCursor, Vers
<1>4. /\ status' \in [Items -> Statuses] /\ cursor' \in [Items -> Vers]
      /\ rows' \in [Items -> [Txns -> Vers]] /\ raced' \in SUBSET Items
  BY <1>1, <1>2, <1>3 DEF TypeOK, Reset
<1>5. \A i \in Items, t \in Txns : rows'[i][t] \in {rows[i][t], NoRow}
  BY <1>2
<1>6. ASSUME NEW j \in Resets PROVE reset'[j] \in Reset /\ ResetOK(reset'[j], rows')
  <2>1. CASE j = k
    BY <1>2, <2>1 DEF IdleReset, Reset, ResetOK
  <2>2. CASE j # k
    <3>1. reset[j] \in Reset /\ ResetOK(reset[j], rows)
      BY <1>1 DEF TypeOK, ResetsOK
    <3>2. Witness(reset[j], NoItem, FALSE) \in Reset /\ ResetOK(Witness(reset[j], NoItem, FALSE), rows')
      BY <1>5, <3>1, WitnessIsOK
    <3> QED
      BY <1>2, <2>2, <3>2
  <2> QED
    BY <2>1, <2>2
<1>7. reset' \in [Resets -> Reset] /\ ResetsOK'
  BY <1>2, <1>6 DEF ResetsOK
<1>8. ASSUME NEW i \in Items, i \in r.banks, i \notin r.missed
      PROVE  rows'[i] = EmptyTable /\ cursor'[i] = NoCursor
  <2>1. \A t \in Txns : rows[i][t] # NoRow => t \in r.saw[i]
    BY <1>1, <1>8 DEF ResetOK
  <2> QED
    BY <1>2, <1>8, <2>1 DEF EmptyTable
<1>9. ASSUME NEW i \in Items, i \notin r.banks
      PROVE  rows'[i] = rows[i] /\ cursor'[i] = cursor[i]
  <2>1. r.saw[i] = {}
    BY <1>1, <1>9 DEF ResetOK
  <2>2. rows[i] \in [Txns -> Vers]
    BY <1>1 DEF TypeOK
  <2> QED
    BY <1>2, <1>9, <2>1, <2>2
<1>10. \A i \in Items \ raced' :
         \/ rows'[i] = EmptyTable /\ cursor'[i] = NoCursor
         \/ rows'[i] = rows[i] /\ cursor'[i] = cursor[i] /\ i \notin raced
  BY <1>2, <1>8, <1>9
<1>11. \A i \in Items : cursor'[i] \in {cursor[i], NoCursor}
  BY <1>2
<1> QED
  BY <1>2, <1>4, <1>5, <1>7, <1>10, <1>11, RowsGo

(***************************************************************************)
(* A status changes, and the bank stays present or becomes so.             *)
(***************************************************************************)
LEMMA StatusStep ==
  ASSUME IInv, UNCHANGED <<log, clock, sealed, cursor, rows, reset, raced>>,
         status' \in [Items -> Statuses],
         \A i \in Items : status'[i] = "absent" => status[i] = "absent",
         RunsOK', run' \in [Procs -> Run]
  PROVE  IInv'
<1> USE DEF IInv
<1>1. TypeOK'
  BY DEF TypeOK
<1>2. PlaidOK' /\ RowsSealed' /\ ExactUnlessRaced' /\ NoPhantomRows'
  BY DEF PlaidOK, RowsSealed, ExactUnlessRaced, NoPhantomRows
<1>3. UnlinkedLeavesNothing' /\ ResetsOK'
  BY DEF UnlinkedLeavesNothing, Present, ResetsOK
<1> QED
  BY <1>1, <1>2, <1>3

-------------------------------------------------------------------------------
(* Every step keeps the invariant. *)

LEMMA RunStays ==
  ASSUME IInv, UNCHANGED <<log, clock, sealed, run>>
  PROVE  RunsOK' /\ run' \in [Procs -> Run]
BY DEF IInv, TypeOK, RunsOK, RunOK, Base

LEMMA SyncStep ==
  ASSUME IInv, NEW p \in Procs, SyncNext(p)
  PROVE  IInv'
<1> DEFINE r == run[p]
<1>1. /\ TypeOK /\ PlaidOK /\ r \in Run /\ RunOK(r)
      /\ \A i \in Items : r.snap[i] <= sealed[i]
  BY DEF IInv, TypeOK, RunsOK, RunOK
<1>2. /\ Between(r) \in Run /\ RunOK(Between(r))
      /\ IdleRun \in Run /\ RunOK(IdleRun)
  BY <1>1, BetweenIsOK
<1>3. CASE Start(p)
  <2> DEFINE s == [IdleRun EXCEPT !.pc   = "next",
                                  !.todo = {i \in Items : status[i] = "active"},
                                  !.snap = cursor]
  <2>1. s \in Run
    <3>1. "next" \in Phases /\ cursor \in [Items -> Vers]
      BY <1>1 DEF Phases, TypeOK
    <3> QED
      BY <3>1, <1>2 DEF Run
  <2>2. s.pc = "next" /\ s.snap = cursor
    BY <1>2 DEF Run, IdleRun
  <2>3. RunOK(s)
    BY <1>1, <2>2 DEF RunOK, PlaidOK
  <2> QED
    BY <1>3, <2>1, <2>3, RunStep DEF Start
<1>4. CASE BeginPull(p)
  <2>1. PICK i \in r.todo :
          run' = [run EXCEPT ![p] = Fresh([r EXCEPT !.todo = @ \ {i}], i, 0)]
    BY <1>4 DEF BeginPull
  <2> DEFINE o == [r EXCEPT !.todo = @ \ {i}]
  <2>2. o \in Run /\ o.snap = r.snap /\ i \in Items /\ 0 \in 0 .. MaxRestarts
    BY <1>1, PipelineAssumption DEF Run
  <2>3. Fresh(o, i, 0) \in Run /\ RunOK(Fresh(o, i, 0))
    BY <1>1, <2>2, FreshIsOK
  <2> QED
    BY <1>4, <2>1, <2>3, RunStep DEF BeginPull
<1>5. CASE Finish(p)
  BY <1>2, <1>5, RunStep DEF Finish
<1>6. CASE PageArrives(p)
  BY <1>6, PageStep
<1>7. CASE NotReady(p)
  <2> DEFINE s == [r EXCEPT !.pc = "write", !.at = NoCursor, !.pages = @ + 1]
  <2>1. r.pc = "pull" /\ r.pages < MaxPages /\ r.got = {} /\ run' = [run EXCEPT ![p] = s]
    BY <1>7 DEF NotReady
  <2>2. s \in Run
    <3>1. "write" \in Phases /\ NoCursor \in Vers /\ r.pages + 1 \in 0 .. MaxPages
      BY <1>1, <2>1, VersAreNumbers, PipelineAssumption DEF Phases, Run
    <3> QED
      BY <1>1, <3>1 DEF Run
  <2>3. s.pc = "write" /\ s.at = NoCursor /\ s.got = {} /\ s.snap = r.snap /\ s.cur = r.cur
    BY <1>1, <2>1 DEF Run
  <2>4. RunOK(s)
    BY <1>1, <2>1, <2>3 DEF RunOK, Base
  <2> QED
    BY <1>7, <2>1, <2>2, <2>4, RunStep DEF NotReady
<1>8. CASE RestartPull(p)
  <2>1. /\ r.pc = "pull" /\ r.attempt < MaxRestarts
        /\ run' = [run EXCEPT ![p] = Fresh(r, r.cur, r.attempt + 1)]
    BY <1>8, <1>1 DEF RestartPull, IInv, TypeOK
  <2>2. r.cur \in Items /\ r.attempt + 1 \in 0 .. MaxRestarts
    BY <1>1, <2>1, PipelineAssumption DEF RunOK, Run
  <2>3. Fresh(r, r.cur, r.attempt + 1) \in Run /\ RunOK(Fresh(r, r.cur, r.attempt + 1))
    BY <1>1, <2>2, FreshIsOK
  <2> QED
    BY <1>8, <2>1, <2>3, RunStep DEF RestartPull
<1>9. CASE PullFails(p) \/ MarkFails(p) \/ WriteFails(p)
  <2>1. run' = [run EXCEPT ![p] = Between(r)] /\ UNCHANGED <<plaidVars, dbVars, raced>>
    BY <1>9 DEF PullFails, MarkFails, WriteFails
  <2> QED
    BY <1>2, <2>1, RunStep
<1>10. CASE LoginExpired(p)
  <2> DEFINE s == [Between(r) EXCEPT !.pc = "mark", !.cur = r.cur]
  <2>1. run' = [run EXCEPT ![p] = s] /\ UNCHANGED <<plaidVars, dbVars, raced>> /\ r.pc = "pull"
    BY <1>10 DEF LoginExpired
  <2>2. r.cur \in Items
    BY <1>1, <2>1 DEF RunOK
  <2>3. s \in Run
    <3>1. "mark" \in Phases
      BY DEF Phases
    <3> QED
      BY <1>2, <2>2, <3>1 DEF Run
  <2>4. s.pc = "mark" /\ s.cur = r.cur /\ s.snap = r.snap
    BY <1>2 DEF Run, Between, IdleRun
  <2>5. RunOK(s)
    BY <1>1, <2>2, <2>4 DEF RunOK
  <2> QED
    BY <2>1, <2>3, <2>5, RunStep
<1>11. CASE MarkLoginRequired(p)
  <2>1. /\ run' = [run EXCEPT ![p] = Between(r)]
        /\ UNCHANGED <<log, clock, sealed, cursor, rows, reset, raced>>
        /\ status' = IF Present(r.cur) THEN [status EXCEPT ![r.cur] = "login_required"]
                                       ELSE status
    BY <1>11 DEF MarkLoginRequired, plaidVars
  <2>2. run' \in [Procs -> Run]
    BY <1>2, <2>1 DEF IInv, TypeOK
  <2>3. RunsOK'
    <3> SUFFICES ASSUME NEW q \in Procs PROVE RunOK(run[q])'
      BY DEF RunsOK
    <3>1. RunOK(run'[q])
      BY <1>2, <2>1 DEF IInv, RunsOK, TypeOK
    <3> QED
      BY <3>1, <2>1 DEF RunOK, Base
  <2>4. status' \in [Items -> Statuses] /\ \A i \in Items : status'[i] = "absent" => status[i] = "absent"
    <3>1. "login_required" \in Statuses /\ status \in [Items -> Statuses]
      BY <1>1 DEF Statuses, TypeOK
    <3> QED
      BY <2>1, <3>1
  <2> QED
    BY <2>1, <2>2, <2>3, <2>4, StatusStep
<1>12. CASE Commit(p)
  BY <1>12, CommitStep
<1>13. CASE Crash(p)
  BY <1>2, <1>13, RunStep DEF Crash
<1> QED
  BY <1>3, <1>4, <1>5, <1>6, <1>7, <1>8, <1>9, <1>10, <1>11, <1>12, <1>13 DEF SyncNext, Step

LEMMA UserStep ==
  ASSUME IInv, LinkNext \/ ClearNext
  PROVE  IInv'
<1>1. "active" \in Statuses /\ "absent" \in Statuses /\ status \in [Items -> Statuses]
  BY DEF IInv, TypeOK, Statuses
<1>2. CASE LinkNext
  <2>1. PICK i \in Items : /\ status' = [status EXCEPT ![i] = "active"]
                           /\ UNCHANGED <<log, clock, sealed, cursor, rows, reset, run, raced>>
    BY <1>2 DEF LinkNext, Link, Repair, plaidVars
  <2>2. \A j \in Items : status'[j] = "absent" => status[j] = "absent"
    BY <1>1, <2>1
  <2> QED
    BY <1>1, <2>1, <2>2, RunStays, StatusStep
<1>3. CASE ClearNext
  <2>1. ASSUME NEW k \in Resets, ResetSyncedData(k) PROVE IInv'
    BY <2>1, ResetLooks, ResetStep DEF ResetSyncedData
  <2>2. ASSUME NEW S \in SUBSET Items, Unlink(S) PROVE IInv'
    BY <2>2, UnlinkStep
  <2> QED
    BY <1>3, <2>1, <2>2 DEF ClearNext
<1> QED
  BY <1>2, <1>3

LEMMA NextOK == IInv /\ [Next]_vars => IInv'
<1> SUFFICES ASSUME IInv, [Next]_vars PROVE IInv'
  OBVIOUS
<1>1. CASE PlaidNext
  BY <1>1, ReportStep, RetractStep DEF PlaidNext
<1>2. CASE \E p \in Procs : SyncNext(p)
  BY <1>2, SyncStep
<1>3. CASE LinkNext \/ ClearNext
  BY <1>3, UserStep
<1>4. CASE UNCHANGED vars
  <2>1. TypeOK' /\ RunsOK'
    BY <1>4 DEF IInv, TypeOK, RunsOK, RunOK, Base, vars
  <2> QED
    BY <1>4, <2>1 DEF vars, IInv, PlaidOK, RowsSealed, ExactUnlessRaced, NoPhantomRows,
       UnlinkedLeavesNothing, Present, ResetsOK
<1> QED
  BY <1>1, <1>2, <1>3, <1>4 DEF Next

(***************************************************************************)
(* The invariant of the pipeline holds of every run, for any number of     *)
(* banks, processes, pages and restarts.                                   *)
(***************************************************************************)
THEOREM Invariance == Spec => []IInv
BY InitOK, NextOK, PTL DEF Spec

(***************************************************************************)
(* The variables of the pipeline keep their types.                         *)
(***************************************************************************)
THEOREM TypeCorrect == Spec => []TypeOK
<1>1. IInv => TypeOK
  BY DEF IInv
<1> QED
  BY <1>1, Invariance, PTL

(***************************************************************************)
(* Whatever the number of processes, banks, changes, pages and restarts,   *)
(* the table of a bank is its ledger up to the stored cursor unless a      *)
(* batch was written over a cursor it was not pulled from, or while a      *)
(* reset deleted.                                                          *)
(***************************************************************************)
THEOREM Exactness == Spec => []ExactUnlessRaced
<1>1. IInv => ExactUnlessRaced
  BY DEF IInv
<1> QED
  BY <1>1, Invariance, PTL

(***************************************************************************)
(* However runs overlap, no row shows what Plaid does not stand by.        *)
(***************************************************************************)
THEOREM NoPhantoms == Spec => []NoPhantomRows
<1>1. IInv => NoPhantomRows
  BY DEF IInv
<1> QED
  BY <1>1, Invariance, PTL

(***************************************************************************)
(* However runs, crashes and removals interleave, a bank that is not there *)
(* has neither rows nor a cursor: it is linked anew from the beginning.    *)
(***************************************************************************)
THEOREM NothingIsLeft == Spec => []UnlinkedLeavesNothing
<1>1. IInv => UnlinkedLeavesNothing
  BY DEF IInv
<1> QED
  BY <1>1, Invariance, PTL

(***************************************************************************)
(* Every batch about to be written with a checkpoint is complete.          *)
(***************************************************************************)
THEOREM BatchesComplete == Spec => []BatchComplete
<1>1. IInv => BatchComplete
  <2> SUFFICES ASSUME IInv, NEW p \in Procs, run[p].pc = "write", run[p].at # NoCursor
               PROVE  LET r == run[p]
                          L == log[r.cur]
                          gap == Past(Upto(L, r.at), Base(r))
                      IN  /\ r.got \subseteq gap
                          /\ \A e \in gap \ r.got : e.txn \in Gone(Upto(L, r.at), Base(r))
    BY DEF BatchComplete
  <2> DEFINE r == run[p]
             L == log[r.cur]
             gap == Past(Upto(L, r.at), Base(r))
  <2>1. /\ r \in Run /\ RunOK(r) /\ r.cur \in Items
        /\ Told(L, Upto(L, r.at), Base(r), r.at, r.got)
    BY DEF IInv, RunsOK, RunOK, TypeOK
  <2>2. L \subseteq Entry
    BY <2>1 DEF IInv, TypeOK
  <2>3. Upto(Upto(L, r.at), Base(r)) \subseteq Upto(L, Base(r))
    BY DEF Upto
  <2>4. ASSUME NEW e \in gap \ r.got PROVE e.txn \in Gone(Upto(L, r.at), Base(r))
    <3>1. About(Upto(L, Base(r)), e.txn) = {} /\ Removes(Upto(L, r.at), e.txn)
      BY <2>1 DEF Told
    <3>2. e.txn \in Txns
      BY <2>2 DEF Past, Upto, Entry
    <3> QED
      BY <3>1, <3>2, <2>3 DEF Gone, About
  <2> QED
    BY <2>1, <2>4 DEF Told
<1> QED
  BY <1>1, Invariance, PTL

-------------------------------------------------------------------------------
(***************************************************************************)
(* One sync at a time: the cursor never goes stale between the moment a    *)
(* run reads it and the moment it writes, so the claim of the stored       *)
(* cursor holds without condition and the pipeline implements Replica.     *)
(***************************************************************************)

(***************************************************************************)
(* A run that is under way is the only one, and the cursors it read of the *)
(* banks it has still to write are the stored ones.                        *)
(***************************************************************************)
FreshBase(p) ==
  LET r == run[p]
  IN  /\ r.cur \notin r.todo
      /\ \A i \in Items : i \in r.todo \/ i = r.cur => r.snap[i] = cursor[i]

Alone ==
  \A p \in Procs : run[p].pc # "idle" =>
    /\ Quiet(Procs \ {p})
    /\ FreshBase(p)

\* What a reset is among runs that are idle: it misses nothing.
ResetAlone ==
  \A k \in Resets : /\ reset[k].pc # "idle" => Quiet(Procs)
                    /\ reset[k].missed = {}

SInv == IInv /\ Alone /\ ResetAlone /\ NeverRaced

LEMMA SerialIsNext == SerialNext => Next
BY DEF SerialNext, Next

LEMMA SInitOK == Init => SInv
<1> SUFFICES ASSUME Init PROVE Alone /\ ResetAlone /\ NeverRaced
  BY InitOK DEF SInv
<1> QED
  BY DEF Init, Alone, ResetAlone, NeverRaced, IdleRun, IdleReset, Quiet

(***************************************************************************)
(* A step that leaves the cursors alone and lets each run keep the banks   *)
(* it has to write, or give some of them up, keeps it the only one.        *)
(***************************************************************************)
LEMMA AloneKept ==
  ASSUME SInv, UNCHANGED <<cursor, raced>>, IInv', ResetAlone',
         \A p \in Procs :
           \/ run'[p].pc = "idle"
           \/ /\ run[p].pc # "idle"
              /\ run'[p].todo \subseteq run[p].todo
              /\ run'[p].cur \in run[p].todo \union {run[p].cur, NoItem}
              /\ run'[p].cur \notin run'[p].todo
              /\ run'[p].snap = run[p].snap
  PROVE  SInv'
<1>1. \A i \in Items : i # NoItem
  BY PipelineAssumption
<1>2. Alone'
  <2> SUFFICES ASSUME NEW p \in Procs, run'[p].pc # "idle"
               PROVE  Quiet(Procs \ {p})' /\ FreshBase(p)'
    BY DEF Alone
  <2>1. Quiet(Procs \ {p}) /\ FreshBase(p)
    BY DEF SInv, Alone
  <2>2. Quiet(Procs \ {p})'
    BY <2>1 DEF Quiet
  <2>3. FreshBase(p)'
    BY <1>1, <2>1 DEF FreshBase
  <2> QED
    BY <2>2, <2>3
<1> QED
  BY <1>2 DEF SInv, NeverRaced

(***************************************************************************)
(* A run that no reset is beside leaves them all idle.                     *)
(***************************************************************************)
LEMMA NoResetKept ==
  ASSUME SInv, NoReset, NEW p \in Procs, SyncNext(p)
  PROVE  reset' = reset /\ ResetAlone'
<1>1. reset' = reset
  <2>1. CASE Commit(p)
    <3>1. \A k \in Resets : reset'[k] = reset[k]
      BY <2>1 DEF Commit, Witness, NoReset
    <3>2. DOMAIN reset = Resets /\ DOMAIN reset' = Resets /\ reset' = [k \in Resets |-> reset'[k]]
      BY <2>1 DEF Commit, SInv, IInv, TypeOK
    <3> QED
      BY <3>1, <3>2 DEF SInv, IInv, TypeOK
  <2>2. CASE ~ Commit(p)
    BY <2>2 DEF SyncNext, Step, Start, BeginPull, Finish, PageArrives, NotReady,
       RestartPull, PullFails, LoginExpired, MarkLoginRequired, MarkFails, WriteFails,
       Crash, dbVars
  <2> QED
    BY <2>1, <2>2
<1> QED
  BY <1>1 DEF SInv, ResetAlone, NoReset

(***************************************************************************)
(* The only step of a run that moves a cursor is its commit, and by then   *)
(* the bank it moves is no longer among those to be attempted.             *)
(***************************************************************************)
LEMMA AloneSync ==
  ASSUME SInv, NEW p \in Procs, Undisturbed(p), SyncNext(p)
  PROVE  SInv'
<1> DEFINE r == run[p]
<1>1. IInv' /\ IInv /\ ResetAlone' /\ r \in Run /\ run \in [Procs -> Run]
  BY SyncStep, NoResetKept DEF SInv, IInv, TypeOK, Undisturbed
<1>2. /\ \A q \in Procs \ {p} : run[q].pc = "idle"
      /\ r.pc # "idle" => FreshBase(p)
  BY DEF SInv, Alone, Quiet, Undisturbed
<1>3. /\ Between(r).todo = r.todo /\ Between(r).snap = r.snap
      /\ Between(r).cur = NoItem /\ Between(r).pc = "next"
      /\ NoItem \notin r.todo
  BY <1>1, PipelineAssumption DEF Between, IdleRun, Run
<1>4. CASE Start(p)
  <2> DEFINE s == [IdleRun EXCEPT !.pc   = "next",
                                  !.todo = {i \in Items : status[i] = "active"},
                                  !.snap = cursor]
  <2>1. run' = [run EXCEPT ![p] = s] /\ UNCHANGED <<cursor, raced>>
    BY <1>4 DEF Start, dbVars
  <2>2. s.snap = cursor /\ s.cur = NoItem /\ s.todo \subseteq Items
    BY DEF IdleRun
  <2>3. run'[p] = s /\ \A q \in Procs \ {p} : run'[q].pc = "idle"
    BY <1>1, <1>2, <2>1
  <2>4. Alone'
    BY <2>1, <2>2, <2>3, PipelineAssumption DEF Alone, Quiet, FreshBase
  <2> QED
    BY <1>1, <2>1, <2>4 DEF SInv, NeverRaced
<1>5. CASE BeginPull(p)
  <2>1. PICK i \in r.todo :
          run' = [run EXCEPT ![p] = Fresh([r EXCEPT !.todo = @ \ {i}], i, 0)]
    BY <1>5 DEF BeginPull
  <2> DEFINE s == Fresh([r EXCEPT !.todo = @ \ {i}], i, 0)
  <2>2. s.todo = r.todo \ {i} /\ s.cur = i /\ s.snap = r.snap
    BY <1>1 DEF Fresh, Run
  <2>3. run'[p] = s /\ \A q \in Procs \ {p} : run'[q].pc = "idle"
    BY <1>1, <1>2, <2>1
  <2>4. r.pc # "idle" /\ UNCHANGED <<cursor, raced>>
    BY <1>5 DEF BeginPull, dbVars
  <2> QED
    BY <1>1, <2>2, <2>3, <2>4, AloneKept
<1>6. CASE Finish(p) \/ Crash(p)
  <2>1. \A q \in Procs : run'[q].pc = "idle"
    BY <1>1, <1>2, <1>6 DEF Finish, Crash, IdleRun
  <2>2. UNCHANGED <<cursor, raced>>
    BY <1>6 DEF Finish, Crash, dbVars
  <2> QED
    BY <1>1, <2>1, <2>2, AloneKept
<1>7. CASE PageArrives(p) \/ NotReady(p) \/ RestartPull(p)
  <2>1. /\ r.pc # "idle" /\ UNCHANGED <<cursor, raced>>
        /\ run'[p].todo = r.todo /\ run'[p].cur = r.cur /\ run'[p].snap = r.snap
    <3>1. CASE PageArrives(p)
      BY <1>1, <3>1 DEF PageArrives, Run, dbVars
    <3>2. CASE NotReady(p)
      BY <1>1, <3>2 DEF NotReady, Run, dbVars
    <3>3. CASE RestartPull(p)
      BY <1>1, <3>3 DEF RestartPull, Fresh, Run, dbVars
    <3> QED
      BY <1>7, <3>1, <3>2, <3>3
  <2>2. \A q \in Procs \ {p} : run'[q].pc = "idle"
    BY <1>1, <1>2, <1>7 DEF PageArrives, NotReady, RestartPull
  <2>3. r.cur \notin r.todo
    BY <1>2, <2>1 DEF FreshBase
  <2> QED
    BY <1>1, <2>1, <2>2, <2>3, AloneKept
<1>8. CASE PullFails(p) \/ MarkLoginRequired(p) \/ MarkFails(p) \/ WriteFails(p)
  <2>1. /\ r.pc # "idle" /\ UNCHANGED <<cursor, raced>>
        /\ run' = [run EXCEPT ![p] = Between(r)]
    BY <1>8 DEF PullFails, MarkLoginRequired, MarkFails, WriteFails, dbVars
  <2>2. run'[p] = Between(r) /\ \A q \in Procs \ {p} : run'[q].pc = "idle"
    BY <1>1, <1>2, <2>1
  <2> QED
    BY <1>1, <1>3, <2>1, <2>2, AloneKept
<1>9. CASE LoginExpired(p)
  <2> DEFINE s == [Between(r) EXCEPT !.pc = "mark", !.cur = r.cur]
  <2>1. /\ r.pc # "idle" /\ UNCHANGED <<cursor, raced>>
        /\ run' = [run EXCEPT ![p] = s]
    BY <1>9 DEF LoginExpired, dbVars
  <2>2. s.cur = r.cur /\ s.todo = r.todo /\ s.snap = r.snap
    BY <1>3 DEF Between, IdleRun
  <2>3. run'[p] = s /\ \A q \in Procs \ {p} : run'[q].pc = "idle"
    BY <1>1, <1>2, <2>1
  <2>4. r.cur \notin r.todo
    BY <1>2, <2>1 DEF FreshBase
  <2> QED
    BY <1>1, <2>1, <2>2, <2>3, <2>4, AloneKept
<1>10. CASE Commit(p)
  <2>1. /\ r.pc # "idle" /\ r.cur \in Items
        /\ run' = [run EXCEPT ![p] = Between(r)]
        /\ SetItemCursor(r.cur, r.at)
        /\ raced' = IF Present(r.cur) /\ r.at # NoCursor /\ cursor[r.cur] # Base(r)
                      THEN raced \union {r.cur}
                      ELSE raced
    BY <1>1, <1>10 DEF Commit, IInv, RunsOK, RunOK
  <2>2. FreshBase(p)
    BY <1>2, <2>1
  <2>3. NeverRaced'
    BY <2>1, <2>2 DEF FreshBase, Base, SInv, NeverRaced
  <2>4. run'[p] = Between(r) /\ \A q \in Procs \ {p} : run'[q].pc = "idle"
    BY <1>1, <1>2, <2>1
  <2>5. \A i \in Items : i # r.cur => cursor'[i] = cursor[i]
    BY <1>1, <2>1 DEF SetItemCursor, IInv, TypeOK
  <2>6. FreshBase(p)'
    <3>1. \A i \in r.todo : i \in Items /\ r.snap[i] = cursor[i] /\ i # r.cur
      BY <1>1, <2>2 DEF FreshBase, Run
    <3> QED
      BY <1>3, <2>4, <2>5, <3>1, PipelineAssumption DEF FreshBase
  <2>7. Alone'
    BY <2>4, <2>6 DEF Alone, Quiet
  <2> QED
    BY <1>1, <2>3, <2>7 DEF SInv
<1> QED
  BY <1>4, <1>5, <1>6, <1>7, <1>8, <1>9, <1>10 DEF SyncNext, Step

(***************************************************************************)
(* What clears among runs that are idle leaves them so, and misses nothing. *)
(***************************************************************************)
LEMMA ClearsAlone ==
  ASSUME IInv, ResetAlone, ClearNext
  PROVE  /\ run' = run /\ raced' \subseteq raced
         /\ \A k \in Resets : reset'[k].missed = {}
<1>1. \A k \in Resets : reset[k] \in Reset /\ reset[k].missed = {}
  BY DEF IInv, TypeOK, ResetAlone
<1>2. CASE \E S \in SUBSET Items : Unlink(S)
  <2>1. PICK S \in SUBSET Items : Unlink(S)
    BY <1>2
  <2>2. ASSUME NEW k \in Resets PROVE reset'[k].missed = {}
    <3>1. reset'[k] = [reset[k] EXCEPT !.saw = [i \in Items |-> IF i \in S THEN {} ELSE reset[k].saw[i]],
                                       !.banks = @ \ S, !.missed = @ \ S]
      BY <2>1 DEF Unlink
    <3>2. reset'[k].missed = reset[k].missed \ S
      BY <1>1, <3>1 DEF Reset
    <3> QED
      BY <1>1, <3>2
  <2> QED
    BY <2>1, <2>2 DEF Unlink
<1>3. CASE \E k \in Resets : ResetSyncedData(k)
  <2>1. PICK k \in Resets : ResetSyncedData(k)
    BY <1>3
  <2>2. CASE ResetDeletes(k)
    BY <1>1, <2>2 DEF ResetDeletes, IdleReset, IInv, TypeOK
  <2>3. CASE ResetUpdates(k)
    BY <1>1, <2>3 DEF ResetUpdates, IInv, TypeOK, Reset
  <2>4. CASE ResetFails(k)
    BY <1>1, <2>4 DEF ResetFails, IdleReset, IInv, TypeOK
  <2>5. CASE ResetCommits(k)
    <3>1. ASSUME NEW j \in Resets PROVE reset'[j].missed = {}
      <4>1. CASE j = k
        BY <2>5, <4>1 DEF ResetCommits, IdleReset
      <4>2. CASE j # k
        <5>1. reset'[j] = Witness(reset[j], NoItem, FALSE)
          BY <2>5, <4>2 DEF ResetCommits
        <5>2. Witness(reset[j], NoItem, FALSE).missed = reset[j].missed
          BY <1>1 DEF Witness, Reset
        <5> QED
          BY <1>1, <5>1, <5>2
      <4> QED
        BY <4>1, <4>2
    <3>2. run' = run /\ raced' \subseteq raced
      BY <1>1, <2>5 DEF ResetCommits
    <3> QED
      BY <3>1, <3>2
  <2> QED
    BY <2>1, <2>2, <2>3, <2>4, <2>5 DEF ResetSyncedData
<1> QED
  BY <1>2, <1>3 DEF ClearNext

LEMMA SNextOK == SInv /\ [SerialNext]_vars => SInv'
<1> SUFFICES ASSUME SInv, [SerialNext]_vars PROVE SInv'
  OBVIOUS
<1>1. IInv' /\ run \in [Procs -> Run]
  BY SerialIsNext, NextOK DEF SInv, IInv, TypeOK
<1>2. CASE PlaidNext
  <2>1. PICK i \in Items : Report(i) \/ Retract(i)
    BY <1>2 DEF PlaidNext
  <2>2. /\ UNCHANGED <<cursor, raced>>
        /\ \A p \in Procs : /\ run'[p].pc = run[p].pc /\ run'[p].todo = run[p].todo
                            /\ run'[p].cur = run[p].cur /\ run'[p].snap = run[p].snap
    <3>1. CASE Report(i)
      BY <3>1 DEF Report, dbVars
    <3>2. CASE Retract(i)
      BY <1>1, <3>2 DEF Retract, dbVars, Run
    <3> QED
      BY <2>1, <3>1, <3>2
  <2>3. \A p \in Procs : run[p].pc # "idle" => run[p].cur \notin run[p].todo
    BY DEF SInv, Alone, FreshBase
  <2>4. reset' = reset
    BY <2>1 DEF Report, Retract, dbVars
  <2>5. ResetAlone'
    BY <2>2, <2>4 DEF SInv, ResetAlone, Quiet
  <2> QED
    BY <1>1, <2>2, <2>3, <2>5, AloneKept
<1>3. CASE \E p \in Procs : Undisturbed(p) /\ SyncNext(p)
  BY <1>3, AloneSync
<1>4. CASE Quiet(Procs) /\ ClearNext
  <2>1. /\ run' = run /\ raced' \subseteq raced
        /\ \A k \in Resets : reset'[k].missed = {}
    BY <1>4, ClearsAlone DEF SInv
  <2>2. Alone' /\ ResetAlone' /\ NeverRaced'
    BY <1>4, <2>1 DEF SInv, NeverRaced, Alone, ResetAlone, Quiet
  <2> QED
    BY <1>1, <2>2 DEF SInv
<1>5. CASE LinkNext
  <2>1. UNCHANGED <<cursor, reset, run, raced>>
    BY <1>5 DEF LinkNext, Link, Repair
  <2>2. \A p \in Procs : run[p].pc # "idle" => run[p].cur \notin run[p].todo
    BY DEF SInv, Alone, FreshBase
  <2>3. ResetAlone'
    BY <2>1 DEF SInv, ResetAlone, Quiet
  <2> QED
    BY <1>1, <2>1, <2>2, <2>3, AloneKept
<1>6. CASE UNCHANGED vars
  BY <1>1, <1>6 DEF vars, SInv, NeverRaced, Alone, ResetAlone, Quiet, FreshBase
<1> QED
  BY <1>2, <1>3, <1>4, <1>5, <1>6 DEF SerialNext

(***************************************************************************)
(* The invariant of one sync at a time, under which nothing is cleared,    *)
(* holds of every such run.                                                *)
(***************************************************************************)
THEOREM SerialInvariance == SerialSpec => []SInv
BY SInitOK, SNextOK, PTL DEF SerialSpec

(***************************************************************************)
(* One sync at a time, the cursor's claim holds: what Plaid reported up    *)
(* to the stored cursor is in the table.                                   *)
(***************************************************************************)
LEMMA ExactMeansClaim ==
  ASSUME IInv, NeverRaced
  PROVE  CursorClaim
<1> SUFFICES ASSUME NEW i \in Items, NEW e \in Upto(log[i], cursor[i])
             PROVE  \/ rows[i][e.txn] >= e.ver /\ e.op # "removed"
                    \/ rows[i][e.txn] = NoRow /\ Removes(log[i], e.txn)
  BY DEF CursorClaim
<1> DEFINE S == Upto(log[i], cursor[i])
           t == e.txn
<1>1. rows[i] = View(log[i], cursor[i]) /\ log[i] \subseteq Entry
  BY DEF IInv, ExactUnlessRaced, NeverRaced, TypeOK
<1>2. S \subseteq Entry /\ t \in Txns /\ e \in About(S, t) /\ S \subseteq log[i]
  BY <1>1 DEF Upto, Entry, About
<1>3. CASE Removes(S, t)
  BY <1>1, <1>2, <1>3 DEF View, Removes, Named, About
<1>4. CASE ~ Removes(S, t)
  <2>1. rows[i][t] = Latest(Positions(About(S, t)))
    BY <1>1, <1>2, <1>4 DEF View
  <2>2. Positions(About(S, t)) \subseteq Vers /\ e.ver \in Positions(About(S, t))
    BY <1>2, LedgerAssumption DEF Positions, About, Entry, Vers
  <2>3. /\ Latest(Positions(About(S, t))) \in Positions(About(S, t))
        /\ e.ver <= Latest(Positions(About(S, t)))
    BY <2>2, LatestIsLargest
  <2>4. e.ver \in Int /\ rows[i][t] \in Int
    BY <2>1, <2>2, <2>3, VersAreNumbers
  <2>5. e.op # "removed"
    BY <1>2, <1>4 DEF Removes, Named, About
  <2> QED
    BY <2>1, <2>3, <2>4, <2>5
<1> QED
  BY <1>3, <1>4

(***************************************************************************)
(* One sync at a time and nothing cleared under it: everything Plaid       *)
(* reported up to the stored cursor is in the table, without condition.    *)
(***************************************************************************)
THEOREM SerialClaim == SerialSpec => []CursorClaim
<1>1. SInv => CursorClaim
  BY ExactMeansClaim DEF SInv
<1> QED
  BY <1>1, SerialInvariance, PTL

-------------------------------------------------------------------------------
(* One sync at a time, the pipeline implements Replica.                    *)

(***************************************************************************)
(* The instance of Replica talks of ledgers in the same words.             *)
(***************************************************************************)
LEMMA SameWords ==
  /\ Replicated!Entry = Entry /\ Replicated!Vers = Vers
  /\ Replicated!NoCursor = NoCursor /\ Replicated!EmptyTable = EmptyTable
  /\ \A L, v : Replicated!Upto(L, v) = Upto(L, v) /\ Replicated!View(L, v) = View(L, v)
  /\ \A L, t, op : Replicated!MayReport(L, t, op) <=> MayReport(L, t, op)
<1>1. /\ Replicated!Entry = Entry /\ Replicated!Vers = Vers
      /\ Replicated!NoCursor = NoCursor
  BY DEF Replicated!Entry, Entry, Replicated!Vers, Vers, Replicated!Ops, Ops,
         Replicated!NoCursor, NoCursor
<1>2. Replicated!EmptyTable = EmptyTable
  BY DEF Replicated!EmptyTable, EmptyTable, Replicated!NoRow, NoRow
<1>3. \A L, t, v : /\ Replicated!Upto(L, v) = Upto(L, v)
                   /\ Replicated!About(L, t) = About(L, t)
                   /\ Replicated!Positions(L) = Positions(L)
                   /\ Replicated!Latest(L) = Latest(L)
                   /\ Replicated!Removes(L, t) <=> Removes(L, t)
  BY DEF Replicated!Upto, Upto, Replicated!About, About, Replicated!Positions,
         Positions, Replicated!Latest, Latest, Replicated!Removes, Removes,
         Replicated!Named, Named
<1>4. \A L, v : Replicated!View(L, v) = View(L, v)
  BY <1>3 DEF Replicated!View, View, Replicated!NoRow, NoRow
<1>5. \A L, t, op : Replicated!MayReport(L, t, op) <=> MayReport(L, t, op)
  BY <1>3 DEF Replicated!MayReport, MayReport
<1> QED
  BY <1>1, <1>2, <1>3, <1>4, <1>5

LEMMA InitMaps == Init => Replicated!Init
BY SameWords DEF Init, Replicated!Init

LEMMA ReportMaps ==
  ASSUME SInv, NEW i \in Items, Report(i)
  PROVE  Replicated!Publish(i)
<1> DEFINE n == clock[i] + 1
<1>1. PICK t \in Txns, op \in Ops :
        /\ MayReport(log[i], t, op)
        /\ log' = [log EXCEPT ![i] = @ \union {[ver |-> n, txn |-> t, op |-> op]}]
  BY DEF Report
<1> DEFINE e == [ver |-> n, txn |-> t, op |-> op]
<1>2. /\ cursor[i] \in Int /\ clock[i] \in Int /\ cursor[i] <= clock[i]
      /\ clock[i] \in Vers /\ clock[i] < MaxVer
  <2>1. /\ cursor[i] \in Int /\ sealed[i] \in Int /\ clock[i] \in Int
        /\ cursor[i] <= sealed[i] /\ sealed[i] <= clock[i]
    BY CursorBounds DEF SInv, IInv
  <2>2. clock[i] \in Vers /\ clock[i] < MaxVer
    BY DEF SInv, IInv, TypeOK, Report
  <2> QED
    BY <2>1, <2>2
<1>3. n \in 1 .. MaxVer
  BY <1>2, VersAreNumbers, LedgerAssumption DEF Vers
<1>4. e \in Entry
  BY <1>3 DEF Entry
<1>5. \A f \in log[i] : f.ver < e.ver
  <2> SUFFICES ASSUME NEW f \in log[i] PROVE f.ver < n
    OBVIOUS
  <2>1. f \in Entry /\ f.ver <= clock[i]
    BY DEF SInv, IInv, PlaidOK, TypeOK
  <2>2. f.ver \in Int
    BY <2>1 DEF Entry
  <2> QED
    BY <1>2, <2>1, <2>2
<1>6. e.ver > cursor[i]
  BY <1>2
<1>7. UNCHANGED <<cursor, rows>>
  BY DEF Report, dbVars
<1>8. MayReport(log[i], e.txn, e.op) /\ log' = [log EXCEPT ![i] = @ \union {e}]
  BY <1>1
<1> QED
  BY <1>4, <1>5, <1>6, <1>7, <1>8, SameWords DEF Replicated!Publish

LEMMA RetractMaps ==
  ASSUME SInv, NEW i \in Items, Retract(i)
  PROVE  Replicated!Revise(i)
<1>1. PICK v \in Vers : v >= sealed[i] /\ log' = [log EXCEPT ![i] = Upto(@, v)]
  BY DEF Retract
<1>2. cursor[i] \in Int /\ sealed[i] \in Int /\ cursor[i] <= sealed[i] /\ v \in Int
  BY CursorBounds, VersAreNumbers DEF SInv, IInv
<1>3. v >= cursor[i]
  BY <1>1, <1>2
<1>4. UNCHANGED <<cursor, rows>>
  BY DEF Retract, dbVars
<1> QED
  BY <1>1, <1>3, <1>4, SameWords DEF Replicated!Revise

(***************************************************************************)
(* A commit either moves the bank forward to its checkpoint or, when the   *)
(* bank is gone or Plaid had nothing to show, changes nothing.             *)
(***************************************************************************)
LEMMA CommitMaps ==
  ASSUME SInv, NEW p \in Procs, Commit(p), SInv'
  PROVE  Replicated!CatchUp(run[p].cur) /\ run[p].cur \in Items
<1> DEFINE r == run[p]
           i == r.cur
<1>1. /\ r \in Run /\ RunOK(r) /\ r.pc = "write" /\ i \in Items
      /\ rows' = [rows EXCEPT ![i] = Written(@, r.got)]
      /\ SetItemCursor(i, r.at)
      /\ UNCHANGED log
    BY DEF Commit, SInv, IInv, TypeOK, RunsOK, RunOK, plaidVars
<1>2. rows'[i] = View(log[i], cursor'[i]) /\ cursor'[i] \in Vers
  BY <1>1 DEF SInv, NeverRaced, IInv, ExactUnlessRaced, TypeOK
<1>3. rows' = [rows EXCEPT ![i] = View(log[i], cursor'[i])]
  BY <1>1, <1>2 DEF SInv, IInv, TypeOK
<1>4. cursor' = [cursor EXCEPT ![i] = cursor'[i]]
  BY <1>1 DEF SetItemCursor, SInv, IInv, TypeOK
<1>5. cursor'[i] >= cursor[i]
  <2>1. cursor[i] \in Int /\ cursor'[i] \in Int
    BY <1>1, <1>2, CursorBounds, VersAreNumbers DEF SInv, IInv
  <2>2. CASE cursor'[i] = cursor[i]
    BY <2>1, <2>2
  <2>3. CASE cursor'[i] # cursor[i]
    <3>1. r.at # NoCursor /\ cursor'[i] = r.at
      BY <1>1, <2>3 DEF SetItemCursor, SInv, IInv, TypeOK
    <3>2. cursor[i] = Base(r)
      BY <1>1 DEF SInv, Alone, FreshBase, Base
    <3> QED
      BY <1>1, <2>1, <3>1, <3>2 DEF RunOK
  <2> QED
    BY <2>2, <2>3
<1> QED
  BY <1>1, <1>2, <1>3, <1>4, <1>5, SameWords DEF Replicated!CatchUp

(***************************************************************************)
(* What is unlinked is forgotten at once, and so is what a reset commits   *)
(* that has missed nothing.                                                *)
(***************************************************************************)
LEMMA UnlinkMaps ==
  ASSUME NEW S \in SUBSET Items, Unlink(S)
  PROVE  Replicated!Forget(S)
BY SameWords DEF Unlink, plaidVars, Replicated!Forget

LEMMA ResetMaps ==
  ASSUME SInv, NEW k \in Resets, ResetCommits(k)
  PROVE  Replicated!Forget(reset[k].banks)
<1> DEFINE r == reset[k]
<1>1. r \in Reset /\ ResetOK(r, rows) /\ r.pc = "update" /\ r.missed = {}
  BY DEF SInv, IInv, TypeOK, ResetsOK, ResetAlone, ResetCommits
<1>2. /\ rows' = [i \in Items |-> [t \in Txns |-> IF t \in r.saw[i] THEN NoRow ELSE rows[i][t]]]
      /\ cursor' = [i \in Items |-> IF i \in r.banks THEN NoCursor ELSE cursor[i]]
      /\ UNCHANGED log
  BY DEF ResetCommits, RowsAfter, CursorsAfter, plaidVars
<1>3. ASSUME NEW i \in Items
      PROVE  [t \in Txns |-> IF t \in r.saw[i] THEN NoRow ELSE rows[i][t]]
               = IF i \in r.banks THEN EmptyTable ELSE rows[i]
  <2>1. rows[i] = [t \in Txns |-> rows[i][t]]
    BY DEF SInv, IInv, TypeOK
  <2>2. CASE i \in r.banks
    <3>1. \A t \in Txns : rows[i][t] # NoRow => t \in r.saw[i]
      BY <1>1 DEF ResetOK
    <3> QED
      BY <2>2, <3>1 DEF EmptyTable
  <2>3. CASE i \notin r.banks
    <3>1. r.saw[i] = {}
      BY <1>1, <2>3 DEF ResetOK
    <3> QED
      BY <2>1, <2>3, <3>1
  <2> QED
    BY <2>2, <2>3
<1>4. rows' = [i \in Items |-> IF i \in r.banks THEN EmptyTable ELSE rows[i]]
  BY <1>2, <1>3
<1> QED
  BY <1>2, <1>4, SameWords DEF Replicated!Forget

(***************************************************************************)
(* Every step maps to a step of Replica or changes nothing of it.          *)
(***************************************************************************)
LEMMA StepMaps ==
  SInv /\ SInv' /\ [SerialNext]_vars => [Replicated!Next]_(Replicated!replicaVars)
<1> SUFFICES ASSUME SInv, SInv', [SerialNext]_vars
             PROVE  Replicated!Next \/ UNCHANGED <<log, cursor, rows>>
  BY DEF Replicated!replicaVars
<1>1. CASE PlaidNext
  BY <1>1, ReportMaps, RetractMaps DEF PlaidNext, Replicated!Next
<1>2. ASSUME NEW p \in Procs, SyncNext(p)
      PROVE  Replicated!Next \/ UNCHANGED <<log, cursor, rows>>
  <2>1. CASE Commit(p)
    BY <2>1, CommitMaps DEF Replicated!Next
  <2>2. CASE ~ Commit(p)
    BY <1>2, <2>2 DEF SyncNext, Step, Start, BeginPull, Finish, PageArrives, NotReady,
       RestartPull, PullFails, LoginExpired, MarkLoginRequired, MarkFails, WriteFails,
       Crash, plaidVars, dbVars
  <2> QED
    BY <2>1, <2>2
<1>3. CASE LinkNext
  BY <1>3 DEF LinkNext, Link, Repair, plaidVars
<1>4. CASE ClearNext
  <2>1. ASSUME NEW S \in SUBSET Items, Unlink(S) PROVE Replicated!Next
    BY <2>1, UnlinkMaps DEF Replicated!Next
  <2>2. ASSUME NEW k \in Resets, ResetSyncedData(k)
        PROVE  Replicated!Next \/ UNCHANGED <<log, cursor, rows>>
    <3>1. CASE ResetCommits(k)
      <4>1. reset[k].banks \in SUBSET Items
        BY DEF SInv, IInv, TypeOK, Reset
      <4> QED
        BY <3>1, <4>1, ResetMaps DEF Replicated!Next
    <3>2. CASE ~ ResetCommits(k)
      BY <2>2, <3>2 DEF ResetSyncedData, ResetDeletes, ResetUpdates, ResetFails, plaidVars
    <3> QED
      BY <3>1, <3>2
  <2>3. \A i \in Items : {i} \in SUBSET Items
    OBVIOUS
  <2> QED
    BY <1>4, <2>1, <2>2, <2>3 DEF ClearNext
<1>5. CASE UNCHANGED vars
  BY <1>5 DEF vars
<1> QED
  BY <1>1, <1>2, <1>3, <1>4, <1>5 DEF SerialNext

(***************************************************************************)
(* One sync at a time, whatever Plaid does and whichever runs fail or      *)
(* die, the local copy of every bank is the ledger up to the cursor and    *)
(* moves only forward, rows and cursor at once.                            *)
(***************************************************************************)
THEOREM SerialImplements == SerialSpec => ImplementsReplica
<1>1. SInv /\ SInv' /\ [SerialNext]_vars => [Replicated!Next]_(Replicated!replicaVars)
  BY StepMaps
<1> QED
  BY <1>1, InitMaps, SerialInvariance, PTL
     DEF SerialSpec, ImplementsReplica, Replicated!Spec

-------------------------------------------------------------------------------
(***************************************************************************)
(* The rows a person or a model queries, at any moment of such a run: the  *)
(* table of every bank is its ledger's view at the stored cursor, pages,   *)
(* failed writes, crashes, resets and relinking notwithstanding.           *)
(***************************************************************************)
TablesAreViews == \A i \in Items : rows[i] = View(log[i], cursor[i])

THEOREM SerialIsExact == SerialSpec => []TablesAreViews
<1>1. SInv => TablesAreViews
  BY DEF SInv, IInv, ExactUnlessRaced, NeverRaced, TablesAreViews
<1> QED
  BY <1>1, SerialInvariance, PTL
===============================================================================
