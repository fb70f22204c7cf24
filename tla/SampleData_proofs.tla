---------------------------- MODULE SampleData_proofs ----------------------------
(***************************************************************************)
(* Proofs about SampleData, SeedGenerator and SeedCommand, for any number  *)
(* of commands, banks, options and cards: what seeding promises rests on   *)
(* there being at most one command between emptying the tables and filling *)
(* them, and on the tables being empty until it is done; that a card is    *)
(* paid in full, on what a card owes from one day of the window to the     *)
(* next, and that on how the sum of a set of rows may be split.            *)
(***************************************************************************)
EXTENDS SeedCommand, FiniteSetTheorems, WellFoundedInduction, TLAPS

Filling(c) == cmd[c].pc = "items"

OneFills == \A c, d \in Commands : Filling(c) /\ Filling(d) => c = d

\* Unless two commands fill the tables at once: only one does, and it finds them empty.
FillsAlone ==
  ~ tangled => OneFills /\ ((\E c \in Commands : Filling(c)) => rows = {})

\* Whoever found no bank linked knows of every bank linked by now.
LateAreKnown ==
  \A c \in Commands : cmd[c].pc \in {"clear", "items"} => banks \subseteq cmd[c].late

SampleInv == SampleTypeOK /\ FillsAlone /\ OneSample /\ LateAreKnown

-------------------------------------------------------------------------------

LEMMA ItemsAreListed ==
  /\ Len(ITEMS) \in Nat
  /\ \A k \in 1 .. Len(ITEMS) : ITEMS[k] \in ItemIds
BY SampleAssumption DEF ItemIds

LEMMA DatasetsAreRows ==
  ASSUME NEW o \in Options
  PROVE  Dataset(o) \subseteq Rows
BY DEF Rows

LEMMA RowsHaveBanks == \A r \in Rows : BankOf[r.account] \in ItemIds
BY SampleAssumption DEF Rows

LEMMA EmptyHands ==
  ASSUME NEW pc \in {"idle", "given", "made", "clear", "done"},
         NEW o \in Options, NEW rs \in SUBSET Rows
  PROVE  Holding(pc, o, rs) \in Command
BY ItemsAreListed DEF Holding, Command

LEMMA HandsAfterwards ==
  /\ Ended("idle") \in Command /\ Ended("idle").pc = "idle"
  /\ Ended("done") \in Command /\ Ended("done").pc = "done"
<1>1. (CHOOSE o \in Options : TRUE) \in Options
  BY SampleAssumption
<1> QED
  BY <1>1, EmptyHands DEF Ended, Holding

LEMMA InitOK == Init => SampleInv
<1> SUFFICES ASSUME Init PROVE SampleInv
  OBVIOUS
<1>1. SampleTypeOK
  <2>1. cmd \in [Commands -> Command]
    BY HandsAfterwards DEF Init
  <2>2. faults \in 0 .. MaxFaults
    BY SampleAssumption DEF Init
  <2> QED
    BY <2>1, <2>2 DEF Init, SampleTypeOK
<1>2. \A c \in Commands : cmd[c].pc = "idle"
  BY HandsAfterwards DEF Init
<1> QED
  BY <1>1, <1>2 DEF SampleInv, FillsAlone, OneFills, Filling, OneSample, LateAreKnown, Init

(***************************************************************************)
(* A step of a command that neither begins nor goes on to fill the tables, *)
(* and leaves them alone.                                                  *)
(***************************************************************************)
LEMMA StepBeside ==
  ASSUME SampleInv, NEW c \in Commands, NEW h \in Command,
         cmd' = [cmd EXCEPT ![c] = h], h.pc # "items", h.pc = "clear" => banks \subseteq h.late,
         faults' \in 0 .. MaxFaults,
         UNCHANGED <<banks, items, accounts, rows, tangled, sample>>
  PROVE  SampleInv'
<1>1. SampleTypeOK'
  BY DEF SampleInv, SampleTypeOK
<1>2. \A d \in Commands : cmd'[d] = IF d = c THEN h ELSE cmd[d]
  BY DEF SampleInv, SampleTypeOK
<1>3. \A d \in Commands : Filling(d)' => Filling(d)
  BY <1>2 DEF Filling
<1>4. FillsAlone'
  BY <1>3 DEF SampleInv, FillsAlone, OneFills
<1>5. OneSample'
  BY DEF SampleInv, OneSample
<1>6. LateAreKnown'
  BY <1>2 DEF SampleInv, LateAreKnown
<1> QED
  BY <1>1, <1>4, <1>5, <1>6 DEF SampleInv

LEMMA DeleteStep ==
  ASSUME SampleInv, NEW c \in Commands, DeleteBySource(c)
  PROVE  SampleInv'
<1> DEFINE h == [cmd[c] EXCEPT !.pc = "items"]
<1>1. cmd[c] \in Command
  BY DEF SampleInv, SampleTypeOK
<1>2. h \in Command /\ h.pc = "items" /\ h.late = cmd[c].late
  BY <1>1 DEF Command
<1>3. cmd' = [cmd EXCEPT ![c] = h]
  BY DEF DeleteBySource
<1> HIDE DEF h
<1>4. \A d \in Commands : cmd'[d] = IF d = c THEN h ELSE cmd[d]
  BY <1>3 DEF SampleInv, SampleTypeOK
<1>5. SampleTypeOK'
  BY <1>2, <1>3 DEF SampleInv, SampleTypeOK, DeleteBySource
<1>6. FillsAlone'
  <2>1. rows' = {} /\ (~ tangled' => \A d \in Commands \ {c} : cmd[d].pc # "items")
    BY DEF DeleteBySource
  <2>2. ~ tangled' => \A d \in Commands \ {c} : ~ Filling(d)'
    BY <1>4, <2>1 DEF Filling
  <2> QED
    BY <2>1, <2>2 DEF FillsAlone, OneFills
<1>7. OneSample'
  BY DEF OneSample, DeleteBySource
<1>8. LateAreKnown'
  BY <1>2, <1>4 DEF SampleInv, LateAreKnown, DeleteBySource
<1> QED
  BY <1>5, <1>6, <1>7, <1>8 DEF SampleInv

LEMMA SaveStep ==
  ASSUME SampleInv, NEW c \in Commands, SaveItem(c)
  PROVE  SampleInv'
<1> DEFINE h == [cmd[c] EXCEPT !.saved = @ + 1]
<1>1. cmd[c] \in Command
  BY DEF SampleInv, SampleTypeOK
<1>2. h \in Command /\ h.pc = "items" /\ h.late = cmd[c].late /\ Filling(c)
  BY <1>1, ItemsAreListed DEF Command, SaveItem, Filling
<1>3. cmd' = [cmd EXCEPT ![c] = h]
  BY DEF SaveItem
<1>4. cmd[c].saved + 1 \in 1 .. Len(ITEMS)
  BY <1>1, ItemsAreListed DEF Command, SaveItem
<1> HIDE DEF h
<1>5. \A d \in Commands : cmd'[d] = IF d = c THEN h ELSE cmd[d]
  BY <1>3 DEF SampleInv, SampleTypeOK
<1>6. SampleTypeOK'
  BY <1>2, <1>3, <1>4, ItemsAreListed DEF SampleInv, SampleTypeOK, SaveItem
<1>7. \A d \in Commands : Filling(d)' <=> Filling(d)
  BY <1>2, <1>5 DEF Filling
<1>8. FillsAlone'
  BY <1>7 DEF SampleInv, FillsAlone, OneFills, SaveItem
<1>9. OneSample'
  BY <1>2 DEF SampleInv, FillsAlone, OneSample, SaveItem
<1>10. LateAreKnown'
  BY <1>2, <1>5 DEF SampleInv, LateAreKnown, SaveItem, Filling
<1> QED
  BY <1>6, <1>8, <1>9, <1>10 DEF SampleInv

(***************************************************************************)
(* A command that fills the tables alone leaves in them what it generated. *)
(***************************************************************************)
LEMMA StoredExactly ==
  ASSUME SampleInv, NEW c \in Commands, StoreRows(c), items = ItemIds, ~ tangled
  PROVE  /\ items' = ItemIds /\ accounts' = Accounts
         /\ rows' = cmd[c].data /\ sample' = cmd[c].data
         /\ rows' = RowsOf(sample', items')
<1>1. rows = {}
  BY DEF SampleInv, FillsAlone, Filling, StoreRows
<1>2. cmd[c].data \subseteq Rows
  BY DEF SampleInv, SampleTypeOK, Command
<1>3. rows' = cmd[c].data /\ sample' = cmd[c].data /\ items' = ItemIds /\ accounts' = Accounts
  BY <1>1 DEF StoreRows, Upserted
<1>4. RowsOf(cmd[c].data, ItemIds) = cmd[c].data
  BY <1>2, RowsHaveBanks DEF RowsOf
<1> QED
  BY <1>3, <1>4

LEMMA StoreStep ==
  ASSUME SampleInv, NEW c \in Commands, StoreRows(c)
  PROVE  SampleInv'
<1>1. CASE items # ItemIds
  <2>1. /\ cmd' = [cmd EXCEPT ![c] = Ended("idle")]
        /\ UNCHANGED <<banks, items, accounts, rows, tangled, sample, faults>>
    BY <1>1 DEF StoreRows
  <2>2. faults' \in 0 .. MaxFaults
    BY <2>1 DEF SampleInv, SampleTypeOK
  <2> QED
    BY <2>1, <2>2, HandsAfterwards, StepBeside
<1>2. CASE items = ItemIds
  <2>1. cmd' = [cmd EXCEPT ![c] = Ended("done")] /\ UNCHANGED <<banks, items, tangled, faults>>
    BY <1>2 DEF StoreRows
  <2>2. \A d \in Commands : cmd'[d] = IF d = c THEN Ended("done") ELSE cmd[d]
    BY <2>1 DEF SampleInv, SampleTypeOK
  <2>3. cmd[c].data \subseteq Rows
    BY DEF SampleInv, SampleTypeOK, Command
  <2>4. rows' \subseteq Rows /\ accounts' \subseteq Accounts /\ sample' \subseteq Rows
    BY <1>2, <2>3 DEF StoreRows, Upserted, SampleInv, SampleTypeOK
  <2>5. SampleTypeOK'
    BY <2>1, <2>4, HandsAfterwards DEF SampleInv, SampleTypeOK
  <2>6. ASSUME ~ tangled, NEW d \in Commands PROVE ~ Filling(d)'
    <3>1. d # c => ~ Filling(d)
      BY <2>6 DEF SampleInv, FillsAlone, OneFills, Filling, StoreRows
    <3> QED
      BY <2>2, <3>1, HandsAfterwards DEF Filling
  <2>7. FillsAlone'
    BY <2>1, <2>6 DEF FillsAlone, OneFills
  <2>8. OneSample'
    BY <1>2, <2>1, StoredExactly DEF OneSample
  <2>9. LateAreKnown'
    BY <2>1, <2>2, HandsAfterwards DEF SampleInv, LateAreKnown
  <2> QED
    BY <2>5, <2>7, <2>8, <2>9 DEF SampleInv
<1> QED
  BY <1>1, <1>2

LEMMA SeedStep ==
  ASSUME SampleInv, NEW c \in Commands, Seed(c)
  PROVE  SampleInv'
<1>1. cmd[c] \in Command /\ faults \in 0 .. MaxFaults /\ MaxFaults \in Nat
  BY SampleAssumption DEF SampleInv, SampleTypeOK
<1>2. cmd[c].opt \in Options /\ cmd[c].data \in SUBSET Rows
  BY <1>1 DEF Command
<1>3. CASE Run(c)
  <2>1. PICK o \in Options : cmd' = [cmd EXCEPT ![c] = Holding("given", o, {})]
    BY <1>3 DEF Run
  <2>2. Holding("given", o, {}) \in Command /\ Holding("given", o, {}).pc = "given"
    BY EmptyHands DEF Holding
  <2> QED
    BY <1>1, <1>3, <2>1, <2>2, StepBeside DEF Run
<1>4. CASE Generate(c)
  <2> DEFINE h == Holding("made", cmd[c].opt, Dataset(cmd[c].opt))
  <2>1. h \in Command /\ h.pc = "made"
    BY <1>2, DatasetsAreRows, EmptyHands DEF Holding
  <2>2. cmd' = [cmd EXCEPT ![c] = h]
    BY <1>4 DEF Generate
  <2> HIDE DEF h
  <2> QED
    BY <1>1, <1>4, <2>1, <2>2, StepBeside DEF Generate
<1>5. CASE AssertSeedable(c)
  <2> DEFINE h == IF banks = {} THEN Holding("clear", cmd[c].opt, cmd[c].data) ELSE Ended("idle")
  <2>1. h \in Command /\ h.pc # "items" /\ (h.pc = "clear" => banks \subseteq h.late)
    BY <1>2, EmptyHands, HandsAfterwards DEF Holding
  <2>2. cmd' = [cmd EXCEPT ![c] = h]
    BY <1>5 DEF AssertSeedable
  <2> HIDE DEF h
  <2> QED
    BY <1>1, <1>5, <2>1, <2>2, StepBeside DEF AssertSeedable
<1>6. CASE Fail(c)
  <2>1. /\ cmd' = [cmd EXCEPT ![c] = Ended("idle")] /\ faults' \in 0 .. MaxFaults
        /\ UNCHANGED <<banks, items, accounts, rows, tangled, sample>>
    BY <1>1, <1>6 DEF Fail
  <2> QED
    BY <2>1, HandsAfterwards, StepBeside
<1> QED
  BY <1>3, <1>4, <1>5, <1>6, DeleteStep, SaveStep, StoreStep DEF Seed

LEMMA LinkStep ==
  ASSUME SampleInv, NEW b \in RealBanks, Link(b)
  PROVE  SampleInv'
<1>1. \A c \in Commands :
        /\ cmd'[c] \in Command
        /\ cmd'[c].pc = cmd[c].pc
        /\ cmd[c].pc \in {"clear", "items"} => cmd'[c].late = cmd[c].late \union {b}
  <2> SUFFICES ASSUME NEW c \in Commands
               PROVE  /\ cmd'[c] \in Command
                      /\ cmd'[c].pc = cmd[c].pc
                      /\ cmd[c].pc \in {"clear", "items"} => cmd'[c].late = cmd[c].late \union {b}
    OBVIOUS
  <2>1. cmd[c] \in Command
    BY DEF SampleInv, SampleTypeOK
  <2>2. cmd'[c] = IF cmd[c].pc \in {"clear", "items"}
                    THEN [cmd[c] EXCEPT !.late = @ \union {b}] ELSE cmd[c]
    BY DEF Link
  <2> QED
    BY <2>1, <2>2 DEF Command
<1>2. SampleTypeOK'
  BY <1>1 DEF SampleInv, SampleTypeOK, Link
<1>3. FillsAlone' /\ OneSample'
  BY <1>1 DEF SampleInv, FillsAlone, OneFills, Filling, OneSample, Link
<1>4. LateAreKnown'
  BY <1>1 DEF SampleInv, LateAreKnown, Link
<1> QED
  BY <1>2, <1>3, <1>4 DEF SampleInv

LEMMA UserStep ==
  ASSUME SampleInv,
         \/ \E b \in RealBanks : Unlink(b)
         \/ \E i \in ItemIds : UnlinkSample(i)
         \/ ResetSyncedData
  PROVE  SampleInv'
<1>1. CASE \E b \in RealBanks : Unlink(b)
  BY <1>1 DEF Unlink, SampleInv, SampleTypeOK, FillsAlone, OneFills, Filling, OneSample,
     LateAreKnown
<1>2. CASE \E i \in ItemIds : UnlinkSample(i)
  <2>1. PICK i \in ItemIds : UnlinkSample(i)
    BY <1>2
  <2>2. RowsOf(RowsOf(sample, items), items \ {i}) = RowsOf(sample, items \ {i})
    BY DEF RowsOf
  <2>3. rows' \subseteq rows /\ accounts' \subseteq accounts
    BY <2>1 DEF UnlinkSample, RowsOf, AccountsOf
  <2>4. OneSample'
    <3>1. rows = {} => rows' = {}
      BY <2>3
    <3>2. rows = RowsOf(sample, items) => rows' = RowsOf(sample', items')
      BY <2>1, <2>2 DEF UnlinkSample
    <3> QED
      BY <2>1, <3>1, <3>2 DEF SampleInv, OneSample, UnlinkSample
  <2>5. SampleTypeOK' /\ LateAreKnown'
    BY <2>1, <2>3 DEF UnlinkSample, SampleInv, SampleTypeOK, LateAreKnown
  <2>6. FillsAlone'
    BY <2>1, <2>3 DEF UnlinkSample, SampleInv, FillsAlone, OneFills, Filling
  <2> QED
    BY <2>4, <2>5, <2>6 DEF SampleInv
<1>3. CASE ResetSyncedData
  BY <1>3 DEF ResetSyncedData, SampleInv, SampleTypeOK, FillsAlone, OneFills, Filling, OneSample,
     LateAreKnown
<1> QED
  BY <1>1, <1>2, <1>3

LEMMA NextOK == SampleInv /\ [Next]_vars => SampleInv'
<1> SUFFICES ASSUME SampleInv, [Next]_vars PROVE SampleInv'
  OBVIOUS
<1>1. CASE UNCHANGED vars
  BY <1>1 DEF vars, SampleInv, SampleTypeOK, FillsAlone, OneFills, Filling, OneSample, LateAreKnown
<1>2. CASE Next
  BY <1>2, SeedStep, LinkStep, UserStep DEF Next
<1> QED
  BY <1>1, <1>2

(***************************************************************************)
(* The invariant of seeding holds of every run, for any number of commands *)
(* and banks.                                                              *)
(***************************************************************************)
THEOREM SampleInvariance == Spec => []SampleInv
BY InitOK, NextOK, PTL DEF Spec

(***************************************************************************)
(* Types: a command holds rows some options give and saves no bank beyond  *)
(* the list.                                                               *)
(***************************************************************************)
THEOREM SampleTypeCorrect == Spec => []SampleTypeOK
<1>1. SampleInv => SampleTypeOK
  BY DEF SampleInv
<1> QED
  BY <1>1, SampleInvariance, PTL

(***************************************************************************)
(* However commands fail, die and interleave with unlinking and resetting, *)
(* the tables never hold a blend of two samples unless two commands filled *)
(* them at once.                                                           *)
(***************************************************************************)
THEOREM NeverABlend == Spec => []OneSample
<1>1. SampleInv => OneSample
  BY DEF SampleInv
<1> QED
  BY <1>1, SampleInvariance, PTL

(***************************************************************************)
(* A command that reports success, and filled the tables alone, leaves its *)
(* own dataset in them, whole, whatever earlier ones left behind.          *)
(***************************************************************************)
THEOREM SeedingReplaces == Spec => LoneSeedIsExact
<1>1. SampleInv /\ [Next]_vars =>
        [\A c \in Commands :
           ~ tangled /\ cmd[c].pc = "items" /\ cmd'[c].pc = "done" =>
             /\ items' = ItemIds
             /\ accounts' = Accounts
             /\ rows' = cmd[c].data]_vars
  <2> SUFFICES ASSUME SampleInv, Next, NEW c \in Commands,
                      ~ tangled, cmd[c].pc = "items", cmd'[c].pc = "done"
               PROVE  items' = ItemIds /\ accounts' = Accounts /\ rows' = cmd[c].data
    OBVIOUS
  <2>1. cmd \in [Commands -> Command]
    BY DEF SampleInv, SampleTypeOK
  <2>2. ASSUME NEW b \in RealBanks PROVE ~ Link(b)
    <3> SUFFICES ASSUME Link(b) PROVE FALSE
      OBVIOUS
    <3>1. cmd'[c] = [cmd[c] EXCEPT !.late = @ \union {b}]
      BY DEF Link
    <3> QED
      BY <2>1, <3>1 DEF Command
  <2>3. PICK d \in Commands : Seed(d)
    BY <2>2 DEF Next, Unlink, UnlinkSample, ResetSyncedData
  <2>4. d = c
    BY <2>1, <2>3 DEF Seed, Run, Generate, AssertSeedable, DeleteBySource, SaveItem, StoreRows, Fail
  <2>5. ~ SaveItem(c)
    <3> SUFFICES ASSUME SaveItem(c) PROVE FALSE
      OBVIOUS
    <3>1. cmd'[c] = [cmd[c] EXCEPT !.saved = @ + 1]
      BY <2>1 DEF SaveItem
    <3> QED
      BY <2>1, <3>1 DEF Command
  <2>6. ~ Fail(c)
    BY <2>1, HandsAfterwards DEF Fail
  <2>7. StoreRows(c)
    BY <2>3, <2>4, <2>5, <2>6 DEF Seed, Run, Generate, AssertSeedable, DeleteBySource
  <2>8. items = ItemIds
    BY <2>1, <2>7, HandsAfterwards DEF StoreRows
  <2> QED
    BY <2>7, <2>8, StoredExactly
<1> QED
  BY <1>1, SampleInvariance, PTL DEF Spec, LoneSeedIsExact

(***************************************************************************)
(* A bank that was linked when a command looked keeps it from writing: the *)
(* only banks sample data is ever mixed with are those linked later.       *)
(***************************************************************************)
THEOREM MixedOnlyLate == Spec => OnlyLateBanksAreMixed
<1>1. SampleInv /\ [Next]_vars =>
        [\A c \in Commands :
           cmd[c].pc \in {"clear", "items"} /\ (rows' \ rows # {} \/ items' \ items # {})
             /\ cmd'[c] # cmd[c] => banks \subseteq cmd[c].late]_vars
  BY DEF SampleInv, LateAreKnown
<1> QED
  BY <1>1, SampleInvariance, PTL DEF Spec, OnlyLateBanksAreMixed

-------------------------------------------------------------------------------
(* Sums *)

(***************************************************************************)
(* What holds of 0 and goes on from each number to the next holds up to N. *)
(***************************************************************************)
LEMMA CountUp ==
  ASSUME NEW N \in Nat, NEW P,
         0 \in P,
         \A n \in 0 .. N : n \in P /\ n < N => n + 1 \in P
  PROVE  \A n \in 0 .. N : n \in P
<1> DEFINE Q == {n \in 0 .. N : n \notin P}
<1> SUFFICES ASSUME Q # {} PROVE FALSE
  OBVIOUS
<1>1. PICK n \in Q : \A m \in Q : ~ (<<m, n>> \in OpToRel(<, Nat))
  <2>1. Q \subseteq Nat
    OBVIOUS
  <2> QED
    BY <2>1, NatLessThanWellFounded, WFMin
<1>2. \A m \in Q : ~ (m < n)
  <2>1. Q \subseteq Nat
    OBVIOUS
  <2> HIDE DEF Q
  <2> QED
    BY <1>1, <2>1 DEF OpToRel
<1>3. n \in Nat /\ n # 0 /\ n <= N
  OBVIOUS
<1>4. n - 1 \in 0 .. N /\ n - 1 < N /\ n - 1 < n /\ (n - 1) + 1 = n
  BY <1>3
<1>5. n - 1 \in P
  BY <1>2, <1>4
<1>6. (n - 1) + 1 \in P
  BY <1>4, <1>5
<1> QED
  BY <1>4, <1>6

\* Every point but those of rank 0 has one before it.
Ranked(D, N, rank, pred) ==
  /\ N \in Nat /\ rank \in [D -> 0 .. N] /\ pred \in [D -> D]
  /\ \A x \in D : rank[x] # 0 => rank[pred[x]] < rank[x]

Accumulates(f, D, rank, pred, add) ==
  /\ f \in [D -> Int]
  /\ \A x \in D : f[x] = IF rank[x] = 0 THEN add[x] ELSE add[x] + f[pred[x]]

(***************************************************************************)
(* What adds something to its value at the point before exists.            *)
(***************************************************************************)
LEMMA ChainExists ==
  ASSUME NEW D, NEW N, NEW rank, NEW pred, Ranked(D, N, rank, pred),
         NEW add \in [D -> Int]
  PROVE  \E f : Accumulates(f, D, rank, pred, add)
<1> DEFINE Below(n) == {x \in D : rank[x] <= n}
           Chain(f, n) == /\ f \in [Below(n) -> Int]
                          /\ \A x \in Below(n) :
                               f[x] = IF rank[x] = 0 THEN add[x] ELSE add[x] + f[pred[x]]
           P == {n \in 0 .. N : \E f : Chain(f, n)}
<1>1. /\ N \in Nat
      /\ \A x \in D : rank[x] \in 0 .. N /\ pred[x] \in D /\ add[x] \in Int
      /\ \A x \in D : rank[x] # 0 => rank[pred[x]] < rank[x]
  BY DEF Ranked
<1>2. 0 \in P
  <2> DEFINE f == [x \in Below(0) |-> add[x]]
  <2>1. \A x \in Below(0) : rank[x] = 0
    BY <1>1
  <2>2. Chain(f, 0)
    BY <2>1
  <2>3. 0 \in 0 .. N
    BY <1>1
  <2> HIDE DEF f, Chain
  <2> QED
    BY <2>2, <2>3
<1>3. ASSUME NEW n \in 0 .. N, n \in P, n < N PROVE n + 1 \in P
  <2>1. PICK f : Chain(f, n)
    BY <1>3
  <2> DEFINE g == [x \in Below(n + 1) |->
                     IF x \in Below(n) THEN f[x]
                     ELSE IF rank[x] = 0 THEN add[x] ELSE add[x] + f[pred[x]]]
  <2>2. ASSUME NEW x \in Below(n + 1), rank[x] # 0 PROVE pred[x] \in Below(n)
    <3>1. rank[pred[x]] < rank[x] /\ rank[x] <= n + 1 /\ pred[x] \in D
      BY <1>1, <2>2
    <3>2. rank[pred[x]] \in Int /\ rank[x] \in Int /\ n \in Int
      BY <1>1, <3>1
    <3>3. rank[pred[x]] <= n
      BY <3>1, <3>2
    <3> QED
      BY <3>1, <3>3
  <2>3. Below(n) \subseteq Below(n + 1)
    <3>1. \A x \in D : rank[x] <= n => rank[x] <= n + 1
      BY <1>1
    <3> QED
      BY <3>1
  <2>4. \A x \in Below(n) : f[x] \in Int /\ f[x] = IF rank[x] = 0 THEN add[x] ELSE add[x] + f[pred[x]]
    BY <2>1
  <2> HIDE DEF Below
  <2>5. ASSUME NEW x \in Below(n + 1)
        PROVE  g[x] \in Int /\ g[x] = IF rank[x] = 0 THEN add[x] ELSE add[x] + g[pred[x]]
    <3>1. x \in D
      BY DEF Below
    <3>2. CASE rank[x] = 0
      BY <1>1, <2>4, <3>1, <3>2
    <3>3. CASE rank[x] # 0
      <4>1. pred[x] \in Below(n) /\ pred[x] \in Below(n + 1)
        BY <2>2, <2>3, <3>3
      <4>2. g[pred[x]] = f[pred[x]]
        BY <4>1
      <4>3. g[x] = add[x] + f[pred[x]]
        BY <2>4, <3>3
      <4>4. add[x] \in Int /\ f[pred[x]] \in Int
        BY <1>1, <2>4, <3>1, <4>1
      <4> QED
        BY <3>3, <4>2, <4>3, <4>4
    <3> QED
      BY <3>2, <3>3
  <2>6. Chain(g, n + 1)
    <3>1. g = [x \in Below(n + 1) |-> g[x]]
      OBVIOUS
    <3> HIDE DEF g
    <3> QED
      BY <2>5, <3>1
  <2>7. n + 1 \in 0 .. N
    BY <1>1, <1>3
  <2> QED
    BY <2>6, <2>7
<1>4. N \in P
  <2> HIDE DEF P
  <2> QED
    BY <1>1, <1>2, <1>3, CountUp
<1>5. PICK f : Chain(f, N)
  BY <1>4
<1>6. Below(N) = D
  BY <1>1
<1> QED
  BY <1>5, <1>6 DEF Accumulates

Summable(S) == IsFiniteSet(S) /\ \A r \in S : r.amount \in Int

\* The function whose value at S is Sum(S).
Adds(f, S) ==
  f = [s \in SUBSET S |-> IF s = {} THEN 0
                          ELSE LET x == CHOOSE x \in s : TRUE
                               IN  x.amount + f[s \ {x}]]

Picked(S) == CHOOSE x \in S : TRUE

(***************************************************************************)
(* It exists,                                                              *)
(***************************************************************************)
LEMMA SumExists ==
  ASSUME NEW S, Summable(S)
  PROVE  \E f \in [SUBSET S -> Int] : Adds(f, S)
<1> DEFINE D == SUBSET S
           N == Cardinality(S)
           rank == [s \in D |-> Cardinality(s)]
           pred == [s \in D |-> s \ {Picked(s)}]
           add  == [s \in D |-> IF s = {} THEN 0 ELSE Picked(s).amount]
<1>1. N \in Nat /\ \A s \in D : IsFiniteSet(s) /\ Cardinality(s) \in 0 .. N
  BY FS_Subset, FS_CardinalityType DEF Summable
<1>2. \A s \in D : s # {} => Picked(s) \in s
  BY DEF Picked
<1>3. \A s \in D : (rank[s] = 0) <=> (s = {})
  BY <1>1, FS_EmptySet
<1>4. ASSUME NEW s \in D, rank[s] # 0 PROVE rank[pred[s]] < rank[s]
  <2>1. IsFiniteSet(s) /\ Picked(s) \in s /\ Cardinality(s) \in Nat
    <3>1. s # {}
      BY <1>3, <1>4
    <3> HIDE DEF N, rank, pred, add
    <3>2. IsFiniteSet(s) /\ Cardinality(s) \in 0 .. N /\ N \in Nat
      BY <1>1
    <3> QED
      BY <1>2, <3>1, <3>2
  <2>2. Cardinality(s \ {Picked(s)}) = Cardinality(s) - 1
    BY <2>1, FS_RemoveElement
  <2> QED
    BY <2>1, <2>2
<1>5. rank \in [D -> 0 .. N] /\ pred \in [D -> D] /\ add \in [D -> Int]
  BY <1>1, <1>2 DEF Summable
<1>6. PICK f : Accumulates(f, D, rank, pred, add)
  <2>1. Ranked(D, N, rank, pred)
    BY <1>1, <1>4, <1>5 DEF Ranked
  <2> HIDE DEF D, N, rank, pred, add
  <2> QED
    BY <1>5, <2>1, ChainExists
<1>7. \A s \in D : f[s] = IF s = {} THEN 0 ELSE Picked(s).amount + f[s \ {Picked(s)}]
  <2>1. /\ f \in [D -> Int]
        /\ \A s \in D : f[s] = IF rank[s] = 0 THEN add[s] ELSE add[s] + f[pred[s]]
    BY <1>6 DEF Accumulates
  <2> QED
    BY <1>3, <2>1
<1>8. Adds(f, S) /\ f \in [D -> Int]
  BY <1>6, <1>7 DEF Adds, Picked, Accumulates
<1> QED
  BY <1>8

(***************************************************************************)
(* and is the same on the subsets of two sets.                             *)
(***************************************************************************)
LEMMA SumUnique ==
  ASSUME NEW A, NEW B, IsFiniteSet(A), NEW f, NEW g, Adds(f, A), Adds(g, B),
         NEW V, V \subseteq A, V \subseteq B
  PROVE  f[V] = g[V]
<1> DEFINE N == Cardinality(A)
           P == {n \in 0 .. N : \A s \in SUBSET (A \intersect B) : Cardinality(s) = n => f[s] = g[s]}
<1>1. N \in Nat /\ \A s \in SUBSET (A \intersect B) : IsFiniteSet(s) /\ Cardinality(s) \in 0 .. N
  BY FS_Subset, FS_CardinalityType
<1>2. \A s \in SUBSET (A \intersect B) :
        /\ f[s] = IF s = {} THEN 0 ELSE Picked(s).amount + f[s \ {Picked(s)}]
        /\ g[s] = IF s = {} THEN 0 ELSE Picked(s).amount + g[s \ {Picked(s)}]
  BY DEF Adds, Picked
<1>3. 0 \in P
  <2>1. \A s \in SUBSET (A \intersect B) : Cardinality(s) = 0 => s = {}
    BY <1>1, FS_EmptySet
  <2>2. f[{}] = g[{}]
    BY <1>2
  <2> QED
    BY <1>1, <2>1, <2>2
<1>4. ASSUME NEW n \in 0 .. N, n \in P, n < N PROVE n + 1 \in P
  <2>1. n + 1 \in 0 .. N
    BY <1>1, <1>4
  <2>2. ASSUME NEW s \in SUBSET (A \intersect B), Cardinality(s) = n + 1 PROVE f[s] = g[s]
    <3>1. s # {}
      BY <2>2, FS_EmptySet
    <3>2. Picked(s) \in s
      BY <3>1 DEF Picked
    <3>3. Cardinality(s \ {Picked(s)}) = n
      <4>1. Cardinality(s \ {Picked(s)}) = Cardinality(s) - 1
        BY <1>1, <3>2, FS_RemoveElement
      <4> QED
        BY <2>2, <4>1
    <3>4. f[s \ {Picked(s)}] = g[s \ {Picked(s)}]
      BY <1>4, <3>3
    <3> QED
      BY <1>2, <3>1, <3>4
  <2> QED
    BY <2>1, <2>2
<1>5. \A n \in 0 .. N : n \in P
  <2> HIDE DEF P, N
  <2> QED
    BY <1>1, <1>3, <1>4, CountUp
<1> QED
  BY <1>1, <1>5

LEMMA SumIs ==
  ASSUME NEW S
  PROVE  Sum(S) = (CHOOSE f : Adds(f, S))[S]
BY DEF Sum, MapThenSumSet, MapThenFoldSet, Adds

(***************************************************************************)
(* A sum is that of one row and of the others, whichever CHOOSE takes.     *)
(***************************************************************************)
LEMMA SumPicked ==
  ASSUME NEW S, Summable(S)
  PROVE  /\ Sum(S) \in Int
         /\ S = {} => Sum(S) = 0
         /\ S # {} => Picked(S) \in S /\ Sum(S) = Picked(S).amount + Sum(S \ {Picked(S)})
<1> DEFINE R == S \ {Picked(S)}
           f == CHOOSE h : Adds(h, S)
           g == CHOOSE h : Adds(h, R)
<1>1. Summable(R)
  BY FS_Subset DEF Summable
<1>2. Adds(f, S) /\ Adds(g, R)
  BY <1>1, SumExists
<1>3. Sum(S) = f[S] /\ Sum(R) = g[R]
  BY SumIs
<1>4. PICK h \in [SUBSET S -> Int] : Adds(h, S)
  BY SumExists
<1> HIDE DEF f, g, R
<1>5. f[S] = h[S]
  BY <1>2, <1>4, SumUnique DEF Summable
<1>6. h[S] \in Int
  BY <1>4
<1>7. f[S] = IF S = {} THEN 0 ELSE Picked(S).amount + f[R]
  BY <1>2 DEF Adds, Picked, R
<1>8. f[R] = g[R]
  <2>1. R \subseteq S /\ IsFiniteSet(S)
    BY DEF R, Summable
  <2> QED
    BY <1>2, <2>1, SumUnique
<1>9. S # {} => Picked(S) \in S
  BY DEF Picked
<1> QED
  BY <1>3, <1>5, <1>6, <1>7, <1>8, <1>9 DEF R

(***************************************************************************)
(* Any row may be taken out first.                                         *)
(***************************************************************************)
LEMMA SumWithout ==
  ASSUME NEW S, Summable(S), NEW y \in S
  PROVE  Sum(S) = y.amount + Sum(S \ {y})
<1> DEFINE N == Cardinality(S)
           P == {n \in 0 .. N : \A T \in SUBSET S : Cardinality(T) = n =>
                                  \A r \in T : Sum(T) = r.amount + Sum(T \ {r})}
<1>1. N \in Nat /\ \A T \in SUBSET S : Summable(T) /\ IsFiniteSet(T) /\ Cardinality(T) \in 0 .. N
  BY FS_Subset, FS_CardinalityType DEF Summable
<1>2. 0 \in P
  <2>1. \A T \in SUBSET S : Cardinality(T) = 0 => T = {}
    BY <1>1, FS_EmptySet
  <2> QED
    BY <1>1, <2>1
<1>3. ASSUME NEW n \in 0 .. N, n \in P, n < N PROVE n + 1 \in P
  <2>1. n + 1 \in 0 .. N
    BY <1>1, <1>3
  <2>2. ASSUME NEW T \in SUBSET S, Cardinality(T) = n + 1, NEW r \in T
        PROVE  Sum(T) = r.amount + Sum(T \ {r})
    <3> DEFINE x == Picked(T)
    <3>1. Summable(T) /\ IsFiniteSet(T) /\ T # {}
      BY <1>1
    <3>2. x \in T /\ Sum(T) = x.amount + Sum(T \ {x})
      BY <3>1, SumPicked
    <3>3. CASE r = x
      BY <3>2, <3>3
    <3>4. CASE r # x
      <4>1. /\ Cardinality(T \ {x}) = n /\ T \ {x} \in SUBSET S /\ r \in T \ {x}
            /\ Cardinality(T \ {r}) = n /\ T \ {r} \in SUBSET S /\ x \in T \ {r}
        <5>1. Cardinality(T \ {x}) = Cardinality(T) - 1 /\ Cardinality(T \ {r}) = Cardinality(T) - 1
          BY <3>1, <3>2, FS_RemoveElement
        <5>2. Cardinality(T) = n + 1 /\ n \in Int
          BY <2>2
        <5>3. Cardinality(T \ {x}) = n /\ Cardinality(T \ {r}) = n
          BY <5>1, <5>2
        <5> HIDE DEF x
        <5> QED
          BY <3>2, <3>4, <5>3
      <4>2. /\ Sum(T \ {x}) = r.amount + Sum((T \ {x}) \ {r})
            /\ Sum(T \ {r}) = x.amount + Sum((T \ {r}) \ {x})
        BY <1>3, <4>1
      <4>3. (T \ {x}) \ {r} = (T \ {r}) \ {x}
        OBVIOUS
      <4>4. x.amount \in Int /\ r.amount \in Int
        BY <3>1, <3>2 DEF Summable
      <4>5. Sum((T \ {r}) \ {x}) \in Int
        <5>1. (T \ {r}) \ {x} \in SUBSET S
          OBVIOUS
        <5>2. Summable((T \ {r}) \ {x})
          BY <1>1, <5>1
        <5> QED
          BY <5>2, SumPicked
      <4> DEFINE rest == Sum((T \ {r}) \ {x})
      <4> HIDE DEF x, rest
      <4>6. /\ Sum(T) = x.amount + (r.amount + rest)
            /\ Sum(T \ {r}) = x.amount + rest
        BY <3>2, <4>2, <4>3 DEF rest
      <4>7. x.amount + (r.amount + rest) = r.amount + (x.amount + rest)
        BY <4>4, <4>5 DEF rest
      <4> QED
        BY <4>6, <4>7
    <3> QED
      BY <3>3, <3>4
  <2> QED
    BY <2>1, <2>2
<1>4. N \in P
  <2> HIDE DEF P, N
  <2> QED
    BY <1>1, <1>2, <1>3, CountUp
<1> QED
  BY <1>4

(***************************************************************************)
(* The sum over two sets that have no row in common.                       *)
(***************************************************************************)
LEMMA SumJoin ==
  ASSUME NEW A, NEW B, Summable(A), Summable(B), A \intersect B = {}
  PROVE  Summable(A \union B) /\ Sum(A \union B) = Sum(A) + Sum(B)
<1>0. Summable(A \union B)
  BY FS_Union DEF Summable
<1> DEFINE N == Cardinality(A)
           P == {n \in 0 .. N : \A T \in SUBSET A : Cardinality(T) = n =>
                                  Sum(T \union B) = Sum(T) + Sum(B)}
<1>1. N \in Nat /\ \A T \in SUBSET A : Summable(T) /\ IsFiniteSet(T) /\ Cardinality(T) \in 0 .. N
  BY FS_Subset, FS_CardinalityType DEF Summable
<1>2. Sum(B) \in Int /\ \A T \in SUBSET A : Sum(T) \in Int /\ Summable(T \union B)
  <2>1. \A T \in SUBSET A : Summable(T \union B)
    BY <1>1, FS_Union DEF Summable
  <2> QED
    BY <1>1, <2>1, SumPicked
<1>3. 0 \in P
  <2>1. \A T \in SUBSET A : Cardinality(T) = 0 => T = {}
    BY <1>1, FS_EmptySet
  <2>2. Sum({}) = 0 /\ {} \union B = B
    <3>1. Summable({})
      BY <1>1
    <3> QED
      BY <3>1, SumPicked
  <2> QED
    BY <1>1, <1>2, <2>1, <2>2
<1>4. ASSUME NEW n \in 0 .. N, n \in P, n < N PROVE n + 1 \in P
  <2>1. n + 1 \in 0 .. N
    BY <1>1, <1>4
  <2>2. ASSUME NEW T \in SUBSET A, Cardinality(T) = n + 1
        PROVE  Sum(T \union B) = Sum(T) + Sum(B)
    <3>1. T # {}
      BY <2>2, FS_EmptySet
    <3>2. PICK x : x \in T
      BY <3>1
    <3>3. Cardinality(T \ {x}) = n /\ T \ {x} \in SUBSET A
      <4>1. Cardinality(T \ {x}) = Cardinality(T) - 1
        BY <1>1, <3>2, FS_RemoveElement
      <4> QED
        BY <2>2, <4>1
    <3>4. Sum((T \ {x}) \union B) = Sum(T \ {x}) + Sum(B)
      BY <1>4, <3>3
    <3>5. Sum(T) = x.amount + Sum(T \ {x})
      BY <1>1, <3>2, SumWithout
    <3>6. Sum(T \union B) = x.amount + Sum((T \union B) \ {x})
      BY <1>2, <3>2, SumWithout
    <3>7. (T \union B) \ {x} = (T \ {x}) \union B
      BY <3>2
    <3>8. x.amount \in Int /\ Sum(T \ {x}) \in Int
      BY <1>1, <1>2, <3>2, <3>3 DEF Summable
    <3> QED
      BY <1>2, <3>4, <3>5, <3>6, <3>7, <3>8
  <2> QED
    BY <2>1, <2>2
<1>5. N \in P
  <2> HIDE DEF P, N
  <2> QED
    BY <1>1, <1>3, <1>4, CountUp
<1> QED
  BY <1>0, <1>5

(***************************************************************************)
(* Charges add up to no less than nothing.                                 *)
(***************************************************************************)
LEMMA SumOfCharges ==
  ASSUME NEW S, Summable(S), \A r \in S : r.amount >= 0
  PROVE  Sum(S) >= 0
<1> DEFINE N == Cardinality(S)
           P == {n \in 0 .. N : \A T \in SUBSET S : Cardinality(T) = n => Sum(T) >= 0}
<1>1. N \in Nat /\ \A T \in SUBSET S : Summable(T) /\ IsFiniteSet(T) /\ Cardinality(T) \in 0 .. N
  BY FS_Subset, FS_CardinalityType DEF Summable
<1>2. 0 \in P
  <2>1. \A T \in SUBSET S : Cardinality(T) = 0 => T = {}
    BY <1>1, FS_EmptySet
  <2>2. Sum({}) = 0
    <3>1. Summable({})
      BY <1>1
    <3> QED
      BY <3>1, SumPicked
  <2> QED
    BY <1>1, <2>1, <2>2
<1>3. ASSUME NEW n \in 0 .. N, n \in P, n < N PROVE n + 1 \in P
  <2>1. n + 1 \in 0 .. N
    BY <1>1, <1>3
  <2>2. ASSUME NEW T \in SUBSET S, Cardinality(T) = n + 1 PROVE Sum(T) >= 0
    <3>1. T # {} /\ Summable(T) /\ IsFiniteSet(T)
      BY <1>1, <2>2, FS_EmptySet
    <3>2. PICK x : x \in T
      BY <3>1
    <3>3. Cardinality(T \ {x}) = n /\ T \ {x} \in SUBSET S
      <4>1. Cardinality(T \ {x}) = Cardinality(T) - 1
        BY <3>1, <3>2, FS_RemoveElement
      <4> QED
        BY <2>2, <4>1
    <3>4. Sum(T \ {x}) >= 0 /\ Sum(T \ {x}) \in Int
      BY <1>1, <1>3, <3>3, SumPicked
    <3>5. Sum(T) = x.amount + Sum(T \ {x})
      BY <3>1, <3>2, SumWithout
    <3>6. x.amount \in Int /\ x.amount >= 0
      BY <3>1, <3>2 DEF Summable
    <3> QED
      BY <3>4, <3>5, <3>6
  <2> QED
    BY <2>1, <2>2
<1>4. N \in P
  <2> HIDE DEF P, N
  <2> QED
    BY <1>1, <1>2, <1>3, CountUp
<1> QED
  BY <1>4

-------------------------------------------------------------------------------
(* The calendar *)

Calendar == DOMAIN MonthStart

LEMMA OrdinalIsOne ==
  ASSUME NEW m \in Int \X (1 .. 12), NEW n \in Int \X (1 .. 12), Ordinal(m) = Ordinal(n)
  PROVE  m = n
<1>1. /\ m[1] \in Int /\ m[2] \in Int /\ 1 <= m[2] /\ m[2] <= 12
      /\ n[1] \in Int /\ n[2] \in Int /\ 1 <= n[2] /\ n[2] <= 12
      /\ m = <<m[1], m[2]>> /\ n = <<n[1], n[2]>>
  OBVIOUS
<1>2. 12 * m[1] + m[2] = 12 * n[1] + n[2]
  BY DEF Ordinal
<1>3. m[1] = n[1] /\ m[2] = n[2]
  BY <1>1, <1>2
<1> QED
  BY <1>1, <1>3

(***************************************************************************)
(* previousMonth goes back by one month, over a New Year too.              *)
(***************************************************************************)
LEMMA PreviousIsBefore ==
  ASSUME NEW m \in Int \X (1 .. 12)
  PROVE  previousMonth(m) \in Int \X (1 .. 12) /\ Ordinal(previousMonth(m)) = Ordinal(m) - 1
<1>1. m[1] \in Int /\ m[2] \in 1 .. 12
  OBVIOUS
<1>2. CASE m[2] = 1
  <2>1. previousMonth(m) = <<m[1] - 1, 12>>
    BY <1>2 DEF previousMonth
  <2> QED
    BY <1>1, <1>2, <2>1 DEF Ordinal
<1>3. CASE m[2] # 1
  <2>1. previousMonth(m) = <<m[1], m[2] - 1>>
    BY <1>3 DEF previousMonth
  <2> QED
    BY <1>1, <1>3, <2>1 DEF Ordinal
<1> QED
  BY <1>2, <1>3

(***************************************************************************)
(* A month begins after the one before it, and none between the two.       *)
(***************************************************************************)
LEMMA MonthsFollow ==
  /\ \A m \in Calendar :
       /\ MonthStart[m] \in Int
       /\ previousMonth(m) \in Calendar => MonthStart[previousMonth(m)] < MonthStart[m]
  /\ \A m, n \in Calendar :
       /\ MonthStart[m] = MonthStart[n] => m = n
       /\ MonthStart[n] < MonthStart[m] =>
            /\ previousMonth(m) \in Calendar
            /\ MonthStart[n] <= MonthStart[previousMonth(m)]
<1>1. /\ Calendar \subseteq Int \X (1 .. 12)
      /\ \A m \in Calendar : MonthStart[m] \in Int
      /\ \A m, n \in Calendar :
           Ordinal(n) < Ordinal(m) =>
             MonthStart[n] < MonthStart[m] /\ \E k \in Calendar : Ordinal(k) = Ordinal(m) - 1
  BY CalendarAssumption DEF Calendar
<1>2. \A m \in Int \X (1 .. 12) : Ordinal(m) \in Int
  BY DEF Ordinal
<1>3. ASSUME NEW m \in Calendar, previousMonth(m) \in Calendar
      PROVE  MonthStart[previousMonth(m)] < MonthStart[m]
  <2>1. Ordinal(previousMonth(m)) < Ordinal(m)
    BY <1>1, <1>2, PreviousIsBefore
  <2> QED
    BY <1>1, <1>3, <2>1
<1>4. ASSUME NEW m \in Calendar, NEW n \in Calendar, MonthStart[m] = MonthStart[n] PROVE m = n
  <2>1. ~ (Ordinal(m) < Ordinal(n)) /\ ~ (Ordinal(n) < Ordinal(m))
    BY <1>1, <1>4
  <2>2. Ordinal(m) \in Int /\ Ordinal(n) \in Int
    BY <1>1, <1>2
  <2>3. Ordinal(m) = Ordinal(n)
    BY <2>1, <2>2
  <2> QED
    BY <1>1, <2>3, OrdinalIsOne
<1>5. ASSUME NEW m \in Calendar, NEW n \in Calendar, MonthStart[n] < MonthStart[m]
      PROVE  previousMonth(m) \in Calendar /\ MonthStart[n] <= MonthStart[previousMonth(m)]
  <2>1. Ordinal(m) \in Int /\ Ordinal(n) \in Int /\ MonthStart[m] \in Int /\ MonthStart[n] \in Int
    BY <1>1, <1>2
  <2>2. Ordinal(n) < Ordinal(m)
    <3>1. Ordinal(m) < Ordinal(n) => MonthStart[m] < MonthStart[n]
      BY <1>1
    <3>2. Ordinal(m) = Ordinal(n) => MonthStart[m] = MonthStart[n]
      BY <1>1, OrdinalIsOne
    <3> QED
      BY <1>5, <2>1, <3>1, <3>2
  <2>3. PICK k \in Calendar : Ordinal(k) = Ordinal(m) - 1
    BY <1>1, <2>2
  <2>4. k = previousMonth(m)
    BY <1>1, <2>3, PreviousIsBefore, OrdinalIsOne
  <2>5. n = k \/ Ordinal(n) < Ordinal(k)
    <3>1. Ordinal(n) <= Ordinal(k) /\ Ordinal(k) \in Int
      BY <2>1, <2>2, <2>3
    <3>2. Ordinal(n) = Ordinal(k) => n = k
      BY <1>1, OrdinalIsOne
    <3> QED
      BY <2>1, <3>1, <3>2
  <2>6. MonthStart[n] <= MonthStart[k]
    <3>1. Ordinal(n) < Ordinal(k) => MonthStart[n] < MonthStart[k]
      BY <1>1
    <3>2. MonthStart[k] \in Int
      BY <1>1
    <3> QED
      BY <2>1, <2>5, <3>1, <3>2
  <2> QED
    BY <2>3, <2>4, <2>6
<1> QED
  BY <1>1, <1>3, <1>4, <1>5

\* A day of the calendar: some month has begun by then.
Dated(day) == day \in Int /\ \E m \in Calendar : MonthStart[m] <= day

(***************************************************************************)
(* A day is in the last month to begin by then.                            *)
(***************************************************************************)
LEMMA MonthOf ==
  ASSUME NEW day, Dated(day)
  PROVE  /\ monthKey(day) \in Calendar
         /\ MonthStart[monthKey(day)] <= day
         /\ \A n \in Calendar : MonthStart[n] <= day => MonthStart[n] <= MonthStart[monthKey(day)]
<1> DEFINE Begun == {m \in Calendar : MonthStart[m] <= day}
           Ages  == {day - MonthStart[m] : m \in Begun}
<1>1. day \in Int /\ \A m \in Calendar : MonthStart[m] \in Int
  BY MonthsFollow DEF Dated, Calendar
<1>2. Ages \subseteq Nat /\ Ages # {}
  <2>1. \A m \in Begun : day - MonthStart[m] \in Nat
    BY <1>1
  <2>2. Begun # {}
    BY DEF Dated
  <2> QED
    BY <2>1, <2>2
<1>3. PICK a \in Ages : \A b \in Ages : ~ (<<b, a>> \in OpToRel(<, Nat))
  <2> HIDE DEF Ages
  <2> QED
    BY <1>2, NatLessThanWellFounded, WFMin
<1>4. \A b \in Ages : ~ (b < a)
  <2> HIDE DEF Ages
  <2> QED
    BY <1>2, <1>3 DEF OpToRel
<1>5. PICK m \in Begun : a = day - MonthStart[m]
  OBVIOUS
<1>6. ASSUME NEW n \in Begun PROVE MonthStart[n] <= MonthStart[m]
  <2>1. ~ (day - MonthStart[n] < day - MonthStart[m])
    BY <1>4, <1>5
  <2>2. MonthStart[n] \in Int /\ MonthStart[m] \in Int
    BY <1>1
  <2> QED
    BY <1>1, <2>1, <2>2
<1>7. \E k \in DOMAIN MonthStart :
        /\ MonthStart[k] <= day
        /\ \A n \in DOMAIN MonthStart : MonthStart[n] <= day => MonthStart[n] <= MonthStart[k]
  BY <1>6 DEF Calendar
<1> QED
  BY <1>7 DEF monthKey, Calendar

(***************************************************************************)
(* ... which no later one has begun to follow.                             *)
(***************************************************************************)
LEMMA MonthIs ==
  ASSUME NEW day \in Int, NEW m \in Calendar, MonthStart[m] <= day,
         \A n \in Calendar : MonthStart[m] < MonthStart[n] => day < MonthStart[n]
  PROVE  Dated(day) /\ monthKey(day) = m
<1>1. Dated(day)
  BY DEF Dated
<1>2. /\ monthKey(day) \in Calendar /\ MonthStart[monthKey(day)] <= day
      /\ MonthStart[m] <= MonthStart[monthKey(day)]
  BY <1>1, MonthOf
<1>3. MonthStart[m] \in Int /\ MonthStart[monthKey(day)] \in Int
  BY <1>2, MonthsFollow DEF Calendar
<1>4. MonthStart[m] = MonthStart[monthKey(day)]
  <2>1. MonthStart[m] < MonthStart[monthKey(day)] => day < MonthStart[monthKey(day)]
    BY <1>2
  <2> QED
    BY <1>2, <1>3, <2>1
<1> QED
  BY <1>1, <1>2, <1>4, MonthsFollow DEF Calendar

(***************************************************************************)
(* The next day is in the same month, or begins the one that follows it.   *)
(***************************************************************************)
LEMMA NextDay ==
  ASSUME NEW day, Dated(day)
  PROVE  /\ Dated(day + 1)
         /\ monthKey(day + 1) # monthKey(day) =>
              /\ MonthStart[monthKey(day + 1)] = day + 1
              /\ previousMonth(monthKey(day + 1)) = monthKey(day)
              /\ MonthStart[monthKey(day)] < MonthStart[monthKey(day + 1)]
<1> DEFINE m == monthKey(day)
           n == monthKey(day + 1)
           p == previousMonth(n)
<1>1. day \in Int /\ \A k \in Calendar : MonthStart[k] \in Int
  BY MonthsFollow DEF Dated, Calendar
<1>2. Dated(day + 1)
  <2>1. PICK k \in Calendar : MonthStart[k] <= day
    BY DEF Dated
  <2>2. MonthStart[k] <= day + 1 /\ day + 1 \in Int
    BY <1>1, <2>1
  <2> QED
    BY <2>1, <2>2 DEF Dated
<1>3. /\ m \in Calendar /\ MonthStart[m] <= day
      /\ \A k \in Calendar : MonthStart[k] <= day => MonthStart[k] <= MonthStart[m]
  BY MonthOf
<1>4. /\ n \in Calendar /\ MonthStart[n] <= day + 1
      /\ \A k \in Calendar : MonthStart[k] <= day + 1 => MonthStart[k] <= MonthStart[n]
  BY <1>2, MonthOf
<1> HIDE DEF m, n
<1>5. SUFFICES ASSUME n # m
               PROVE  MonthStart[n] = day + 1 /\ p = m /\ MonthStart[m] < MonthStart[n]
  BY <1>2 DEF m, n
<1>6. MonthStart[m] \in Int /\ MonthStart[n] \in Int /\ MonthStart[m] # MonthStart[n]
  BY <1>3, <1>4, <1>5, MonthsFollow DEF Calendar
<1>7. MonthStart[m] <= MonthStart[n]
  <2>1. MonthStart[m] <= day + 1
    BY <1>1, <1>3, <1>6
  <2> QED
    BY <1>3, <1>4, <2>1
<1>8. MonthStart[m] < MonthStart[n]
  BY <1>6, <1>7
<1>9. ~ (MonthStart[n] <= day)
  <2>1. MonthStart[n] <= day => MonthStart[n] <= MonthStart[m]
    BY <1>3, <1>4
  <2> QED
    BY <1>6, <1>8, <2>1
<1>10. MonthStart[n] = day + 1
  BY <1>1, <1>4, <1>6, <1>9
<1>11. p \in Calendar /\ MonthStart[m] <= MonthStart[p] /\ MonthStart[p] < MonthStart[n]
  BY <1>3, <1>4, <1>8, MonthsFollow DEF Calendar
<1>12. MonthStart[p] \in Int
  BY <1>1, <1>11
<1>13. MonthStart[p] <= day
  BY <1>1, <1>10, <1>11, <1>12
<1>14. MonthStart[p] <= MonthStart[m]
  BY <1>3, <1>11, <1>13
<1>15. MonthStart[p] = MonthStart[m]
  BY <1>6, <1>11, <1>12, <1>14
<1>16. p = m
  BY <1>3, <1>11, <1>15, MonthsFollow DEF Calendar
<1> QED
  BY <1>8, <1>10, <1>16

(***************************************************************************)
(* The pay day of a month is one of its days,                              *)
(***************************************************************************)
LEMMA PayDay ==
  ASSUME NEW c \in CARDS, NEW m \in Calendar
  PROVE  /\ toDayNumber(m, c.dom) \in Int
         /\ MonthStart[m] <= toDayNumber(m, c.dom)
         /\ Dated(toDayNumber(m, c.dom)) /\ monthKey(toDayNumber(m, c.dom)) = m
         /\ \A n \in Calendar : MonthStart[m] < MonthStart[n] => toDayNumber(m, c.dom) < MonthStart[n]
<1>1. MonthStart[m] \in Int /\ c.dom \in Nat \ {0}
  BY MonthsFollow, CardsAssumption DEF Calendar
<1>2. toDayNumber(m, c.dom) \in Int /\ MonthStart[m] <= toDayNumber(m, c.dom)
  BY <1>1 DEF toDayNumber
<1>3. \A n \in Calendar : MonthStart[m] < MonthStart[n] => toDayNumber(m, c.dom) < MonthStart[n]
  BY CardsAssumption DEF Calendar
<1> QED
  BY <1>2, <1>3, MonthIs

(***************************************************************************)
(* and what was charged the month before was charged before it.            *)
(***************************************************************************)
LEMMA ChargedBefore ==
  ASSUME NEW m \in Calendar, NEW day, Dated(day), monthKey(day) = previousMonth(m)
  PROVE  day < MonthStart[m] /\ monthKey(day) # m
<1> DEFINE p == previousMonth(m)
<1>1. /\ p \in Calendar
      /\ \A n \in Calendar : MonthStart[n] <= day => MonthStart[n] <= MonthStart[p]
  BY MonthOf
<1>2. MonthStart[p] < MonthStart[m]
  BY <1>1, MonthsFollow DEF Calendar
<1>3. MonthStart[p] \in Int /\ MonthStart[m] \in Int /\ day \in Int
  BY <1>1, MonthsFollow DEF Calendar, Dated
<1> HIDE DEF p
<1>4. ~ (MonthStart[m] <= day)
  BY <1>1, <1>2, <1>3
<1>5. p # m
  BY <1>2, <1>3
<1> QED
  BY <1>3, <1>4, <1>5 DEF p

-------------------------------------------------------------------------------
(* What is charged to a card *)

LEMMA FiniteImage ==
  ASSUME NEW S, IsFiniteSet(S), NEW f
  PROVE  IsFiniteSet({f[x] : x \in S})
<1> DEFINE T == {f[x] : x \in S}
           g == [x \in S |-> f[x]]
<1>1. g \in Surjection(S, T)
  BY DEF Surjection
<1> HIDE DEF T, g
<1>2. IsFiniteSet(T)
  BY <1>1, FS_Surjection
<1> QED
  BY <1>2 DEF T

\* The rows that are no payment of a card.
Spent(o) == UNION {Income(o), Bonus(o), Monthly(o), Everyday(o), Travel(o)}

LEMMA WindowsDated ==
  ASSUME NEW o \in Options
  PROVE  /\ o.first \in Int /\ o.last \in Int /\ o.seed \in DOMAIN Rng
         /\ \A day \in Int : o.first <= day => Dated(day)
         /\ \A day \in Days(o) : Dated(day)
         /\ Months(o) \subseteq Calendar
<1>1. o.first \in Int /\ o.last \in Int /\ o.seed \in DOMAIN Rng
  BY SeedAssumption
<1>2. PICK m \in Calendar : MonthStart[m] <= o.first
  BY SeedAssumption DEF Calendar
<1>3. MonthStart[m] \in Int
  BY MonthsFollow DEF Calendar
<1>4. \A day \in Int : o.first <= day => MonthStart[m] <= day
  BY <1>1, <1>2, <1>3
<1>5. \A day \in Int : o.first <= day => Dated(day)
  BY <1>4 DEF Dated
<1>6. \A day \in Days(o) : day \in Int /\ o.first <= day
  BY <1>1 DEF Days
<1>7. \A day \in Days(o) : Dated(day)
  BY <1>5, <1>6
<1> QED
  BY <1>1, <1>5, <1>7, MonthOf DEF Months

LEMMA MonthsFinite ==
  ASSUME NEW o \in Options
  PROVE  IsFiniteSet(Months(o))
<1> DEFINE f == [day \in Days(o) |-> monthKey(day)]
<1>1. IsFiniteSet(Days(o))
  BY SeedAssumption, FS_Interval DEF Days
<1>2. Months(o) = {f[day] : day \in Days(o)}
  BY DEF Months
<1> HIDE DEF f
<1> QED
  BY <1>1, <1>2, FiniteImage

\* A charge: it takes something, in the window's first day or later, and is no payment.
Charge(o, r) ==
  /\ r.amount \in Nat \ {0}
  /\ r.day \in Int /\ o.first <= r.day
  /\ r.kind # "TRANSFER_IN"

ChargedTo(o, S) ==
  /\ IsFiniteSet(S)
  /\ \A r \in S : IsCard(r.account) => Charge(o, r)

(***************************************************************************)
(* What recurs monthly,                                                    *)
(***************************************************************************)
LEMMA MonthlyCharges ==
  ASSUME NEW o \in Options
  PROVE  ChargedTo(o, Monthly(o))
<1> DEFINE S == {y \in Months(o) \X FIXTURES : toDayNumber(y[1], y[2].dom) \in Days(o)}
           f == [x \in S |-> Row(<<"monthly", x>>, x[2].account, toDayNumber(x[1], x[2].dom),
                                 x[2].amount, x[2].kind)]
<1>1. IsFiniteSet(S)
  <2>1. IsFiniteSet(Months(o) \X FIXTURES)
    BY MonthsFinite, CardsAssumption, FS_Product
  <2> QED
    BY <2>1, FS_Subset
<1>2. Monthly(o) = {f[x] : x \in S}
  BY DEF Monthly
<1>3. IsFiniteSet(Monthly(o))
  <2> HIDE DEF S, f
  <2> QED
    BY <1>1, <1>2, FiniteImage
<1>4. ASSUME NEW r \in Monthly(o), IsCard(r.account) PROVE Charge(o, r)
  <2>1. PICK x \in S : r = Row(<<"monthly", x>>, x[2].account, toDayNumber(x[1], x[2].dom),
                               x[2].amount, x[2].kind)
    BY DEF Monthly
  <2>2. r.account = x[2].account /\ r.amount = x[2].amount /\ r.kind = x[2].kind
        /\ r.day = toDayNumber(x[1], x[2].dom)
    BY <2>1 DEF Row
  <2>3. x[2] \in FIXTURES /\ r.day \in Days(o)
    BY <2>2
  <2>4. r.amount \in Nat \ {0} /\ r.kind # "TRANSFER_IN"
    BY <1>4, <2>2, <2>3, CardsAssumption
  <2>5. r.day \in Int /\ o.first <= r.day
    BY <2>3, SeedAssumption DEF Days
  <2> QED
    BY <2>4, <2>5 DEF Charge
<1> QED
  BY <1>3, <1>4 DEF ChargedTo

(***************************************************************************)
(* what is bought any day,                                                 *)
(***************************************************************************)
LEMMA EverydayCharges ==
  ASSUME NEW o \in Options
  PROVE  ChargedTo(o, Everyday(o))
<1> DEFINE S == {q \in Rng[o.seed].purchases : q.day \in Days(o)}
           f == [p \in S |-> Row(<<"everyday", p>>, p.account, p.day, p.amount, "SPEND")]
<1>1. IsFiniteSet(S)
  BY RngAssumption, SeedAssumption, FS_Subset
<1>2. Everyday(o) = {f[x] : x \in S}
  BY DEF Everyday
<1>3. IsFiniteSet(Everyday(o))
  <2> HIDE DEF S, f
  <2> QED
    BY <1>1, <1>2, FiniteImage
<1>4. ASSUME NEW r \in Everyday(o) PROVE Charge(o, r)
  <2>1. PICK p \in S : r = Row(<<"everyday", p>>, p.account, p.day, p.amount, "SPEND")
    BY DEF Everyday
  <2>2. r.amount = p.amount /\ r.kind = "SPEND" /\ r.day = p.day
    BY <2>1 DEF Row
  <2>3. p.amount \in Nat \ {0} /\ p.day \in Days(o)
    BY SeedAssumption, RngAssumption
  <2>4. r.day \in Int /\ o.first <= r.day
    BY <2>2, <2>3, SeedAssumption DEF Days
  <2> QED
    BY <2>2, <2>3, <2>4 DEF Charge
<1> QED
  BY <1>3, <1>4 DEF ChargedTo

\* booked: each trip's day, from the one before it.
BookedFor(o, f) ==
  f = [k \in DOMAIN Rng[o.seed].trips |->
         IF k = 1 THEN o.first + TripLead ELSE f[k - 1] + Rng[o.seed].trips[k - 1].gap]

Booked(o) == CHOOSE f : BookedFor(o, f)

TripDay(o, k, j) ==
  IF j = 1 THEN Booked(o)[k] ELSE Booked(o)[k] + Rng[o.seed].trips[k].hops[j - 1]

LEMMA TravelIs ==
  ASSUME NEW o
  PROVE  Travel(o) =
           UNION {{Row(<<"travel", k, j>>, TRAVEL_CARD, TripDay(o, k, j), TRAVEL[j], "SPEND") :
                   j \in 1 .. Len(Rng[o.seed].trips[k].hops) + 1} :
                  k \in {i \in DOMAIN Rng[o.seed].trips : Booked(o)[i] <= o.last - TripTail}}
BY DEF Travel, TripDay, Booked, BookedFor

LEMMA TripsAre ==
  ASSUME NEW o \in Options
  PROVE  /\ Len(Rng[o.seed].trips) \in Nat
         /\ DOMAIN Rng[o.seed].trips = 1 .. Len(Rng[o.seed].trips)
         /\ \A k \in DOMAIN Rng[o.seed].trips :
              /\ Rng[o.seed].trips[k].gap \in Nat
              /\ Rng[o.seed].trips[k].hops \in Seq(Nat)
              /\ Len(Rng[o.seed].trips[k].hops) < Len(TRAVEL)
<1>1. /\ Rng[o.seed].trips \in Seq([gap : Nat, hops : Seq(Nat)])
      /\ \A k \in DOMAIN Rng[o.seed].trips : Len(Rng[o.seed].trips[k].hops) < Len(TRAVEL)
  BY SeedAssumption, RngAssumption
<1> DEFINE t == Rng[o.seed].trips
<1> HIDE DEF t
<1>2. t \in Seq([gap : Nat, hops : Seq(Nat)])
  BY <1>1 DEF t
<1>4. Len(t) \in Nat
  BY <1>2
<1>5. DOMAIN t = 1 .. Len(t)
  BY <1>2
<1>6. \A k \in 1 .. Len(t) : t[k] \in [gap : Nat, hops : Seq(Nat)]
  <2> DEFINE Trip == [gap : Nat, hops : Seq(Nat)]
  <2>1. t \in Seq(Trip)
    BY <1>2
  <2> HIDE DEF Trip
  <2>2. \A k \in 1 .. Len(t) : t[k] \in Trip
    BY <2>1
  <2> QED
    BY <2>2 DEF Trip
<1>3. \A k \in DOMAIN t : t[k].gap \in Nat /\ t[k].hops \in Seq(Nat)
  BY <1>5, <1>6
<1> QED
  BY <1>1, <1>3, <1>4, <1>5 DEF t

(***************************************************************************)
(* No trip is booked before the window.                                    *)
(***************************************************************************)
LEMMA BookedInTime ==
  ASSUME NEW o \in Options
  PROVE  \A k \in DOMAIN Rng[o.seed].trips :
           Booked(o)[k] \in Int /\ o.first <= Booked(o)[k]
<1> DEFINE t == Rng[o.seed].trips
           N == Len(t)
           D == 1 .. N
           rank == [k \in D |-> k - 1]
           pred == [k \in D |-> IF k = 1 THEN 1 ELSE k - 1]
           add  == [k \in D |-> IF k = 1 THEN o.first + TripLead ELSE t[k - 1].gap]
<1>1. N \in Nat /\ DOMAIN t = D /\ \A k \in D : t[k].gap \in Nat
  BY TripsAre
<1>2. o.first \in Int /\ TripLead \in Nat
  BY SeedAssumption, CardsAssumption
<1> HIDE DEF t
<1>3. Ranked(D, N, rank, pred)
  <2> HIDE DEF N
  <2>1. rank \in [D -> 0 .. N] /\ pred \in [D -> D]
    BY <1>1
  <2>2. \A k \in D : rank[k] # 0 => rank[pred[k]] < rank[k]
    BY <1>1
  <2> QED
    BY <1>1, <2>1, <2>2 DEF Ranked
<1>4. add \in [D -> Int]
  <2> HIDE DEF N
  <2>1. \A k \in D : k # 1 => k - 1 \in D
    BY <1>1
  <2>2. \A k \in D : k # 1 => t[k - 1].gap \in Int
    BY <1>1, <2>1
  <2>3. o.first + TripLead \in Int
    BY <1>2
  <2> QED
    BY <2>2, <2>3
<1>5. \E f : Accumulates(f, D, rank, pred, add)
  <2> HIDE DEF D, N, rank, pred, add
  <2> QED
    BY <1>3, <1>4, ChainExists
<1>6. PICK f : Accumulates(f, D, rank, pred, add)
  BY <1>5
<1>7. BookedFor(o, f)
  <2>1. f \in [D -> Int] /\ \A k \in D : f[k] = IF rank[k] = 0 THEN add[k] ELSE add[k] + f[pred[k]]
    BY <1>6 DEF Accumulates
  <2> HIDE DEF N
  <2>2. \A k \in D : k # 1 => k - 1 \in D
    BY <1>1
  <2>3. ASSUME NEW k \in D
        PROVE  f[k] = IF k = 1 THEN o.first + TripLead ELSE f[k - 1] + t[k - 1].gap
    <3>1. CASE k = 1
      BY <2>1, <3>1
    <3>2. CASE k # 1
      <4>1. rank[k] # 0 /\ pred[k] = k - 1 /\ add[k] = t[k - 1].gap
        BY <1>1, <3>2
      <4>2. f[k] = t[k - 1].gap + f[k - 1]
        BY <2>1, <4>1
      <4>3. t[k - 1].gap \in Int /\ f[k - 1] \in Int
        BY <1>1, <2>1, <2>2, <3>2
      <4> QED
        BY <3>2, <4>2, <4>3
    <3> QED
      BY <3>1, <3>2
  <2>4. f = [k \in D |-> IF k = 1 THEN o.first + TripLead ELSE f[k - 1] + t[k - 1].gap]
    BY <2>1, <2>3
  <2> QED
    BY <1>1, <2>4 DEF BookedFor, t
<1> DEFINE b == Booked(o)
<1>8. BookedFor(o, b)
  BY <1>7 DEF Booked
<1> HIDE DEF b
<1>9. \A k \in D : b[k] = IF k = 1 THEN o.first + TripLead ELSE b[k - 1] + t[k - 1].gap
  <2>1. b = [k \in D |-> IF k = 1 THEN o.first + TripLead ELSE b[k - 1] + t[k - 1].gap]
    BY <1>1, <1>8 DEF BookedFor, t
  <2> HIDE DEF D
  <2> QED
    BY <2>1
<1> DEFINE P == {n \in 0 .. N : n = 0 \/ (b[n] \in Int /\ o.first <= b[n])}
<1> HIDE DEF N
<1>10. 0 \in P
  BY <1>1
<1>11. ASSUME NEW n \in 0 .. N, n \in P, n < N PROVE n + 1 \in P
  <2>1. n + 1 \in D /\ n + 1 \in 0 .. N /\ n \in Int
    BY <1>1, <1>11
  <2>2. CASE n = 0
    <3>1. b[n + 1] = o.first + TripLead
      BY <1>9, <2>1, <2>2
    <3>2. b[n + 1] \in Int /\ o.first <= b[n + 1]
      BY <1>2, <3>1
    <3> QED
      BY <2>1, <3>2
  <2>3. CASE n # 0
    <3>1. n \in D /\ n + 1 # 1 /\ (n + 1) - 1 = n
      BY <1>1, <2>1, <2>3
    <3>2. b[n + 1] = b[n] + t[n].gap
      BY <1>9, <2>1, <3>1
    <3>3. b[n] \in Int /\ o.first <= b[n] /\ t[n].gap \in Nat
      BY <1>1, <1>11, <2>3, <3>1
    <3>4. b[n + 1] \in Int /\ o.first <= b[n + 1]
      BY <1>2, <3>2, <3>3
    <3> QED
      BY <2>1, <3>4
  <2> QED
    BY <2>2, <2>3
<1>12. \A n \in 0 .. N : n \in P
  <2> HIDE DEF P
  <2> QED
    BY <1>1, <1>10, <1>11, CountUp
<1>13. ASSUME NEW k \in D PROVE b[k] \in Int /\ o.first <= b[k]
  <2>1. k \in 0 .. N /\ k # 0
    BY <1>1
  <2> QED
    BY <1>12, <2>1
<1> QED
  BY <1>1, <1>13 DEF b, t

(***************************************************************************)
(* and what the trips cost.                                                *)
(***************************************************************************)
LEMMA TravelCharges ==
  ASSUME NEW o \in Options
  PROVE  ChargedTo(o, Travel(o))
<1> DEFINE t == Rng[o.seed].trips
           S == (1 .. Len(t)) \X (1 .. Len(TRAVEL))
           f == [x \in S |-> Row(<<"travel", x[1], x[2]>>, TRAVEL_CARD, TripDay(o, x[1], x[2]),
                                 TRAVEL[x[2]], "SPEND")]
<1>1. Len(TRAVEL) \in Nat /\ \A j \in 1 .. Len(TRAVEL) : TRAVEL[j] \in Nat \ {0}
  BY CardsAssumption
<1>2. IsFiniteSet(S)
  <2>1. Len(t) \in Nat
    BY TripsAre
  <2> HIDE DEF t
  <2>2. IsFiniteSet(1 .. Len(t)) /\ IsFiniteSet(1 .. Len(TRAVEL))
    BY <1>1, <2>1, FS_Interval
  <2> QED
    BY <2>2, FS_Product
<1>3. ASSUME NEW r \in Travel(o)
      PROVE  r \in {f[x] : x \in S} /\ Charge(o, r)
  <2>1. PICK k \in DOMAIN t : \E j \in 1 .. Len(t[k].hops) + 1 :
          r = Row(<<"travel", k, j>>, TRAVEL_CARD, TripDay(o, k, j), TRAVEL[j], "SPEND")
    BY TravelIs
  <2>2. PICK j \in 1 .. Len(t[k].hops) + 1 :
          r = Row(<<"travel", k, j>>, TRAVEL_CARD, TripDay(o, k, j), TRAVEL[j], "SPEND")
    BY <2>1
  <2>3. /\ t[k].hops \in Seq(Nat) /\ Len(t[k].hops) < Len(TRAVEL) /\ k \in 1 .. Len(t)
    BY TripsAre
  <2>4. j \in 1 .. Len(TRAVEL) /\ (j # 1 => j - 1 \in 1 .. Len(t[k].hops))
    <3> DEFINE n == Len(t[k].hops)
    <3>1. n \in Nat /\ n < Len(TRAVEL) /\ j \in 1 .. n + 1
      <4>1. \A h \in Seq(Nat) : Len(h) \in Nat
        OBVIOUS
      <4> QED
        BY <2>3, <4>1
    <3> HIDE DEF n
    <3>2. j \in 1 .. Len(TRAVEL) /\ (j # 1 => j - 1 \in 1 .. n)
      BY <1>1, <3>1
    <3> QED
      BY <3>2 DEF n
  <2>5. /\ TRAVEL[j] \in Nat \ {0}
        /\ j # 1 => t[k].hops[j - 1] \in Nat
    <3> DEFINE h == t[k].hops
    <3>1. h \in Seq(Nat)
      BY <2>3
    <3> HIDE DEF h
    <3>2. \A i \in 1 .. Len(h) : h[i] \in Nat
      BY <3>1
    <3> QED
      BY <1>1, <2>4, <3>2 DEF h
  <2>6. Booked(o)[k] \in Int /\ o.first <= Booked(o)[k] /\ o.first \in Int
    BY BookedInTime, SeedAssumption
  <2>7. TripDay(o, k, j) \in Int /\ o.first <= TripDay(o, k, j)
    <3> DEFINE b == Booked(o)[k]
               h == t[k].hops[j - 1]
    <3>1. TripDay(o, k, j) = IF j = 1 THEN b ELSE b + h
      BY DEF TripDay
    <3>2. b \in Int /\ o.first <= b /\ o.first \in Int /\ (j # 1 => h \in Nat)
      BY <2>5, <2>6
    <3> HIDE DEF b, h
    <3>3. (IF j = 1 THEN b ELSE b + h) \in Int /\ o.first <= (IF j = 1 THEN b ELSE b + h)
      BY <3>2
    <3> QED
      BY <3>1, <3>3
  <2>8. r.amount = TRAVEL[j] /\ r.day = TripDay(o, k, j) /\ r.kind = "SPEND"
    BY <2>2 DEF Row
  <2>9. Charge(o, r)
    BY <2>5, <2>7, <2>8 DEF Charge
  <2>10. <<k, j>> \in S /\ r = f[<<k, j>>]
    BY <2>2, <2>3, <2>4
  <2> HIDE DEF f, S
  <2> QED
    BY <2>9, <2>10
<1>4. IsFiniteSet(Travel(o))
  <2> HIDE DEF S, f
  <2>1. IsFiniteSet({f[x] : x \in S}) /\ Travel(o) \subseteq {f[x] : x \in S}
    BY <1>2, <1>3, FiniteImage
  <2> QED
    BY <2>1, FS_Subset
<1> QED
  BY <1>3, <1>4 DEF ChargedTo

-------------------------------------------------------------------------------
(* A card's rows *)

Charges(o, c) == {r \in Spent(o) : r.account = c.card}

(***************************************************************************)
(* Of what is no payment, a card has charges only.                         *)
(***************************************************************************)
LEMMA OnlyCharges ==
  ASSUME NEW o \in Options, NEW c \in CARDS
  PROVE  /\ Summable(Charges(o, c))
         /\ \A r \in Charges(o, c) : Charge(o, r) /\ Dated(r.day)
<1> DEFINE S == UNION {Monthly(o), Everyday(o), Travel(o)}
<1>1. IsCard(c.card) /\ c.card # CHECKING
  BY CardsAssumption DEF IsCard
<1>2. \A r \in Income(o) \union Bonus(o) : r.account = CHECKING
  BY DEF Income, Bonus, Row
<1>3. Charges(o, c) \subseteq S
  BY <1>1, <1>2 DEF Charges, Spent
<1>4. IsFiniteSet(S)
  <2>1. IsFiniteSet(Monthly(o) \union Everyday(o) \union Travel(o))
    BY MonthlyCharges, EverydayCharges, TravelCharges, FS_Union DEF ChargedTo
  <2> QED
    BY <2>1
<1>5. \A r \in S : IsCard(r.account) => Charge(o, r)
  BY MonthlyCharges, EverydayCharges, TravelCharges DEF ChargedTo
<1>6. \A r \in Charges(o, c) : r.account = c.card
  BY DEF Charges
<1> HIDE DEF S
<1>7. \A r \in Charges(o, c) : Charge(o, r)
  BY <1>1, <1>3, <1>5, <1>6
<1>8. IsFiniteSet(Charges(o, c))
  BY <1>3, <1>4, FS_Subset
<1> QED
  BY <1>7, <1>8, WindowsDated DEF Summable, Charge

Owed(o, c, m) == ChargedIn(Spent(o), c.card, previousMonth(m))

\* In a month that has its pay day in the window, a card that owes anything is paid.
PaidMonths(o, c) ==
  {m \in Months(o) : toDayNumber(m, c.dom) \in Days(o) /\ ~ (Owed(o, c, m) < 1)}

Payment(o, c, m) ==
  Row(<<"payment", <<c, m>>, 2>>, c.card, toDayNumber(m, c.dom), - Owed(o, c, m), "TRANSFER_IN")

Paid(o, c) == {Payment(o, c, m) : m \in PaidMonths(o, c)}

Mine(o, c) == Charges(o, c) \union Paid(o, c)

(***************************************************************************)
(* A card's rows are its charges and what it was paid.                     *)
(***************************************************************************)
LEMMA CardRows ==
  ASSUME NEW o \in Options, NEW c \in CARDS
  PROVE  {r \in Generated(o) : r.account = c.card} = Mine(o, c)
<1>1. Generated(o) = Spent(o) \union Payments(o, Spent(o))
  BY DEF Generated, Spent
<1>2. c.card # CHECKING /\ \A d \in CARDS : d.card = c.card => d = c
  BY CardsAssumption DEF IsCard
<1> DEFINE S == {y \in CARDS \X Months(o) : toDayNumber(y[2], y[1].dom) \in Days(o)}
           Of(x) == LET card == x[1].card
                        day  == toDayNumber(x[2], x[1].dom)
                        owed == ChargedIn(Spent(o), card, previousMonth(x[2]))
                    IN IF owed < 1 THEN {}
                       ELSE {Row(<<"payment", x, 1>>, CHECKING, day, owed, "TRANSFER_OUT"),
                             Row(<<"payment", x, 2>>, card, day, - owed, "TRANSFER_IN")}
<1>3. Payments(o, Spent(o)) = UNION {Of(x) : x \in S}
  BY DEF Payments
<1>4. ASSUME NEW r \in Payments(o, Spent(o)), r.account = c.card PROVE r \in Paid(o, c)
  <2>1. PICK x \in S : r \in Of(x)
    BY <1>3
  <2>2. /\ ~ (Owed(o, x[1], x[2]) < 1)
        /\ \/ r = Row(<<"payment", x, 1>>, CHECKING, toDayNumber(x[2], x[1].dom),
                      Owed(o, x[1], x[2]), "TRANSFER_OUT")
           \/ r = Row(<<"payment", x, 2>>, x[1].card, toDayNumber(x[2], x[1].dom),
                      - Owed(o, x[1], x[2]), "TRANSFER_IN")
    BY <2>1 DEF Owed
  <2>3. r = Row(<<"payment", x, 2>>, x[1].card, toDayNumber(x[2], x[1].dom),
                - Owed(o, x[1], x[2]), "TRANSFER_IN")
    BY <1>2, <1>4, <2>2 DEF Row
  <2>4. x[1] \in CARDS /\ x[1].card = c.card
    BY <1>4, <2>3 DEF Row
  <2>5. x[1] = c
    BY <1>2, <2>4
  <2>6. x[2] \in Months(o) /\ x = <<x[1], x[2]>> /\ toDayNumber(x[2], x[1].dom) \in Days(o)
    OBVIOUS
  <2>7. x = <<c, x[2]>>
    BY <2>5, <2>6
  <2>8. r = Payment(o, c, x[2])
    BY <2>3, <2>5, <2>7 DEF Payment
  <2>9. x[2] \in PaidMonths(o, c)
    BY <2>2, <2>5, <2>6 DEF PaidMonths
  <2> QED
    BY <2>8, <2>9 DEF Paid
<1>5. ASSUME NEW m \in PaidMonths(o, c)
      PROVE  Payment(o, c, m) \in Payments(o, Spent(o)) /\ Payment(o, c, m).account = c.card
  <2>1. <<c, m>> \in S
    BY <1>5 DEF PaidMonths
  <2>2. Payment(o, c, m) \in Of(<<c, m>>)
    BY <1>5 DEF PaidMonths, Payment, Owed
  <2>3. Payment(o, c, m).account = c.card
    BY DEF Payment, Row
  <2> HIDE DEF Of, S
  <2> QED
    BY <1>3, <2>1, <2>2, <2>3
<1>6. \A r \in Paid(o, c) : r \in Payments(o, Spent(o)) /\ r.account = c.card
  BY <1>5 DEF Paid
<1> QED
  BY <1>1, <1>4, <1>6 DEF Mine, Charges

Charged(o, c, day, month) == Sum({r \in Charges(o, c) : r.day <= day /\ monthKey(r.day) = month})

LEMMA PartsAreSummable ==
  ASSUME NEW S, Summable(S), NEW T, T \subseteq S
  PROVE  Summable(T)
BY FS_Subset DEF Summable

LEMMA ChargesAdd ==
  ASSUME NEW o \in Options, NEW c \in CARDS, NEW T, T \subseteq Charges(o, c)
  PROVE  Summable(T) /\ Sum(T) \in Nat
<1>1. Summable(T) /\ \A r \in T : r.amount \in Nat
  BY OnlyCharges, PartsAreSummable DEF Charge
<1>2. \A r \in T : r.amount >= 0
  BY <1>1
<1>3. Sum(T) \in Int /\ Sum(T) >= 0
  BY <1>1, <1>2, SumPicked, SumOfCharges
<1> QED
  BY <1>1, <1>3

(***************************************************************************)
(* What is owed for a month are the charges of the month before, which are *)
(* known by the day before it begins.                                      *)
(***************************************************************************)
LEMMA OwedIs ==
  ASSUME NEW o \in Options, NEW c \in CARDS, NEW m \in Calendar
  PROVE  /\ Owed(o, c, m) \in Nat
         /\ \A day \in Int : MonthStart[m] <= day + 1 =>
              Owed(o, c, m) = Charged(o, c, day, previousMonth(m))
<1> DEFINE T == {r \in Charges(o, c) : monthKey(r.day) = previousMonth(m)}
<1>1. {r \in Spent(o) : /\ r.account = c.card /\ r.amount > 0
                        /\ monthKey(r.day) = previousMonth(m)} = T
  <2>1. \A r \in Charges(o, c) : r.amount > 0
    BY OnlyCharges DEF Charge
  <2> QED
    BY <2>1 DEF Charges
<1>2. Owed(o, c, m) = Sum(T)
  BY <1>1 DEF Owed, ChargedIn
<1>3. Sum(T) \in Nat
  BY ChargesAdd
<1>4. ASSUME NEW day \in Int, MonthStart[m] <= day + 1
      PROVE  {r \in Charges(o, c) : r.day <= day /\ monthKey(r.day) = previousMonth(m)} = T
  <2>1. ASSUME NEW r \in T PROVE r.day <= day
    <3>1. Dated(r.day) /\ monthKey(r.day) = previousMonth(m)
      BY OnlyCharges
    <3>2. r.day < MonthStart[m] /\ r.day \in Int /\ MonthStart[m] \in Int
      BY <3>1, ChargedBefore, MonthsFollow DEF Dated, Calendar
    <3> QED
      BY <1>4, <3>2
  <2> QED
    BY <2>1
<1> QED
  BY <1>2, <1>3, <1>4 DEF Charged

(***************************************************************************)
(* Payments give something back, in the window.                            *)
(***************************************************************************)
LEMMA PaymentsAre ==
  ASSUME NEW o \in Options, NEW c \in CARDS
  PROVE  /\ Summable(Paid(o, c))
         /\ \A r \in Paid(o, c) : r.amount < 0 /\ r.day \in Days(o) /\ r.kind = "TRANSFER_IN"
<1> DEFINE f == [m \in PaidMonths(o, c) |-> Payment(o, c, m)]
<1>1. IsFiniteSet(PaidMonths(o, c))
  BY MonthsFinite, FS_Subset DEF PaidMonths
<1>2. Paid(o, c) = {f[m] : m \in PaidMonths(o, c)}
  BY DEF Paid
<1>3. IsFiniteSet(Paid(o, c))
  <2> HIDE DEF f
  <2> QED
    BY <1>1, <1>2, FiniteImage
<1>4. ASSUME NEW r \in Paid(o, c)
      PROVE  r.amount \in Int /\ r.amount < 0 /\ r.day \in Days(o) /\ r.kind = "TRANSFER_IN"
  <2>1. PICK m \in PaidMonths(o, c) : r = Payment(o, c, m)
    BY DEF Paid
  <2>2. r.amount = - Owed(o, c, m) /\ r.day = toDayNumber(m, c.dom) /\ r.kind = "TRANSFER_IN"
    BY <2>1 DEF Payment, Row
  <2>3. m \in Calendar /\ toDayNumber(m, c.dom) \in Days(o) /\ ~ (Owed(o, c, m) < 1)
    BY WindowsDated DEF PaidMonths
  <2>4. Owed(o, c, m) \in Nat
    BY <2>3, OwedIs
  <2> QED
    BY <2>2, <2>3, <2>4
<1> QED
  BY <1>3, <1>4 DEF Summable

Until(o, c, day) == Sum({r \in Mine(o, c) : r.day <= day})

Due(o, c, day) ==
  Charged(o, c, day, monthKey(day)) +
    (IF day < toDayNumber(monthKey(day), c.dom)
       THEN Charged(o, c, day, previousMonth(monthKey(day))) ELSE 0)

\* What the rows of the days before this one add up to.
Before(o, c, day) ==
  Until(o, c, day - 1) =
    Charged(o, c, day - 1, monthKey(day)) +
      (IF day <= toDayNumber(monthKey(day), c.dom)
         THEN Charged(o, c, day - 1, previousMonth(monthKey(day))) ELSE 0)

LEMMA MineIs ==
  ASSUME NEW o \in Options, NEW c \in CARDS
  PROVE  /\ Summable(Mine(o, c))
         /\ \A r \in Mine(o, c) : r.day \in Int /\ o.first <= r.day
         /\ \A r \in Mine(o, c) : r \in Charges(o, c) <=> r.amount > 0
         /\ \A r \in Mine(o, c) : r \in Paid(o, c) <=> r.kind = "TRANSFER_IN"
<1>1. Summable(Charges(o, c)) /\ Summable(Paid(o, c))
  BY OnlyCharges, PaymentsAre
<1>2. Summable(Mine(o, c))
  BY <1>1, FS_Union DEF Mine, Summable
<1>3. \A r \in Charges(o, c) : /\ r.amount > 0 /\ r.kind # "TRANSFER_IN"
                               /\ r.day \in Int /\ o.first <= r.day
  BY OnlyCharges DEF Charge
<1>4. \A r \in Paid(o, c) : /\ r.amount \in Int /\ r.amount < 0 /\ r.kind = "TRANSFER_IN"
                            /\ r.day \in Int /\ o.first <= r.day
  BY PaymentsAre, SeedAssumption DEF Days, Summable
<1>5. \A r \in Paid(o, c) : ~ (r.amount > 0)
  BY <1>4
<1> QED
  BY <1>2, <1>3, <1>4, <1>5 DEF Mine

(***************************************************************************)
(* What a day's payments add up to: all that is owed, on the pay day.      *)
(***************************************************************************)
LEMMA PaidOn ==
  ASSUME NEW o \in Options, NEW c \in CARDS, NEW day \in Days(o)
  PROVE  Sum({r \in Paid(o, c) : r.day = day}) =
           IF day = toDayNumber(monthKey(day), c.dom) THEN - Owed(o, c, monthKey(day)) ELSE 0
<1> DEFINE m == monthKey(day)
           T == {r \in Paid(o, c) : r.day = day}
<1>1. m \in Months(o) /\ m \in Calendar
  BY WindowsDated DEF Months
<1>2. ASSUME NEW n \in PaidMonths(o, c), Payment(o, c, n).day = day
      PROVE  n = m /\ day = toDayNumber(m, c.dom)
  <2>1. toDayNumber(n, c.dom) = day
    BY <1>2 DEF Payment, Row
  <2>2. n \in Calendar
    BY WindowsDated DEF PaidMonths
  <2>3. monthKey(toDayNumber(n, c.dom)) = n
    BY <2>2, PayDay
  <2> QED
    BY <2>1, <2>3
<1>3. Owed(o, c, m) \in Nat
  BY <1>1, OwedIs
<1>4. Sum({}) = 0
  BY ChargesAdd, SumPicked
<1>5. CASE day = toDayNumber(m, c.dom) /\ ~ (Owed(o, c, m) < 1)
  <2>1. m \in PaidMonths(o, c) /\ Payment(o, c, m).day = day
    BY <1>1, <1>5 DEF PaidMonths, Payment, Row
  <2>2. T = {Payment(o, c, m)}
    BY <1>2, <2>1 DEF Paid
  <2>3. Summable(T)
    BY PaymentsAre, PartsAreSummable
  <2>4. Sum(T) = Payment(o, c, m).amount + Sum(T \ {Payment(o, c, m)})
    BY <2>2, <2>3, SumWithout
  <2>5. Sum(T) = - Owed(o, c, m) + 0
    BY <1>4, <2>2, <2>4 DEF Payment, Row
  <2> QED
    BY <1>3, <1>5, <2>5
<1>6. CASE ~ (day = toDayNumber(m, c.dom) /\ ~ (Owed(o, c, m) < 1))
  <2>1. T = {}
    <3>1. ASSUME NEW n \in PaidMonths(o, c), Payment(o, c, n).day = day PROVE FALSE
      BY <1>2, <1>6, <3>1 DEF PaidMonths
    <3> QED
      BY <3>1 DEF Paid
  <2>2. day = toDayNumber(m, c.dom) => Owed(o, c, m) = 0
    BY <1>3, <1>6
  <2>3. Sum(T) = 0
    BY <1>4, <2>1
  <2> QED
    BY <2>2, <2>3
<1> QED
  BY <1>5, <1>6

(***************************************************************************)
(* What the rows up to a day add up to, from those of the days before.     *)
(***************************************************************************)
LEMMA DayAdds ==
  ASSUME NEW o \in Options, NEW c \in CARDS, NEW day \in Int
  PROVE  /\ Until(o, c, day) \in Int /\ Until(o, c, day - 1) \in Int
         /\ Sum({r \in Charges(o, c) : r.day = day}) \in Int
         /\ Sum({r \in Paid(o, c) : r.day = day}) \in Int
         /\ Until(o, c, day) = Until(o, c, day - 1) +
              (Sum({r \in Charges(o, c) : r.day = day}) + Sum({r \in Paid(o, c) : r.day = day}))
<1> DEFINE A == {r \in Mine(o, c) : r.day <= day - 1}
           B == {r \in Charges(o, c) : r.day = day}
           C == {r \in Paid(o, c) : r.day = day}
           U == {r \in Mine(o, c) : r.day <= day}
<1>1. \A r \in Mine(o, c) : r.day \in Int
  BY MineIs
<1>2. Summable(A) /\ Summable(B) /\ Summable(C) /\ Summable(U)
  <2>1. A \subseteq Mine(o, c) /\ B \subseteq Mine(o, c) /\ C \subseteq Mine(o, c) /\ U \subseteq Mine(o, c)
    BY DEF Mine
  <2> HIDE DEF A, B, C, U
  <2> QED
    BY <2>1, MineIs, PartsAreSummable
<1>3. B \intersect C = {}
  <2>1. \A r \in B : r.kind # "TRANSFER_IN"
    BY OnlyCharges DEF Charge
  <2>2. \A r \in C : r.kind = "TRANSFER_IN"
    BY PaymentsAre
  <2> QED
    BY <2>1, <2>2
<1>4. A \intersect (B \union C) = {}
  <2>1. \A r \in A : r.day # day
    BY <1>1
  <2> QED
    BY <2>1
<1>5. U = A \union (B \union C)
  <2>1. \A r \in Mine(o, c) : r.day <= day <=> (r.day <= day - 1 \/ r.day = day)
    BY <1>1
  <2>2. \A r \in Mine(o, c) : r.day = day <=> r \in B \union C
    BY DEF Mine
  <2>3. B \union C \subseteq Mine(o, c)
    BY DEF Mine
  <2> HIDE DEF B, C
  <2> QED
    BY <2>1, <2>2, <2>3
<1>6. Until(o, c, day) = Sum(U) /\ Until(o, c, day - 1) = Sum(A)
  BY DEF Until
<1> HIDE DEF A, B, C, U
<1>7. Summable(B \union C) /\ Sum(B \union C) = Sum(B) + Sum(C)
  BY <1>2, <1>3, SumJoin
<1>8. Sum(U) = Sum(A) + Sum(B \union C)
  BY <1>2, <1>4, <1>5, <1>7, SumJoin
<1>9. Sum(A) \in Int /\ Sum(B) \in Int /\ Sum(C) \in Int /\ Sum(U) \in Int
  BY <1>2, SumPicked
<1> QED
  BY <1>6, <1>7, <1>8, <1>9 DEF B, C

(***************************************************************************)
(* What is charged to a month by a day of it, from the day before.         *)
(***************************************************************************)
LEMMA ChargedGoesOn ==
  ASSUME NEW o \in Options, NEW c \in CARDS, NEW day, Dated(day)
  PROVE  Charged(o, c, day, monthKey(day)) =
           Charged(o, c, day - 1, monthKey(day)) + Sum({r \in Charges(o, c) : r.day = day})
<1> DEFINE m == monthKey(day)
           A == {r \in Charges(o, c) : r.day <= day - 1 /\ monthKey(r.day) = m}
           B == {r \in Charges(o, c) : r.day = day}
           U == {r \in Charges(o, c) : r.day <= day /\ monthKey(r.day) = m}
<1>1. day \in Int /\ \A r \in Charges(o, c) : r.day \in Int
  BY OnlyCharges DEF Dated
<1>2. U = A \union B
  <2>1. \A r \in Charges(o, c) : r.day <= day <=> (r.day <= day - 1 \/ r.day = day)
    BY <1>1
  <2>2. \A r \in B : monthKey(r.day) = m
    OBVIOUS
  <2> HIDE DEF m
  <2> QED
    BY <2>1, <2>2
<1>3. A \intersect B = {}
  <2>1. \A r \in A : r.day # day
    BY <1>1
  <2> QED
    BY <2>1
<1>4. Summable(A) /\ Summable(B)
  <2>1. A \subseteq Charges(o, c) /\ B \subseteq Charges(o, c)
    OBVIOUS
  <2> HIDE DEF A, B
  <2> QED
    BY <2>1, ChargesAdd
<1>5. Charged(o, c, day, m) = Sum(U) /\ Charged(o, c, day - 1, m) = Sum(A)
  BY DEF Charged
<1> HIDE DEF A, B, U, m
<1>6. Sum(U) = Sum(A) + Sum(B)
  BY <1>2, <1>3, <1>4, SumJoin
<1> QED
  BY <1>5, <1>6 DEF B, m

LEMMA ChargedIsNat ==
  ASSUME NEW o \in Options, NEW c \in CARDS, NEW day, NEW month
  PROVE  Charged(o, c, day, month) \in Nat
BY ChargesAdd DEF Charged

(***************************************************************************)
(* A day's rows keep the account,                                          *)
(***************************************************************************)
LEMMA DayKeeps ==
  ASSUME NEW o \in Options, NEW c \in CARDS, NEW day \in Days(o), Before(o, c, day)
  PROVE  Until(o, c, day) = Due(o, c, day)
<1> DEFINE m   == monthKey(day)
           p   == previousMonth(m)
           pd  == toDayNumber(m, c.dom)
           was == Until(o, c, day - 1)
           x   == Charged(o, c, day - 1, m)
           new == Sum({r \in Charges(o, c) : r.day = day})
           ow  == Owed(o, c, m)
<1>1. Dated(day) /\ day \in Int /\ m \in Calendar
  BY WindowsDated, MonthOf DEF Dated
<1>2. pd \in Int
  BY <1>1, PayDay
<1>3. /\ ow \in Nat
      /\ ow = Charged(o, c, day - 1, p)
      /\ ow = Charged(o, c, day, p)
  <2>1. MonthStart[m] <= day /\ MonthStart[m] \in Int
    BY <1>1, MonthOf, MonthsFollow DEF Calendar
  <2>2. MonthStart[m] <= (day - 1) + 1 /\ MonthStart[m] <= day + 1 /\ day - 1 \in Int
    BY <1>1, <2>1
  <2> HIDE DEF m
  <2> QED
    BY <1>1, <2>2, OwedIs
<1>4. /\ Until(o, c, day) = was + (new + (IF day = pd THEN - ow ELSE 0))
      /\ was \in Int /\ new \in Int
  BY <1>1, DayAdds, PaidOn
<1>5. Charged(o, c, day, m) = x + new /\ x \in Nat
  <2>1. Charged(o, c, day, m) = x + new
    BY <1>1, ChargedGoesOn
  <2>2. x \in Nat
    BY ChargedIsNat
  <2> QED
    BY <2>1, <2>2
<1>6. was = x + (IF day <= pd THEN ow ELSE 0)
  BY <1>3 DEF Before
<1>7. Due(o, c, day) = (x + new) + (IF day < pd THEN ow ELSE 0)
  BY <1>3, <1>5 DEF Due
<1> HIDE DEF m, p, pd, was, x, new, ow
<1>8. was + (new + (IF day = pd THEN - ow ELSE 0)) = (x + new) + (IF day < pd THEN ow ELSE 0)
  <2>1. CASE day = pd
    BY <1>1, <1>2, <1>3, <1>4, <1>5, <1>6, <2>1
  <2>2. CASE day < pd
    BY <1>1, <1>2, <1>3, <1>4, <1>5, <1>6, <2>2
  <2>3. CASE pd < day
    BY <1>1, <1>2, <1>3, <1>4, <1>5, <1>6, <2>3
  <2> QED
    BY <1>1, <1>2, <2>1, <2>2, <2>3
<1> QED
  BY <1>4, <1>7, <1>8

(***************************************************************************)
(* and the night to the next day does, be it a new month's.                *)
(***************************************************************************)
LEMMA NightKeeps ==
  ASSUME NEW o \in Options, NEW c \in CARDS, NEW day \in Days(o),
         Until(o, c, day) = Due(o, c, day)
  PROVE  Before(o, c, day + 1)
<1> DEFINE m  == monthKey(day)
           n  == monthKey(day + 1)
<1>1. Dated(day) /\ day \in Int /\ m \in Calendar /\ (day + 1) - 1 = day
  BY WindowsDated, MonthOf DEF Dated
<1>2. /\ Dated(day + 1) /\ n \in Calendar
      /\ n # m => /\ MonthStart[n] = day + 1
                  /\ previousMonth(n) = m
                  /\ MonthStart[m] < MonthStart[n]
  BY <1>1, NextDay, MonthOf
<1>3. /\ toDayNumber(m, c.dom) \in Int
      /\ \A k \in Calendar : MonthStart[m] < MonthStart[k] => toDayNumber(m, c.dom) < MonthStart[k]
      /\ toDayNumber(n, c.dom) \in Int /\ MonthStart[n] <= toDayNumber(n, c.dom)
  BY <1>1, <1>2, PayDay
<1> HIDE DEF m, n
<1>4. Until(o, c, day) = Charged(o, c, day, m) +
        (IF day < toDayNumber(m, c.dom) THEN Charged(o, c, day, previousMonth(m)) ELSE 0)
  BY DEF Due, m
<1>5. Until(o, c, day) = Charged(o, c, day, n) +
        (IF day + 1 <= toDayNumber(n, c.dom) THEN Charged(o, c, day, previousMonth(n)) ELSE 0)
  <2>1. CASE n = m
    <3>1. day < toDayNumber(m, c.dom) <=> day + 1 <= toDayNumber(m, c.dom)
      BY <1>1, <1>3
    <3> QED
      BY <1>4, <2>1, <3>1
  <2>2. CASE n # m
    <3>1. ~ (day < toDayNumber(m, c.dom)) /\ day + 1 <= toDayNumber(n, c.dom)
      <4>1. toDayNumber(m, c.dom) < day + 1 /\ day + 1 <= toDayNumber(n, c.dom)
        BY <1>2, <1>3, <2>2
      <4> QED
        BY <1>1, <1>3, <4>1
    <3>2. {r \in Charges(o, c) : r.day <= day /\ monthKey(r.day) = n} = {}
      <4>1. ASSUME NEW r \in Charges(o, c), r.day <= day, monthKey(r.day) = n PROVE FALSE
        <5>1. Dated(r.day)
          BY OnlyCharges
        <5>2. MonthStart[n] <= r.day /\ r.day \in Int
          BY <4>1, <5>1, MonthOf DEF Dated
        <5>3. day + 1 <= r.day
          BY <1>2, <2>2, <5>2
        <5> QED
          BY <1>1, <4>1, <5>2, <5>3
      <4> QED
        BY <4>1
    <3>3. Charged(o, c, day, n) = 0
      <4>1. Summable({}) /\ Sum({}) = 0
        BY ChargesAdd, SumPicked
      <4> QED
        BY <3>2, <4>1 DEF Charged
    <3>4. Charged(o, c, day, m) \in Nat
      BY ChargedIsNat
    <3>5. previousMonth(n) = m
      BY <1>2, <2>2
    <3> QED
      BY <1>4, <3>1, <3>3, <3>4, <3>5
  <2> QED
    BY <2>1, <2>2
<1> QED
  BY <1>1, <1>5 DEF Before, n

(***************************************************************************)
(* Before the window there is nothing.                                     *)
(***************************************************************************)
LEMMA NothingBefore ==
  ASSUME NEW o \in Options, NEW c \in CARDS
  PROVE  Before(o, c, o.first)
<1>1. o.first \in Int
  BY SeedAssumption
<1>2. \A r \in Mine(o, c) : ~ (r.day <= o.first - 1)
  <2>1. \A r \in Mine(o, c) : r.day \in Int /\ o.first <= r.day
    BY MineIs
  <2> QED
    BY <1>1, <2>1
<1>3. Sum({}) = 0
  BY ChargesAdd, SumPicked
<1>4. Until(o, c, o.first - 1) = 0
  <2>1. {r \in Mine(o, c) : r.day <= o.first - 1} = {}
    BY <1>2
  <2> QED
    BY <1>3, <2>1 DEF Until
<1>5. ASSUME NEW month PROVE Charged(o, c, o.first - 1, month) = 0
  <2>1. {r \in Charges(o, c) : r.day <= o.first - 1 /\ monthKey(r.day) = month} = {}
    BY <1>2 DEF Mine
  <2> QED
    BY <1>3, <2>1 DEF Charged
<1> QED
  BY <1>4, <1>5 DEF Before

LEMMA OwedEachDay ==
  ASSUME NEW o \in Options, NEW c \in CARDS, NEW day \in Days(o)
  PROVE  Until(o, c, day) = Due(o, c, day)
<1> DEFINE N == o.last - o.first
           P == {n \in 0 .. N : Before(o, c, o.first + n)}
<1>1. o.first \in Int /\ o.last \in Int /\ day \in Int /\ o.first <= day /\ day <= o.last
  BY SeedAssumption DEF Days
<1>2. N \in Nat /\ \A n \in 0 .. N : o.first + n \in Days(o)
  BY <1>1 DEF Days
<1> HIDE DEF N
<1>3. 0 \in P
  <2>1. o.first + 0 = o.first
    BY <1>1
  <2> QED
    BY <1>2, <2>1, NothingBefore
<1>4. ASSUME NEW n \in 0 .. N, n \in P, n < N PROVE n + 1 \in P
  <2>1. n + 1 \in 0 .. N /\ o.first + (n + 1) = (o.first + n) + 1
    BY <1>1, <1>2, <1>4
  <2>2. o.first + n \in Days(o) /\ Before(o, c, o.first + n)
    BY <1>2, <1>4
  <2>3. Before(o, c, (o.first + n) + 1)
    BY <2>2, DayKeeps, NightKeeps
  <2> QED
    BY <2>1, <2>3
<1>5. \A n \in 0 .. N : n \in P
  <2> HIDE DEF P
  <2> QED
    BY <1>2, <1>3, <1>4, CountUp
<1>6. day - o.first \in 0 .. N /\ o.first + (day - o.first) = day
  BY <1>1 DEF N
<1>7. Before(o, c, day)
  BY <1>5, <1>6
<1> QED
  BY <1>7, DayKeeps

(***************************************************************************)
(* Of payments, if there are any, one is the last.                         *)
(***************************************************************************)
LEMMA LastPayment ==
  ASSUME NEW o \in Options, NEW c \in CARDS, Paid(o, c) # {}
  PROVE  \E p \in Paid(o, c) : \A r \in Paid(o, c) : r.day <= p.day
<1> DEFINE Ages == {o.last - r.day : r \in Paid(o, c)}
<1>1. \A r \in Paid(o, c) : r.day \in Int /\ o.last \in Int /\ r.day <= o.last
  BY PaymentsAre, SeedAssumption DEF Days
<1>2. Ages \subseteq Nat /\ Ages # {}
  <2>1. \A r \in Paid(o, c) : o.last - r.day \in Nat
    BY <1>1
  <2> QED
    BY <2>1
<1>3. PICK a \in Ages : \A b \in Ages : ~ (<<b, a>> \in OpToRel(<, Nat))
  <2> HIDE DEF Ages
  <2> QED
    BY <1>2, NatLessThanWellFounded, WFMin
<1>4. \A b \in Ages : ~ (b < a)
  <2> HIDE DEF Ages
  <2> QED
    BY <1>2, <1>3 DEF OpToRel
<1>5. PICK p \in Paid(o, c) : a = o.last - p.day
  OBVIOUS
<1>6. ASSUME NEW r \in Paid(o, c) PROVE r.day <= p.day
  <2>1. ~ (o.last - r.day < o.last - p.day)
    BY <1>4, <1>5
  <2> QED
    BY <1>1, <2>1
<1> QED
  BY <1>6

(***************************************************************************)
(* The balance reported counts charges only, and no more than is owed: on  *)
(* a pay day a card owes what was charged that month.                      *)
(***************************************************************************)
LEMMA BalanceIsOwed ==
  ASSUME NEW o \in Options, NEW c \in CARDS
  PROVE  Sum({r \in Mine(o, c) : \A p \in Mine(o, c) : p.kind = "TRANSFER_IN" => p.day < r.day})
           \in 0 .. Sum(Mine(o, c))
<1> DEFINE Late == {r \in Mine(o, c) : \A p \in Mine(o, c) : p.kind = "TRANSFER_IN" => p.day < r.day}
<1>1. Late = {r \in Mine(o, c) : \A p \in Paid(o, c) : p.day < r.day}
  BY MineIs DEF Mine
<1>2. CASE Paid(o, c) = {}
  <2>1. Late = Mine(o, c) /\ Mine(o, c) = Charges(o, c)
    BY <1>1, <1>2 DEF Mine
  <2>2. Sum(Charges(o, c)) \in Nat
    BY ChargesAdd
  <2> HIDE DEF Late
  <2>3. Sum(Late) \in 0 .. Sum(Mine(o, c))
    BY <2>1, <2>2
  <2> QED
    BY <2>3 DEF Late
<1>3. CASE Paid(o, c) # {}
  <2>1. PICK p \in Paid(o, c) : \A r \in Paid(o, c) : r.day <= p.day
    BY <1>3, LastPayment
  <2> DEFINE d == p.day
             Early == {r \in Mine(o, c) : r.day <= d}
  <2>2. d \in Days(o) /\ d \in Int
    BY PaymentsAre, SeedAssumption DEF Days
  <2>3. \A r \in Mine(o, c) : r.day \in Int
    BY MineIs
  <2>4. Late = {r \in Mine(o, c) : d < r.day}
    <3>1. \A q \in Paid(o, c) : q.day \in Int /\ q.day <= d
      BY <2>1, <2>3 DEF Mine
    <3>2. \A r \in Mine(o, c) : (\A q \in Paid(o, c) : q.day < r.day) <=> d < r.day
      <4>1. \A r \in Mine(o, c) : \A q \in Paid(o, c) : d < r.day => q.day < r.day
        BY <2>2, <2>3, <3>1
      <4> QED
        BY <2>1, <4>1
    <3> QED
      BY <1>1, <3>2
  <2>5. Late \subseteq Charges(o, c)
    <3>1. \A q \in Paid(o, c) : ~ (d < q.day)
      BY <2>1, <2>2, <2>3 DEF Mine
    <3> QED
      BY <2>4, <3>1 DEF Mine
  <2>6. Mine(o, c) = Early \union Late /\ Early \intersect Late = {}
    BY <2>2, <2>3, <2>4
  <2>7. Summable(Early) /\ Summable(Late)
    <3>1. Early \subseteq Mine(o, c) /\ Late \subseteq Mine(o, c)
      OBVIOUS
    <3> HIDE DEF Early, Late
    <3> QED
      BY <3>1, MineIs, PartsAreSummable
  <2>8. Sum(Early) = Until(o, c, d)
    BY DEF Until
  <2>9. Sum(Early) \in Nat
    <3>1. Until(o, c, d) = Due(o, c, d)
      BY <2>2, OwedEachDay
    <3>2. Due(o, c, d) \in Nat
      <4>1. Charged(o, c, d, monthKey(d)) \in Nat /\ Charged(o, c, d, previousMonth(monthKey(d))) \in Nat
        BY ChargedIsNat
      <4> QED
        BY <4>1 DEF Due
    <3> QED
      BY <2>8, <3>1, <3>2
  <2> HIDE DEF Late, Early, d
  <2>10. Sum(Late) \in Nat
    BY <2>5, ChargesAdd
  <2>11. Sum(Mine(o, c)) = Sum(Early) + Sum(Late)
    BY <2>6, <2>7, SumJoin
  <2>12. Sum(Late) \in 0 .. Sum(Mine(o, c))
    BY <2>9, <2>10, <2>11
  <2> QED
    BY <2>12 DEF Late
<1> QED
  BY <1>2, <1>3

(***************************************************************************)
(* Whatever the options and the seed, the dataset generated pays every     *)
(* card in full.                                                           *)
(***************************************************************************)
LEMMA GeneratedPaidInFull ==
  ASSUME NEW o \in Options
  PROVE  PaidInFull(o, Generated(o))
<1> SUFFICES ASSUME NEW c \in CARDS
             PROVE  LET mine    == {r \in Generated(o) : r.account = c.card}
                        charges == {r \in mine : r.amount > 0}
                        Ch(day, month) == Sum({r \in charges : r.day <= day /\ monthKey(r.day) = month})
                    IN /\ \A day \in o.first .. o.last :
                            LET month == monthKey(day) IN
                            Sum({r \in mine : r.day <= day}) =
                              Ch(day, month) + (IF day < toDayNumber(month, c.dom)
                                                  THEN Ch(day, previousMonth(month)) ELSE 0)
                       /\ Balance(Generated(o), c.card) \in 0 .. Sum(mine)
  BY DEF PaidInFull
<1>1. {r \in Generated(o) : r.account = c.card} = Mine(o, c)
  BY CardRows
<1>2. {r \in Mine(o, c) : r.amount > 0} = Charges(o, c)
  BY MineIs DEF Mine
<1>3. ASSUME NEW day \in o.first .. o.last
      PROVE  Sum({r \in Mine(o, c) : r.day <= day}) =
               Charged(o, c, day, monthKey(day)) +
                 (IF day < toDayNumber(monthKey(day), c.dom)
                    THEN Charged(o, c, day, previousMonth(monthKey(day))) ELSE 0)
  BY OwedEachDay DEF Days, Until, Due
<1>4. Balance(Generated(o), c.card) \in 0 .. Sum(Mine(o, c))
  BY <1>1, BalanceIsOwed DEF Balance
<1> QED
  BY <1>1, <1>2, <1>3, <1>4 DEF Charged

-------------------------------------------------------------------------------
(* The command *)

\* What a command holds when the dataset is made is the dataset of its options.
HoldsDataset ==
  \A c \in Commands :
    cmd[c].pc = "made" => cmd[c].opt \in Options /\ cmd[c].data = Dataset(cmd[c].opt)

LEMMA HoldingStep ==
  ASSUME SampleInv, HoldsDataset, Next
  PROVE  HoldsDataset'
<1>1. cmd \in [Commands -> Command]
  BY DEF SampleInv, SampleTypeOK
<1>2. Ended("idle").pc = "idle" /\ Ended("done").pc = "done"
  BY HandsAfterwards
<1>3. ASSUME NEW c \in Commands, Seed(c) PROVE HoldsDataset'
  <2>0. \A d \in Commands \ {c} : cmd'[d] = cmd[d]
    BY <1>1, <1>3 DEF Seed, Run, Generate, AssertSeedable, DeleteBySource, SaveItem, StoreRows, Fail
  <2> SUFFICES ASSUME cmd'[c].pc = "made"
               PROVE  cmd'[c].opt \in Options /\ cmd'[c].data = Dataset(cmd'[c].opt)
    BY <2>0 DEF HoldsDataset
  <2>1. CASE Run(c)
    BY <1>1, <2>1 DEF Run, Holding
  <2>2. CASE Generate(c)
    <3>1. cmd[c].opt \in Options
      BY <1>1 DEF Command
    <3>2. cmd'[c] = Holding("made", cmd[c].opt, Dataset(cmd[c].opt))
      BY <1>1, <2>2 DEF Generate
    <3> QED
      BY <3>1, <3>2 DEF Holding
  <2>3. CASE AssertSeedable(c)
    BY <1>1, <1>2, <2>3 DEF AssertSeedable, Holding
  <2>4. CASE DeleteBySource(c)
    BY <1>1, <2>4 DEF DeleteBySource, Command
  <2>5. CASE SaveItem(c)
    BY <1>1, <2>5 DEF SaveItem, Command
  <2>6. CASE StoreRows(c)
    BY <1>1, <1>2, <2>6 DEF StoreRows
  <2>7. CASE Fail(c)
    BY <1>1, <1>2, <2>7 DEF Fail
  <2> QED
    BY <1>3, <2>1, <2>2, <2>3, <2>4, <2>5, <2>6, <2>7 DEF Seed
<1>4. ASSUME NEW b \in RealBanks, Link(b) \/ Unlink(b) PROVE HoldsDataset'
  <2>1. \A c \in Commands : cmd'[c].pc = "made" => cmd'[c] = cmd[c]
    <3>1. CASE Link(b)
      BY <1>1, <3>1 DEF Link, Command
    <3>2. CASE Unlink(b)
      BY <3>2 DEF Unlink
    <3> QED
      BY <1>4, <3>1, <3>2
  <2> QED
    BY <2>1 DEF HoldsDataset
<1>5. ASSUME NEW i \in ItemIds, UnlinkSample(i) PROVE HoldsDataset'
  BY <1>5 DEF UnlinkSample, HoldsDataset
<1>6. CASE ResetSyncedData
  BY <1>6 DEF ResetSyncedData, HoldsDataset
<1> QED
  BY <1>3, <1>4, <1>5, <1>6 DEF Next

(***************************************************************************)
(* "The way someone paying their statement in full would": for any options *)
(* and whatever is drawn, a card owes on every day of the window what was  *)
(* charged this month and, until its pay day, the month before, and its    *)
(* balance is part of what it owes.                                        *)
(***************************************************************************)
THEOREM CardsPaid == Spec => []CardsArePaidInFull
<1>1. Init => HoldsDataset
  BY HandsAfterwards DEF Init, HoldsDataset
<1>2. SampleInv /\ HoldsDataset /\ [Next]_vars => HoldsDataset'
  <2>1. HoldsDataset /\ UNCHANGED vars => HoldsDataset'
    BY DEF HoldsDataset, vars
  <2> QED
    BY <2>1, HoldingStep
<1>3. HoldsDataset => CardsArePaidInFull
  <2>1. \A o \in Options : PaidInFull(o, Dataset(o))
    BY GeneratedPaidInFull, SeedAssumption
  <2> QED
    BY <2>1 DEF HoldsDataset, CardsArePaidInFull
<1> QED
  BY <1>1, <1>2, <1>3, SampleInvariance, PTL DEF Spec
================================================================================
