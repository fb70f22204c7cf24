------------------------------- MODULE SampleData -------------------------------
(***************************************************************************)
(* applySeed() and what reaches the tables beside it: `costingly seed` in  *)
(* any number of processes, each statement a step of its own and the last  *)
(* transaction one, while banks are linked and unlinked, sample banks are  *)
(* unlinked like any other, and a reset drops every transaction.           *)
(***************************************************************************)
EXTENDS Naturals, Sequences

CONSTANTS
  Commands,    \* processes that run `costingly seed`
  Options,     \* the options a user may give
  Dataset(_),  \* the rows generateSeedDataset makes of them
  ITEMS,       \* the sample banks, in the order they are saved
  BankOf,      \* ITEM_OF: the sample bank of each account
  RealBanks,   \* banks a user may link
  MaxFaults    \* bound on failing statements and killed processes

ItemIds  == {ITEMS[i] : i \in DOMAIN ITEMS}
Accounts == DOMAIN BankOf
Rows     == UNION {Dataset(o) : o \in Options}

ASSUME SampleAssumption ==
  /\ Options # {}
  /\ ITEMS \in Seq(ItemIds)
  /\ \A a \in Accounts : BankOf[a] \in ItemIds
  /\ \A o \in Options : \A r \in Dataset(o) : r.account \in Accounts
  /\ ItemIds \intersect RealBanks = {}
  /\ MaxFaults \in Nat

VARIABLES
  banks,     \* items with source 'plaid'
  items,     \* items with source 'seed'
  accounts,  \* the sample accounts stored
  rows,      \* the sample transactions stored
  cmd,       \* what each command is at, holds and has seen
  tangled,   \* history: has a command emptied the tables while another filled them?
  sample,    \* history: the dataset stored since the tables were last emptied
  faults

vars == <<banks, items, accounts, rows, cmd, tangled, sample, faults>>

\* data: the generated rows; saved: how many items are saved; late: history, the
\* banks linked since the command looked.
Command == [pc    : {"idle", "given", "made", "clear", "items", "done"},
            opt   : Options,
            data  : SUBSET Rows,
            saved : 0 .. Len(ITEMS),
            late  : SUBSET RealBanks]

\* A command that has not begun, and one that has ended, hold nothing.
Holding(pc, o, rs) == [pc |-> pc, opt |-> o, data |-> rs, saved |-> 0, late |-> {}]
Ended(pc)          == Holding(pc, CHOOSE o \in Options : TRUE, {})

SampleTypeOK ==
  /\ banks    \subseteq RealBanks
  /\ items    \subseteq ItemIds
  /\ accounts \subseteq Accounts
  /\ rows     \subseteq Rows
  /\ cmd      \in [Commands -> Command]
  /\ tangled  \in BOOLEAN
  /\ sample   \subseteq Rows
  /\ faults   \in 0 .. MaxFaults

Init ==
  /\ banks = {} /\ items = {} /\ accounts = {} /\ rows = {}
  /\ cmd = [c \in Commands |-> Ended("idle")]
  /\ tangled = FALSE /\ sample = {}
  /\ faults = 0

\* Rows and accounts of the sample banks in S: what is left when the others go.
AccountsOf(as, S) == {a \in as : BankOf[a] \in S}
RowsOf(rs, S)     == {r \in rs : BankOf[r.account] \in S}

\* INSERT ... ON CONFLICT (transaction_id) DO UPDATE.
Upserted(old, new) == {r \in old : \A n \in new : n.id # r.id} \union new

-------------------------------------------------------------------------------
(* One `costingly seed`. *)

\* runSeed: the options are in order,
Run(c) ==
  /\ cmd[c].pc \in {"idle", "done"}
  /\ \E o \in Options : cmd' = [cmd EXCEPT ![c] = Holding("given", o, {})]
  /\ UNCHANGED <<banks, items, accounts, rows, tangled, sample, faults>>

\* and the dataset is generated.
Generate(c) ==
  /\ cmd[c].pc = "given"
  /\ cmd' = [cmd EXCEPT ![c] = Holding("made", @.opt, Dataset(@.opt))]
  /\ UNCHANGED <<banks, items, accounts, rows, tangled, sample, faults>>

\* Faulty variant of AssertSeedable: it asks for banks of the wrong source.
AssertNoSample(c) ==
  /\ cmd[c].pc = "made"
  /\ cmd' = [cmd EXCEPT ![c] = IF items = {} THEN Holding("clear", @.opt, @.data) ELSE Ended("idle")]
  /\ UNCHANGED <<banks, items, accounts, rows, tangled, sample, faults>>

\* assertSeedable: no bank may be linked.  SeedRefused is an answer, no fault.
AssertSeedable(c) ==
  /\ cmd[c].pc = "made"
  /\ cmd' = [cmd EXCEPT ![c] = IF banks = {} THEN Holding("clear", @.opt, @.data) ELSE Ended("idle")]
  /\ UNCHANGED <<banks, items, accounts, rows, tangled, sample, faults>>

\* Faulty variant of DeleteBySource: the upserts are trusted to replace what is there.
DeleteNothing(c) ==
  /\ cmd[c].pc = "clear"
  /\ cmd' = [cmd EXCEPT ![c].pc = "items"]
  /\ tangled' = \E d \in Commands \ {c} : cmd[d].pc = "items"
  /\ sample' = {}
  /\ UNCHANGED <<banks, items, accounts, rows, faults>>

\* deleteBySource(db, "seed"), which cascades.
DeleteBySource(c) ==
  /\ cmd[c].pc = "clear"
  /\ items' = {} /\ accounts' = {} /\ rows' = {}
  /\ cmd' = [cmd EXCEPT ![c].pc = "items"]
  /\ tangled' = \E d \in Commands \ {c} : cmd[d].pc = "items"
  /\ sample' = {}
  /\ UNCHANGED <<banks, faults>>

SaveItem(c) ==
  /\ cmd[c].pc = "items"
  /\ cmd[c].saved < Len(ITEMS)
  /\ items' = items \union {ITEMS[cmd[c].saved + 1]}
  /\ cmd' = [cmd EXCEPT ![c].saved = @ + 1]
  /\ UNCHANGED <<banks, accounts, rows, tangled, sample, faults>>

\* The transaction: the accounts and the rows, or neither when a foreign key
\* finds its bank gone.
StoreRows(c) ==
  /\ cmd[c].pc = "items"
  /\ cmd[c].saved = Len(ITEMS)
  /\ IF items = ItemIds
       THEN /\ accounts' = Accounts
            /\ rows' = Upserted(rows, cmd[c].data)
            /\ sample' = cmd[c].data
            /\ cmd' = [cmd EXCEPT ![c] = Ended("done")]
       ELSE cmd' = [cmd EXCEPT ![c] = Ended("idle")] /\ UNCHANGED <<accounts, rows, sample>>
  /\ UNCHANGED <<banks, items, tangled, faults>>

\* A statement fails or the process dies: what is committed stays.
Fail(c) ==
  /\ cmd[c].pc \in {"given", "made", "clear", "items"}
  /\ faults < MaxFaults
  /\ faults' = faults + 1
  /\ cmd' = [cmd EXCEPT ![c] = Ended("idle")]
  /\ UNCHANGED <<banks, items, accounts, rows, tangled, sample>>

-------------------------------------------------------------------------------
(* The rest of costingly. *)

\* Linking asks nothing about sample data.
Link(b) ==
  /\ b \notin banks
  /\ banks' = banks \union {b}
  /\ cmd' = [c \in Commands |->
               IF cmd[c].pc \in {"clear", "items"} THEN [cmd[c] EXCEPT !.late = @ \union {b}]
               ELSE cmd[c]]
  /\ UNCHANGED <<items, accounts, rows, tangled, sample, faults>>

Unlink(b) ==
  /\ b \in banks
  /\ banks' = banks \ {b}
  /\ UNCHANGED <<items, accounts, rows, cmd, tangled, sample, faults>>

\* Faulty variant of UnlinkSample: transactions without ON DELETE CASCADE.
UnlinkAccountsOnly(i) ==
  /\ i \in items
  /\ items' = items \ {i}
  /\ accounts' = AccountsOf(accounts, items \ {i})
  /\ UNCHANGED <<banks, rows, cmd, tangled, sample, faults>>

\* deleteItem of a sample bank, which cascades.
UnlinkSample(i) ==
  /\ i \in items
  /\ items' = items \ {i}
  /\ accounts' = AccountsOf(accounts, items \ {i})
  /\ rows' = RowsOf(rows, items \ {i})
  /\ UNCHANGED <<banks, cmd, tangled, sample, faults>>

\* resetSyncedData: DELETE FROM transactions, of every source.  No sync brings
\* the sample's back.
ResetSyncedData ==
  /\ rows # {}
  /\ rows' = {}
  /\ UNCHANGED <<banks, items, accounts, cmd, tangled, sample, faults>>

Seed(c) ==
  \/ Run(c) \/ Generate(c) \/ AssertSeedable(c) \/ DeleteBySource(c)
  \/ SaveItem(c) \/ StoreRows(c) \/ Fail(c)

Next ==
  \/ \E c \in Commands : Seed(c)
  \/ \E b \in RealBanks : Link(b) \/ Unlink(b)
  \/ \E i \in ItemIds : UnlinkSample(i)
  \/ ResetSyncedData

Spec == Init /\ [][Next]_vars

-------------------------------------------------------------------------------
(* Properties. *)

\* One sample, never a blend: unless two commands filled the tables at once, the
\* sample transactions stored are none, or all those of a single dataset whose
\* bank is still there - after any crash, failure, unlinking or reset.
OneSample == ~ tangled => rows = {} \/ rows = RowsOf(sample, items)

\* "Running this twice is not additive": a command that reports success, with no
\* other filling the tables beside it, leaves its own dataset, whole, and nothing
\* of an earlier one, however that one ended.
LoneSeedIsExact ==
  [][\A c \in Commands :
       ~ tangled /\ cmd[c].pc = "items" /\ cmd'[c].pc = "done" =>
         /\ items' = ItemIds
         /\ accounts' = Accounts
         /\ rows' = cmd[c].data]_vars

\* THE GUARD: a bank that was linked when the command looked has kept it from
\* writing, so invented rows join a linked bank's only where that bank was linked
\* after the command looked.
OnlyLateBanksAreMixed ==
  [][\A c \in Commands :
       cmd[c].pc \in {"clear", "items"} /\ (rows' \ rows # {} \/ items' \ items # {}) /\ cmd'[c] # cmd[c] =>
         banks \subseteq cmd[c].late]_vars
================================================================================
