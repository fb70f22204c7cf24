-------------------------------- MODULE Ledger --------------------------------
(***************************************************************************)
(* What Plaid reports about one bank login, as far as costingly can tell.  *)
(*                                                                         *)
(* A ledger is a set of entries.  Every entry has a position of its own    *)
(* (ver), and a cursor is the position of the last entry its holder was    *)
(* given: NoCursor stands for the NULL of items.cursor, which asks Plaid   *)
(* for the full history.  Amounts, names and dates are not modelled: the   *)
(* version of a transaction row is the position of the entry it came from. *)
(***************************************************************************)
EXTENDS Integers

CONSTANTS
  Txns,     \* transaction ids a bank can report
  MaxVer    \* bound on the number of changes a bank reports

ASSUME LedgerAssumption == MaxVer \in Nat

NoCursor == 0
NoRow    == 0

Ops   == {"added", "modified", "removed"}
Vers  == 0 .. MaxVer
Entry == [ver : 1 .. MaxVer, txn : Txns, op : Ops]

\* The largest of a nonempty set of positions.
Latest(S) == CHOOSE v \in S : \A w \in S : w <= v

About(L, t)        == {e \in L : e.txn = t}
Upto(L, v)         == {e \in L : e.ver <= v}
Past(L, v)         == {e \in L : e.ver > v}
Positions(L)       == {e.ver : e \in L}
Named(L, op)       == {e \in L : e.op = op}
Removes(L, t)      == Named(About(L, t), "removed") # {}

(***************************************************************************)
(* The table a replica holds when it has applied the ledger up to v: the   *)
(* latest version of every transaction reported and not removed by then.   *)
(***************************************************************************)
View(L, v) ==
  [t \in Txns |->
     IF About(Upto(L, v), t) = {} \/ Removes(Upto(L, v), t)
       THEN NoRow
       ELSE Latest(Positions(About(Upto(L, v), t)))]

EmptyTable == [t \in Txns |-> NoRow]

(***************************************************************************)
(* A transaction is added once, before anything else is said of it, and    *)
(* nothing is said of it once it is removed: a pending transaction that    *)
(* settles comes back under a new id.                                      *)
(***************************************************************************)
WellFormed(L) ==
  \A e, f \in L :
    /\ e.ver = f.ver => e = f
    /\ (e.txn = f.txn /\ f.op = "added")   => f.ver <= e.ver
    /\ (e.txn = f.txn /\ e.op = "removed") => f.ver <= e.ver

\* What the bank may report of t next.
MayReport(L, t, op) ==
  IF op = "added" THEN About(L, t) = {}
                  ELSE About(L, t) # {} /\ ~ Removes(L, t)
===============================================================================
