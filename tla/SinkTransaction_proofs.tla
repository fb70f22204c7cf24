------------------------- MODULE SinkTransaction_proofs -------------------------
(***************************************************************************)
(* For any number of syncs, resets and unlinks of one bank: a sync that    *)
(* has rows to write is one step, a reset leaves only what was committed   *)
(* after it began to delete, the cursor vouches for no row that is not     *)
(* there unless a batch was written over another cursor than its own, and  *)
(* what is committed respects the foreign keys.                            *)
(***************************************************************************)
EXTENDS SinkTransaction, WellFoundedInduction, TLAPS

-------------------------------------------------------------------------------
(* Ledgers, positions and views *)

(***************************************************************************)
(* Positions are natural numbers.                                          *)
(***************************************************************************)
LEMMA VersAreNumbers ==
  MaxVer \in Int /\ Vers \subseteq Nat /\ Vers \subseteq Int /\ NoCursor \in Vers
BY LedgerAssumption DEF Vers, NoCursor

(***************************************************************************)
(* A nonempty set of positions has a largest one: positions are bounded by *)
(* MaxVer, so the distances to MaxVer have a least element.                *)
(***************************************************************************)
LEMMA LargestExists ==
  ASSUME NEW S, S \subseteq Vers, S # {}
  PROVE  \E v \in S : \A w \in S : w <= v
<1> DEFINE D == {MaxVer - v : v \in S}
<1>1. D \subseteq Nat /\ D # {}
  <2>1. \A v \in S : v \in Int /\ MaxVer - v \in Nat
    BY LedgerAssumption DEF Vers
  <2> QED
    BY <2>1
<1>2. PICK d \in D : \A e \in D : ~ (<<e, d>> \in OpToRel(<, Nat))
  <2>1. IsWellFoundedOn(OpToRel(<, Nat), Nat)
    BY NatLessThanWellFounded
  <2>2. QED
    BY <1>1, <2>1, WFMin
<1>3. \A e \in D : ~ (e < d)
  BY <1>1, <1>2 DEF OpToRel
<1>4. PICK v \in S : d = MaxVer - v
  OBVIOUS
<1>5. \A w \in S : MaxVer - w \in D
  OBVIOUS
<1>6. ASSUME NEW w \in S PROVE w <= v
  <2>1. ~ (MaxVer - w < MaxVer - v)
    BY <1>3, <1>4, <1>5
  <2>2. v \in Int /\ w \in Int /\ MaxVer \in Int
    BY VersAreNumbers
  <2> QED
    BY <2>1, <2>2
<1> QED
  BY <1>6

(***************************************************************************)
(* Latest returns the largest position of a nonempty set.                  *)
(***************************************************************************)
LEMMA LatestIsLargest ==
  ASSUME NEW S, S \subseteq Vers, S # {}
  PROVE  Latest(S) \in S /\ \A w \in S : w <= Latest(S)
BY LargestExists DEF Latest

(***************************************************************************)
(* Nothing has been applied at NoCursor: the view there is empty.          *)
(***************************************************************************)
LEMMA ViewAtNoCursor ==
  ASSUME NEW L, L \subseteq Entry
  PROVE  View(L, NoCursor) = EmptyTable
<1>1. Upto(L, NoCursor) = {}
  BY DEF Upto, NoCursor, Entry
<1> QED
  BY <1>1 DEF View, EmptyTable, About

-------------------------------------------------------------------------------
(* What the actors hold *)

Removed(r) == {t \in Txns : Removes(Got(r), t)}

Types ==
  /\ ledger \in SUBSET Entry
  /\ item \in BOOLEAN /\ account \in BOOLEAN
  /\ table \in [Txns -> Vers] /\ cursor \in Vers
  /\ tx \in [Actors -> Tx]
  /\ raced \in BOOLEAN
  /\ later \in [Resets -> SUBSET Txns]

Disjoint ==
  \A p, q \in Actors : p # q => tx[p].holds \intersect tx[q].holds = {}

\* Rows to be removed that a DELETE has seen, or that are not there to be seen.
Seen(r) ==
  \A t \in Removed(r) : \/ t \in r.todo \/ t \in r.gone
                        \/ t \notin r.holds /\ table[t] = NoRow

\* What a sync's transaction has locked and deleted is its batch's.
SyncOK(r) ==
  /\ r.at # "cascade"
  /\ r.next # NoCursor => r.base <= r.next
  /\ r.gone \subseteq r.holds /\ r.gone \subseteq Removed(r)
  /\ r.holds \subseteq {Account} \union Upserts(Got(r)) \union r.gone
  /\ r.at = "accountKey" => Account \in r.holds
  /\ r.at = "upserting" => Upserts(Got(r)) \subseteq r.holds \union r.todo
  /\ r.at = "upserting" => r.todo \subseteq Upserts(Got(r))
  /\ r.at \in {"deleting", "commit"} => Upserts(Got(r)) \subseteq r.holds
  /\ r.at = "deleting" => r.todo \subseteq Removed(r)
  /\ r.at = "commit" => r.todo = {}
  /\ r.at \in {"upserting", "deleting", "commit"} /\ Upserts(Got(r)) # {} => Account \in r.holds
  /\ r.at \in {"deleting", "commit"} /\ Upserts(Got(r)) # {} => Seen(r)

\* Every row there is has been seen by a reset, or came later.
ResetOK(q, r) ==
  /\ r.at \in {"idle", "deleting", "commit"}
  /\ r.holds = r.gone
  /\ r.at = "commit" => r.todo = {}
  /\ r.at \in {"deleting", "commit"} =>
       \A t \in Txns : table[t] # NoRow => t \in r.todo \/ t \in r.gone \/ t \in later[q]

UnlinkOK(r) ==
  /\ r.at \in {"idle", "cascade", "deleting"}
  /\ r.gone \subseteq r.holds /\ r.holds \subseteq {Account} \union r.gone
  /\ r.at = "cascade" => r.gone = {}

ActorOK(p, r) ==
  /\ p \in Syncs => SyncOK(r)
  /\ p \in Resets => ResetOK(p, r)
  /\ p \in Unlinks => UnlinkOK(r)

IInv ==
  /\ Types
  /\ Disjoint
  /\ \A p \in Actors : ActorOK(p, tx[p])
  /\ HistoryHeld

-------------------------------------------------------------------------------
(***************************************************************************)
(* The fields of a transaction.                                            *)
(***************************************************************************)
LEMMA TxFields ==
  ASSUME NEW r \in Tx
  PROVE  /\ r.at \in Phases /\ r.base \in Vers /\ r.next \in Vers
         /\ r.todo \subseteq Txns /\ r.gone \subseteq Txns
         /\ r.holds \subseteq Txns \union {Account}
         /\ r.inserted \in BOOLEAN
         /\ r.share \in {"none", "key", "update", "delete"}
BY DEF Tx

(***************************************************************************)
(* A batch is a part of the ledger, and the rows it writes are the bank's. *)
(***************************************************************************)
LEMMA GotFacts ==
  ASSUME Types, NEW r \in Tx
  PROVE  /\ Got(r) \subseteq Entry
         /\ Upserts(Got(r)) \subseteq Txns
         /\ Removed(r) \subseteq Txns
         /\ \A t \in Upserts(Got(r)) : Dedupe(Got(r), t) \in Vers \ {NoRow}
<1>1. Got(r) \subseteq Entry
  BY DEF Got, Upto, Past, Types
<1>2. Upserts(Got(r)) \subseteq Txns /\ Removed(r) \subseteq Txns
  BY <1>1 DEF Upserts, Named, Entry, Removed
<1>3. ASSUME NEW t \in Upserts(Got(r)) PROVE Dedupe(Got(r), t) \in Vers \ {NoRow}
  <2> DEFINE modified == Positions(Named(About(Got(r), t), "modified"))
             added    == Positions(Named(About(Got(r), t), "added"))
  <2>1. modified \subseteq Vers \ {NoRow} /\ added \subseteq Vers \ {NoRow}
    BY <1>1, LedgerAssumption DEF Positions, Named, About, Entry, Vers, NoRow
  <2>2. modified # {} \/ added # {}
    BY DEF Upserts, Positions, Named, About
  <2>3. modified # {} => Latest(modified) \in modified
    BY <2>1, LatestIsLargest
  <2>4. added # {} => Latest(added) \in added
    BY <2>1, LatestIsLargest
  <2>5. Dedupe(Got(r), t) = IF modified # {} THEN Latest(modified) ELSE Latest(added)
    BY DEF Dedupe
  <2> QED
    BY <2>1, <2>2, <2>3, <2>4, <2>5
<1> QED
  BY <1>1, <1>2, <1>3

(***************************************************************************)
(* The batch is fixed with its two cursors.                                *)
(***************************************************************************)
LEMMA SameBatch ==
  ASSUME NEW r, NEW s, r.base = s.base, r.next = s.next
  PROVE  Got(r) = Got(s) /\ Removed(r) = Removed(s)
BY DEF Got, Removed

(***************************************************************************)
(* A statement of one transaction keeps the invariant if the transaction   *)
(* is in order after it and has locked nothing that another one has.       *)
(***************************************************************************)
LEMMA GoesKeeps ==
  ASSUME IInv, NEW p \in Actors, NEW r \in Tx, Goes(p, r),
         ActorOK(p, r),
         \A row \in r.holds : row \in tx[p].holds \/ Unlocked(p, row),
         UNCHANGED later
  PROVE  IInv'
<1>1. /\ tx' = [tx EXCEPT ![p] = r]
      /\ UNCHANGED <<ledger, item, account, table, cursor, raced, later>>
  BY DEF Goes, dbVars
<1>2. tx' \in [Actors -> Tx]
  BY <1>1 DEF IInv, Types
<1>3. tx'[p] = r /\ \A q \in Actors : q # p => tx'[q] = tx[q]
  BY <1>1 DEF IInv, Types
<1>4. Types'
  BY <1>1, <1>2 DEF IInv, Types
<1>5. Disjoint'
  <2> SUFFICES ASSUME NEW a \in Actors, NEW b \in Actors, a # b,
                      NEW row \in tx'[a].holds, row \in tx'[b].holds
               PROVE  FALSE
    BY DEF Disjoint
  <2>1. \A q \in Actors : q # p => (row \in tx[q].holds => row \notin r.holds)
    BY DEF Unlocked, Others, IInv, Disjoint
  <2> QED
    BY <1>3, <2>1 DEF IInv, Disjoint
<1>6. ASSUME NEW q \in Actors PROVE ActorOK(q, tx[q])'
  <2>1. ActorOK(q, tx'[q])
    BY <1>3 DEF IInv
  <2>2. ActorOK(q, tx'[q]) => ActorOK(q, tx[q])'
    BY <1>1 DEF ActorOK, SyncOK, ResetOK, UnlinkOK, Seen, Removed, Got
  <2> QED
    BY <2>1, <2>2
<1>7. HistoryHeld'
  BY <1>1 DEF IInv, HistoryHeld
<1> QED
  BY <1>4, <1>5, <1>6, <1>7 DEF IInv

(***************************************************************************)
(* An actor has one trade.                                                 *)
(***************************************************************************)
LEMMA Trades ==
  /\ \A s \in Syncs : s \in Actors /\ s \notin Resets /\ s \notin Unlinks
  /\ \A r \in Resets : r \in Actors /\ r \notin Syncs /\ r \notin Unlinks
  /\ \A u \in Unlinks : u \in Actors /\ u \notin Syncs /\ u \notin Resets
  /\ Account \notin Txns
BY SinkAssumption DEF Actors

(***************************************************************************)
(* A transaction that has not begun is in order.                           *)
(***************************************************************************)
LEMMA IdleIsOK ==
  /\ IdleTx \in Tx
  /\ IdleTx.holds = {} /\ IdleTx.gone = {} /\ IdleTx.at = "idle"
  /\ \A p \in Actors : ActorOK(p, IdleTx)
<1>1. IdleTx \in Tx
  BY VersAreNumbers DEF IdleTx, Tx, Phases
<1>2. /\ IdleTx.holds = {} /\ IdleTx.gone = {} /\ IdleTx.todo = {}
      /\ IdleTx.at = "idle" /\ IdleTx.next = NoCursor
  BY DEF IdleTx
<1> QED
  BY <1>1, <1>2 DEF ActorOK, SyncOK, ResetOK, UnlinkOK

(***************************************************************************)
(* pull locks nothing; a batch without rows to write needs no account.     *)
(***************************************************************************)
LEMMA PullKeeps ==
  ASSUME IInv, NEW s \in Syncs, Pull(s)
  PROVE  IInv'
<1>1. PICK next \in {NoCursor} \union (cursor .. MaxVer) :
        LET r == [IdleTx EXCEPT !.at = "accounts", !.base = cursor, !.next = next]
        IN  Goes(s, r) \/ (Upserts(Got(r)) = {} /\ Goes(s, Upserting(r)))
  BY DEF Pull
<1> DEFINE r == [IdleTx EXCEPT !.at = "accounts", !.base = cursor, !.next = next]
<1>2. next \in Vers /\ cursor \in Vers
  BY LedgerAssumption, VersAreNumbers DEF IInv, Types, Vers
<1>3. r \in Tx /\ Upserting(r) \in Tx
  <2>1. r \in Tx
    BY <1>2, IdleIsOK DEF Tx, Phases
  <2>2. Upserts(Got(r)) \subseteq Txns
    BY <2>1, GotFacts DEF IInv
  <2> QED
    BY <2>1, <2>2 DEF Upserting, Tx, Phases
<1>4. r.at = "accounts" /\ r.holds = {} /\ r.gone = {} /\ r.todo = {}
  BY DEF IdleTx
<1>5. CASE Goes(s, r)
  <2>1. ActorOK(s, r)
    BY <1>4, Trades DEF ActorOK, SyncOK
  <2> QED
    BY <1>3, <1>4, <1>5, <2>1, GoesKeeps, Trades DEF Pull
<1>6. CASE Upserts(Got(r)) = {} /\ Goes(s, Upserting(r))
  <2>1. /\ Upserting(r).at = "upserting" /\ Upserting(r).holds = {}
        /\ Upserting(r).gone = {} /\ Upserting(r).todo = {}
        /\ Upserting(r).base = r.base /\ Upserting(r).next = r.next
    BY <1>6 DEF Upserting, IdleTx
  <2>2. Upserts(Got(Upserting(r))) = {}
    BY <2>1, <1>6, SameBatch
  <2>3. ActorOK(s, Upserting(r))
    BY <2>1, <2>2, Trades DEF ActorOK, SyncOK
  <2> QED
    BY <1>3, <1>6, <2>1, <2>3, GoesKeeps, Trades DEF Pull
<1> QED
  BY <1>1, <1>5, <1>6

(***************************************************************************)
(* upsertMany of accounts takes the account, which nobody else has.        *)
(***************************************************************************)
LEMMA UpsertAccountsKeeps ==
  ASSUME IInv, NEW s \in Syncs, UpsertAccounts(s)
  PROVE  IInv'
<1> DEFINE old  == tx[s]
           held == [old EXCEPT !.holds = @ \union {Account}]
           keyed == [held EXCEPT !.at = "accountKey"]
<1>1. /\ old.at = "accounts" /\ Unlocked(s, Account)
      /\ Goes(s, IF account THEN Upserting(held) ELSE keyed)
      /\ UNCHANGED later
  BY DEF UpsertAccounts
<1>2. old \in Tx /\ SyncOK(old)
  BY Trades DEF IInv, Types, ActorOK
<1>3. /\ held \in Tx /\ held.holds = old.holds \union {Account}
      /\ held.gone = old.gone /\ held.base = old.base /\ held.next = old.next
  BY <1>2 DEF Tx
<1>4. Got(held) = Got(old) /\ Removed(held) = Removed(old) /\ Upserts(Got(old)) \subseteq Txns
  BY <1>2, <1>3, SameBatch, GotFacts DEF IInv
<1>5. CASE account
  <2> DEFINE new == Upserting(held)
  <2>1. /\ new \in Tx /\ new.at = "upserting" /\ new.todo = Upserts(Got(old))
        /\ new.holds = old.holds \union {Account} /\ new.gone = old.gone
        /\ new.base = old.base /\ new.next = old.next
    BY <1>3, <1>4 DEF Upserting, Tx, Phases
  <2>2. Got(new) = Got(old) /\ Removed(new) = Removed(old)
    BY <2>1, SameBatch
  <2>3. SyncOK(new)
    BY <1>2, <2>1, <2>2 DEF SyncOK
  <2>4. ActorOK(s, new)
    BY <2>3, Trades DEF ActorOK
  <2>5. \A row \in new.holds : row \in old.holds \/ Unlocked(s, row)
    BY <1>1, <2>1
  <2>6. Goes(s, new)
    BY <1>1, <1>5
  <2> QED
    BY <1>1, <2>1, <2>4, <2>5, <2>6, GoesKeeps, Trades
<1>6. CASE ~ account
  <2>1. /\ keyed \in Tx /\ keyed.at = "accountKey"
        /\ keyed.holds = old.holds \union {Account} /\ keyed.gone = old.gone
        /\ keyed.base = old.base /\ keyed.next = old.next
    BY <1>3 DEF Tx, Phases
  <2>2. Got(keyed) = Got(old) /\ Removed(keyed) = Removed(old)
    BY <2>1, SameBatch
  <2>3. SyncOK(keyed)
    BY <1>2, <2>1, <2>2 DEF SyncOK
  <2>4. ActorOK(s, keyed)
    BY <2>3, Trades DEF ActorOK
  <2>5. \A row \in keyed.holds : row \in old.holds \/ Unlocked(s, row)
    BY <1>1, <2>1
  <2>6. Goes(s, keyed)
    BY <1>1, <1>6
  <2> QED
    BY <1>1, <2>1, <2>4, <2>5, <2>6, GoesKeeps, Trades
<1> QED
  BY <1>5, <1>6 DEF IInv, Types

(***************************************************************************)
(* A row of the batch is locked for good.                                  *)
(***************************************************************************)
LEMMA UpsertRowKeeps ==
  ASSUME IInv, NEW s \in Syncs, UpsertRow(s)
  PROVE  IInv'
<1> DEFINE old == tx[s]
<1>1. PICK t \in old.todo :
        /\ old.at = "upserting" /\ Unlocked(s, t) /\ UNCHANGED later
        /\ Goes(s, [old EXCEPT !.todo = @ \ {t}, !.holds = @ \union {t},
                               !.inserted = @ \/ table[t] = NoRow])
  BY DEF UpsertRow
<1> DEFINE new == [old EXCEPT !.todo = @ \ {t}, !.holds = @ \union {t},
                              !.inserted = @ \/ table[t] = NoRow]
<1>2. old \in Tx /\ SyncOK(old)
  BY Trades DEF IInv, Types, ActorOK
<1>3. t \in Txns
  BY <1>2, TxFields
<1>4. /\ new.at = "upserting" /\ new.todo = old.todo \ {t}
      /\ new.holds = old.holds \union {t} /\ new.gone = old.gone
      /\ new.base = old.base /\ new.next = old.next
      /\ new.share = old.share /\ new.inserted = (old.inserted \/ table[t] = NoRow)
  BY <1>1, <1>2 DEF Tx
<1>5. new \in Tx
  <2>1. (old.inserted \/ table[t] = NoRow) \in BOOLEAN
    OBVIOUS
  <2> QED
    BY <1>2, <1>3, <2>1 DEF Tx
<1>6. Got(new) = Got(old) /\ Removed(new) = Removed(old)
  BY <1>4, SameBatch
<1>7. SyncOK(new)
  BY <1>1, <1>2, <1>4, <1>6 DEF SyncOK
<1>8. ActorOK(s, new)
  BY <1>7, Trades DEF ActorOK
<1>9. \A row \in new.holds : row \in old.holds \/ Unlocked(s, row)
  BY <1>1, <1>4
<1> QED
  BY <1>1, <1>5, <1>8, <1>9, GoesKeeps, Trades

(***************************************************************************)
(* A foreign key changes no row of the batch.                              *)
(***************************************************************************)
LEMMA CheckKeyKeeps ==
  ASSUME IInv, NEW s \in Syncs, CheckKey(s)
  PROVE  IInv'
<1> DEFINE old == tx[s]
           checked == [old EXCEPT !.share = "key"]
<1>1. old \in Tx /\ SyncOK(old)
  BY Trades DEF IInv, Types, ActorOK
<1>2. /\ checked \in Tx /\ checked.at = old.at /\ checked.todo = old.todo
      /\ checked.holds = old.holds /\ checked.gone = old.gone
      /\ checked.base = old.base /\ checked.next = old.next
  BY <1>1 DEF Tx
<1>3. Got(checked) = Got(old) /\ Removed(checked) = Removed(old)
  BY <1>2, SameBatch
<1>4. UNCHANGED later
  BY DEF CheckKey
<1>5. CASE old.at = "accountKey" /\ Goes(s, Upserting(checked))
  <2> DEFINE new == Upserting(checked)
  <2>1. Upserts(Got(old)) \subseteq Txns
    BY <1>1, GotFacts DEF IInv
  <2>2. /\ new \in Tx /\ new.at = "upserting" /\ new.todo = Upserts(Got(old))
        /\ new.holds = old.holds /\ new.gone = old.gone
        /\ new.base = old.base /\ new.next = old.next
    BY <1>2, <1>3, <2>1 DEF Upserting, Tx, Phases
  <2>3. Got(new) = Got(old) /\ Removed(new) = Removed(old)
    BY <2>2, SameBatch
  <2>4. SyncOK(new)
    BY <1>1, <1>5, <2>2, <2>3 DEF SyncOK
  <2>5. ActorOK(s, new)
    BY <2>4, Trades DEF ActorOK
  <2> QED
    BY <1>4, <1>5, <2>2, <2>5, GoesKeeps, Trades
<1>6. CASE old.at = "upserting" /\ Goes(s, checked)
  <2>1. SyncOK(checked)
    BY <1>1, <1>2, <1>3, <1>6 DEF SyncOK
  <2>2. ActorOK(s, checked)
    BY <2>1, Trades DEF ActorOK
  <2> QED
    BY <1>2, <1>4, <1>6, <2>2, GoesKeeps, Trades
<1> QED
  BY <1>5, <1>6 DEF CheckKey

(***************************************************************************)
(* When DELETE begins, a row to be removed that it does not see is not in  *)
(* the table and not among the transaction's own.                          *)
(***************************************************************************)
LEMMA DeleteByIdsKeeps ==
  ASSUME IInv, NEW s \in Syncs, DeleteByIds(s)
  PROVE  IInv'
<1> DEFINE old  == tx[s]
           seen == {t \in Txns : t \in old.holds \/ table[t] # NoRow}
           todo == {t \in seen : Removes(Got(old), t)}
           new  == [old EXCEPT !.at = "deleting", !.todo = todo]
<1>1. /\ old.at = "upserting" /\ old.todo = {} /\ Goes(s, new) /\ UNCHANGED later
  BY DEF DeleteByIds
<1>2. old \in Tx /\ SyncOK(old)
  BY Trades DEF IInv, Types, ActorOK
<1>3. /\ new \in Tx /\ new.at = "deleting" /\ new.todo = todo
      /\ new.holds = old.holds /\ new.gone = old.gone
      /\ new.base = old.base /\ new.next = old.next
  <2>1. todo \subseteq Txns
    OBVIOUS
  <2> HIDE DEF todo
  <2> QED
    BY <1>2, <2>1 DEF Tx, Phases
<1>4. Got(new) = Got(old) /\ Removed(new) = Removed(old)
  BY <1>3, SameBatch
<1>5. todo \subseteq Removed(old)
  BY DEF Removed
<1>6. \A t \in Removed(old) : t \in todo \/ (t \notin old.holds /\ table[t] = NoRow)
  BY DEF Removed
<1>7. SyncOK(new)
  <2>1. Seen(new)
    BY <1>3, <1>4, <1>6 DEF Seen
  <2> HIDE DEF todo
  <2> QED
    BY <1>1, <1>2, <1>3, <1>4, <1>5, <2>1 DEF SyncOK
<1>8. ActorOK(s, new)
  BY <1>7, Trades DEF ActorOK
<1> QED
  BY <1>1, <1>3, <1>8, GoesKeeps, Trades

(***************************************************************************)
(* A DELETE locks what it has seen and nobody else has.                    *)
(***************************************************************************)
LEMMA DeleteRowKeeps ==
  ASSUME IInv, NEW p \in Actors, DeleteRow(p)
  PROVE  IInv'
<1> DEFINE old == tx[p]
<1>1. PICK t \in old.todo :
        /\ old.at = "deleting" /\ Unlocked(p, t) /\ UNCHANGED later
        /\ Goes(p, [old EXCEPT !.todo = @ \ {t}, !.holds = @ \union {t}, !.gone = @ \union {t}])
  BY DEF DeleteRow
<1> DEFINE new == [old EXCEPT !.todo = @ \ {t}, !.holds = @ \union {t}, !.gone = @ \union {t}]
<1>2. old \in Tx /\ ActorOK(p, old)
  BY DEF IInv, Types
<1>3. t \in Txns
  BY <1>2, TxFields
<1>4. /\ new \in Tx /\ new.at = "deleting" /\ new.todo = old.todo \ {t}
      /\ new.holds = old.holds \union {t} /\ new.gone = old.gone \union {t}
      /\ new.base = old.base /\ new.next = old.next
  BY <1>1, <1>2, <1>3 DEF Tx
<1>5. Got(new) = Got(old) /\ Removed(new) = Removed(old)
  BY <1>4, SameBatch
<1>6. ASSUME p \in Syncs PROVE SyncOK(new)
  <2>1. SyncOK(old)
    BY <1>2, <1>6 DEF ActorOK
  <2>2. Upserts(Got(old)) # {} => Seen(new)
    BY <1>1, <1>4, <1>5, <2>1 DEF SyncOK, Seen
  <2> QED
    BY <1>1, <1>4, <1>5, <2>1, <2>2 DEF SyncOK
<1>7. ASSUME p \in Resets PROVE ResetOK(p, new)
  BY <1>1, <1>2, <1>4, <1>7 DEF ActorOK, ResetOK
<1>8. ASSUME p \in Unlinks PROVE UnlinkOK(new)
  BY <1>1, <1>2, <1>4, <1>8 DEF ActorOK, UnlinkOK
<1>9. ActorOK(p, new)
  BY <1>6, <1>7, <1>8 DEF ActorOK
<1>10. \A row \in new.holds : row \in old.holds \/ Unlocked(p, row)
  BY <1>1, <1>4
<1> QED
  BY <1>1, <1>4, <1>9, <1>10, GoesKeeps

(***************************************************************************)
(* The cursor's statement is the last one, when every row has been locked. *)
(***************************************************************************)
LEMMA UpdateItemKeeps ==
  ASSUME IInv, NEW p \in Actors, UpdateItem(p)
  PROVE  IInv'
<1> DEFINE old == tx[p]
<1>1. PICK share \in {old.share, "update"} :
        /\ p \notin Unlinks /\ old.at = "deleting" /\ old.todo = {} /\ UNCHANGED later
        /\ Goes(p, [old EXCEPT !.at = "commit", !.share = share])
  <2>1. old \in Tx
    BY DEF IInv, Types
  <2>2. [old EXCEPT !.at = "commit"] = [old EXCEPT !.at = "commit", !.share = old.share]
    BY <2>1 DEF Tx
  <2> QED
    BY <2>2 DEF UpdateItem
<1> DEFINE new == [old EXCEPT !.at = "commit", !.share = share]
<1>2. old \in Tx /\ ActorOK(p, old)
  BY DEF IInv, Types
<1>3. /\ new \in Tx /\ new.at = "commit" /\ new.todo = {}
      /\ new.holds = old.holds /\ new.gone = old.gone
      /\ new.base = old.base /\ new.next = old.next
  BY <1>1, <1>2 DEF Tx, Phases
<1>4. Got(new) = Got(old) /\ Removed(new) = Removed(old)
  BY <1>3, SameBatch
<1>5. ASSUME p \in Syncs PROVE SyncOK(new)
  <2>1. SyncOK(old)
    BY <1>2, <1>5 DEF ActorOK
  <2>2. Upserts(Got(old)) # {} => Seen(new)
    BY <1>1, <1>3, <1>4, <2>1 DEF SyncOK, Seen
  <2> QED
    BY <1>1, <1>3, <1>4, <2>1, <2>2 DEF SyncOK
<1>6. ASSUME p \in Resets PROVE ResetOK(p, new)
  BY <1>1, <1>2, <1>3, <1>6 DEF ActorOK, ResetOK
<1>7. ActorOK(p, new)
  BY <1>1, <1>5, <1>6 DEF ActorOK
<1> QED
  BY <1>1, <1>3, <1>7, GoesKeeps

(***************************************************************************)
(* A reset begins to delete what it sees, which is all there is.           *)
(***************************************************************************)
LEMMA DeleteAllKeeps ==
  ASSUME IInv, NEW q \in Resets, DeleteAll(q)
  PROVE  IInv'
<1> DEFINE seen == {t \in Txns : table[t] # NoRow}
           new  == [IdleTx EXCEPT !.at = "deleting", !.todo = seen]
<1>1. Goes(q, new) /\ UNCHANGED later
  BY DEF DeleteAll
<1>2. /\ new \in Tx /\ new.at = "deleting" /\ new.todo = seen
      /\ new.holds = {} /\ new.gone = {}
  <2>1. seen \subseteq Txns
    OBVIOUS
  <2> HIDE DEF seen
  <2> QED
    BY <2>1, IdleIsOK DEF Tx, Phases
<1>3. ResetOK(q, new)
  BY <1>2 DEF ResetOK
<1>4. ActorOK(q, new)
  BY <1>3, Trades DEF ActorOK
<1> QED
  BY <1>1, <1>2, <1>4, GoesKeeps, Trades

(***************************************************************************)
(* An unlink locks the bank, which is no row of the batch.                 *)
(***************************************************************************)
LEMMA DeleteItemKeeps ==
  ASSUME IInv, NEW u \in Unlinks, DeleteItem(u)
  PROVE  IInv'
<1> DEFINE new == [IdleTx EXCEPT !.at = "cascade", !.share = "delete"]
<1>1. Goes(u, new) /\ UNCHANGED later
  BY DEF DeleteItem
<1>2. new \in Tx /\ new.at = "cascade" /\ new.holds = {} /\ new.gone = {}
  BY IdleIsOK DEF Tx, Phases
<1>3. ActorOK(u, new)
  BY <1>2, Trades DEF ActorOK, UnlinkOK
<1> QED
  BY <1>1, <1>2, <1>3, GoesKeeps, Trades

(***************************************************************************)
(* The cascade takes the account, if there is one, which nobody else has.  *)
(***************************************************************************)
LEMMA CascadeKeeps ==
  ASSUME IInv, NEW u \in Unlinks, Cascade(u)
  PROVE  IInv'
<1> DEFINE old  == tx[u]
           seen == {t \in Txns : table[t] # NoRow}
           mine == IF account THEN {Account} ELSE {}
           new  == [old EXCEPT !.at = "deleting", !.holds = mine, !.todo = seen]
<1>1. /\ old.at = "cascade" /\ (account => Unlocked(u, Account))
      /\ Goes(u, new) /\ UNCHANGED later
  BY DEF Cascade
<1>2. old \in Tx /\ UnlinkOK(old)
  BY Trades DEF IInv, Types, ActorOK
<1>3. seen \subseteq Txns /\ mine \subseteq {Account}
  OBVIOUS
<1>4. \A row \in mine : Unlocked(u, row)
  BY <1>1
<1>5. old.gone = {}
  BY <1>1, <1>2 DEF UnlinkOK
<1>6. /\ new \in Tx /\ new.at = "deleting" /\ new.holds = mine /\ new.gone = old.gone
  <2> HIDE DEF seen, mine
  <2> QED
    BY <1>2, <1>3 DEF Tx, Phases
<1>7. ActorOK(u, new)
  BY <1>3, <1>5, <1>6, Trades DEF ActorOK, UnlinkOK
<1>8. \A row \in new.holds : row \in old.holds \/ Unlocked(u, row)
  BY <1>4, <1>6
<1> HIDE DEF new
<1> QED
  BY <1>1, <1>6, <1>7, <1>8, GoesKeeps, Trades

(***************************************************************************)
(* A rollback leaves no trace.                                             *)
(***************************************************************************)
LEMMA RollbackKeeps ==
  ASSUME IInv, NEW p \in Actors, Rollback(p)
  PROVE  IInv'
<1>1. /\ tx' = [tx EXCEPT ![p] = IdleTx]
      /\ UNCHANGED <<ledger, item, account, table, cursor, raced>>
      /\ later' = [q \in Resets |-> IF q = p THEN {} ELSE later[q]]
  BY DEF Rollback, Goes, dbVars
<1>2. tx'[p] = IdleTx /\ \A q \in Actors : q # p => tx'[q] = tx[q]
  BY <1>1 DEF IInv, Types
<1>3. Types'
  BY <1>1, IdleIsOK DEF IInv, Types
<1>4. Disjoint'
  BY <1>2, IdleIsOK DEF IInv, Disjoint
<1>5. ASSUME NEW q \in Actors PROVE ActorOK(q, tx[q])'
  <2>1. CASE q = p
    <3>1. ActorOK(q, IdleTx)' = ActorOK(q, IdleTx)
      BY <1>1, IdleIsOK DEF ActorOK, SyncOK, ResetOK, UnlinkOK, Seen, Removed, Got
    <3> QED
      BY <2>1, <3>1, <1>2, IdleIsOK DEF ActorOK
  <2>2. CASE q # p
    <3>1. ActorOK(q, tx'[q])
      BY <1>2, <2>2 DEF IInv
    <3>2. q \in Resets => later'[q] = later[q]
      BY <1>1, <2>2
    <3>3. ActorOK(q, tx'[q]) => ActorOK(q, tx[q])'
      BY <1>1, <3>2 DEF ActorOK, SyncOK, ResetOK, UnlinkOK, Seen, Removed, Got
    <3> QED
      BY <3>1, <3>3
  <2> QED
    BY <2>1, <2>2
<1>6. HistoryHeld'
  BY <1>1 DEF IInv, HistoryHeld
<1> QED
  BY <1>3, <1>4, <1>5, <1>6 DEF IInv

-------------------------------------------------------------------------------
(***************************************************************************)
(* The rows after a commit: those deleted are gone, those only locked were *)
(* written by a sync that has the account, and the others are as they were.*)
(***************************************************************************)
LEMMA CommitRows ==
  ASSUME IInv, NEW p \in Actors, Commit(p)
  PROVE  /\ table' \in [Txns -> Vers]
         /\ \A t \in Txns :
              /\ t \in tx[p].gone => table'[t] = NoRow
              /\ t \notin tx[p].holds => table'[t] = table[t]
              /\ t \in tx[p].holds /\ t \notin tx[p].gone =>
                   /\ p \in Syncs /\ t \in Upserts(Got(tx[p]))
                   /\ Account \in tx[p].holds
                   /\ table'[t] = Dedupe(Got(tx[p]), t)
                   /\ table'[t] \in Vers \ {NoRow}
<1> DEFINE r == tx[p]
<1>1. r \in Tx /\ ActorOK(p, r) /\ table \in [Txns -> Vers]
  BY DEF IInv, Types
<1>2. table' = Left(r)
  BY DEF Commit
<1>3. NoRow \in Vers
  BY VersAreNumbers DEF NoRow, NoCursor
<1>4. ASSUME NEW t \in Txns, t \in r.holds, t \notin r.gone
      PROVE  p \in Syncs /\ t \in Upserts(Got(r)) /\ Account \in r.holds
  <2>1. t # Account
    BY Trades
  <2>2. p \in Syncs /\ SyncOK(r)
    BY <1>1, <1>4, <2>1 DEF ActorOK, ResetOK, UnlinkOK, Actors
  <2>3. r.at = "commit"
    BY <2>2, Trades DEF Commit, Committing
  <2> QED
    BY <1>4, <2>1, <2>2, <2>3 DEF SyncOK
<1>5. ASSUME NEW t \in Txns
      PROVE  /\ t \in r.gone => table'[t] = NoRow
             /\ t \notin r.holds /\ t \notin r.gone => table'[t] = table[t]
             /\ t \in r.holds /\ t \notin r.gone => table'[t] = Dedupe(Got(r), t)
  BY <1>2 DEF Left
<1>6. r.gone \subseteq r.holds
  BY <1>1 DEF ActorOK, SyncOK, ResetOK, UnlinkOK, Actors
<1>7. \A t \in Upserts(Got(r)) : Dedupe(Got(r), t) \in Vers \ {NoRow}
  BY <1>1, GotFacts DEF IInv
<1>8. \A t \in Txns : table'[t] \in Vers
  BY <1>1, <1>3, <1>4, <1>5, <1>7
<1>9. table' = [t \in Txns |-> table'[t]]
  BY <1>2 DEF Left
<1> QED
  BY <1>4, <1>5, <1>6, <1>7, <1>8, <1>9

(***************************************************************************)
(* What a commit is to the transactions under way: a DELETE that waits for *)
(* a row that went passes it over.                                         *)
(***************************************************************************)
LEMMA CommitOthers ==
  ASSUME IInv, NEW p \in Actors, Commit(p)
  PROVE  /\ tx' \in [Actors -> Tx]
         /\ tx'[p] = IdleTx
         /\ \A q \in Actors : q # p =>
              /\ tx'[q].at = tx[q].at /\ tx'[q].holds = tx[q].holds
              /\ tx'[q].gone = tx[q].gone
              /\ tx'[q].base = tx[q].base /\ tx'[q].next = tx[q].next
              /\ tx'[q].todo = IF tx[q].at = "deleting" THEN tx[q].todo \ tx[p].gone
                                                        ELSE tx[q].todo
<1>1. tx' = [q \in Actors |->
               IF q = p THEN IdleTx
               ELSE IF tx[q].at = "deleting" THEN [tx[q] EXCEPT !.todo = @ \ tx[p].gone]
               ELSE tx[q]]
  BY DEF Commit
<1>2. \A q \in Actors : tx[q] \in Tx
  BY DEF IInv, Types
<1>3. ASSUME NEW q \in Actors
      PROVE  LET new == [tx[q] EXCEPT !.todo = @ \ tx[p].gone]
             IN  /\ new \in Tx /\ new.at = tx[q].at /\ new.holds = tx[q].holds
                 /\ new.gone = tx[q].gone /\ new.base = tx[q].base
                 /\ new.next = tx[q].next /\ new.todo = tx[q].todo \ tx[p].gone
  BY <1>2 DEF Tx
<1>4. \A q \in Actors : tx'[q] \in Tx
  BY <1>1, <1>2, <1>3, IdleIsOK
<1> QED
  BY <1>1, <1>3, <1>4

(***************************************************************************)
(* A sync's transaction stays in order when another one commits: only one  *)
(* that has the account inserts rows, and it is not this one.              *)
(***************************************************************************)
LEMMA CommitKeepsSync ==
  ASSUME IInv, NEW p \in Actors, Commit(p), NEW s \in Syncs, s # p
  PROVE  SyncOK(tx[s])'
<1> DEFINE old == tx[s]
           new == tx'[s]
<1>1. s \in Actors /\ old \in Tx /\ SyncOK(old)
  BY Trades DEF IInv, Types, ActorOK
<1>2. /\ new.at = old.at /\ new.holds = old.holds /\ new.gone = old.gone
      /\ new.base = old.base /\ new.next = old.next
      /\ new.todo = IF old.at = "deleting" THEN old.todo \ tx[p].gone ELSE old.todo
  BY <1>1, CommitOthers
<1>3. Got(new) = Got(old) /\ Removed(new) = Removed(old)
  BY <1>2, SameBatch
<1>4. ledger' = ledger
  BY DEF Commit
<1>5. Got(tx[s])' = Got(old) /\ Removed(tx[s])' = Removed(old)
  BY <1>3, <1>4 DEF Got, Removed
<1>6. old.holds \intersect tx[p].holds = {}
  BY <1>1 DEF IInv, Disjoint
<1>7. ASSUME old.at \in {"deleting", "commit"}, Upserts(Got(old)) # {}
      PROVE  Seen(tx[s])'
  <2>1. Seen(old) /\ Account \in old.holds
    BY <1>1, <1>7 DEF SyncOK
  <2>2. Account \notin tx[p].holds
    BY <1>6, <2>1
  <2>3. \A t \in Txns : /\ t \in tx[p].gone => table'[t] = NoRow
                        /\ t \notin tx[p].gone => table'[t] = table[t]
    BY <2>2, CommitRows
  <2>4. tx[p].gone \subseteq tx[p].holds
    BY DEF IInv, ActorOK, SyncOK, ResetOK, UnlinkOK, Actors
  <2>5. ASSUME NEW t \in Removed(old)
        PROVE  \/ t \in new.todo \/ t \in new.gone
               \/ t \notin new.holds /\ table'[t] = NoRow
    <3>1. t \in Txns
      BY DEF Removed
    <3>2. CASE t \in tx[p].gone
      BY <1>2, <1>6, <2>3, <2>4, <3>1, <3>2
    <3>3. CASE t \notin tx[p].gone
      BY <1>2, <2>1, <2>3, <3>1, <3>3 DEF Seen
    <3> QED
      BY <3>2, <3>3
  <2> QED
    BY <1>5, <2>5 DEF Seen
<1> QED
  BY <1>1, <1>2, <1>5, <1>7 DEF SyncOK

(***************************************************************************)
(* What a commit writes under a reset is later than the reset's DELETE.    *)
(***************************************************************************)
LEMMA CommitKeepsReset ==
  ASSUME IInv, NEW p \in Actors, Commit(p), NEW q \in Resets, q # p
  PROVE  ResetOK(q, tx[q])'
<1> DEFINE old == tx[q]
           new == tx'[q]
<1>1. q \in Actors /\ ResetOK(q, old)
  BY Trades DEF IInv, Types, ActorOK
<1>2. /\ new.at = old.at /\ new.holds = old.holds /\ new.gone = old.gone
      /\ new.todo = IF old.at = "deleting" THEN old.todo \ tx[p].gone ELSE old.todo
  BY <1>1, CommitOthers
<1>3. old.at # "idle" => later'[q] = later[q] \union (tx[p].holds \intersect Txns)
  BY DEF Commit
<1>4. ASSUME old.at \in {"deleting", "commit"}, NEW t \in Txns, table'[t] # NoRow
      PROVE  t \in new.todo \/ t \in new.gone \/ t \in later'[q]
  <2>1. t \notin tx[p].gone
    BY <1>4, CommitRows
  <2>2. later'[q] = later[q] \union (tx[p].holds \intersect Txns)
    BY <1>3, <1>4
  <2>3. CASE t \in tx[p].holds
    BY <2>2, <2>3
  <2>4. CASE t \notin tx[p].holds
    <3>1. table[t] # NoRow
      BY <1>4, <2>4, CommitRows
    <3>2. t \in old.todo \/ t \in old.gone \/ t \in later[q]
      BY <1>1, <1>4, <3>1 DEF ResetOK
    <3> QED
      BY <1>2, <2>1, <2>2, <3>2
  <2> QED
    BY <2>3, <2>4
<1> QED
  BY <1>1, <1>2, <1>4 DEF ResetOK

(***************************************************************************)
(* A sync that advances the cursor from the one its batch was pulled from  *)
(* has written what was reported in between.                               *)
(***************************************************************************)
LEMMA CommitHolds ==
  ASSUME IInv, NEW p \in Actors, Commit(p)
  PROVE  HistoryHeld'
<1> DEFINE r == tx[p]
<1>1. SUFFICES ASSUME ~ raced', NEW t \in Txns, View(ledger, cursor')[t] # NoRow
               PROVE  table'[t] # NoRow
  BY DEF HistoryHeld, Commit
<1>2. cursor' # NoCursor
  BY <1>1, ViewAtNoCursor DEF IInv, Types, EmptyTable
<1>3. cursor' = Cursor(p)
  BY DEF Commit
<1>4. p \in Syncs /\ item
  BY <1>2, <1>3 DEF Cursor, Actors
<1>5. r \in Tx /\ SyncOK(r) /\ r.at = "commit" /\ ledger \subseteq Entry /\ cursor \in Vers
  BY <1>4, Trades DEF IInv, Types, ActorOK, Commit, Committing
<1>6. ~ raced /\ (r.next # NoCursor => cursor = r.base)
  BY <1>1, <1>4 DEF Commit, IInv, Types
<1>7. View(ledger, cursor)[t] # NoRow => table[t] # NoRow
  BY <1>6 DEF IInv, HistoryHeld
<1>8. CASE r.next = NoCursor
  <2>1. cursor' = cursor
    BY <1>3, <1>4, <1>8, Trades DEF Cursor
  <2>2. Got(r) = {}
    BY <1>5, <1>8 DEF Got, Upto, Past, Entry, NoCursor
  <2>3. Upserts(Got(r)) = {} /\ Removed(r) = {}
    BY <2>2 DEF Upserts, Named, Removed, Removes, About
  <2>4. t \notin r.holds
    BY <1>5, <2>3, Trades DEF SyncOK
  <2> QED
    BY <1>1, <1>7, <2>1, <2>4, CommitRows
<1>9. CASE r.next # NoCursor
  <2>1. cursor' = r.next /\ cursor = r.base
    BY <1>3, <1>4, <1>6, <1>9, Trades DEF Cursor
  <2>2. /\ About(Upto(ledger, r.next), t) # {}
        /\ ~ Removes(Upto(ledger, r.next), t)
    BY <1>1, <2>1 DEF View
  <2>3. t \notin Removed(r)
    BY <2>2 DEF Removed, Removes, Named, About, Got, Past
  <2>4. t \notin r.gone
    BY <1>5, <2>3 DEF SyncOK
  <2>5. r.base \in Int /\ r.next \in Int /\ \A e \in ledger : e.ver \in Int
    <3>1. r.base \in Vers /\ r.next \in Vers
      BY <1>5, TxFields
    <3>2. \A e \in ledger : e.ver \in 1 .. MaxVer
      BY <1>5 DEF Entry
    <3>3. \A i \in 1 .. MaxVer : i \in Int
      OBVIOUS
    <3>4. r.base \in Int /\ r.next \in Int
      BY <3>1, VersAreNumbers
    <3> QED
      BY <3>2, <3>3, <3>4
  <2>6. CASE t \in r.holds
    BY <2>4, <2>6, CommitRows
  <2>7. CASE t \notin r.holds
    <3>1. t \notin Upserts(Got(r))
      BY <1>5, <2>7 DEF SyncOK
    <3>2. \A e \in About(Upto(ledger, r.next), t) : e \in About(Upto(ledger, r.base), t)
      <4> SUFFICES ASSUME NEW e \in ledger, e.ver <= r.next, e.txn = t
                   PROVE  e.ver <= r.base
        BY DEF About, Upto
      <4>1. e \notin Got(r)
        <5>1. e.op \in Ops /\ e.op # "removed"
          BY <1>5, <2>2 DEF Removes, Named, About, Upto, Entry
        <5> QED
          BY <3>1, <5>1 DEF Upserts, Named, Ops
      <4>2. ~ (e.ver > r.base)
        BY <4>1 DEF Got, Past, Upto
      <4> QED
        BY <2>5, <4>2
    <3>3. About(Upto(ledger, r.base), t) # {}
      BY <2>2, <3>2
    <3>4. ~ Removes(Upto(ledger, r.base), t)
      <4> SUFFICES ASSUME NEW e \in ledger, e.ver <= r.base, e.txn = t, e.op = "removed"
                   PROVE  FALSE
        BY DEF Removes, Named, About, Upto
      <4>1. ~ (e.ver <= r.next)
        BY <2>2 DEF Removes, Named, About, Upto
      <4>2. r.base <= r.next
        BY <1>5, <1>9 DEF SyncOK
      <4> QED
        BY <2>5, <4>1, <4>2
    <3>5. Positions(About(Upto(ledger, r.base), t)) \subseteq 1 .. MaxVer
      BY <1>5 DEF Positions, About, Upto, Entry
    <3>6. Latest(Positions(About(Upto(ledger, r.base), t))) # NoRow
      BY <3>3, <3>5, LatestIsLargest, LedgerAssumption DEF Positions, Vers, NoRow
    <3>7. View(ledger, cursor)[t] # NoRow
      BY <2>1, <3>3, <3>4, <3>6 DEF View
    <3> QED
      BY <1>7, <2>7, <3>7, CommitRows
  <2> QED
    BY <2>6, <2>7
<1> QED
  BY <1>8, <1>9

(***************************************************************************)
(* A commit keeps the invariant.                                           *)
(***************************************************************************)
LEMMA CommitKeeps ==
  ASSUME IInv, NEW p \in Actors, Commit(p)
  PROVE  IInv'
<1>1. Types'
  <2>1. table' \in [Txns -> Vers] /\ tx' \in [Actors -> Tx]
    BY CommitRows, CommitOthers
  <2>2. cursor' \in Vers
    <3>1. tx[p].next \in Vers
      BY TxFields DEF IInv, Types
    <3> QED
      BY <3>1, VersAreNumbers DEF Commit, Cursor, IInv, Types, Actors
  <2>3. later' \in [Resets -> SUBSET Txns]
    BY DEF Commit, IInv, Types
  <2>4. ledger' = ledger /\ item' \in BOOLEAN /\ account' \in BOOLEAN /\ raced' \in BOOLEAN
    BY DEF Commit, IInv, Types
  <2> QED
    BY <2>1, <2>2, <2>3, <2>4 DEF IInv, Types
<1>2. Disjoint'
  <2>1. tx'[p].holds = {} /\ \A q \in Actors : q # p => tx'[q].holds = tx[q].holds
    BY CommitOthers, IdleIsOK
  <2> QED
    BY <2>1 DEF IInv, Disjoint
<1>3. ASSUME NEW q \in Actors PROVE ActorOK(q, tx[q])'
  <2>1. CASE q = p
    <3>1. tx'[q].at = "idle" /\ tx'[q].holds = {} /\ tx'[q].gone = {} /\ tx'[q].next = NoCursor
      BY <2>1, CommitOthers DEF IdleTx
    <3> QED
      BY <3>1 DEF ActorOK, SyncOK, ResetOK, UnlinkOK
  <2>2. CASE q # p
    <3>1. q \in Syncs => SyncOK(tx[q])'
      BY <2>2, CommitKeepsSync
    <3>2. q \in Resets => ResetOK(q, tx[q])'
      BY <2>2, CommitKeepsReset
    <3>3. q \in Unlinks => UnlinkOK(tx[q])'
      <4>1. q \in Unlinks => UnlinkOK(tx[q])
        BY DEF IInv, ActorOK
      <4>2. /\ tx'[q].at = tx[q].at /\ tx'[q].holds = tx[q].holds
            /\ tx'[q].gone = tx[q].gone
        BY <2>2, CommitOthers
      <4> QED
        BY <4>1, <4>2 DEF UnlinkOK
    <3> QED
      BY <3>1, <3>2, <3>3 DEF ActorOK
  <2> QED
    BY <2>1, <2>2
<1>4. HistoryHeld'
  BY CommitHolds
<1> QED
  BY <1>1, <1>2, <1>3, <1>4 DEF IInv

(***************************************************************************)
(* The invariant holds at first and after every step.                      *)
(***************************************************************************)
LEMMA InitIsOK == Init => IInv
<1> SUFFICES ASSUME Init PROVE IInv
  OBVIOUS
<1>1. EmptyTable \in [Txns -> Vers] /\ \A t \in Txns : EmptyTable[t] = NoRow
  BY VersAreNumbers DEF EmptyTable, NoRow, NoCursor
<1>2. \A p \in Actors : tx[p] = IdleTx
  BY DEF Init
<1>3. Types
  BY <1>1, IdleIsOK, VersAreNumbers DEF Init, Types
<1>4. Disjoint
  BY <1>2, IdleIsOK DEF Disjoint
<1>5. \A p \in Actors : ActorOK(p, tx[p])
  BY <1>2, IdleIsOK
<1>6. HistoryHeld
  <2>1. View(ledger, cursor) = EmptyTable
    BY <1>3, ViewAtNoCursor DEF Types, Init
  <2> QED
    BY <1>1, <2>1 DEF HistoryHeld
<1> QED
  BY <1>3, <1>4, <1>5, <1>6 DEF IInv

LEMMA StepIsOK == IInv /\ [Next]_vars => IInv'
<1> SUFFICES ASSUME IInv, [Next]_vars PROVE IInv'
  OBVIOUS
<1>1. CASE UNCHANGED vars
  BY <1>1 DEF IInv, Types, Disjoint, ActorOK, SyncOK, ResetOK, UnlinkOK, Seen,
              Removed, Got, HistoryHeld, vars, dbVars
<1>2. ASSUME NEW s \in Syncs, Pull(s) PROVE IInv'
  BY <1>2, PullKeeps
<1>3. ASSUME NEW s \in Syncs, UpsertAccounts(s) PROVE IInv'
  BY <1>3, UpsertAccountsKeeps
<1>4. ASSUME NEW s \in Syncs, UpsertRow(s) PROVE IInv'
  BY <1>4, UpsertRowKeeps
<1>5. ASSUME NEW s \in Syncs, CheckKey(s) PROVE IInv'
  BY <1>5, CheckKeyKeeps
<1>6. ASSUME NEW s \in Syncs, DeleteByIds(s) PROVE IInv'
  BY <1>6, DeleteByIdsKeeps
<1>7. ASSUME NEW r \in Resets, DeleteAll(r) PROVE IInv'
  BY <1>7, DeleteAllKeeps
<1>8. ASSUME NEW u \in Unlinks, DeleteItem(u) PROVE IInv'
  BY <1>8, DeleteItemKeeps
<1>9. ASSUME NEW u \in Unlinks, Cascade(u) PROVE IInv'
  BY <1>9, CascadeKeeps
<1>10. ASSUME NEW p \in Actors, DeleteRow(p) PROVE IInv'
  BY <1>10, DeleteRowKeeps
<1>11. ASSUME NEW p \in Actors, UpdateItem(p) PROVE IInv'
  BY <1>11, UpdateItemKeeps
<1>12. ASSUME NEW p \in Actors, Commit(p) PROVE IInv'
  BY <1>12, CommitKeeps
<1>13. ASSUME NEW p \in Actors, Rollback(p) PROVE IInv'
  BY <1>13, RollbackKeeps
<1> QED
  BY <1>1, <1>2, <1>3, <1>4, <1>5, <1>6, <1>7, <1>8, <1>9, <1>10, <1>11, <1>12, <1>13
  DEF Next

LEMMA Inductive == Spec => []IInv
BY InitIsOK, StepIsOK, PTL DEF Spec

-------------------------------------------------------------------------------
(***************************************************************************)
(* A sync that commits with rows to write has written its whole batch, and *)
(* nothing of anybody else's is under it: nobody but it had the account.   *)
(***************************************************************************)
LEMMA CommitIsWritten ==
  ASSUME IInv, NEW s \in Syncs, Commits(s), Upserts(Got(tx[s])) # {}
  PROVE  table' = Written(table, Got(tx[s]))
<1> DEFINE r == tx[s]
<1>1. s \in Actors /\ r \in Tx /\ SyncOK(r) /\ r.at = "commit"
  BY Trades DEF IInv, Types, ActorOK, Commits, Committing
<1>2. Upserts(Got(r)) \subseteq r.holds /\ r.todo = {} /\ Seen(r) /\ r.gone \subseteq Removed(r)
  BY <1>1 DEF SyncOK
<1>3. Commit(s)
  BY DEF Commits
<1>4. ASSUME NEW t \in Txns PROVE table'[t] = Written(table, Got(r))[t]
  <2>1. CASE Removes(Got(r), t)
    <3>1. t \in r.gone \/ (t \notin r.holds /\ table[t] = NoRow)
      BY <1>2, <2>1 DEF Seen, Removed
    <3>2. table'[t] = NoRow
      BY <1>1, <1>3, <3>1, CommitRows
    <3> QED
      BY <2>1, <3>2 DEF Written
  <2>2. CASE ~ Removes(Got(r), t) /\ t \in Upserts(Got(r))
    <3>1. t \in r.holds /\ t \notin r.gone
      BY <1>2, <2>2 DEF Removed
    <3>2. table'[t] = Dedupe(Got(r), t)
      BY <1>1, <1>3, <3>1, CommitRows
    <3> QED
      BY <2>2, <3>2 DEF Written
  <2>3. CASE ~ Removes(Got(r), t) /\ t \notin Upserts(Got(r))
    <3>1. t \notin r.holds
      BY <1>1, <1>2, <2>3, Trades DEF SyncOK, Removed
    <3>2. table'[t] = table[t]
      BY <1>1, <1>3, <3>1, CommitRows
    <3> QED
      BY <2>3, <3>2 DEF Written
  <2> QED
    BY <2>1, <2>2, <2>3
<1>5. table' \in [Txns -> Vers]
  BY <1>1, <1>3, CommitRows
<1>6. Written(table, Got(r)) = [t \in Txns |-> Written(table, Got(r))[t]]
  BY DEF Written
<1> QED
  BY <1>4, <1>5, <1>6

(***************************************************************************)
(* A row that a reset leaves was committed after it began to delete.       *)
(***************************************************************************)
LEMMA CommitLeavesLater ==
  ASSUME IInv, NEW q \in Resets, Commits(q), NEW t \in Txns, table'[t] # NoRow
  PROVE  t \in later[q]
<1>1. q \in Actors /\ ResetOK(q, tx[q]) /\ tx[q].at = "commit" /\ Commit(q)
  BY Trades DEF IInv, ActorOK, Commits, Committing
<1>2. t \notin tx[q].gone /\ t \notin tx[q].holds /\ table'[t] = table[t]
  BY <1>1, CommitRows, Trades
<1> QED
  BY <1>1, <1>2 DEF ResetOK

(***************************************************************************)
(* For any number of actors: the cursor vouches for no row that is not     *)
(* there, unless a batch was written over another cursor than its own.     *)
(***************************************************************************)
THEOREM HistoryIsHeld == Spec => []HistoryHeld
<1>1. IInv => HistoryHeld
  BY DEF IInv
<1> QED
  BY <1>1, Inductive, PTL

(***************************************************************************)
(* For any number of actors: a sync with rows to write is one step.        *)
(***************************************************************************)
THEOREM SyncsAreSteps == Spec => SyncIsOneStep
<1>1. IInv /\ [Next]_vars =>
        [\A s \in Syncs : Commits(s) /\ Upserts(Got(tx[s])) # {}
           => table' = Written(table, Got(tx[s]))]_vars
  BY CommitIsWritten
<1> QED
  BY <1>1, Inductive, PTL DEF Spec, SyncIsOneStep

(***************************************************************************)
(* For any number of actors: what a reset leaves came after it had begun.  *)
(***************************************************************************)
THEOREM ResetsLeaveLater == Spec => ResetLeavesOnlyLater
<1>1. IInv /\ [Next]_vars =>
        [\A r \in Resets : Commits(r) => \A t \in Txns : table'[t] # NoRow => t \in later[r]]_vars
  BY CommitLeavesLater
<1> QED
  BY <1>1, Inductive, PTL DEF Spec, ResetLeavesOnlyLater

-------------------------------------------------------------------------------
(* The foreign keys *)

\* Who deletes the bank has it alone.
SharesApart ==
  \A p, q \in Actors : p # q /\ tx[q].share = "delete" => tx[p].share = "none"

\* An account a sync has inserted has its key checked before anything else is
\* done; an unlink under way has the bank.
ShareOK(p, r) ==
  /\ r.share # "none" => item
  /\ p \in Syncs /\ Account \in r.holds /\ ~ account =>
       r.at = "accountKey" \/ r.share # "none"
  /\ p \in Unlinks /\ r.at # "idle" => r.share = "delete"

\* An unlink that has the account is about to delete every row, and one that
\* has not found none.
SweepOK(p, r) ==
  p \in Unlinks /\ r.at = "deleting" =>
    IF Account \in r.holds
      THEN \A t \in Txns : table[t] # NoRow => t \in r.todo \/ t \in r.gone
      ELSE ~ account

KeysHold ==
  /\ account => item
  /\ ~ account => \A t \in Txns : table[t] = NoRow
  /\ ~ item => cursor = NoCursor

KInv ==
  /\ SharesApart
  /\ \A p \in Actors : ShareOK(p, tx[p]) /\ SweepOK(p, tx[p])
  /\ KeysHold

(***************************************************************************)
(* A statement of one transaction keeps the keys if the transaction is in  *)
(* order after it and has taken the bank only where nobody forbids it.     *)
(***************************************************************************)
LEMMA GoesKeepsKeys ==
  ASSUME IInv, KInv, NEW p \in Actors, NEW r \in Tx, Goes(p, r),
         ShareOK(p, r), SweepOK(p, r),
         \/ r.share \in {tx[p].share, "none"}
         \/ r.share \in {"key", "update", "delete"} /\ MayLockItem(p, r.share)
  PROVE  KInv'
<1>1. /\ tx' = [tx EXCEPT ![p] = r]
      /\ UNCHANGED <<item, account, table, cursor>>
  BY DEF Goes, dbVars
<1>2. tx'[p] = r /\ \A q \in Actors : q # p => tx'[q] = tx[q]
  BY <1>1 DEF IInv, Types
<1>3. \A q \in Actors : tx[q].share \in {"none", "key", "update", "delete"}
  BY TxFields DEF IInv, Types
<1>4. \A q \in Actors : q # p =>
        /\ tx[q].share = "delete" => r.share = "none"
        /\ r.share = "delete" => tx[q].share = "none"
  <2>1. CASE r.share \in {tx[p].share, "none"}
    BY <2>1 DEF KInv, SharesApart
  <2>2. CASE r.share \in {"key", "update", "delete"} /\ MayLockItem(p, r.share)
    <3>1. \A q \in Actors : q # p => tx[q].share \notin Conflicts(r.share)
      BY <2>2 DEF MayLockItem, Others
    <3>2. "delete" \in Conflicts(r.share)
      BY <2>2 DEF Conflicts
    <3>3. r.share = "delete" => Conflicts(r.share) = {"key", "update", "delete"}
      BY DEF Conflicts
    <3> QED
      BY <1>3, <3>1, <3>2, <3>3
  <2> QED
    BY <2>1, <2>2
<1>5. SharesApart'
  BY <1>2, <1>4 DEF KInv, SharesApart
<1>6. ASSUME NEW q \in Actors PROVE (ShareOK(q, tx[q]) /\ SweepOK(q, tx[q]))'
  <2>1. ShareOK(q, tx'[q]) /\ SweepOK(q, tx'[q])
    BY <1>2 DEF KInv
  <2> QED
    BY <1>1, <2>1 DEF ShareOK, SweepOK
<1>7. KeysHold'
  BY <1>1 DEF KInv, KeysHold
<1> QED
  BY <1>5, <1>6, <1>7 DEF KInv

(***************************************************************************)
(* The statements of a sync that take no lock on the bank.                 *)
(***************************************************************************)
LEMMA SyncKeepsKeys ==
  ASSUME IInv, KInv, NEW s \in Syncs, NEW r \in Tx, Goes(s, r),
         \/ r.share = tx[s].share
         \/ r.share = "none",
         r.share = tx[s].share \/ Account \notin r.holds,
         Account \in r.holds /\ ~ account =>
           \/ r.at = "accountKey"
           \/ Account \in tx[s].holds /\ tx[s].at # "accountKey"
  PROVE  KInv'
<1>1. ShareOK(s, tx[s]) /\ s \in Actors
  BY Trades DEF KInv
<1>2. ShareOK(s, r) /\ SweepOK(s, r)
  BY <1>1, Trades DEF ShareOK, SweepOK
<1> QED
  BY <1>1, <1>2, GoesKeepsKeys

LEMMA PullKeepsKeys ==
  ASSUME IInv, KInv, NEW s \in Syncs, Pull(s)
  PROVE  KInv'
<1>1. PICK next \in {NoCursor} \union (cursor .. MaxVer) :
        LET r == [IdleTx EXCEPT !.at = "accounts", !.base = cursor, !.next = next]
        IN  Goes(s, r) \/ (Upserts(Got(r)) = {} /\ Goes(s, Upserting(r)))
  BY DEF Pull
<1> DEFINE r == [IdleTx EXCEPT !.at = "accounts", !.base = cursor, !.next = next]
<1>2. next \in Vers /\ cursor \in Vers
  BY LedgerAssumption, VersAreNumbers DEF IInv, Types, Vers
<1>3. r \in Tx /\ r.share = "none" /\ r.holds = {}
  BY <1>2, IdleIsOK DEF IdleTx, Tx, Phases
<1>4. Upserting(r) \in Tx /\ Upserting(r).share = "none" /\ Upserting(r).holds = {}
  <2>1. Upserts(Got(r)) \subseteq Txns
    BY <1>3, GotFacts DEF IInv
  <2> HIDE DEF r
  <2> QED
    BY <1>3, <2>1 DEF Upserting, Tx, Phases
<1> HIDE DEF r
<1> QED
  BY <1>1, <1>3, <1>4, SyncKeepsKeys DEF r

LEMMA UpsertAccountsKeepsKeys ==
  ASSUME IInv, KInv, NEW s \in Syncs, UpsertAccounts(s)
  PROVE  KInv'
<1> DEFINE old  == tx[s]
           held == [old EXCEPT !.holds = @ \union {Account}]
           keyed == [held EXCEPT !.at = "accountKey"]
<1>1. Goes(s, IF account THEN Upserting(held) ELSE keyed)
  BY DEF UpsertAccounts
<1>2. old \in Tx
  BY Trades DEF IInv, Types
<1>3. held \in Tx /\ held.share = old.share
  BY <1>2 DEF Tx
<1>4. keyed \in Tx /\ keyed.share = old.share /\ keyed.at = "accountKey"
  BY <1>3 DEF Tx, Phases
<1>5. Upserting(held) \in Tx /\ Upserting(held).share = old.share
  <2>1. Upserts(Got(held)) \subseteq Txns
    BY <1>3, GotFacts DEF IInv
  <2> HIDE DEF held
  <2> QED
    BY <1>3, <2>1 DEF Upserting, Tx, Phases
<1> HIDE DEF held, keyed
<1>6. CASE account
  BY <1>1, <1>5, <1>6, SyncKeepsKeys
<1>7. CASE ~ account
  BY <1>1, <1>4, <1>7, SyncKeepsKeys
<1> QED
  BY <1>6, <1>7

LEMMA UpsertRowKeepsKeys ==
  ASSUME IInv, KInv, NEW s \in Syncs, UpsertRow(s)
  PROVE  KInv'
<1> DEFINE old == tx[s]
<1>1. PICK t \in old.todo :
        /\ old.at = "upserting"
        /\ Goes(s, [old EXCEPT !.todo = @ \ {t}, !.holds = @ \union {t},
                               !.inserted = @ \/ table[t] = NoRow])
  BY DEF UpsertRow
<1> DEFINE new == [old EXCEPT !.todo = @ \ {t}, !.holds = @ \union {t},
                              !.inserted = @ \/ table[t] = NoRow]
<1>2. old \in Tx
  BY Trades DEF IInv, Types
<1>3. t \in Txns /\ t # Account
  BY <1>2, TxFields, Trades
<1>4. new.share = old.share /\ new.holds = old.holds \union {t}
  BY <1>2 DEF Tx
<1>5. new \in Tx
  <2>1. (old.inserted \/ table[t] = NoRow) \in BOOLEAN
    OBVIOUS
  <2> QED
    BY <1>2, <1>3, <2>1 DEF Tx
<1> HIDE DEF new
<1> QED
  BY <1>1, <1>3, <1>4, <1>5, SyncKeepsKeys DEF new

LEMMA DeleteByIdsKeepsKeys ==
  ASSUME IInv, KInv, NEW s \in Syncs, DeleteByIds(s)
  PROVE  KInv'
<1> DEFINE old  == tx[s]
           seen == {t \in Txns : t \in old.holds \/ table[t] # NoRow}
           todo == {t \in seen : Removes(Got(old), t)}
           new  == [old EXCEPT !.at = "deleting", !.todo = todo]
<1>1. old.at = "upserting" /\ Goes(s, new)
  BY DEF DeleteByIds
<1>2. old \in Tx
  BY Trades DEF IInv, Types
<1>3. new \in Tx /\ new.share = old.share /\ new.holds = old.holds
  <2>1. todo \subseteq Txns
    OBVIOUS
  <2> HIDE DEF todo
  <2> QED
    BY <1>2, <2>1 DEF Tx, Phases
<1> HIDE DEF new
<1> QED
  BY <1>1, <1>3, SyncKeepsKeys

(***************************************************************************)
(* The check of a foreign key waits for an unlink, and needs the bank.     *)
(***************************************************************************)
LEMMA CheckKeyKeepsKeys ==
  ASSUME IInv, KInv, NEW s \in Syncs, CheckKey(s)
  PROVE  KInv'
<1> DEFINE old == tx[s]
           checked == [old EXCEPT !.share = "key"]
<1>1. /\ item /\ MayLockItem(s, "key")
      /\ Goes(s, Upserting(checked)) \/ Goes(s, checked)
  BY DEF CheckKey
<1>2. old \in Tx /\ s \in Actors
  BY Trades DEF IInv, Types
<1>3. checked \in Tx /\ checked.share = "key"
  BY <1>2 DEF Tx
<1>4. Upserting(checked) \in Tx /\ Upserting(checked).share = "key"
  <2>1. Upserts(Got(checked)) \subseteq Txns
    BY <1>3, GotFacts DEF IInv
  <2> HIDE DEF checked
  <2> QED
    BY <1>3, <2>1 DEF Upserting, Tx, Phases
<1>5. \A r \in Tx : r.share = "key" => ShareOK(s, r) /\ SweepOK(s, r)
  BY <1>1, Trades DEF ShareOK, SweepOK
<1> HIDE DEF checked
<1> QED
  BY <1>1, <1>2, <1>3, <1>4, <1>5, GoesKeepsKeys

(***************************************************************************)
(* An unlink deletes one of the rows it has listed.                        *)
(***************************************************************************)
LEMMA DeleteRowKeepsKeys ==
  ASSUME IInv, KInv, NEW p \in Actors, DeleteRow(p)
  PROVE  KInv'
<1> DEFINE old == tx[p]
<1>1. PICK t \in old.todo :
        /\ old.at = "deleting"
        /\ Goes(p, [old EXCEPT !.todo = @ \ {t}, !.holds = @ \union {t}, !.gone = @ \union {t}])
  BY DEF DeleteRow
<1> DEFINE new == [old EXCEPT !.todo = @ \ {t}, !.holds = @ \union {t}, !.gone = @ \union {t}]
<1>2. old \in Tx /\ ShareOK(p, old) /\ SweepOK(p, old)
  BY DEF IInv, Types, KInv
<1>3. t \in Txns /\ t # Account
  BY <1>2, TxFields, Trades
<1>4. /\ new \in Tx /\ new.at = "deleting" /\ new.todo = old.todo \ {t}
      /\ new.holds = old.holds \union {t} /\ new.gone = old.gone \union {t}
      /\ new.share = old.share
  BY <1>1, <1>2, <1>3 DEF Tx
<1> HIDE DEF new
<1>5. ShareOK(p, new)
  BY <1>1, <1>2, <1>3, <1>4 DEF ShareOK
<1>6. SweepOK(p, new)
  BY <1>1, <1>2, <1>3, <1>4 DEF SweepOK
<1> QED
  BY <1>1, <1>4, <1>5, <1>6, GoesKeepsKeys DEF new

(***************************************************************************)
(* The cursor's statement finds the bank, and locks it, or does not.       *)
(***************************************************************************)
LEMMA UpdateItemKeepsKeys ==
  ASSUME IInv, KInv, NEW p \in Actors, UpdateItem(p)
  PROVE  KInv'
<1> DEFINE old    == tx[p]
           passed == [old EXCEPT !.at = "commit"]
           locked == [old EXCEPT !.at = "commit", !.share = "update"]
<1>1. /\ p \notin Unlinks /\ old.at = "deleting"
      /\ \/ Goes(p, passed)
         \/ item /\ MayLockItem(p, "update") /\ Goes(p, locked)
  BY DEF UpdateItem
<1>2. old \in Tx /\ ShareOK(p, old)
  BY DEF IInv, Types, KInv
<1>3. passed \in Tx /\ passed.share = old.share /\ passed.holds = old.holds
  BY <1>2 DEF Tx, Phases
<1>4. locked \in Tx /\ locked.share = "update"
  BY <1>2 DEF Tx, Phases
<1> HIDE DEF passed, locked
<1>5. CASE Goes(p, passed)
  <2>1. ShareOK(p, passed) /\ SweepOK(p, passed)
    BY <1>1, <1>2, <1>3 DEF ShareOK, SweepOK
  <2> QED
    BY <1>3, <1>5, <2>1, GoesKeepsKeys
<1>6. CASE item /\ MayLockItem(p, "update") /\ Goes(p, locked)
  <2>1. ShareOK(p, locked) /\ SweepOK(p, locked)
    BY <1>1, <1>4, <1>6 DEF ShareOK, SweepOK
  <2> QED
    BY <1>4, <1>6, <2>1, GoesKeepsKeys
<1> QED
  BY <1>1, <1>5, <1>6

LEMMA DeleteAllKeepsKeys ==
  ASSUME IInv, KInv, NEW q \in Resets, DeleteAll(q)
  PROVE  KInv'
<1> DEFINE seen == {t \in Txns : table[t] # NoRow}
           new  == [IdleTx EXCEPT !.at = "deleting", !.todo = seen]
<1>1. Goes(q, new)
  BY DEF DeleteAll
<1>2. new \in Tx /\ new.share = "none"
  <2>1. seen \subseteq Txns /\ IdleTx.share = "none"
    BY DEF IdleTx
  <2> HIDE DEF seen
  <2> QED
    BY <2>1, IdleIsOK DEF Tx, Phases
<1> HIDE DEF new
<1>3. ShareOK(q, new) /\ SweepOK(q, new)
  BY <1>2, Trades DEF ShareOK, SweepOK
<1> QED
  BY <1>1, <1>2, <1>3, GoesKeepsKeys, Trades

(***************************************************************************)
(* An unlink takes the bank when nobody else has it.                       *)
(***************************************************************************)
LEMMA DeleteItemKeepsKeys ==
  ASSUME IInv, KInv, NEW u \in Unlinks, DeleteItem(u)
  PROVE  KInv'
<1> DEFINE new == [IdleTx EXCEPT !.at = "cascade", !.share = "delete"]
<1>1. item /\ MayLockItem(u, "delete") /\ Goes(u, new)
  BY DEF DeleteItem
<1>2. new \in Tx /\ new.at = "cascade" /\ new.share = "delete"
  BY IdleIsOK DEF Tx, Phases
<1> HIDE DEF new
<1>3. ShareOK(u, new) /\ SweepOK(u, new)
  BY <1>1, <1>2, Trades DEF ShareOK, SweepOK
<1> QED
  BY <1>1, <1>2, <1>3, GoesKeepsKeys, Trades

(***************************************************************************)
(* The cascade lists every row, or finds no account and so no rows.        *)
(***************************************************************************)
LEMMA CascadeKeepsKeys ==
  ASSUME IInv, KInv, NEW u \in Unlinks, Cascade(u)
  PROVE  KInv'
<1> DEFINE old  == tx[u]
           seen == {t \in Txns : table[t] # NoRow}
           mine == IF account THEN {Account} ELSE {}
           new  == [old EXCEPT !.at = "deleting", !.holds = mine, !.todo = seen]
<1>1. old.at = "cascade" /\ Goes(u, new)
  BY DEF Cascade
<1>2. old \in Tx /\ ShareOK(u, old)
  BY Trades DEF IInv, Types, KInv
<1>3. seen \subseteq Txns /\ mine \subseteq {Account}
  OBVIOUS
<1>4. /\ new \in Tx /\ new.holds = mine /\ new.todo = seen /\ new.share = old.share
  <2> HIDE DEF seen, mine
  <2> QED
    BY <1>2, <1>3 DEF Tx, Phases
<1> HIDE DEF new
<1>5. ShareOK(u, new)
  BY <1>1, <1>2, <1>4, Trades DEF ShareOK
<1>6. SweepOK(u, new)
  BY <1>4 DEF SweepOK
<1> QED
  BY <1>1, <1>4, <1>5, <1>6, GoesKeepsKeys, Trades

LEMMA RollbackKeepsKeys ==
  ASSUME IInv, KInv, NEW p \in Actors, Rollback(p)
  PROVE  KInv'
<1>1. IdleTx.share = "none" /\ Goes(p, IdleTx)
  BY DEF Rollback, IdleTx
<1>2. ShareOK(p, IdleTx) /\ SweepOK(p, IdleTx)
  BY <1>1, IdleIsOK DEF ShareOK, SweepOK
<1> QED
  BY <1>1, <1>2, IdleIsOK, GoesKeepsKeys

(***************************************************************************)
(* A sync that inserts the account has the bank; an unlink that deletes it *)
(* has every row of the account, and leaves none.                          *)
(***************************************************************************)
LEMMA CommitKeepsKeysHold ==
  ASSUME IInv, KInv, NEW p \in Actors, Commit(p)
  PROVE  KeysHold'
<1> DEFINE r == tx[p]
<1>1. /\ r \in Tx /\ ActorOK(p, r) /\ ShareOK(p, r) /\ SweepOK(p, r) /\ KeysHold
      /\ item \in BOOLEAN /\ account \in BOOLEAN
  BY DEF IInv, Types, KInv
<1>2. /\ item' = (item /\ p \notin Unlinks)
      /\ account' = ((account \/ Account \in r.holds) /\ ~ (p \in Unlinks /\ Account \in r.holds))
      /\ cursor' = Cursor(p)
      /\ Committing(p)
  BY DEF Commit
<1>3. p \in Unlinks => r.at = "deleting" /\ r.todo = {}
  BY <1>1, <1>2 DEF Committing, ActorOK, UnlinkOK
<1>4. p \notin Unlinks => r.at = "commit"
  BY <1>2 DEF Committing
<1>5. p \in Resets => Account \notin r.holds
  BY <1>1, TxFields, Trades DEF ActorOK, ResetOK
<1>6. account' => item'
  <2>1. CASE p \in Unlinks
    BY <1>1, <1>2, <1>3, <2>1 DEF SweepOK
  <2>2. CASE p \in Syncs
    BY <1>1, <1>2, <1>4, <2>2, Trades DEF ShareOK, KeysHold
  <2>3. CASE p \in Resets
    BY <1>1, <1>2, <1>5, <2>3, Trades DEF KeysHold
  <2> QED
    BY <2>1, <2>2, <2>3 DEF Actors
<1>7. ASSUME ~ account', NEW t \in Txns PROVE table'[t] = NoRow
  <2>1. CASE p \in Unlinks
    <3>1. table[t] # NoRow => t \in r.gone
      BY <1>1, <1>3, <1>7, <2>1 DEF SweepOK, KeysHold
    <3>2. t \in r.holds => t \in r.gone
      BY <1>1, <2>1, Trades DEF ActorOK, UnlinkOK
    <3> QED
      BY <3>1, <3>2, CommitRows
  <2>2. CASE p \notin Unlinks
    <3>1. ~ account /\ Account \notin r.holds
      BY <1>1, <1>2, <1>7, <2>2
    <3>2. table[t] = NoRow
      BY <1>1, <3>1 DEF KeysHold
    <3> QED
      BY <3>1, <3>2, CommitRows
  <2> QED
    BY <2>1, <2>2
<1>8. ~ item' => cursor' = NoCursor
  BY <1>2, Trades DEF Cursor
<1> QED
  BY <1>6, <1>7, <1>8 DEF KeysHold

(***************************************************************************)
(* What a commit leaves of the keys to the transactions under way.         *)
(***************************************************************************)
LEMMA CommitKeepsKeys ==
  ASSUME IInv, KInv, NEW p \in Actors, Commit(p)
  PROVE  KInv'
<1> DEFINE r == tx[p]
<1>1. /\ r \in Tx /\ ActorOK(p, r) /\ ShareOK(p, r) /\ SweepOK(p, r)
      /\ item \in BOOLEAN /\ account \in BOOLEAN
  BY DEF IInv, Types, KInv
<1>2. /\ item' = (item /\ p \notin Unlinks)
      /\ account' = ((account \/ Account \in r.holds) /\ ~ (p \in Unlinks /\ Account \in r.holds))
      /\ Committing(p)
  BY DEF Commit
<1>3. p \in Unlinks => r.share = "delete"
  BY <1>1, <1>2 DEF ShareOK, Committing
<1>4. tx'[p] = IdleTx /\ IdleTx.share = "none" /\ IdleTx.at = "idle" /\ IdleTx.holds = {}
  BY CommitOthers DEF IdleTx
<1>5. ASSUME NEW q \in Actors, q # p
      PROVE  /\ tx'[q].share = tx[q].share
             /\ tx'[q].at = tx[q].at /\ tx'[q].holds = tx[q].holds
             /\ tx'[q].gone = tx[q].gone
             /\ tx[q].at = "deleting" => tx'[q].todo = tx[q].todo \ r.gone
  <2>1. tx'[q].share = tx[q].share
    <3>1. tx[q] \in Tx
      BY DEF IInv, Types
    <3>2. [tx[q] EXCEPT !.todo = @ \ tx[p].gone].share = tx[q].share
      BY <3>1 DEF Tx
    <3> QED
      BY <1>5, <3>2 DEF Commit
  <2> QED
    BY <1>5, <2>1, CommitOthers
<1>6. SharesApart'
  BY <1>4, <1>5 DEF KInv, SharesApart
<1>7. ASSUME NEW q \in Actors PROVE ShareOK(q, tx[q])'
  <2>1. CASE q = p
    BY <1>4, <2>1 DEF ShareOK
  <2>2. CASE q # p
    <3>1. ShareOK(q, tx[q])
      BY DEF KInv
    <3>2. tx[q].share # "none" => item'
      BY <1>2, <1>3, <2>2, <3>1 DEF ShareOK, KInv, SharesApart
    <3>3. q \in Syncs /\ Account \in tx[q].holds => (account => account')
      BY <1>2, <2>2 DEF IInv, Disjoint
    <3> QED
      BY <1>5, <2>2, <3>1, <3>2, <3>3 DEF ShareOK
  <2> QED
    BY <2>1, <2>2
<1>8. ASSUME NEW q \in Actors PROVE SweepOK(q, tx[q])'
  <2>1. CASE q = p
    BY <1>4, <2>1 DEF SweepOK
  <2>2. CASE q # p
    <3>1. SUFFICES ASSUME q \in Unlinks, tx[q].at = "deleting"
                   PROVE  IF Account \in tx[q].holds
                            THEN \A t \in Txns : table'[t] # NoRow => t \in tx'[q].todo \/ t \in tx[q].gone
                            ELSE ~ account'
      BY <1>5, <2>2 DEF SweepOK
    <3>2. SweepOK(q, tx[q]) /\ tx[q].share = "delete"
      BY <3>1 DEF KInv, ShareOK
    <3>3. CASE Account \in tx[q].holds
      <4>1. Account \notin r.holds
        BY <2>2, <3>3 DEF IInv, Disjoint
      <4> SUFFICES ASSUME NEW t \in Txns, table'[t] # NoRow
                   PROVE  t \in tx'[q].todo \/ t \in tx[q].gone
        BY <3>3
      <4>2. t \notin r.gone /\ table[t] # NoRow
        BY <4>1, CommitRows
      <4> QED
        BY <1>5, <2>2, <3>1, <3>2, <3>3, <4>2 DEF SweepOK
    <3>4. CASE Account \notin tx[q].holds
      <4>1. ~ account
        BY <3>1, <3>2, <3>4 DEF SweepOK
      <4>2. r.share = "none"
        BY <2>2, <3>2 DEF KInv, SharesApart
      <4>3. Account \notin r.holds
        <5>1. CASE p \in Syncs
          BY <1>1, <1>2, <4>1, <4>2, <5>1, Trades DEF ShareOK, Committing
        <5>2. CASE p \in Resets
          BY <1>1, <5>2, TxFields, Trades DEF ActorOK, ResetOK
        <5>3. CASE p \in Unlinks
          BY <1>3, <4>2, <5>3
        <5> QED
          BY <5>1, <5>2, <5>3 DEF Actors
      <4> QED
        BY <1>2, <3>4, <4>1, <4>3
    <3> QED
      BY <3>3, <3>4
  <2> QED
    BY <2>1, <2>2
<1>9. KeysHold'
  BY CommitKeepsKeysHold
<1> QED
  BY <1>6, <1>7, <1>8, <1>9 DEF KInv

LEMMA KeysAtFirst == Init => KInv
<1> SUFFICES ASSUME Init PROVE KInv
  OBVIOUS
<1>1. \A p \in Actors : tx[p] = IdleTx
  BY DEF Init
<1>2. IdleTx.share = "none" /\ IdleTx.at = "idle" /\ IdleTx.holds = {}
  BY DEF IdleTx
<1>3. SharesApart /\ \A p \in Actors : ShareOK(p, tx[p]) /\ SweepOK(p, tx[p])
  BY <1>1, <1>2 DEF SharesApart, ShareOK, SweepOK
<1>4. KeysHold
  BY DEF Init, KeysHold, EmptyTable
<1> QED
  BY <1>3, <1>4 DEF KInv

LEMMA KeysKept == IInv /\ KInv /\ [Next]_vars => KInv'
<1> SUFFICES ASSUME IInv, KInv, [Next]_vars PROVE KInv'
  OBVIOUS
<1>1. CASE UNCHANGED vars
  BY <1>1 DEF KInv, SharesApart, ShareOK, SweepOK, KeysHold, vars, dbVars
<1>2. ASSUME NEW s \in Syncs, Pull(s) PROVE KInv'
  BY <1>2, PullKeepsKeys
<1>3. ASSUME NEW s \in Syncs, UpsertAccounts(s) PROVE KInv'
  BY <1>3, UpsertAccountsKeepsKeys
<1>4. ASSUME NEW s \in Syncs, UpsertRow(s) PROVE KInv'
  BY <1>4, UpsertRowKeepsKeys
<1>5. ASSUME NEW s \in Syncs, CheckKey(s) PROVE KInv'
  BY <1>5, CheckKeyKeepsKeys
<1>6. ASSUME NEW s \in Syncs, DeleteByIds(s) PROVE KInv'
  BY <1>6, DeleteByIdsKeepsKeys
<1>7. ASSUME NEW r \in Resets, DeleteAll(r) PROVE KInv'
  BY <1>7, DeleteAllKeepsKeys
<1>8. ASSUME NEW u \in Unlinks, DeleteItem(u) PROVE KInv'
  BY <1>8, DeleteItemKeepsKeys
<1>9. ASSUME NEW u \in Unlinks, Cascade(u) PROVE KInv'
  BY <1>9, CascadeKeepsKeys
<1>10. ASSUME NEW p \in Actors, DeleteRow(p) PROVE KInv'
  BY <1>10, DeleteRowKeepsKeys
<1>11. ASSUME NEW p \in Actors, UpdateItem(p) PROVE KInv'
  BY <1>11, UpdateItemKeepsKeys
<1>12. ASSUME NEW p \in Actors, Commit(p) PROVE KInv'
  BY <1>12, CommitKeepsKeys
<1>13. ASSUME NEW p \in Actors, Rollback(p) PROVE KInv'
  BY <1>13, RollbackKeepsKeys
<1> QED
  BY <1>1, <1>2, <1>3, <1>4, <1>5, <1>6, <1>7, <1>8, <1>9, <1>10, <1>11, <1>12, <1>13
  DEF Next

(***************************************************************************)
(* For any number of actors: what is committed respects the foreign keys,  *)
(* though a sync and an unlink of the bank run side by side; there is no   *)
(* account without the bank, no row without the account and no cursor      *)
(* without the bank, and no two transactions hold one row.                 *)
(***************************************************************************)
THEOREM TypeCorrect == Spec => []TypeOK
<1>1. IInv /\ KInv => TypeOK
  BY DEF IInv, KInv, KeysHold, Types, Disjoint, TypeOK, EmptyTable
<1> QED
  BY <1>1, InitIsOK, StepIsOK, KeysAtFirst, KeysKept, PTL DEF Spec
===============================================================================
