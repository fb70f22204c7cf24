---------------------------- MODULE Removal_proofs ----------------------------
(***************************************************************************)
(* Three promises of the removals, for any number of banks, tokens and     *)
(* calls: a confirmation token is good for one deed on one subject; an     *)
(* uninstall that revokes takes no token with the files that it could      *)
(* have used; and a bank that lives on at Plaid is told of, or was known   *)
(* only to a call that died or threw.                                      *)
(***************************************************************************)
EXTENDS Removal, TLAPS

\* A token not minted yet, or still to be spent, has done nothing; one that was
\* spent is no longer pending.
TokenLedger ==
  /\ pending \subseteq Tokens
  /\ preview \in [Tokens -> Deed \union {NoDeed}]
  /\ deeds \in [Tokens -> Seq(Deed)]
  /\ \A t \in Tokens :
       /\ preview[t] = NoDeed => t \notin pending /\ deeds[t] = <<>>
       /\ t \in pending => deeds[t] = <<>>
       /\ Len(deeds[t]) <= 1
       /\ \A i \in DOMAIN deeds[t] : deeds[t][i].subject = preview[t].subject

LEMMA LedgerStarts == Init => TokenLedger
BY DEF Init, TokenLedger, Deed, NoDeed

LEMMA LedgerKept == ASSUME TokenLedger, [Next]_vars  PROVE TokenLedger'
<1>1. ASSUME UNCHANGED consent  PROVE TokenLedger'
  BY <1>1 DEF consent, TokenLedger
<1>2. ASSUME NEW t \in Tokens, NEW s \in Subjects, NEW r \in BOOLEAN, Preview(t, s, r)
      PROVE  TokenLedger'
  <2> DEFINE d == [subject |-> s, revoke |-> r]
  <2>1. /\ preview[t] = NoDeed
        /\ preview' = [preview EXCEPT ![t] = d]
        /\ pending' = pending \union {t} /\ deeds' = deeds
    BY <1>2 DEF Preview
  <2>2. deeds[t] = <<>>  BY <2>1 DEF TokenLedger
  <2>3. d \in Deed /\ d # NoDeed
    BY RemovalAssumption DEF Deed, NoDeed, Subjects
  <2>4. /\ pending' \subseteq Tokens
        /\ preview' \in [Tokens -> Deed \union {NoDeed}]
        /\ deeds' \in [Tokens -> Seq(Deed)]
    BY <2>1, <2>3 DEF TokenLedger
  <2>5. ASSUME NEW u \in Tokens
        PROVE  /\ preview'[u] = NoDeed => u \notin pending' /\ deeds'[u] = <<>>
               /\ u \in pending' => deeds'[u] = <<>>
               /\ Len(deeds'[u]) <= 1
               /\ \A i \in DOMAIN deeds'[u] : deeds'[u][i].subject = preview'[u].subject
    <3>1. CASE u = t  BY <3>1, <2>1, <2>2, <2>3 DEF TokenLedger
    <3>2. CASE u # t
      <4>1. preview'[u] = preview[u]  BY <3>2, <2>1 DEF TokenLedger
      <4> QED  BY <3>2, <4>1, <2>1 DEF TokenLedger
    <3> QED  BY <3>1, <3>2
  <2> QED  BY <2>4, <2>5 DEF TokenLedger
<1>3. ASSUME NEW t \in Tokens, Expire(t)  PROVE TokenLedger'
  BY <1>3 DEF Expire, TokenLedger
<1>4. ASSUME NEW t \in Tokens, NEW p \in Procs, NEW s \in Subjects, NEW r \in BOOLEAN,
             Spend(p, t, s, r)
      PROVE  TokenLedger'
  <2> DEFINE d == [subject |-> s, revoke |-> r]
  <2>1. /\ t \in pending /\ preview[t].subject = s
        /\ pending' = pending \ {t} /\ preview' = preview
        /\ deeds' = [deeds EXCEPT ![t] = Append(@, d)]
    BY <1>4 DEF Spend, Spendable, Spent
  <2>2. d \in Deed  BY DEF Deed
  <2>3. deeds[t] = <<>> /\ preview[t] # NoDeed  BY <2>1 DEF TokenLedger
  <2>4. deeds'[t] = Append(<<>>, d)  BY <2>1, <2>3 DEF TokenLedger
  <2>5. /\ deeds'[t] \in Seq(Deed) /\ Len(deeds'[t]) = 1
        /\ DOMAIN deeds'[t] = {1} /\ deeds'[t][1] = d
    BY <2>2, <2>4
  <2>6. \A u \in Tokens \ {t} : deeds'[u] = deeds[u]  BY <2>1 DEF TokenLedger
  <2>7. deeds' \in [Tokens -> Seq(Deed)]  BY <2>1, <2>5, <2>6 DEF TokenLedger
  <2>8. ASSUME NEW u \in Tokens
        PROVE  /\ preview[u] = NoDeed => u \notin pending' /\ deeds'[u] = <<>>
               /\ u \in pending' => deeds'[u] = <<>>
               /\ Len(deeds'[u]) <= 1
               /\ \A i \in DOMAIN deeds'[u] : deeds'[u][i].subject = preview[u].subject
    <3>1. CASE u = t  BY <3>1, <2>1, <2>3, <2>5
    <3>2. CASE u # t  BY <3>2, <2>1, <2>6 DEF TokenLedger
    <3> QED  BY <3>1, <3>2
  <2> QED  BY <2>1, <2>7, <2>8 DEF TokenLedger
<1>5. ASSUME NEW b \in Banks, Exchange(b) \/ SaveItem(b) \/ SaveFails(b)  PROVE TokenLedger'
  BY <1>1, <1>5 DEF Exchange, SaveItem, SaveFails
<1>6. ASSUME NEW p \in Procs, NEW k, NEW r \in BOOLEAN, NEW l \in SUBSET Banks, Command(p, k, r, l)
      PROVE  TokenLedger'
  BY <1>1, <1>6 DEF Command
<1>7. ASSUME NEW p \in Procs, Removing(p)  PROVE TokenLedger'
  BY <1>1, <1>7 DEF Removing, List, ItemsDone, DeleteItem, DeleteAll, ItemsThrow, RevokeItem,
     NothingThere, Stop, Prove, Refuse, Remove, RemoveFails, Report
<1>8. ASSUME NEW p \in Procs, Crash(p)  PROVE TokenLedger'  BY <1>1, <1>8 DEF Crash
<1>9. CASE ServerStarts  BY <1>1, <1>9 DEF ServerStarts
<1>10. CASE UNCHANGED vars  BY <1>1, <1>10 DEF vars, consent
<1> QED  BY <1>2, <1>3, <1>4, <1>5, <1>6, <1>7, <1>8, <1>9, <1>10 DEF Next

(***************************************************************************)
(* ConfirmationStore: a preview stands for at most one deed, on the        *)
(* subject it was shown for, whatever calls race for its token.            *)
(***************************************************************************)
THEOREM OneDeed == Spec => []OnePreviewOneDeed
<1>1. TokenLedger => OnePreviewOneDeed  BY DEF TokenLedger, OnePreviewOneDeed
<1> QED  BY <1>1, LedgerStarts, LedgerKept, PTL DEF Spec

-------------------------------------------------------------------------------
(***************************************************************************)
(* The calls.  A call holds an Item exactly while it deletes it.           *)
(***************************************************************************)
CallOK(c) ==
  /\ c \in Call
  /\ c.at # None <=> c.pc = "delete"
  /\ c.at # None => c.at \in c.left
  /\ ~ c.revoke => c.revoked \union c.failed = {}

CallsOK == call \in [Procs -> Call] /\ \A p \in Procs : CallOK(call[p])

\* What a step does to the calls: one of them goes on, and the rest stay.
Moved(p, c) == call' = [call EXCEPT ![p] = c]

LEMMA OneMoves ==
  ASSUME CallsOK, NEW p \in Procs, NEW c, CallOK(c), Moved(p, c)
  PROVE  CallsOK' /\ call'[p] = c /\ \A q \in Procs \ {p} : call'[q] = call[q]
<1>1. call' \in [Procs -> Call]  BY DEF CallsOK, CallOK, Moved
<1>2. call'[p] = c /\ \A q \in Procs \ {p} : call'[q] = call[q]  BY DEF CallsOK, Moved
<1>3. \A q \in Procs : CallOK(call'[q])  BY <1>2 DEF CallsOK
<1> QED  BY <1>1, <1>2, <1>3 DEF CallsOK

LEMMA StartedOK ==
  ASSUME NEW k \in {"unlink_bank", "unlink", "reset", "uninstall"}, NEW r \in BOOLEAN,
         NEW t \in Tokens \union {None}, NEW l \in SUBSET Banks
  PROVE  /\ CallOK(Idle) /\ Idle.pc = "idle"
         /\ CallOK(Entry(k, r, t, l))
BY DEF CallOK, Idle, Entry, Started, Call

\* A bank that is linked is noted by those under way, which is all they notice.
LEMMA LinkingIsNoted ==
  ASSUME CallsOK, NEW b \in Banks, SaveItem(b)
  PROVE  /\ CallsOK'
         /\ \A p \in Procs :
              /\ call'[p].late = IF call[p].pc # "idle" THEN call[p].late \union {b} ELSE call[p].late
              /\ call'[p].pc = call[p].pc /\ call'[p].kind = call[p].kind
              /\ call'[p].revoke = call[p].revoke /\ call'[p].token = call[p].token
              /\ call'[p].left = call[p].left /\ call'[p].at = call[p].at
              /\ call'[p].revoked = call[p].revoked /\ call'[p].failed = call[p].failed
              /\ call'[p].error = call[p].error
<1>1. ASSUME NEW c, CallOK(c)
      PROVE  LET d == [c EXCEPT !.late = c.late \union {b}]
             IN  /\ CallOK(d) /\ d.late = c.late \union {b}
                 /\ d.pc = c.pc /\ d.kind = c.kind /\ d.revoke = c.revoke /\ d.token = c.token
                 /\ d.left = c.left /\ d.at = c.at /\ d.revoked = c.revoked
                 /\ d.failed = c.failed /\ d.error = c.error
  BY <1>1 DEF CallOK, Call
<1>2. ASSUME NEW p \in Procs
      PROVE  /\ CallOK(call[p])
             /\ call'[p] = IF call[p].pc # "idle"
                             THEN [call[p] EXCEPT !.late = call[p].late \union {b}] ELSE call[p]
  BY DEF SaveItem, Calling, CallsOK
<1>3. \A p \in Procs : CallOK(call'[p])  BY <1>1, <1>2
<1>4. call' \in [Procs -> Call]  BY <1>3 DEF SaveItem, CallOK
<1>5. ASSUME NEW p \in Procs
      PROVE  /\ call'[p].late = IF call[p].pc # "idle" THEN call[p].late \union {b} ELSE call[p].late
             /\ call'[p].pc = call[p].pc /\ call'[p].kind = call[p].kind
             /\ call'[p].revoke = call[p].revoke /\ call'[p].token = call[p].token
             /\ call'[p].left = call[p].left /\ call'[p].at = call[p].at
             /\ call'[p].revoked = call[p].revoked /\ call'[p].failed = call[p].failed
             /\ call'[p].error = call[p].error
  <2>1. CASE call[p].pc = "idle"  BY <1>2, <2>1
  <2>2. CASE call[p].pc # "idle"
    <3> DEFINE c == call[p]
               d == [c EXCEPT !.late = c.late \union {b}]
    <3>1. call'[p] = d /\ CallOK(c)  BY <1>2, <2>2
    <3>2. /\ d.late = c.late \union {b}
          /\ d.pc = c.pc /\ d.kind = c.kind /\ d.revoke = c.revoke /\ d.token = c.token
          /\ d.left = c.left /\ d.at = c.at /\ d.revoked = c.revoked
          /\ d.failed = c.failed /\ d.error = c.error
      BY <1>1, <3>1
    <3> HIDE DEF d
    <3> QED  BY <2>2, <3>1, <3>2
  <2> QED  BY <2>1, <2>2
<1>6. CallsOK'  BY <1>3, <1>4 DEF CallsOK
<1> QED  BY <1>5, <1>6

\* Every step of a removal moves its own call.
LEMMA RemovingMoves ==
  ASSUME CallsOK, rows \subseteq Banks, NEW p \in Procs, Removing(p)
  PROVE  \E c : CallOK(c) /\ Moved(p, c)
<1> DEFINE r == call[p]
<1>1. CallOK(r) /\ r \in Call  BY DEF CallsOK, CallOK
<1>2. CallOK(Idle) /\ Idle.pc = "idle"  BY StartedOK
<1>3. ASSUME NEW x \in {"item", "stop", "report", "prove", "rm"}, Goes(p, x), r.at = None
      PROVE  /\ CallOK([r EXCEPT !.pc = x]) /\ Moved(p, [r EXCEPT !.pc = x])
             /\ [r EXCEPT !.pc = x].pc = x
  <2>1. [r EXCEPT !.pc = x] \in Call /\ [r EXCEPT !.pc = x].pc = x  BY <1>1 DEF Call
  <2>2. CallOK([r EXCEPT !.pc = x])  BY <1>1, <1>3, <2>1 DEF CallOK, Call
  <2> QED  BY <1>3, <2>1, <2>2 DEF Goes, Moved, CallsOK
<1>4. CASE List(p)
  <2> DEFINE c == [r EXCEPT !.pc = "item", !.left = rows]
  <2>1. CallOK(c) /\ c.pc = "item"  BY <1>1, <1>4 DEF CallOK, Call, List
  <2>2. Moved(p, c)  BY <1>4 DEF List, Moved, CallsOK
  <2> QED  BY <2>1, <2>2
<1>5. CASE ItemsDone(p)
  <2>1. r.at = None  BY <1>1, <1>5 DEF ItemsDone, CallOK
  <2> QED  BY <1>3, <1>5, <2>1 DEF ItemsDone
<1>6. CASE DeleteItem(p)
  <2> DEFINE c == [r EXCEPT !.pc = "item", !.at = None, !.left = r.left \ {r.at}]
  <2>1. CallOK(c) /\ c.pc = "item"  BY <1>1 DEF CallOK, Call
  <2>2. Moved(p, c)  BY <1>6 DEF DeleteItem, Moved, CallsOK
  <2> QED  BY <2>1, <2>2
<1>7. CASE DeleteAll(p)
  <2>1. r.at = None  BY <1>1, <1>7 DEF DeleteAll, CallOK
  <2> QED  BY <1>3, <1>7, <2>1 DEF DeleteAll
<1>8. CASE ItemsThrow(p)
  <2> DEFINE c == [r EXCEPT !.pc = "stop", !.error = TRUE, !.left = {}, !.at = None, !.failed = {}]
  <2>1. CallOK(c) /\ c.pc = "stop"  BY <1>1 DEF CallOK, Call
  <2>2. Moved(p, c) \/ Moved(p, Idle)  BY <1>8 DEF ItemsThrow, Broken, Moved, CallsOK
  <2> QED  BY <1>2, <2>1, <2>2
<1>9. ASSUME NEW b \in Banks, RevokeItem(p, b)
      PROVE  \E c : CallOK(c) /\ Moved(p, c) /\ c.pc # "rm"
  <2> DEFINE c0 == [r EXCEPT !.pc = "delete", !.at = b]
             c1 == [r EXCEPT !.pc = "delete", !.at = b, !.revoked = r.revoked \union {b}]
             c2 == [r EXCEPT !.pc = "delete", !.at = b, !.failed = r.failed \union {b}]
  <2>1. b \in r.left /\ b # None  BY <1>9, RemovalAssumption DEF RevokeItem
  <2>2. CallOK(c0) /\ c0.pc = "delete"  BY <1>1, <2>1 DEF CallOK, Call
  <2>3. r.revoke => CallOK(c1) /\ c1.pc = "delete"  BY <1>1, <2>1 DEF CallOK, Call
  <2>4. r.revoke => CallOK(c2) /\ c2.pc = "delete"  BY <1>1, <2>1 DEF CallOK, Call
  <2>5. \/ Moved(p, c0)
        \/ r.revoke /\ Moved(p, c1)
        \/ r.revoke /\ Moved(p, c2)
    BY <1>9 DEF RevokeItem, Attempts, Moved, CallsOK
  <2> QED  BY <2>2, <2>3, <2>4, <2>5
<1>10. CASE NothingThere(p)
  <2>1. r.at = None  BY <1>1, <1>10 DEF NothingThere, CallOK
  <2> QED  BY <1>3, <1>10, <2>1 DEF NothingThere
<1>11. CASE Stop(p)
  <2>1. r.at = None  BY <1>1, <1>11 DEF Stop, CallOK
  <2> QED  BY <1>3, <1>11, <2>1 DEF Stop
<1>12. CASE Prove(p)
  <2>1. r.at = None  BY <1>1, <1>12 DEF Prove, CallOK
  <2> QED  BY <1>3, <1>12, <2>1 DEF Prove
<1>13. CASE Refuse(p)  BY <1>2, <1>13 DEF Refuse, Broken, Moved
<1>14. CASE Remove(p)
  <2>1. r.at = None  BY <1>1, <1>14 DEF Remove, CallOK
  <2> QED  BY <1>3, <1>14, <2>1 DEF Remove
<1>15. CASE Report(p)  BY <1>2, <1>15 DEF Report, Moved
<1>16. CASE RemoveFails(p)  BY <1>2, <1>16 DEF RemoveFails, Broken, Moved
<1> QED  BY <1>4, <1>5, <1>6, <1>7, <1>8, <1>9, <1>10, <1>11, <1>12, <1>13, <1>14, <1>15, <1>16
        DEF Removing

\* The rest of the type invariant.
World ==
  /\ plaid \in [Banks -> {"new", "alive", "removed"}]
  /\ rows \subseteq Banks /\ readable \subseteq Banks /\ linking \subseteq Banks
  /\ told \subseteq Banks /\ unsaid \subseteq Banks
  /\ profile \in {"whole", "damaged", "gone"} /\ server \in BOOLEAN

LEMMA RemovingKeepsWorld ==
  ASSUME World, CallsOK, NEW p \in Procs, Removing(p)  PROVE World'
<1> DEFINE r == call[p]
<1>1. r \in Call /\ CallOK(r)  BY DEF CallsOK
<1>2. r.failed \subseteq Banks /\ r.left \subseteq Banks  BY <1>1 DEF Call
<1>3. Alive \subseteq Banks /\ Stranded \subseteq Banks  BY DEF Alive, Stranded
<1>4. Lost(p) \subseteq Banks /\ Warned(p) \subseteq Banks  BY <1>2, <1>3 DEF Lost, Warned
<1>5. CASE List(p) \/ ItemsDone(p) \/ NothingThere(p) \/ Prove(p)
  BY <1>5 DEF List, ItemsDone, NothingThere, Prove, World, data
<1>6. CASE DeleteItem(p)
  <2>1. r.at \in Banks  BY <1>1, <1>2, <1>6 DEF DeleteItem, CallOK
  <2> QED  BY <1>6, <2>1 DEF DeleteItem, World, env
<1>7. CASE DeleteAll(p)  BY <1>3, <1>7 DEF DeleteAll, World, env
<1>8. CASE ItemsThrow(p)  BY <1>4, <1>8 DEF ItemsThrow, Broken, World, data
<1>9. ASSUME NEW b \in Banks, RevokeItem(p, b)  PROVE World'
  BY <1>9 DEF RevokeItem, World
<1>10. CASE Stop(p)  BY <1>10 DEF Stop, World, env
<1>11. CASE Refuse(p)  BY <1>4, <1>11 DEF Refuse, Broken, World, data
<1>12. CASE Remove(p)  BY <1>3, <1>12 DEF Remove, World, env
<1>13. CASE Report(p)  BY <1>2, <1>4, <1>13 DEF Report, World, data
<1>14. CASE RemoveFails(p)
  BY <1>3, <1>4, <1>14 DEF RemoveFails, Broken, World, env
<1> QED  BY <1>5, <1>6, <1>7, <1>8, <1>9, <1>10, <1>11, <1>12, <1>13, <1>14 DEF Removing

\* A step leaves the calls alone, notes a bank in them, or begins, ends or advances one.
Advances ==
  \/ UNCHANGED call
  \/ CallsOK'
  \/ \E p \in Procs : \E c : CallOK(c) /\ Moved(p, c)

LEMMA EveryStep == ASSUME CallsOK, World, [Next]_vars  PROVE World' /\ Advances
<1>1. ASSUME NEW b \in Banks, Exchange(b) \/ SaveItem(b) \/ SaveFails(b)
      PROVE  World' /\ Advances
  <2>1. World'  BY <1>1 DEF Exchange, SaveItem, SaveFails, World
  <2>2. UNCHANGED call \/ CallsOK'
    BY <1>1, LinkingIsNoted DEF Exchange, SaveFails
  <2> QED  BY <2>1, <2>2 DEF Advances
<1>2. ASSUME NEW t \in Tokens,
             Expire(t) \/ \E s \in Subjects, r \in BOOLEAN : Preview(t, s, r)
      PROVE  World' /\ Advances
  BY <1>2 DEF Preview, Expire, World, Advances, data
<1>3. ASSUME NEW t \in Tokens, NEW p \in Procs, NEW s \in Subjects, NEW r \in BOOLEAN,
             Spend(p, t, s, r)
      PROVE  World' /\ Advances
  <2> DEFINE c == IF s = Profile THEN Entry("uninstall", r, t, {}) ELSE Entry("unlink_bank", r, t, {s})
  <2>1. UNCHANGED data /\ UNCHANGED <<told, unsaid>> /\ Moved(p, c)  BY <1>3 DEF Spend, Moved
  <2>2. CallOK(c)
    <3>1. CASE s = Profile  BY <3>1, StartedOK
    <3>2. CASE s # Profile
      <4>1. {s} \in SUBSET Banks  BY <3>2 DEF Subjects
      <4> QED  BY <3>2, <4>1, StartedOK
    <3> QED  BY <3>1, <3>2
  <2> QED  BY <2>1, <2>2 DEF World, Advances, data
<1>4. ASSUME NEW p \in Procs, NEW k \in {"unlink", "reset", "uninstall"}, NEW r \in BOOLEAN,
             NEW l \in SUBSET Banks, Command(p, k, r, l)
      PROVE  World' /\ Advances
  <2>1. UNCHANGED data /\ UNCHANGED <<told, unsaid>> /\ Moved(p, Entry(k, r, None, l))
    BY <1>4 DEF Command, Moved
  <2>2. CallOK(Entry(k, r, None, l))  BY StartedOK
  <2> QED  BY <2>1, <2>2 DEF World, Advances, data
<1>5. ASSUME NEW p \in Procs, Removing(p)  PROVE World' /\ Advances
  <2>1. World'  BY <1>5, RemovingKeepsWorld
  <2>2. \E c : CallOK(c) /\ Moved(p, c)  BY <1>5, RemovingMoves DEF World
  <2> QED  BY <2>1, <2>2 DEF Advances
<1>6. ASSUME NEW p \in Procs, Crash(p)  PROVE World' /\ Advances
  <2>1. Moved(p, Idle) /\ UNCHANGED <<data, told>> /\ unsaid' = unsaid \union Lost(p)
    BY <1>6 DEF Crash, Broken, Moved
  <2>2. CallOK(Idle) /\ Idle.pc = "idle"  BY StartedOK
  <2>3. call[p] \in Call  BY DEF CallsOK
  <2>4. Lost(p) \subseteq Banks  BY <2>3 DEF Lost, Call, Stranded, Alive
  <2> QED  BY <2>1, <2>2, <2>4 DEF World, Advances, data
<1>7. CASE ServerStarts
  BY <1>7 DEF ServerStarts, MayStart, World, Advances, env
<1>8. CASE UNCHANGED vars  BY <1>8 DEF vars, World, Advances
<1> QED  BY <1>1, <1>2, <1>3, <1>4, <1>5, <1>6, <1>7, <1>8 DEF Next

LEMMA CallsKept == ASSUME CallsOK, Advances  PROVE CallsOK'
<1>1. CASE UNCHANGED call  BY <1>1 DEF CallsOK
<1>2. ASSUME NEW p \in Procs, NEW c, CallOK(c), Moved(p, c)  PROVE CallsOK'
  BY <1>2, OneMoves
<1> QED  BY <1>1, <1>2 DEF Advances

LEMMA CallsStart == Init => CallsOK /\ World
<1> SUFFICES ASSUME Init  PROVE CallsOK /\ World
  OBVIOUS
<1>1. CallOK(Idle) /\ Idle \in Call  BY StartedOK DEF CallOK
<1>2. CallsOK  BY <1>1 DEF Init, CallsOK
<1>3. World  BY DEF Init, World
<1> QED  BY <1>2, <1>3

(***************************************************************************)
(* The calls, the banks and the profile keep their shape in every          *)
(* reachable state; a call that is not to revoke never has an outcome.     *)
(***************************************************************************)
THEOREM Invariance == Spec => [](CallsOK /\ World /\ TokenLedger)
<1>1. Init => CallsOK /\ World /\ TokenLedger  BY CallsStart, LedgerStarts
<1>2. CallsOK /\ World /\ TokenLedger /\ [Next]_vars => (CallsOK /\ World /\ TokenLedger)'
  BY EveryStep, CallsKept, LedgerKept
<1> QED  BY <1>1, <1>2, PTL DEF Spec

(***************************************************************************)
(* Type correctness of the removals, for any banks, tokens and troubles.   *)
(***************************************************************************)
THEOREM TypeCorrect == Spec => []TypeOK
<1>1. CallsOK /\ World /\ TokenLedger => TypeOK
  <2> SUFFICES ASSUME CallsOK, World, TokenLedger  PROVE TypeOK
    OBVIOUS
  <2>1. \A t \in Tokens : Len(deeds[t]) <= 2 /\ \A i \in DOMAIN deeds[t] : deeds[t][i] \in Deed
    <3> SUFFICES ASSUME NEW t \in Tokens
                 PROVE  Len(deeds[t]) <= 2 /\ \A i \in DOMAIN deeds[t] : deeds[t][i] \in Deed
      OBVIOUS
    <3>1. deeds[t] \in Seq(Deed) /\ Len(deeds[t]) <= 1 /\ Len(deeds[t]) \in Nat
      BY DEF TokenLedger
    <3> QED  BY <3>1
  <2>2. \A p \in Procs : /\ call[p].at # None => call[p].at \in call[p].left
                         /\ ~ call[p].revoke => call[p].revoked \union call[p].failed = {}
    BY DEF CallsOK, CallOK
  <2> QED  BY <2>1, <2>2 DEF TypeOK, CallsOK, World, TokenLedger
<1> QED  BY <1>1, Invariance, PTL

-------------------------------------------------------------------------------
(* What an uninstall that revokes leaves of the banks it found: nothing. *)

\* Every row is one it still has to remove, or one it cannot know of.
Covered(p) ==
  call[p].kind = "uninstall" /\ call[p].revoke /\ ~ call[p].error =>
    /\ call[p].pc \in {"item", "delete"} => rows \subseteq call[p].left \union call[p].late
    /\ call[p].pc \in {"stop", "prove", "rm"} /\ profile = "whole" => rows \subseteq call[p].late

AllCovered == \A p \in Procs : Covered(p)

LEMMA RemovingCovers ==
  ASSUME CallsOK, World, AllCovered, NEW p \in Procs, Removing(p)  PROVE AllCovered'
<1> DEFINE r == call[p]
<1>1. r \in Call /\ CallOK(r) /\ Covered(p)  BY DEF CallsOK, AllCovered
<1>2. rows' \subseteq rows /\ (profile' = "whole" => profile = "whole")
  <2>1. CASE List(p) \/ ItemsDone(p) \/ ItemsThrow(p) \/ NothingThere(p) \/ Prove(p)
             \/ Refuse(p) \/ Report(p)
    BY <2>1 DEF List, ItemsDone, ItemsThrow, NothingThere, Prove, Refuse, Report, data
  <2>2. CASE DeleteItem(p)
    <3>1. rows' = rows \ {r.at} /\ UNCHANGED profile  BY <2>2 DEF DeleteItem
    <3> QED  BY <3>1
  <2>5. CASE DeleteAll(p)  BY <2>5 DEF DeleteAll
  <2>6. CASE Stop(p)  BY <2>6 DEF Stop
  <2>3. CASE Remove(p)  BY <2>3 DEF Remove
  <2>7. CASE RemoveFails(p)  BY <2>7 DEF RemoveFails
  <2>4. CASE \E b \in Banks : RevokeItem(p, b)  BY <2>4 DEF RevokeItem
  <2> QED  BY <2>1, <2>2, <2>3, <2>4, <2>5, <2>6, <2>7 DEF Removing
<1>3. PICK c : CallOK(c) /\ Moved(p, c)  BY RemovingMoves DEF World
<1>4. call'[p] = c /\ \A q \in Procs \ {p} : call'[q] = call[q]  BY <1>3, OneMoves
<1>5. ASSUME NEW q \in Procs \ {p}  PROVE Covered(q)'
  <2>1. Covered(q) /\ call'[q] = call[q]  BY <1>4 DEF AllCovered
  <2> QED  BY <1>2, <2>1 DEF Covered
<1>6. Covered(p)'
  <2>1. ASSUME NEW x \in {"item", "stop", "report", "prove", "rm"}, Goes(p, x)
        PROVE  /\ call'[p].pc = x /\ call'[p].kind = r.kind /\ call'[p].revoke = r.revoke
               /\ call'[p].error = r.error /\ call'[p].left = r.left /\ call'[p].late = r.late
    BY <1>1, <2>1 DEF Goes, CallsOK, Call
  <2>2. CASE List(p)
    <3>1. call'[p] = [r EXCEPT !.pc = "item", !.left = rows] /\ UNCHANGED rows
      BY <2>2 DEF List, CallsOK, data
    <3>2. call'[p].pc = "item" /\ call'[p].left = rows  BY <1>1, <3>1 DEF Call
    <3> QED  BY <3>1, <3>2 DEF Covered
  <2>3. CASE ItemsDone(p)
    <3>1. r.pc = "item" /\ r.left = {} /\ UNCHANGED rows  BY <2>3 DEF ItemsDone, data
    <3> QED  BY <1>1, <2>1, <2>3, <3>1 DEF Covered, ItemsDone
  <2>4. CASE DeleteItem(p)
    <3>1. /\ call'[p] = [r EXCEPT !.pc = "item", !.at = None, !.left = r.left \ {r.at}]
          /\ rows' = rows \ {r.at} /\ r.pc = "delete"
      BY <2>4 DEF DeleteItem, CallsOK
    <3>2. /\ call'[p].pc = "item" /\ call'[p].left = r.left \ {r.at} /\ call'[p].late = r.late
          /\ call'[p].kind = r.kind /\ call'[p].revoke = r.revoke /\ call'[p].error = r.error
      BY <1>1, <3>1 DEF Call
    <3> QED  BY <1>1, <3>1, <3>2 DEF Covered
  <2>5. CASE DeleteAll(p)
    <3>1. call'[p].pc = "report"  BY <2>1, <2>5 DEF DeleteAll
    <3> QED  BY <3>1 DEF Covered
  <2>6. CASE ItemsThrow(p)
    <3>1. \/ call'[p] = [r EXCEPT !.pc = "stop", !.error = TRUE, !.left = {}, !.at = None, !.failed = {}]
          \/ call'[p] = Idle
      BY <2>6 DEF ItemsThrow, Broken, CallsOK
    <3>2. call'[p].error \/ call'[p].pc = "idle"  BY <1>1, <3>1, StartedOK DEF Call
    <3> QED  BY <3>2 DEF Covered
  <2>7. ASSUME NEW b \in Banks, RevokeItem(p, b)  PROVE Covered(p)'
    <3>1. /\ call'[p].pc = "delete" /\ call'[p].left = r.left /\ call'[p].late = r.late
          /\ call'[p].kind = r.kind /\ call'[p].revoke = r.revoke /\ call'[p].error = r.error
          /\ r.pc = "item" /\ UNCHANGED rows
      BY <1>1, <2>7 DEF RevokeItem, CallsOK, Call
    <3> QED  BY <1>1, <3>1 DEF Covered
  <2>8. CASE NothingThere(p)
    <3>1. call'[p].pc = "report"  BY <2>1, <2>8 DEF NothingThere
    <3> QED  BY <3>1 DEF Covered
  <2>9. CASE Stop(p)
    <3>1. r.pc = "stop" /\ UNCHANGED <<rows, profile>>  BY <2>9 DEF Stop
    <3> QED  BY <1>1, <2>1, <2>9, <3>1 DEF Covered, Stop
  <2>10. CASE Prove(p)
    <3>1. r.pc = "prove" /\ UNCHANGED <<rows, profile>>  BY <2>10 DEF Prove, data
    <3> QED  BY <1>1, <2>1, <2>10, <3>1 DEF Covered, Prove
  <2>11. CASE Refuse(p) \/ Report(p) \/ RemoveFails(p)
    <3>1. call'[p] = Idle  BY <2>11 DEF Refuse, Report, RemoveFails, Broken, CallsOK
    <3> QED  BY <3>1, StartedOK DEF Covered
  <2>12. CASE Remove(p)
    <3>1. call'[p].pc = "report"  BY <2>1, <2>12 DEF Remove
    <3> QED  BY <3>1 DEF Covered
  <2> QED
    BY <2>2, <2>3, <2>4, <2>5, <2>6, <2>7, <2>8, <2>9, <2>10, <2>11, <2>12 DEF Removing
<1> QED  BY <1>5, <1>6 DEF AllCovered

LEMMA StaysCovered ==
  ASSUME CallsOK, World, AllCovered, [Next]_vars  PROVE AllCovered'
<1>a. ASSUME NEW p \in Procs, NEW c, CallOK(c), Moved(p, c),
             c.pc \notin {"item", "delete", "prove", "rm"} \/ c.kind # "uninstall",
             c.pc = "stop" => ~ (c.kind = "uninstall" /\ c.revoke /\ ~ c.error),
             UNCHANGED <<rows, profile>>
      PROVE  AllCovered'
  <2>1. call'[p] = c /\ \A q \in Procs \ {p} : call'[q] = call[q]  BY <1>a, OneMoves
  <2>2. Covered(p)'  BY <1>a, <2>1 DEF Covered
  <2>3. \A q \in Procs \ {p} : Covered(q)'  BY <1>a, <2>1 DEF AllCovered, Covered
  <2> QED  BY <2>2, <2>3 DEF AllCovered
<1>1. ASSUME NEW b \in Banks, SaveItem(b)  PROVE AllCovered'
  <2>1. /\ rows' = rows \union {b} /\ UNCHANGED profile  BY <1>1 DEF SaveItem
  <2>2. ASSUME NEW p \in Procs  PROVE Covered(p)'
    <3>1. Covered(p)  BY DEF AllCovered
    <3>2. /\ call'[p].pc = call[p].pc /\ call'[p].kind = call[p].kind
          /\ call'[p].revoke = call[p].revoke /\ call'[p].error = call[p].error
          /\ call'[p].left = call[p].left
          /\ call[p].pc # "idle" => call'[p].late = call[p].late \union {b}
      BY <1>1, LinkingIsNoted
    <3> QED  BY <2>1, <3>1, <3>2 DEF Covered
  <2> QED  BY <2>2 DEF AllCovered
<1>2. ASSUME NEW b \in Banks, Exchange(b) \/ SaveFails(b)  PROVE AllCovered'
  BY <1>2 DEF Exchange, SaveFails, AllCovered, Covered
<1>3. ASSUME NEW t \in Tokens,
             Expire(t) \/ \E s \in Subjects, r \in BOOLEAN : Preview(t, s, r)
      PROVE  AllCovered'
  BY <1>3 DEF Preview, Expire, AllCovered, Covered, data
<1>4. ASSUME NEW t \in Tokens, NEW p \in Procs, NEW s \in Subjects, NEW r \in BOOLEAN,
             Spend(p, t, s, r)
      PROVE  AllCovered'
  <2> DEFINE c == IF s = Profile THEN Entry("uninstall", r, t, {}) ELSE Entry("unlink_bank", r, t, {s})
  <2>1. Moved(p, c) /\ UNCHANGED <<rows, profile>>  BY <1>4 DEF Spend, Moved, data
  <2>2. CallOK(c)
    <3>1. CASE s = Profile  BY <3>1, StartedOK
    <3>2. CASE s # Profile
      <4>1. {s} \in SUBSET Banks  BY <3>2 DEF Subjects
      <4> QED  BY <3>2, <4>1, StartedOK
    <3> QED  BY <3>1, <3>2
  <2>3. /\ c.pc \notin {"item", "delete", "prove", "rm"} \/ c.kind # "uninstall"
        /\ c.pc = "stop" => ~ (c.kind = "uninstall" /\ c.revoke /\ ~ c.error)
    BY DEF Entry, Started
  <2> HIDE DEF c
  <2> QED  BY <2>1, <2>2, <2>3, <1>a
<1>5. ASSUME NEW p \in Procs, NEW k \in {"unlink", "reset", "uninstall"}, NEW r \in BOOLEAN,
             NEW l \in SUBSET Banks, Command(p, k, r, l)
      PROVE  AllCovered'
  <2> DEFINE c == Entry(k, r, None, l)
  <2>1. Moved(p, c) /\ UNCHANGED <<rows, profile>>  BY <1>5 DEF Command, Moved, data
  <2>2. CallOK(c)  BY StartedOK
  <2>3. /\ c.pc \notin {"item", "delete", "prove", "rm"} \/ c.kind # "uninstall"
        /\ c.pc = "stop" => ~ (c.kind = "uninstall" /\ c.revoke /\ ~ c.error)
    BY DEF Entry, Started
  <2> HIDE DEF c
  <2> QED  BY <2>1, <2>2, <2>3, <1>a
<1>6. ASSUME NEW p \in Procs, Crash(p)  PROVE AllCovered'
  <2>1. Moved(p, Idle) /\ UNCHANGED <<rows, profile>>  BY <1>6 DEF Crash, Broken, Moved, data
  <2>2. CallOK(Idle) /\ Idle.pc = "idle"  BY StartedOK
  <2> QED  BY <2>1, <2>2, <1>a
<1>7. CASE ServerStarts  BY <1>7 DEF ServerStarts, AllCovered, Covered, env
<1>8. CASE UNCHANGED vars  BY <1>8 DEF vars, AllCovered, Covered
<1> QED
  BY <1>1, <1>2, <1>3, <1>4, <1>5, <1>6, <1>7, <1>8, RemovingCovers DEF Next

(***************************************************************************)
(* uninstall revokes before it deletes: whatever removals run at once and  *)
(* whatever dies, the files take no token that could have removed a bank   *)
(* with them, unless the revoking step failed as a whole or the bank was   *)
(* linked after the uninstall began.                                       *)
(***************************************************************************)
THEOREM TokensAreUsed == Spec => NoTokenWasted
<1> DEFINE A == \A p \in Procs :
       call[p].kind = "uninstall" /\ call[p].revoke /\ ~ call[p].error /\ profile = "whole"
       /\ (Remove(p) \/ RemoveFails(p))
         => rows \intersect readable \intersect Alive \subseteq call[p].late
<1>1. Init => AllCovered
  BY DEF Init, AllCovered, Covered, Idle, Started
<1>2. CallsOK /\ World /\ AllCovered /\ [Next]_vars => AllCovered'  BY StaysCovered
<1>3. AllCovered /\ [Next]_vars => [A]_vars
  <2> SUFFICES ASSUME AllCovered, NEW p \in Procs,
                      call[p].kind = "uninstall", call[p].revoke, ~ call[p].error,
                      profile = "whole", Remove(p) \/ RemoveFails(p)
               PROVE  rows \subseteq call[p].late
    OBVIOUS
  <2> QED  BY DEF Remove, RemoveFails, AllCovered, Covered
<1> QED  BY <1>1, <1>2, <1>3, Invariance, PTL DEF Spec, NoTokenWasted

-------------------------------------------------------------------------------
(* Who tells of a bank that lives on at Plaid. *)

\* What a call will tell when it ends.
Owed(c) ==
  c.failed \union (IF c.error \/ (~ c.revoke /\ c.token # None) THEN Banks ELSE {})

OnItsWay(b) == \E p \in Procs : call[p].pc # "idle" /\ b \in Owed(call[p])

\* What a call may hold depends on where it came from.
Shape(c) ==
  /\ c.error => c.kind = "uninstall"
  /\ c.token # None => c.kind \in {"unlink_bank", "uninstall"}
  /\ c.kind = "unlink_bank" => c.revoke
  /\ c.pc \in {"stop", "prove", "rm"} => c.kind = "uninstall"
  /\ c.pc = "idle" => c.failed = {}

\* An Item that a call revoked or could not revoke, and that nobody links any more.
Handled(c) ==
  /\ c.left \intersect linking = {}
  /\ \A b \in c.left : plaid[b] # "new"
  /\ c.pc = "delete" /\ c.revoke =>
       c.at \in c.failed \/ plaid[c.at] # "alive" \/ c.at \notin rows

Linked ==
  /\ rows \intersect linking = {}
  /\ \A b \in rows \union linking : plaid[b] # "new"

Fate ==
  /\ Linked
  /\ \A p \in Procs : Shape(call[p]) /\ Handled(call[p])
  /\ \A b \in Stranded : b \in told \union unsaid \/ OnItsWay(b)

\* One call moves: who it owed is told, or still owed, and so is who is new.
LEMMA OneOwes ==
  ASSUME CallsOK, World, Fate, NEW p \in Procs, NEW c, CallOK(c), Moved(p, c),
         Shape(c), Handled(c)', Linked',
         \A b \in Banks : plaid[b] # "new" => plaid'[b] # "new",
         \A b \in Banks : plaid'[b] = "alive" => plaid[b] = "alive",
         linking' = linking, rows' \subseteq rows,
         told \subseteq told', unsaid \subseteq unsaid',
         \A b \in Stranded' : \/ b \in told' \union unsaid'
                              \/ c.pc # "idle" /\ b \in Owed(c)
                              \/ b \in Stranded /\ (call[p].pc = "idle" \/ b \notin Owed(call[p]))
  PROVE  Fate'
<1>1. call'[p] = c /\ \A q \in Procs \ {p} : call'[q] = call[q]  BY OneMoves
<1>2. ASSUME NEW q \in Procs  PROVE (Shape(call[q]) /\ Handled(call[q]))'
  <2>1. CASE q = p
    <3>1. Handled(call[q])' = Handled(c)'  BY <1>1, <2>1 DEF Handled
    <3>2. Shape(call'[q])  BY <1>1, <2>1
    <3> QED  BY <3>1, <3>2 DEF Shape
  <2>2. CASE q # p
    <3>1. Shape(call[q]) /\ Handled(call[q]) /\ call'[q] = call[q] /\ CallOK(call[q])
      BY <1>1, <2>2 DEF Fate, CallsOK
    <3>2. /\ call[q].left \subseteq Banks
          /\ call[q].pc = "delete" => call[q].at \in call[q].left
      BY <3>1 DEF CallOK, Call
    <3>3. /\ call[q].left \intersect linking' = {}
          /\ \A b \in call[q].left : plaid'[b] # "new"
          /\ call[q].pc = "delete" /\ call[q].revoke =>
               \/ call[q].at \in call[q].failed
               \/ plaid'[call[q].at] # "alive"
               \/ call[q].at \notin rows'
      BY <3>1, <3>2 DEF Handled
    <3>4. Handled(call[q])'  BY <3>1, <3>3 DEF Handled
    <3>5. Shape(call[q])'  BY <3>1 DEF Shape
    <3> QED  BY <3>4, <3>5
  <2> QED  BY <2>1, <2>2
<1>3. ASSUME NEW b \in Stranded'  PROVE (b \in told \union unsaid \/ OnItsWay(b))'
  <2>1. CASE b \in told' \union unsaid'  BY <2>1
  <2>2. CASE c.pc # "idle" /\ b \in Owed(c)
    <3>1. call'[p].pc # "idle" /\ b \in Owed(call'[p])  BY <1>1, <2>2
    <3> QED  BY <3>1 DEF OnItsWay, Owed
  <2>3. CASE b \in Stranded /\ (call[p].pc = "idle" \/ b \notin Owed(call[p]))
    <3>1. b \in told \union unsaid \/ OnItsWay(b)  BY <2>3 DEF Fate
    <3>2. ASSUME OnItsWay(b)  PROVE OnItsWay(b)'
      <4>1. PICK q \in Procs : call[q].pc # "idle" /\ b \in Owed(call[q])
        BY <3>2 DEF OnItsWay
      <4>2. q # p  BY <2>3, <4>1
      <4>3. call'[q] = call[q]  BY <1>1, <4>2
      <4> QED  BY <4>1, <4>3 DEF OnItsWay, Owed
    <3> QED  BY <3>1, <3>2
  <2> QED  BY <2>1, <2>2, <2>3
<1> QED  BY <1>2, <1>3 DEF Fate

\* A call that goes on over data nobody touches, and owes what it owed.
LEMMA OneGoesOn ==
  ASSUME CallsOK, World, Fate, NEW p \in Procs, NEW c, CallOK(c), Moved(p, c),
         Shape(c), UNCHANGED <<plaid, linking>>, rows' \subseteq rows,
         told \subseteq told', unsaid \subseteq unsaid',
         c.left \subseteq call[p].left \union rows, c.pc # "delete",
         \A b \in Stranded' : \/ b \in told' \union unsaid'
                              \/ c.pc # "idle" /\ b \in Owed(c)
                              \/ b \in Stranded /\ (call[p].pc = "idle" \/ b \notin Owed(call[p]))
  PROVE  Fate'
<1>1. Handled(call[p]) /\ Linked  BY DEF Fate
<1>2. Handled(c)'  BY <1>1 DEF Handled, Linked
<1>3. Linked'  BY <1>1 DEF Linked
<1> QED  BY <1>2, <1>3, OneOwes

LEMMA IdleOwesNothing ==
  CallOK(Idle) /\ Idle.pc = "idle" /\ Shape(Idle) /\ Idle.left = {}
BY StartedOK DEF Shape, Idle, Started

LEMMA RemovingTells ==
  ASSUME CallsOK, World, Fate, NEW p \in Procs, Removing(p)  PROVE Fate'
<1> DEFINE r == call[p]
<1>1. r \in Call /\ CallOK(r) /\ Shape(r) /\ Handled(r) /\ Linked  BY DEF CallsOK, Fate
<1>2. ASSUME NEW x \in {"item", "stop", "report", "prove", "rm"}, Goes(p, x), r.at = None
      PROVE  LET c == [r EXCEPT !.pc = x]
             IN  /\ CallOK(c) /\ Moved(p, c) /\ c.pc = x /\ c.left = r.left
                 /\ Owed(c) = Owed(r) /\ c.kind = r.kind
                 /\ (x \in {"stop", "prove", "rm"} => r.kind = "uninstall") => Shape(c)
  <2> DEFINE c == [r EXCEPT !.pc = x]
  <2>1. c \in Call /\ c.pc = x /\ c.left = r.left /\ c.at = r.at /\ c.kind = r.kind
        /\ c.failed = r.failed /\ c.error = r.error /\ c.revoke = r.revoke
        /\ c.token = r.token /\ c.revoked = r.revoked
    BY <1>1 DEF Call
  <2>2. Moved(p, c)  BY <1>2 DEF Goes, Moved, CallsOK
  <2> HIDE DEF c
  <2>3. CallOK(c) /\ Owed(c) = Owed(r)  BY <1>1, <1>2, <2>1 DEF CallOK, Owed
  <2>4. (x \in {"stop", "prove", "rm"} => r.kind = "uninstall") => Shape(c)
    BY <1>1, <2>1 DEF Shape
  <2>5. /\ CallOK(c) /\ Moved(p, c) /\ c.pc = x /\ c.left = r.left
        /\ Owed(c) = Owed(r) /\ c.kind = r.kind
        /\ (x \in {"stop", "prove", "rm"} => r.kind = "uninstall") => Shape(c)
    BY <2>1, <2>2, <2>3, <2>4
  <2> QED  BY <2>5 DEF c
\* A call that only goes somewhere else.
<1>3. ASSUME NEW x \in {"item", "stop", "report", "prove", "rm"}, Goes(p, x), r.at = None,
             x \in {"stop", "prove", "rm"} => r.kind = "uninstall",
             UNCHANGED <<plaid, rows, linking, told, unsaid>>
      PROVE  Fate'
  <2> DEFINE c == [r EXCEPT !.pc = x]
  <2>1. /\ CallOK(c) /\ Moved(p, c) /\ c.pc = x /\ c.left = r.left
        /\ Owed(c) = Owed(r) /\ Shape(c)
    BY <1>2, <1>3
  <2> HIDE DEF c
  <2>2. Stranded' = Stranded  BY <1>3 DEF Stranded, Alive
  <2> QED  BY <1>3, <2>1, <2>2, OneGoesOn
\* One that ends before it can report.
<1>4. ASSUME Broken(p), UNCHANGED data, UNCHANGED told  PROVE Fate'
  <2>1. Moved(p, Idle) /\ unsaid' = unsaid \union Lost(p)  BY <1>4 DEF Broken, Moved
  <2>2. Stranded' = Stranded  BY <1>4 DEF Stranded, Alive, data
  <2>3. \A b \in Stranded : b \in Owed(r) => b \in Lost(p)  BY DEF Owed, Lost
  <2>4. \A b \in Stranded' : b \in unsaid' \/ (b \in Stranded /\ b \notin Owed(r))
    BY <2>1, <2>2, <2>3
  <2> QED  BY <1>4, <2>1, <2>4, IdleOwesNothing, OneGoesOn DEF data
<1>5. CASE List(p)
  <2> DEFINE c == [r EXCEPT !.pc = "item", !.left = rows]
  <2>1. /\ CallOK(c) /\ c.pc = "item" /\ c.left = rows /\ Owed(c) = Owed(r)
    BY <1>1, <1>5 DEF CallOK, Call, List, Owed, World
  <2>2. Shape(c)  BY <1>1 DEF Shape, Call
  <2>3. Moved(p, c) /\ UNCHANGED <<plaid, rows, linking, told, unsaid>>
    BY <1>5 DEF List, Moved, CallsOK, data
  <2>4. Stranded' = Stranded  BY <2>3 DEF Stranded, Alive
  <2> HIDE DEF c
  <2> QED  BY <2>1, <2>2, <2>3, <2>4, OneGoesOn
<1>6. CASE ItemsDone(p)
  <2>1. r.at = None  BY <1>1, <1>6 DEF ItemsDone, CallOK
  <2> QED  BY <1>3, <1>6, <2>1 DEF ItemsDone, data
<1>7. CASE DeleteItem(p)
  <2> DEFINE b0 == r.at
             c == [r EXCEPT !.pc = "item", !.at = None, !.left = r.left \ {r.at}]
  <2>1. /\ CallOK(c) /\ c.pc = "item" /\ c.left = r.left \ {b0} /\ Owed(c) = Owed(r)
    BY <1>1 DEF CallOK, Call, Owed
  <2>2. Shape(c)  BY <1>1 DEF Shape, Call
  <2>3. /\ Moved(p, c) /\ UNCHANGED <<plaid, linking, unsaid>> /\ r.pc = "delete"
        /\ rows' = rows \ {b0}
        /\ told' = IF r.revoke THEN told ELSE told \union {b0}
    BY <1>7 DEF DeleteItem, Moved, CallsOK, env
  <2> HIDE DEF c
  <2>4. ASSUME NEW b \in Stranded', b \notin told'
        PROVE  b \in Owed(c) \/ (b \in Stranded /\ b \notin Owed(r))
    <3>1. CASE b = b0 /\ b \in rows
      <4>1. r.revoke /\ plaid[b] = "alive"
        BY <2>3, <2>4, <3>1 DEF Stranded, Alive
      <4>2. b0 \in r.failed  BY <1>1, <2>3, <3>1, <4>1 DEF Handled
      <4> QED  BY <2>1, <3>1, <4>2 DEF Owed
    <3>2. CASE b # b0 \/ b \notin rows
      <4>1. b \in Stranded  BY <2>3, <3>2 DEF Stranded, Alive
      <4> QED  BY <2>1, <4>1
    <3> QED  BY <3>1, <3>2
  <2> QED  BY <2>1, <2>2, <2>3, <2>4, OneGoesOn
<1>8. CASE DeleteAll(p)
  <2> DEFINE c == [r EXCEPT !.pc = "report"]
  <2>0. r.at = None  BY <1>1, <1>8 DEF DeleteAll, CallOK
  <2>1. /\ Goes(p, "report") /\ UNCHANGED <<plaid, linking, unsaid>>
        /\ rows' = {} /\ told' = told \union Alive
    BY <1>8 DEF DeleteAll, env
  <2>2. CallOK(c) /\ Moved(p, c) /\ c.pc = "report" /\ c.left = r.left /\ Shape(c)
    BY <1>2, <2>0, <2>1
  <2>3. Stranded' \subseteq told'  BY <2>1 DEF Stranded, Alive
  <2> HIDE DEF c
  <2> QED  BY <2>1, <2>2, <2>3, OneGoesOn
<1>9. CASE ItemsThrow(p)
  <2>1. CASE r.kind = "uninstall"
    <3> DEFINE c == [r EXCEPT !.pc = "stop", !.error = TRUE, !.left = {}, !.at = None, !.failed = {}]
    <3>1. /\ CallOK(c) /\ c.pc = "stop" /\ c.left = {} /\ c.error /\ c.kind = r.kind
          /\ c.revoke = r.revoke /\ c.token = r.token /\ c.failed = {}
      BY <1>1 DEF CallOK, Call
    <3>2. Moved(p, c) /\ UNCHANGED <<plaid, rows, linking, told, unsaid>>
      BY <1>9, <2>1 DEF ItemsThrow, Moved, CallsOK, data
    <3> HIDE DEF c
    <3>3. Shape(c)  BY <1>1, <2>1, <3>1 DEF Shape
    <3>4. Stranded' \subseteq Owed(c)  BY <3>1, <3>2 DEF Owed, Stranded, Alive
    <3> QED  BY <3>1, <3>2, <3>3, <3>4, OneGoesOn
  <2>2. CASE r.kind # "uninstall"
    BY <1>4, <1>9, <2>2 DEF ItemsThrow
  <2> QED  BY <2>1, <2>2
<1>10. ASSUME NEW b \in Banks, RevokeItem(p, b)  PROVE Fate'
  <2> DEFINE c0 == [r EXCEPT !.pc = "delete", !.at = b]
             c1 == [r EXCEPT !.pc = "delete", !.at = b, !.revoked = r.revoked \union {b}]
             c2 == [r EXCEPT !.pc = "delete", !.at = b, !.failed = r.failed \union {b}]
  <2>1. b \in r.left /\ b # None /\ r.pc = "item" /\ UNCHANGED <<rows, linking, told, unsaid>>
    BY <1>10, RemovalAssumption DEF RevokeItem
  <2>a. ASSUME NEW c, CallOK(c), Moved(p, c), c.pc = "delete", c.at = b, c.left = r.left,
               c.kind = r.kind, c.revoke = r.revoke, c.token = r.token, c.error = r.error,
               r.failed \subseteq c.failed,
               plaid' = plaid \/ plaid' = [plaid EXCEPT ![b] = "removed"],
               r.revoke => b \in c.failed \/ plaid'[b] # "alive" \/ b \notin rows
        PROVE  Fate'
    <3>1. Shape(c)  BY <1>1, <2>a, <2>1 DEF Shape
    <3>2. \A d \in Banks : plaid'[d] = plaid[d] \/ plaid'[d] = "removed"
      BY <2>a DEF World
    <3>3. Linked'  BY <1>1, <2>1, <3>2 DEF Linked, World
    <3>4. Handled(c)'
      <4>1. c.left \subseteq Banks  BY <1>1, <2>a DEF Call
      <4> QED  BY <1>1, <2>1, <2>a, <3>2, <4>1 DEF Handled
    <3>5. Stranded' \subseteq Stranded  BY <2>1, <3>2 DEF Stranded, Alive
    <3>6. Owed(r) \subseteq Owed(c)  BY <2>a DEF Owed
    <3> QED  BY <2>1, <2>a, <3>1, <3>2, <3>3, <3>4, <3>5, <3>6, OneOwes
  <2>2. /\ CallOK(c0) /\ c0.pc = "delete" /\ c0.at = b /\ c0.left = r.left /\ c0.kind = r.kind
        /\ c0.revoke = r.revoke /\ c0.token = r.token /\ c0.error = r.error /\ c0.failed = r.failed
    BY <1>1, <2>1 DEF CallOK, Call
  <2>3. r.revoke =>
        /\ CallOK(c1) /\ c1.pc = "delete" /\ c1.at = b /\ c1.left = r.left /\ c1.kind = r.kind
        /\ c1.revoke = r.revoke /\ c1.token = r.token /\ c1.error = r.error /\ c1.failed = r.failed
    BY <1>1, <2>1 DEF CallOK, Call
  <2>4. r.revoke =>
        /\ CallOK(c2) /\ c2.pc = "delete" /\ c2.at = b /\ c2.left = r.left /\ c2.kind = r.kind
        /\ c2.revoke = r.revoke /\ c2.token = r.token /\ c2.error = r.error
        /\ c2.failed = r.failed \union {b}
    BY <1>1, <2>1 DEF CallOK, Call
  <2>5. \/ Moved(p, c0) /\ UNCHANGED plaid /\ (r.revoke => b \notin rows)
        \/ Moved(p, c1) /\ r.revoke /\ plaid' = [plaid EXCEPT ![b] = "removed"]
        \/ Moved(p, c2) /\ r.revoke /\ UNCHANGED plaid
    BY <1>10 DEF RevokeItem, Attempts, Moved, CallsOK
  <2>6. plaid' = [plaid EXCEPT ![b] = "removed"] => plaid'[b] # "alive"  BY DEF World
  <2> HIDE DEF c0, c1, c2
  <2> QED  BY <2>2, <2>3, <2>4, <2>5, <2>6, <2>a
<1>11. CASE NothingThere(p)
  <2>1. r.at = None  BY <1>1, <1>11 DEF NothingThere, CallOK
  <2> QED  BY <1>3, <1>11, <2>1 DEF NothingThere, data
<1>12. CASE Stop(p)
  <2>1. r.at = None /\ r.kind = "uninstall"  BY <1>1, <1>12 DEF Stop, CallOK, Shape
  <2> QED  BY <1>3, <1>12, <2>1 DEF Stop, env
<1>13. CASE Prove(p)
  <2>1. r.at = None /\ r.kind = "uninstall"  BY <1>1, <1>13 DEF Prove, CallOK, Shape
  <2> QED  BY <1>3, <1>13, <2>1 DEF Prove, data
<1>14. CASE Refuse(p)  BY <1>4, <1>14 DEF Refuse
<1>15. CASE Remove(p)
  <2> DEFINE c == [r EXCEPT !.pc = "report"]
  <2>0. r.at = None  BY <1>1, <1>15 DEF Remove, CallOK
  <2>1. /\ Goes(p, "report") /\ UNCHANGED <<plaid, linking>> /\ rows' = {} /\ r.pc = "rm"
        /\ unsaid' = IF r.revoke /\ ~ r.error THEN unsaid \union rows ELSE unsaid
        /\ told' = IF r.revoke \/ r.token # None THEN told ELSE told \union Alive
    BY <1>15 DEF Remove, Forewarned, env
  <2>2. /\ CallOK(c) /\ Moved(p, c) /\ c.pc = "report" /\ c.left = r.left /\ Shape(c)
        /\ Owed(c) = Owed(r)
    BY <1>2, <2>0, <2>1
  <2> HIDE DEF c
  <2>3. ASSUME NEW b \in Stranded'
        PROVE  b \in told' \union unsaid' \/ b \in Owed(c) \/ (b \in Stranded /\ b \notin Owed(r))
    <3>1. b \in Alive /\ b \in Banks /\ b \notin linking  BY <2>1 DEF Stranded, Alive
    <3>2. CASE r.revoke /\ ~ r.error
      <4>1. b \in rows \/ b \in Stranded  BY <3>1 DEF Stranded
      <4> QED  BY <2>1, <2>2, <3>2, <4>1
    <3>3. CASE r.error  BY <2>2, <3>1, <3>3 DEF Owed
    <3>4. CASE ~ r.revoke /\ r.token # None  BY <2>2, <3>1, <3>4 DEF Owed
    <3>5. CASE ~ r.revoke /\ r.token = None  BY <2>1, <3>1, <3>5
    <3> QED  BY <3>2, <3>3, <3>4, <3>5
  <2>4. told \subseteq told' /\ unsaid \subseteq unsaid'  BY <2>1
  <2> QED  BY <2>1, <2>2, <2>3, <2>4, OneGoesOn
<1>16. CASE Report(p)
  <2>1. /\ Moved(p, Idle) /\ UNCHANGED <<plaid, rows, linking, unsaid>>
        /\ told' = told \union (IF r.kind = "uninstall" THEN Warned(p) ELSE r.failed)
    BY <1>16 DEF Report, Moved, data
  <2>2. ASSUME NEW b \in Stranded, b \in Owed(r)  PROVE b \in told'
    <3>1. b \in Alive  BY DEF Stranded
    <3>2. CASE r.kind = "uninstall"  BY <2>1, <2>2, <3>1, <3>2 DEF Owed, Warned
    <3>3. CASE r.kind # "uninstall"
      <4>1. ~ r.error /\ (r.revoke \/ r.token = None)  BY <1>1, <3>3 DEF Shape
      <4> QED  BY <2>1, <2>2, <3>3, <4>1 DEF Owed
    <3> QED  BY <3>2, <3>3
  <2>3. Stranded' = Stranded  BY <2>1 DEF Stranded, Alive
  <2> QED  BY <2>1, <2>2, <2>3, IdleOwesNothing, OneGoesOn
<1>17. CASE RemoveFails(p)
  <2>1. CASE Broken(p) /\ UNCHANGED <<profile, rows, told>>
    BY <1>4, <1>17, <2>1 DEF RemoveFails, env, data
  <2>2. CASE ~ (Broken(p) /\ UNCHANGED <<profile, rows, told>>)
    <3>1. /\ Moved(p, Idle) /\ UNCHANGED <<plaid, linking>> /\ rows' = {}
          /\ unsaid' = unsaid \union Lost(p) \union (IF Forewarned(p) THEN {} ELSE rows)
          /\ told' = IF Forewarned(p) THEN told \union Alive ELSE told
      BY <1>17, <2>2 DEF RemoveFails, Moved, env
    <3>2. ASSUME NEW b \in Stranded'
          PROVE  b \in told' \union unsaid' \/ (b \in Stranded /\ b \notin Owed(r))
      <4>1. b \in Alive /\ b \notin linking  BY <3>1 DEF Stranded, Alive
      <4>2. CASE Forewarned(p)  BY <3>1, <4>1, <4>2
      <4>3. CASE ~ Forewarned(p) /\ b \in rows  BY <3>1, <4>3
      <4>4. CASE ~ Forewarned(p) /\ b \notin rows
        <5>1. b \in Stranded  BY <4>1, <4>4 DEF Stranded
        <5>2. b \in Owed(r) => b \in Lost(p)  BY <5>1 DEF Owed, Lost
        <5> QED  BY <3>1, <5>1, <5>2
      <4> QED  BY <4>2, <4>3, <4>4
    <3>3. told \subseteq told' /\ unsaid \subseteq unsaid'  BY <3>1
    <3>4. rows' \subseteq rows  BY <3>1
    <3> QED  BY <3>1, <3>2, <3>3, <3>4, IdleOwesNothing, OneGoesOn
  <2> QED  BY <2>1, <2>2
<1> QED  BY <1>5, <1>6, <1>7, <1>8, <1>9, <1>10, <1>11, <1>12, <1>13, <1>14, <1>15, <1>16, <1>17
        DEF Removing
-------------------------------------------------------------------------------

LEMMA FateKept == ASSUME CallsOK, World, Fate, [Next]_vars  PROVE Fate'
\* A call that begins owes nothing yet.
<1>a. ASSUME NEW p \in Procs, call[p] = Idle,
             NEW k \in {"unlink_bank", "unlink", "reset", "uninstall"}, NEW r \in BOOLEAN,
             NEW t \in Tokens \union {None}, NEW l \in SUBSET rows, Moved(p, Entry(k, r, t, l)),
             k = "unlink_bank" => r, t # None => k \in {"unlink_bank", "uninstall"},
             UNCHANGED <<plaid, rows, linking, told, unsaid>>
      PROVE  Fate'
  <2> DEFINE c == Entry(k, r, t, l)
  <2>1. CallOK(c) /\ CallOK(Idle) /\ Idle.pc = "idle"  BY StartedOK DEF World
  <2>2. /\ c.left = l /\ c.pc # "delete" /\ ~ c.error /\ c.failed = {} /\ c.kind = k
        /\ c.revoke = r /\ c.token = t
        /\ c.pc \in {"stop", "prove", "rm"} => k = "uninstall"
        /\ c.pc # "idle"
    BY DEF Entry, Started
  <2> HIDE DEF c
  <2>3. Shape(c)  BY <1>a, <2>2 DEF Shape
  <2>4. Stranded' = Stranded  BY <1>a DEF Stranded, Alive
  <2>5. call[p].pc = "idle"  BY <1>a, <2>1
  <2>6. Moved(p, c)  BY <1>a DEF c
  <2> QED  BY <1>a, <2>1, <2>2, <2>3, <2>4, <2>5, <2>6, OneGoesOn
\* A step that leaves the calls alone.
<1>b. ASSUME UNCHANGED <<plaid, rows, linking, told, unsaid, call>>  PROVE Fate'
  BY <1>b DEF Fate, Linked, Shape, Handled, Stranded, Alive, OnItsWay, Owed
<1>1. ASSUME NEW b \in Banks, Exchange(b)  PROVE Fate'
  <2>1. /\ plaid[b] = "new" /\ plaid' = [plaid EXCEPT ![b] = "alive"]
        /\ linking' = linking \union {b} /\ UNCHANGED <<rows, call, told, unsaid>>
    BY <1>1 DEF Exchange
  <2>2. plaid'[b] = "alive" /\ \A d \in Banks \ {b} : plaid'[d] = plaid[d]
    BY <2>1 DEF World
  <2>3. Linked'  BY <2>1, <2>2 DEF Fate, Linked, World
  <2>4. ASSUME NEW p \in Procs  PROVE (Shape(call[p]) /\ Handled(call[p]))'
    <3>1. /\ Shape(call[p]) /\ Handled(call[p]) /\ call[p].left \subseteq Banks
          /\ call[p].pc = "delete" => call[p].at \in call[p].left
      BY DEF Fate, CallsOK, CallOK, Call
    <3>2. b \notin call[p].left  BY <2>1, <3>1 DEF Handled
    <3>3. Handled(call[p])'  BY <2>1, <2>2, <3>1, <3>2 DEF Handled
    <3> QED  BY <2>1, <3>1, <3>3 DEF Shape
  <2>5. Stranded' \subseteq Stranded  BY <2>1, <2>2 DEF Stranded, Alive
  <2> QED  BY <2>1, <2>3, <2>4, <2>5 DEF Fate, OnItsWay, Owed
<1>2. ASSUME NEW b \in Banks, SaveItem(b)  PROVE Fate'
  <2>1. /\ b \in linking /\ linking' = linking \ {b} /\ rows' = rows \union {b}
        /\ UNCHANGED <<plaid, told, unsaid>>
    BY <1>2 DEF SaveItem
  <2>2. Linked'  BY <2>1 DEF Fate, Linked
  <2>3. ASSUME NEW p \in Procs
        PROVE  /\ (Shape(call[p]) /\ Handled(call[p]))'
               /\ call'[p].pc = call[p].pc /\ Owed(call'[p]) = Owed(call[p])
    <3>1. /\ call'[p].pc = call[p].pc /\ call'[p].kind = call[p].kind
          /\ call'[p].revoke = call[p].revoke /\ call'[p].token = call[p].token
          /\ call'[p].left = call[p].left /\ call'[p].at = call[p].at
          /\ call'[p].failed = call[p].failed /\ call'[p].error = call[p].error
      BY <1>2, LinkingIsNoted
    <3>2. /\ Shape(call[p]) /\ Handled(call[p])
          /\ call[p].pc = "delete" => call[p].at \in call[p].left
      BY DEF Fate, CallsOK, CallOK, Call
    <3>3. Handled(call[p])'  BY <2>1, <3>1, <3>2 DEF Handled
    <3> QED  BY <3>1, <3>2, <3>3 DEF Shape, Owed
  <2>4. Stranded' \subseteq Stranded  BY <2>1 DEF Stranded, Alive
  <2>5. ASSUME NEW d \in Stranded', OnItsWay(d)  PROVE OnItsWay(d)'
    <3>1. PICK p \in Procs : call[p].pc # "idle" /\ d \in Owed(call[p])  BY <2>5 DEF OnItsWay
    <3>2. call'[p].pc # "idle" /\ d \in Owed(call'[p])  BY <2>3, <3>1
    <3> QED  BY <3>2 DEF OnItsWay, Owed
  <2> QED  BY <2>1, <2>2, <2>3, <2>4, <2>5 DEF Fate
<1>3. ASSUME NEW b \in Banks, SaveFails(b)  PROVE Fate'
  <2>1. /\ linking' = linking \ {b} /\ unsaid' = unsaid \union {b}
        /\ UNCHANGED <<plaid, rows, call, told>>
    BY <1>3 DEF SaveFails
  <2>2. Linked'  BY <2>1 DEF Fate, Linked
  <2>3. \A p \in Procs : (Shape(call[p]) /\ Handled(call[p]))'
    BY <2>1 DEF Fate, Shape, Handled
  <2>4. Stranded' \subseteq Stranded \union {b}  BY <2>1 DEF Stranded, Alive
  <2> QED  BY <2>1, <2>2, <2>3, <2>4 DEF Fate, OnItsWay, Owed
<1>4. ASSUME NEW t \in Tokens,
             Expire(t) \/ \E s \in Subjects, r \in BOOLEAN : Preview(t, s, r)
      PROVE  Fate'
  BY <1>4, <1>b DEF Preview, Expire, data
<1>5. ASSUME NEW t \in Tokens, NEW p \in Procs, NEW s \in Subjects, NEW r \in BOOLEAN,
             Spend(p, t, s, r)
      PROVE  Fate'
  <2>1. /\ UNCHANGED <<plaid, rows, linking, told, unsaid>> /\ call[p] = Idle
        /\ Moved(p, IF s = Profile THEN Entry("uninstall", r, t, {})
                                   ELSE Entry("unlink_bank", r, t, {s}))
        /\ s \in Banks => s \in rows /\ r
    BY <1>5 DEF Spend, Moved, data
  <2>2. CASE s = Profile  BY <1>a, <2>1, <2>2
  <2>3. CASE s # Profile
    <3>1. s \in Banks /\ {s} \in SUBSET rows /\ r  BY <2>1, <2>3 DEF Subjects
    <3> QED  BY <1>a, <2>1, <2>3, <3>1
  <2> QED  BY <2>2, <2>3
<1>6. ASSUME NEW p \in Procs, NEW k \in {"unlink", "reset", "uninstall"}, NEW r \in BOOLEAN,
             NEW l \in SUBSET Banks, Command(p, k, r, l)
      PROVE  Fate'
  <2>1. /\ UNCHANGED <<plaid, rows, linking, told, unsaid>> /\ call[p] = Idle
        /\ Moved(p, Entry(k, r, None, l)) /\ l \in SUBSET rows
    BY <1>6 DEF Command, Moved, data
  <2> QED  BY <1>a, <2>1
<1>7. ASSUME NEW p \in Procs, Crash(p)  PROVE Fate'
  <2>1. /\ Moved(p, Idle) /\ UNCHANGED <<plaid, rows, linking, told>>
        /\ unsaid' = unsaid \union Lost(p)
    BY <1>7 DEF Crash, Broken, Moved, data
  <2>2. Stranded' = Stranded  BY <2>1 DEF Stranded, Alive
  <2>3. \A b \in Stranded : b \in Owed(call[p]) => b \in Lost(p)  BY DEF Owed, Lost
  <2> QED  BY <2>1, <2>2, <2>3, IdleOwesNothing, OneGoesOn
<1>8. CASE ServerStarts  BY <1>8, <1>b DEF ServerStarts, env
<1>9. CASE UNCHANGED vars  BY <1>9, <1>b DEF vars
<1> QED
  BY <1>1, <1>2, <1>3, <1>4, <1>5, <1>6, <1>7, <1>8, <1>9, RemovingTells DEF Next

(***************************************************************************)
(* Once every removal is done, a bank that lives on at Plaid without a     *)
(* token here was told of, or the one who knew of it died or threw: for    *)
(* any number of banks and removals at once, whatever fails.               *)
(***************************************************************************)
THEOREM StrandedAreTold == Spec => []StrandedIsTold
<1>1. Init => Fate
  <2> SUFFICES ASSUME Init  PROVE Fate
    OBVIOUS
  <2>1. Shape(Idle) /\ Idle.left = {} /\ Idle.pc = "idle"  BY IdleOwesNothing
  <2>2. \A p \in Procs : call[p] = Idle  BY DEF Init
  <2>3. \A p \in Procs : Shape(call[p]) /\ Handled(call[p])  BY <2>1, <2>2 DEF Handled
  <2>4. Linked /\ Stranded = {}  BY DEF Init, Linked, Stranded, Alive
  <2> QED  BY <2>3, <2>4 DEF Fate
<1>2. CallsOK /\ World /\ Fate /\ [Next]_vars => Fate'  BY FateKept
<1>3. Fate => StrandedIsTold  BY DEF Fate, StrandedIsTold, OnItsWay, Calling
<1> QED  BY <1>1, <1>2, <1>3, Invariance, PTL DEF Spec
===============================================================================
