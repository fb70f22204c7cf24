------------------------- MODULE ReadOnlyQuery_proofs -------------------------
(***************************************************************************)
(* The reversion and the guards of queryReadOnly(), for any number of      *)
(* calls on any number of clients: what a session has SET LOCAL is known   *)
(* from the place of the one call that holds its client, unless that       *)
(* call's SQL has ended the transaction.                                   *)
(***************************************************************************)
EXTENDS ReadOnlyQuery, TLAPS

-------------------------------------------------------------------------------
(* What is so of one call and its client. *)

\* The guards that are set before the statement at a place of a script.
SetBefore(kind, at) ==
  IF kind # "query" \/ at \in {1, 2} THEN {}
  ELSE IF at = 3 THEN {"READ ONLY"}
  ELSE IF at = 4 THEN {"READ ONLY", "ROLE"}
  ELSE Guards

LastAt(kind) == IF kind = "query" THEN 6 ELSE IF kind = "work" THEN 3 ELSE 1

\* A call that is over, or waits, holds nothing.
Empty(r) ==
  r.pc \in {"idle", "waiting"} => r.client = NoClient /\ r.at = 1

\* An answer says what the rows of the script's last statement say.
Answer(r) ==
  /\ r.pc # "idle" => r.told = "nothing"
  /\ r.pc = "running" /\ r.kind = "query" /\ r.at = 6 => r.rows = Fetched(r.sql.matched)
  /\ r.told # "nothing" =>
       /\ r.rows = Shown(Fetched(r.sql.matched))
       /\ r.told = IF Truncated(Fetched(r.sql.matched)) THEN "truncated" ELSE "all"

\* A call at work is at a place of its script, and what is SET LOCAL is what the script
\* has SET, unless its SQL has ended the transaction; one that fails ends in its catch.
Place(r, o, ss) ==
  /\ r.pc \in {"running", "undo"} => r.client \in o
  /\ r.pc = "running" => r.at <= LastAt(r.kind)
  /\ r.pc = "undo" => r.kind # "statement"
  /\ r.kind = "statement" /\ r.pc = "running" => Bare(ss[r.client])
  /\ r.pc = "running" /\ ss[r.client].open =>
       \/ ss[r.client].set = SetBefore(r.kind, r.at)
       \/ r.at = 5 /\ r.sql.strays = "leaves"

\* No session outlives its connection.
ClosedIsEmpty == \A k \in Clients : session[k].open \/ session[k] = Closed

QInv ==
  /\ QueryTypeOK
  /\ CleanWhenFree
  /\ ClosedIsEmpty
  /\ \A c \in Calls : Empty(call[c]) /\ Answer(call[c]) /\ Place(call[c], out, session)

-------------------------------------------------------------------------------
(* What single values are. *)

(***************************************************************************)
(* A session whose transaction ended is in none, and has nothing SET LOCAL. *)
(***************************************************************************)
LEMMA EndedIsBare ==
  ASSUME NEW s \in Session
  PROVE  /\ Ended(s) \in Session /\ Bare(Ended(s))
         /\ Ended(s).open = s.open /\ Ended(s).kept = s.kept /\ Ended(s).set = {}
BY DEF Session, Ended, Bare

LEMMA SetBeforeFacts ==
  /\ SetBefore("query", 2) = {}
  /\ SetBefore("query", 3) = {"READ ONLY"}
  /\ SetBefore("query", 4) = {"READ ONLY", "ROLE"}
  /\ SetBefore("query", 5) = {"READ ONLY", "ROLE", "TIMEOUT"}
BY DEF SetBefore, Guards

LEMMA SessionFacts ==
  /\ Closed \in Session /\ Fresh \in Session
  /\ ~ Closed.open /\ Fresh.open
  /\ Bare(Closed) /\ Bare(Fresh) /\ Fresh.set = {}
  /\ Closed.kept = {} /\ Fresh.kept = {}
BY DEF Session, Closed, Fresh, Bare

LEMMA NoCallFacts ==
  /\ NoSql \in Sqls
  /\ NoCall \in Call
  /\ NoCall.pc = "idle" /\ NoCall.client = NoClient /\ NoCall.at = 1
  /\ NoCall.told = "nothing"
BY QueryAssumption DEF NoSql, Sqls, NoCall, Call, Script

(***************************************************************************)
(* What is fetched is a number up to one more than the cap.                *)
(***************************************************************************)
LEMMA FetchedIsBounded ==
  ASSUME NEW sql \in Sqls
  PROVE  /\ sql.matched \in Nat
         /\ Fetched(sql.matched) \in 0 .. RowCap + 1
         /\ Shown(Fetched(sql.matched)) \in 0 .. RowCap
         /\ Truncated(Fetched(sql.matched)) <=> sql.matched > RowCap
BY QueryAssumption DEF Sqls, Fetched, Shown, Truncated

(***************************************************************************)
(* A call that was answered holds nothing, and says what was fetched.      *)
(***************************************************************************)
LEMMA OverFacts ==
  ASSUME QueryTypeOK, NEW c \in Calls,
         call[c].kind = "query" => call[c].rows = Fetched(call[c].sql.matched)
  PROVE  /\ Over(c) \in Call
         /\ Over(c).pc = "idle" /\ Over(c).client = NoClient /\ Over(c).at = 1
         /\ Answer(Over(c))
<1> DEFINE q == call[c]
<1>1. q \in Call /\ q.sql \in Sqls
  BY DEF QueryTypeOK, Call
<1>2. CASE q.kind # "query"
  BY <1>2, NoCallFacts DEF Over, Answer
<1>3. CASE q.kind = "query"
  <2>1. Over(c) = [pc |-> "idle", kind |-> "query", sql |-> q.sql, client |-> NoClient, at |-> 1,
                   rows |-> Shown(q.rows),
                   told |-> IF Truncated(q.rows) THEN "truncated" ELSE "all"]
    BY <1>3 DEF Over, NoCall
  <2>2. q.rows = Fetched(q.sql.matched) /\ Shown(q.rows) \in 0 .. RowCap + 1
    BY <1>1, <1>3, FetchedIsBounded, QueryAssumption
  <2> QED
    BY <1>1, <2>1, <2>2, QueryAssumption DEF Call, Script, Answer
<1> QED
  BY <1>2, <1>3

-------------------------------------------------------------------------------
(* Steps. *)

(***************************************************************************)
(* A step of one call that touches no client.                              *)
(***************************************************************************)
LEMMA CallStep ==
  ASSUME QInv, NEW c \in Calls, NEW r \in Call,
         call' = [call EXCEPT ![c] = r], UNCHANGED <<session, out, cuts>>,
         call[c].client = NoClient, r.client = NoClient,
         r.pc \notin {"running", "undo"}, Empty(r), Answer(r)
  PROVE  QInv'
<1>1. QueryTypeOK'
  BY DEF QInv, QueryTypeOK
<1>2. CleanWhenFree'
  <2>1. \A d \in Calls : call'[d].client = call[d].client
    BY DEF QInv, QueryTypeOK
  <2> QED
    BY <2>1 DEF QInv, CleanWhenFree
<1>3. ClosedIsEmpty'
  BY DEF QInv, ClosedIsEmpty
<1>4. \A d \in Calls : Empty(call'[d]) /\ Answer(call'[d]) /\ Place(call'[d], out', session')
  BY DEF QInv, QueryTypeOK, Place
<1> QED
  BY <1>1, <1>2, <1>3, <1>4 DEF QInv

(***************************************************************************)
(* A step of one call on its client, which it takes, keeps or gives back.  *)
(***************************************************************************)
LEMMA ClientStep ==
  ASSUME QInv, NEW c \in Calls, NEW k \in Clients, NEW r \in Call, NEW s \in Session,
         call' = [call EXCEPT ![c] = r], session' = [session EXCEPT ![k] = s], cuts' = cuts,
         k \in out => call[c].client = k,
         k \notin out => call[c].client = NoClient,
         \/ out' = out \union {k} /\ r.client = k
         \/ out' = out \ {k} /\ r.client = NoClient /\ Bare(s),
         s.open \/ s = Closed,
         Empty(r), Answer(r), Place(r, out', session')
  PROVE  QInv'
<1>1. QueryTypeOK'
  BY DEF QInv, QueryTypeOK
<1>2. k # NoClient /\ \A d \in Calls \ {c} : call'[d] = call[d] /\ call[d].client # k
  <2>1. k # NoClient
    BY QueryAssumption
  <2>2. ASSUME NEW d \in Calls \ {c} PROVE call'[d] = call[d]
    BY DEF QInv, QueryTypeOK
  <2>3. ASSUME NEW d \in Calls \ {c}, call[d].client = k PROVE FALSE
    <3>1. CASE k \in out
      BY <2>1, <2>3, <3>1 DEF QInv, CleanWhenFree
    <3>2. CASE k \notin out
      <4>1. call[d] \in Call /\ Empty(call[d]) /\ Place(call[d], out, session)
        BY DEF QInv, QueryTypeOK
      <4> QED
        BY <2>1, <2>3, <3>2, <4>1 DEF Call, Empty, Place
    <3> QED
      BY <3>1, <3>2
  <2> QED
    BY <2>1, <2>2, <2>3
<1>3. CleanWhenFree'
  <2>1. \A l \in Clients \ out' : Bare(session'[l])
    BY DEF QInv, QueryTypeOK, CleanWhenFree
  <2>2. ASSUME NEW l \in out' PROVE \E d \in Calls : call'[d].client = l
    <3>1. call'[c] = r
      BY DEF QInv, QueryTypeOK
    <3>2. CASE l = k
      BY <3>1, <3>2
    <3>3. CASE l # k
      <4>1. l \in out
        BY <3>3
      <4>2. PICK d \in Calls : call[d].client = l
        BY <4>1 DEF QInv, CleanWhenFree
      <4>3. d # c
        <5>1. call[c].client \in {k, NoClient}
          OBVIOUS
        <5>2. l \in Clients
          BY <4>1 DEF QInv, QueryTypeOK
        <5> QED
          BY <5>1, <5>2, <4>2, <3>3, QueryAssumption
      <4> QED
        BY <4>2, <4>3, <1>2
    <3> QED
      BY <3>2, <3>3
  <2>3. \A d, e \in Calls : call'[d].client = call'[e].client /\ d # e => call'[d].client = NoClient
    BY <1>2 DEF QInv, QueryTypeOK, CleanWhenFree
  <2> QED
    BY <2>1, <2>2, <2>3 DEF CleanWhenFree
<1>4. ClosedIsEmpty'
  BY DEF QInv, QueryTypeOK, ClosedIsEmpty
<1>5. ASSUME NEW d \in Calls
      PROVE  Empty(call'[d]) /\ Answer(call'[d]) /\ Place(call'[d], out', session')
  <2>1. CASE d = c
    BY <2>1 DEF QInv, QueryTypeOK
  <2>2. CASE d # c
    <3>1. Empty(call[d]) /\ Answer(call[d]) /\ Place(call[d], out, session)
      BY DEF QInv
    <3>2. call'[d] = call[d] /\ call[d].client # k /\ session'[call[d].client] = session[call[d].client]
      BY <1>2, <2>2 DEF QInv, QueryTypeOK
    <3> QED
      BY <3>1, <3>2 DEF Place
  <2> QED
    BY <2>1, <2>2
<1> QED
  BY <1>1, <1>3, <1>4, <1>5 DEF QInv

(***************************************************************************)
(* The initial states satisfy the invariant.                               *)
(***************************************************************************)
LEMMA InitQ == Init => QInv
<1> SUFFICES ASSUME Init PROVE QInv
  OBVIOUS
<1>1. QueryTypeOK
  BY NoCallFacts, SessionFacts, QueryAssumption DEF Init, QueryTypeOK
<1> QED
  BY <1>1, NoCallFacts, SessionFacts
     DEF Init, QInv, CleanWhenFree, ClosedIsEmpty, Empty, Answer, Place

(***************************************************************************)
(* What a statement that is carried out finds.                             *)
(***************************************************************************)
LEMMA AdvanceFacts ==
  ASSUME QInv, NEW c \in Calls, call[c].pc = "running"
  PROVE  /\ call[c] \in Call
         /\ call[c].client \in out /\ call[c].client \in Clients
         /\ session[call[c].client] \in Session
         /\ call[c].at <= LastAt(call[c].kind)
         /\ call[c].told = "nothing"
BY DEF QInv, QueryTypeOK, Place, Answer

\* What the statement at a place of a script is.
Says(kind, at, statement) ==
  /\ statement = "BEGIN" <=> at = 1 /\ kind # "statement"
  /\ statement = "READ ONLY" <=> at = 2 /\ kind = "query"
  /\ statement = "ROLE" <=> at = 3 /\ kind = "query"
  /\ statement = "TIMEOUT" <=> at = 4 /\ kind = "query"
  /\ statement = "SQL" <=> at = 5 /\ kind = "query"
  /\ statement = "COMMIT" <=> at = LastAt(kind) /\ kind # "statement"
  /\ statement = "OWN" => kind # "query"
  /\ statement = "OWN" /\ kind = "work" => at = 2

(***************************************************************************)
(* A script's statements, by place.                                        *)
(***************************************************************************)
LEMMA ScriptFacts ==
  ASSUME NEW kind \in DOMAIN Script, NEW at \in 1 .. 6, at <= LastAt(kind)
  PROVE  Says(kind, at, Script[kind][at])
<1> USE DEF Says
<1>1. kind \in {"query", "work", "statement"}
  BY DEF Script
<1>2. at = 1 \/ at = 2 \/ at = 3 \/ at = 4 \/ at = 5 \/ at = 6
  OBVIOUS
<1>3. CASE kind = "query"
  <2>1. LastAt(kind) = 6
    BY <1>3 DEF LastAt
  <2>2. /\ Script[kind][1] = "BEGIN"
        /\ Script[kind][2] = "READ ONLY"
        /\ Script[kind][3] = "ROLE"
        /\ Script[kind][4] = "TIMEOUT"
        /\ Script[kind][5] = "SQL"
        /\ Script[kind][6] = "COMMIT"
    BY <1>3 DEF Script
  <2> QED
    BY <1>2, <1>3, <2>1, <2>2
<1>4. CASE kind = "work"
  <2>1. LastAt(kind) = 3
    BY <1>4 DEF LastAt
  <2>2. /\ Script[kind][1] = "BEGIN"
        /\ Script[kind][2] = "OWN"
        /\ Script[kind][3] = "COMMIT"
    BY <1>4 DEF Script
  <2>3. at <= 3 /\ (at = 1 \/ at = 2 \/ at = 3)
    BY <1>2, <2>1
  <2> QED
    BY <2>3, <1>4, <2>1, <2>2
<1>5. CASE kind = "statement"
  <2>1. LastAt(kind) = 1
    BY <1>5 DEF LastAt
  <2>2. /\ Script[kind][1] = "OWN"
    BY <1>5 DEF Script
  <2>3. at = 1
    BY <1>2, <2>1
  <2> QED
    BY <2>3, <1>5, <2>1, <2>2
<1> QED
  BY <1>1, <1>3, <1>4, <1>5

LEMMA StatementFacts ==
  ASSUME NEW c \in Calls, call[c] \in Call, call[c].at <= LastAt(call[c].kind)
  PROVE  Says(call[c].kind, call[c].at, Statement(c))
<1>1. call[c].kind \in DOMAIN Script /\ call[c].at \in 1 .. 6
  BY DEF Call
<1> QED
  BY <1>1, ScriptFacts DEF Statement

(***************************************************************************)
(* Every step of a call keeps the invariant.                               *)
(***************************************************************************)
LEMMA BeginQ == ASSUME QInv, NEW c \in Calls, Begin(c) PROVE QInv'
<1>1. PICK kind \in DOMAIN Script, sql \in Sqls :
        call' = [call EXCEPT ![c] = [NoCall EXCEPT !.pc = "waiting", !.kind = kind, !.sql = sql]]
  BY DEF Begin
<1> DEFINE r == [NoCall EXCEPT !.pc = "waiting", !.kind = kind, !.sql = sql]
<1>2. call' = [call EXCEPT ![c] = r]
  BY <1>1
<1>3. r \in Call
  BY NoCallFacts DEF Call
<1>4. r.pc = "waiting" /\ r.client = NoClient /\ r.at = 1 /\ r.told = "nothing"
  BY NoCallFacts DEF Call
<1>5. call[c].client = NoClient
  BY DEF QInv, Empty, Begin
<1> HIDE DEF r
<1> QED
  BY <1>2, <1>3, <1>4, <1>5, CallStep DEF Begin, Empty, Answer

LEMMA TimesOutQ == ASSUME QInv, NEW c \in Calls, TimesOut(c) PROVE QInv'
<1>1. call[c].client = NoClient
  BY DEF QInv, Empty, TimesOut
<1> QED
  BY <1>1, NoCallFacts, CallStep DEF TimesOut, Empty, Answer

LEMMA ConnectQ == ASSUME QInv, NEW c \in Calls, Connect(c) PROVE QInv'
<1>1. PICK k \in Clients \ out :
        /\ out' = out \union {k}
        /\ session' = [session EXCEPT ![k] = IF @.open THEN @ ELSE Fresh]
        /\ call' = [call EXCEPT ![c].pc = "running", ![c].client = k]
  BY DEF Connect
<1> DEFINE q == call[c]
           r == [q EXCEPT !.pc = "running", !.client = k]
<1>2. q \in Call /\ q.pc = "waiting" /\ Empty(q) /\ Answer(q)
  BY DEF Connect, QInv, QueryTypeOK
<1> DEFINE s == IF session[k].open THEN session[k] ELSE Fresh
<1>3. s \in Session /\ s.open /\ Bare(s)
  BY SessionFacts DEF QInv, QueryTypeOK, CleanWhenFree
<1>4. session' = [session EXCEPT ![k] = s]
  BY <1>1
<1>5. call' = [call EXCEPT ![c] = r]
  BY <1>1
<1>6. r \in Call /\ r.pc = "running" /\ r.client = k /\ r.at = 1 /\ r.told = "nothing"
  BY <1>2 DEF Call, Empty, Answer
<1>7. session'[k] = s
  BY <1>4 DEF QInv, QueryTypeOK
<1> HIDE DEF r, s
<1>8. Empty(r) /\ Answer(r)
  BY <1>6 DEF Empty, Answer
<1>9. Place(r, out', session')
  BY <1>1, <1>3, <1>6, <1>7 DEF Place, SetBefore, LastAt, Bare
<1>10. call[c].client = NoClient /\ k \in Clients /\ k \notin out /\ cuts' = cuts
  BY <1>2 DEF Empty, Connect
<1>11. out' = out \union {k} /\ r.client = k
  BY <1>1, <1>6
<1> QED
  BY <1>3, <1>4, <1>5, <1>6, <1>8, <1>9, <1>10, <1>11, ClientStep

(***************************************************************************)
(* A statement that is carried out, after which the script goes on.        *)
(***************************************************************************)
LEMMA GoingOn ==
  ASSUME QInv, NEW c \in Calls, NEW r \in Call, NEW s \in Session, Advances(c, s),
         UNCHANGED out, call' = [call EXCEPT ![c] = r],
         r.pc = "running", r.client = call[c].client, r.kind = call[c].kind, r.told = "nothing",
         r.at <= LastAt(r.kind), r.kind # "statement",
         s.open, s.set = SetBefore(r.kind, r.at) \/ (r.at = 5 /\ r.sql.strays = "leaves"),
         r.kind = "query" /\ r.at = 6 => r.rows = Fetched(r.sql.matched)
  PROVE  QInv'
<1> DEFINE k == call[c].client
<1>1. k \in out /\ k \in Clients
  BY AdvanceFacts DEF Advances
<1>2. session' = [session EXCEPT ![k] = s] /\ session'[k] = s /\ cuts' = cuts
  BY <1>1 DEF Advances, QInv, QueryTypeOK
<1>3. Empty(r) /\ Answer(r) /\ Place(r, out', session')
  BY <1>1, <1>2 DEF Empty, Answer, Place
<1>4. out' = out \union {k}
  BY <1>1
<1> QED
  BY <1>1, <1>2, <1>3, <1>4, ClientStep

LEMMA OpensQ == ASSUME QInv, NEW c \in Calls, Opens(c) PROVE QInv'
<1> DEFINE q == call[c]
           s == [session[q.client] EXCEPT !.tx = "open"]
           r == [q EXCEPT !.at = @ + 1]
<1>1. q.pc = "running" /\ session[q.client].open
  BY DEF Opens, Advances
<1>2. q \in Call /\ session[q.client] \in Session /\ q.at <= LastAt(q.kind) /\ q.told = "nothing"
  BY <1>1, AdvanceFacts
<1>3. q.at = 1 /\ q.kind # "statement" /\ q.kind \in {"query", "work"}
  <2>1. q.kind \in DOMAIN Script /\ q.at \in 1 .. 6
    BY <1>2 DEF Call
  <2>2. q.at = 1 /\ q.kind # "statement"
    BY <1>2, StatementFacts DEF Opens, Says
  <2> QED
    BY <2>1, <2>2 DEF Script
<1>4. session[q.client].set = {}
  <2>1. session[q.client].set = SetBefore(q.kind, q.at)
    BY <1>1, <1>3 DEF QInv, Place
  <2> QED
    BY <2>1, <1>3 DEF SetBefore
<1>5. s \in Session /\ s.open /\ s.set = {}
  BY <1>1, <1>2, <1>4 DEF Session
<1>6. /\ r \in Call /\ r.at = 2 /\ r.pc = "running" /\ r.client = q.client
      /\ r.kind = q.kind /\ r.told = "nothing"
  BY <1>1, <1>2, <1>3 DEF Call
<1>7. Advances(c, s) /\ UNCHANGED out /\ call' = [call EXCEPT ![c] = r]
  BY DEF Opens, GoesOn
<1> HIDE DEF r, s
<1>8. r.at <= LastAt(r.kind) /\ s.set = SetBefore(r.kind, r.at)
  BY <1>3, <1>5, <1>6 DEF LastAt, SetBefore
<1>9. r.kind # "statement" /\ ~ (r.kind = "query" /\ r.at = 6)
  BY <1>3, <1>6
<1> HIDE DEF q
<1> QED
  BY <1>5, <1>6, <1>7, <1>8, <1>9, GoingOn DEF q

LEMMA SetsQ == ASSUME QInv, NEW c \in Calls, Sets(c) PROVE QInv'
<1> DEFINE q == call[c]
           s == [session[q.client] EXCEPT !.set = @ \union {Statement(c)}]
           r == [q EXCEPT !.at = @ + 1]
<1>1. q.pc = "running" /\ session[q.client].open
  BY DEF Sets, Advances
<1>2. q \in Call /\ session[q.client] \in Session /\ q.at <= LastAt(q.kind) /\ q.told = "nothing"
  BY <1>1, AdvanceFacts
<1>3. /\ q.kind = "query"
      /\ \/ q.at = 2 /\ Statement(c) = "READ ONLY"
         \/ q.at = 3 /\ Statement(c) = "ROLE"
         \/ q.at = 4 /\ Statement(c) = "TIMEOUT"
  <2>1. Statement(c) \in {"READ ONLY", "ROLE", "TIMEOUT"}
    BY DEF Sets, Guards
  <2> QED
    BY <1>2, <2>1, StatementFacts DEF Says
<1>11. q.at \in 1 .. 6 /\ q.kind = "query" /\ (q.at = 2 \/ q.at = 3 \/ q.at = 4)
  BY <1>2, <1>3 DEF Call
<1>10. q.at + 1 \in 3 .. 5
  BY <1>11
<1>4. session[q.client].set = SetBefore(q.kind, q.at)
  BY <1>1, <1>11 DEF QInv, Place
<1>5. s \in Session /\ s.open /\ s.set = session[q.client].set \union {Statement(c)}
  BY <1>1, <1>2, <1>3 DEF Session, Guards
<1>6. /\ r \in Call /\ r.at = q.at + 1 /\ r.pc = "running" /\ r.client = q.client
      /\ r.kind = q.kind /\ r.told = "nothing"
  BY <1>1, <1>2, <1>10 DEF Call
<1>7. Advances(c, s) /\ UNCHANGED out /\ call' = [call EXCEPT ![c] = r]
  BY DEF Sets, GoesOn
<1> HIDE DEF r, s
<1>12. r.kind = "query" /\ r.at \in 3 .. 5
  BY <1>6, <1>10, <1>11
<1>8. r.kind # "statement" /\ r.at <= LastAt(r.kind) /\ r.at # 6
  BY <1>12 DEF LastAt
<1>9. s.set = SetBefore(r.kind, r.at)
  <2>1. CASE q.at = 2 /\ Statement(c) = "READ ONLY"
    <3>1. r.at = 3
      <4>1. q.at = 2 /\ r.at = q.at + 1
        BY <2>1, <1>6
      <4> QED
        BY <4>1
    <3>3. SetBefore(q.kind, q.at) = {}
      BY <2>1, <1>11, SetBeforeFacts
    <3>2. SetBefore(r.kind, r.at) = {"READ ONLY"}
      BY <3>1, <1>12, SetBeforeFacts
    <3> QED
      BY <2>1, <3>2, <3>3, <1>4, <1>5
  <2>2. CASE q.at = 3 /\ Statement(c) = "ROLE"
    <3>1. r.at = 4
      BY <2>2, <1>6
    <3>3. SetBefore(q.kind, q.at) = {"READ ONLY"}
      BY <2>2, <1>11, SetBeforeFacts
    <3>2. SetBefore(r.kind, r.at) = {"READ ONLY", "ROLE"}
      BY <3>1, <1>12, SetBeforeFacts
    <3> QED
      BY <2>2, <3>2, <3>3, <1>4, <1>5
  <2>3. CASE q.at = 4 /\ Statement(c) = "TIMEOUT"
    <3>1. r.at = 5
      BY <2>3, <1>6
    <3>3. SetBefore(q.kind, q.at) = {"READ ONLY", "ROLE"}
      BY <2>3, <1>11, SetBeforeFacts
    <3>2. SetBefore(r.kind, r.at) = {"READ ONLY", "ROLE", "TIMEOUT"}
      BY <3>1, <1>12, SetBeforeFacts
    <3> QED
      BY <2>3, <3>2, <3>3, <1>4, <1>5
  <2> QED
    BY <2>1, <2>2, <2>3, <1>3
<1> QED
  BY <1>3, <1>5, <1>6, <1>7, <1>8, <1>9, GoingOn

LEMMA AnswersQ == ASSUME QInv, NEW c \in Calls, Answers(c) PROVE QInv'
<1> DEFINE q == call[c]
           n == Fetched(q.sql.matched)
           r == [q EXCEPT !.at = @ + 1, !.rows = n]
<1>1. q.pc = "running" /\ session[q.client].open
  BY DEF Answers, Advances
<1>2. q \in Call /\ session[q.client] \in Session /\ q.at <= LastAt(q.kind) /\ q.told = "nothing"
  BY <1>1, AdvanceFacts
<1>3. q.kind = "query" /\ q.at = 5
  BY <1>2, StatementFacts DEF Answers, Says
<1>4. n \in 0 .. RowCap + 1
  BY <1>2, FetchedIsBounded DEF Call
<1>5. session[q.client].set = SetBefore(q.kind, q.at)
  BY <1>1 DEF QInv, Place, Answers
<1>6. Advances(c, session[q.client]) /\ UNCHANGED out /\ call' = [call EXCEPT ![c] = r]
  BY DEF Answers
<1> HIDE DEF n
<1>7. /\ r \in Call /\ r.at = 6 /\ r.pc = "running" /\ r.client = q.client
      /\ r.kind = q.kind /\ r.told = "nothing" /\ r.rows = n /\ r.sql = q.sql
  <2> DEFINE e == [q EXCEPT !.at = @ + 1]
  <2>1. /\ e \in Call /\ e.at = 6 /\ e.pc = "running" /\ e.client = q.client
        /\ e.kind = q.kind /\ e.told = "nothing" /\ e.sql = q.sql
    BY <1>1, <1>2, <1>3 DEF Call
  <2>2. r = [e EXCEPT !.rows = n]
    OBVIOUS
  <2> HIDE DEF e, r
  <2> QED
    BY <1>4, <2>1, <2>2 DEF Call
<1> HIDE DEF r
<1>8. r.at <= LastAt(r.kind) /\ session[q.client].set = SetBefore(r.kind, r.at)
  BY <1>3, <1>5, <1>7 DEF LastAt, SetBefore
<1>9. r.rows = Fetched(r.sql.matched)
  BY <1>7 DEF n
<1> QED
  BY <1>1, <1>2, <1>3, <1>6, <1>7, <1>8, <1>9, GoingOn

LEMMA LeavesQ == ASSUME QInv, NEW c \in Calls, Leaves(c) PROVE QInv'
<1> DEFINE q == call[c]
           s == Ended(session[q.client])
<1>1. q.pc = "running" /\ session[q.client].open
  BY DEF Leaves, Advances
<1>2. q \in Call /\ session[q.client] \in Session /\ q.at <= LastAt(q.kind) /\ q.told = "nothing"
  BY <1>1, AdvanceFacts
<1>3. q.kind = "query" /\ q.at = 5 /\ q.sql.strays = "leaves"
  BY <1>2, StatementFacts DEF Leaves, Says
<1>4. s \in Session /\ s.open
  BY <1>1, <1>2, EndedIsBare
<1>5. Advances(c, s) /\ UNCHANGED out /\ call' = [call EXCEPT ![c] = q]
  BY DEF Leaves, QInv, QueryTypeOK
<1> HIDE DEF s
<1>6. q.kind # "statement" /\ ~ (q.kind = "query" /\ q.at = 6)
  BY <1>3
<1> QED
  BY <1>1, <1>2, <1>3, <1>4, <1>5, <1>6, GoingOn

(***************************************************************************)
(* A call that comes to its catch, with whatever session.                  *)
(***************************************************************************)
LEMMA Undoing ==
  ASSUME QInv, NEW c \in Calls, NEW s \in Session, s.open \/ s = Closed,
         call[c].pc = "running", call[c].kind # "statement", UNCHANGED <<out, cuts>>,
         call' = [call EXCEPT ![c].pc = "undo"],
         session' = [session EXCEPT ![call[c].client] = s]
  PROVE  QInv'
<1> DEFINE k == call[c].client
           r == [call[c] EXCEPT !.pc = "undo"]
<1>1. call[c] \in Call /\ k \in out /\ k \in Clients /\ call[c].told = "nothing"
  BY AdvanceFacts
<1>2. r \in Call /\ r.pc = "undo" /\ r.client = k /\ r.told = "nothing" /\ r.kind # "statement"
  BY <1>1 DEF Call
<1>3. call' = [call EXCEPT ![c] = r]
  OBVIOUS
<1> HIDE DEF r
<1>4. Empty(r) /\ Answer(r) /\ Place(r, out', session')
  BY <1>1, <1>2 DEF Empty, Answer, Place
<1>5. out' = out \union {k}
  BY <1>1
<1> QED
  BY <1>1, <1>2, <1>3, <1>4, <1>5, ClientStep

LEMMA EscapesQ == ASSUME QInv, NEW c \in Calls, Escapes(c) PROVE QInv'
<1> DEFINE q == call[c]
<1>1. q.pc = "running" /\ session[q.client].open
  BY DEF Escapes, Advances
<1>2. q \in Call /\ session[q.client] \in Session /\ q.at <= LastAt(q.kind)
  BY <1>1, AdvanceFacts
<1>3. q.kind = "query"
  BY <1>2, StatementFacts DEF Escapes, Says
<1>4. PICK kept \in SUBSET Guards : Advances(c, [session[q.client] EXCEPT !.kept = kept])
  BY DEF Escapes
<1> DEFINE s == [session[q.client] EXCEPT !.kept = kept]
<1>5. s \in Session /\ s.open
  BY <1>1, <1>2 DEF Session
<1>6. session' = [session EXCEPT ![q.client] = s] /\ UNCHANGED <<out, cuts>>
      /\ call' = [call EXCEPT ![c].pc = "undo"]
  BY <1>4 DEF Escapes, Advances
<1> HIDE DEF s
<1> QED
  BY <1>1, <1>3, <1>5, <1>6, Undoing

(***************************************************************************)
(* Steps that give the client back.                                        *)
(***************************************************************************)
LEMMA GivingBack ==
  ASSUME QInv, NEW c \in Calls, NEW r \in Call, NEW s \in Session, Bare(s),
         s.open \/ s = Closed,
         call[c].pc \in {"running", "undo"}, Released(c),
         call' = [call EXCEPT ![c] = r], cuts' = cuts,
         session' = [session EXCEPT ![call[c].client] = s],
         r.pc = "idle", r.client = NoClient, r.at = 1, Answer(r)
  PROVE  QInv'
<1> DEFINE k == call[c].client
<1>1. k \in out /\ k \in Clients
  BY DEF QInv, QueryTypeOK, Place
<1>3. Empty(r) /\ Place(r, out', session')
  BY DEF Empty, Place
<1>4. out' = out \ {k} /\ session' = [session EXCEPT ![k] = s]
  BY DEF Released
<1> HIDE DEF k
<1>5. call[c].client = k
  BY DEF k
<1> QED
  BY <1>1, <1>3, <1>4, <1>5, ClientStep

LEMMA CommitsQ == ASSUME QInv, NEW c \in Calls, Commits(c) PROVE QInv'
<1> DEFINE q == call[c]
<1>1. q.pc = "running" /\ session[q.client].open
  BY DEF Commits, Advances
<1>2. q \in Call /\ session[q.client] \in Session /\ q.at <= LastAt(q.kind)
  BY <1>1, AdvanceFacts
<1>3. q.kind = "query" => q.at = 6
  <2>1. q.kind \in DOMAIN Script /\ q.at \in 1 .. 6
    BY <1>2 DEF Call
  <2>2. q.at = LastAt(q.kind)
    BY <1>2, StatementFacts DEF Commits, Says
  <2> QED
    BY <2>2 DEF LastAt
<1>4. q.kind = "query" => q.rows = Fetched(q.sql.matched)
  BY <1>1, <1>3 DEF QInv, Answer
<1>5. /\ Over(c) \in Call
      /\ Over(c).pc = "idle" /\ Over(c).client = NoClient /\ Over(c).at = 1
      /\ Answer(Over(c))
  BY <1>4, OverFacts DEF QInv
<1>8. PICK kept \in SUBSET Guards : Advances(c, [Ended(session[q.client]) EXCEPT !.kept = kept])
  BY DEF Commits
<1> DEFINE s == [Ended(session[q.client]) EXCEPT !.kept = kept]
<1>6. s \in Session /\ Bare(s) /\ s.open
  BY <1>1, <1>2, EndedIsBare DEF Session, Bare
<1>7. /\ Released(c) /\ call' = [call EXCEPT ![c] = Over(c)] /\ cuts' = cuts
      /\ session' = [session EXCEPT ![q.client] = s]
  BY <1>8 DEF Commits, Advances
<1> HIDE DEF s
<1> QED
  BY <1>1, <1>5, <1>6, <1>7, GivingBack

LEMMA WorksQ == ASSUME QInv, NEW c \in Calls, Works(c) PROVE QInv'
<1> DEFINE q == call[c]
<1>1. q.pc = "running" /\ session[q.client].open
  BY DEF Works, Advances
<1>2. q \in Call /\ session[q.client] \in Session /\ q.at <= LastAt(q.kind) /\ q.told = "nothing"
  BY <1>1, AdvanceFacts
<1>3. q.kind \in DOMAIN Script /\ q.at \in 1 .. 6
  BY <1>2 DEF Call
<1>4. q.kind # "query" /\ (q.kind = "work" => q.at = 2)
  BY <1>2, StatementFacts DEF Works, Says
<1>5. Advances(c, session[q.client]) /\ cuts' = cuts
      /\ session' = [session EXCEPT ![q.client] = session[q.client]]
  BY DEF Works, Advances
<1>6. CASE q.kind = "work"
  <2> DEFINE r == [q EXCEPT !.at = @ + 1]
  <2>1. /\ r \in Call /\ r.at = 3 /\ r.pc = "running" /\ r.client = q.client
        /\ r.kind = "work" /\ r.told = "nothing"
    BY <1>1, <1>2, <1>4, <1>6 DEF Call
  <2>2. session[q.client].set = {}
    <3>1. session[q.client].set = SetBefore(q.kind, q.at)
      BY <1>1, <1>4, <1>6 DEF QInv, Place
    <3> QED
      BY <3>1, <1>6 DEF SetBefore
  <2>3. UNCHANGED out /\ call' = [call EXCEPT ![c] = r]
    BY <1>6 DEF Works, GoesOn
  <2> HIDE DEF r
  <2>4. r.at <= LastAt(r.kind) /\ SetBefore(r.kind, r.at) = {}
    BY <2>1 DEF LastAt, SetBefore
  <2>5. r.kind # "statement" /\ r.kind # "query" /\ session[q.client].set = SetBefore(r.kind, r.at)
    BY <2>1, <2>2, <2>4
  <2> HIDE DEF q
  <2> QED
    BY <1>1, <1>2, <1>5, <1>6, <2>1, <2>3, <2>4, <2>5, GoingOn DEF q
<1>7. CASE q.kind # "work"
  <2>1. q.kind = "statement"
    BY <1>3, <1>4, <1>7 DEF Script
  <2>2. Bare(session[q.client])
    BY <1>1, <2>1 DEF QInv, Place
  <2>3. /\ Over(c) \in Call
        /\ Over(c).pc = "idle" /\ Over(c).client = NoClient /\ Over(c).at = 1
        /\ Answer(Over(c))
    BY <1>4, OverFacts DEF QInv
  <2>4. Released(c) /\ call' = [call EXCEPT ![c] = Over(c)]
    BY <1>7 DEF Works
  <2> QED
    BY <1>1, <1>2, <1>5, <2>2, <2>3, <2>4, GivingBack
<1> QED
  BY <1>6, <1>7

LEMMA ThrowsQ == ASSUME QInv, NEW c \in Calls, Throws(c) PROVE QInv'
<1> DEFINE q == call[c]
           k == q.client
           s == [session[k] EXCEPT !.tx = IF @ = "open" THEN "failed" ELSE @]
<1>1. q.pc = "running"
  BY DEF Throws
<1>2. q \in Call /\ k \in out /\ k \in Clients /\ session[k] \in Session /\ q.told = "nothing"
  BY <1>1, AdvanceFacts
<1>3. session' = [session EXCEPT ![k] = s] /\ cuts' = cuts
  BY DEF Throws
<1>6. s \in Session /\ (s.open \/ s = Closed)
  <2>1. s \in Session /\ s.open = session[k].open
    BY <1>2 DEF Session
  <2>2. ASSUME ~ session[k].open PROVE s = Closed
    <3>1. session[k] = Closed
      BY <1>2, <2>2 DEF QInv, ClosedIsEmpty
    <3> QED
      BY <3>1, <1>2 DEF Session, Closed
  <2> QED
    BY <2>1, <2>2
<1>4. CASE q.kind = "statement"
  <2>1. Bare(session[k])
    BY <1>1, <1>4 DEF QInv, Place
  <2>2. Bare(s)
    BY <1>2, <2>1 DEF Session, Bare
  <2>3. Released(c) /\ call' = [call EXCEPT ![c] = NoCall]
    BY <1>4 DEF Throws
  <2>4. Answer(NoCall)
    BY NoCallFacts DEF Answer
  <2> HIDE DEF s
  <2> QED
    BY <1>1, <1>3, <1>6, <2>2, <2>3, <2>4, NoCallFacts, GivingBack
<1>5. CASE q.kind # "statement"
  <2>1. UNCHANGED out /\ call' = [call EXCEPT ![c].pc = "undo"]
    BY <1>5 DEF Throws
  <2> HIDE DEF s
  <2> QED
    BY <1>1, <1>3, <1>5, <1>6, <2>1, Undoing
<1> QED
  BY <1>4, <1>5

LEMMA RollsBackQ == ASSUME QInv, NEW c \in Calls, RollsBack(c) PROVE QInv'
<1> DEFINE k == call[c].client
           s == IF session[k].open THEN Ended(session[k]) ELSE Closed
<1>1. call[c].pc = "undo" /\ k \in out /\ k \in Clients /\ session[k] \in Session
  BY DEF RollsBack, QInv, QueryTypeOK, Place
<1>2. s \in Session /\ Bare(s) /\ (s.open \/ s = Closed)
  BY <1>1, EndedIsBare, SessionFacts
<1>3. /\ Released(c) /\ call' = [call EXCEPT ![c] = NoCall] /\ cuts' = cuts
      /\ session' = [session EXCEPT ![k] = s]
  BY DEF RollsBack
<1>4. Answer(NoCall)
  BY NoCallFacts DEF Answer
<1> HIDE DEF s
<1> QED
  BY <1>1, <1>2, <1>3, <1>4, NoCallFacts, GivingBack

(***************************************************************************)
(* The server and the pool end connections.                                *)
(***************************************************************************)
LEMMA CutQ ==
  ASSUME QInv, NEW k \in Clients, session' = [session EXCEPT ![k] = Closed],
         UNCHANGED <<out, call>>, cuts' \in 0 .. MaxCuts
  PROVE  QInv'
<1>1. QueryTypeOK'
  BY SessionFacts DEF QInv, QueryTypeOK
<1>2. CleanWhenFree'
  <2>1. ASSUME NEW l \in Clients, Bare(session[l]) PROVE Bare(session'[l])
    BY <2>1, SessionFacts DEF QInv, QueryTypeOK
  <2> QED
    BY <2>1 DEF QInv, CleanWhenFree
<1>3. ClosedIsEmpty'
  BY DEF QInv, QueryTypeOK, ClosedIsEmpty
<1>4. ASSUME NEW c \in Calls
      PROVE  Empty(call[c]) /\ Answer(call[c]) /\ Place(call[c], out, session')
  <2>1. Empty(call[c]) /\ Answer(call[c]) /\ Place(call[c], out, session)
    BY DEF QInv
  <2>2. out \subseteq Clients
    BY DEF QInv, QueryTypeOK
  <2>3. \A l \in Clients : session'[l] = session[l] \/ session'[l] = Closed
    BY DEF QInv, QueryTypeOK
  <2> QED
    BY <2>1, <2>2, <2>3, SessionFacts DEF Place
<1> QED
  BY <1>1, <1>2, <1>3, <1>4 DEF QInv

LEMMA NextQ == QInv /\ [Next]_vars => QInv'
<1> SUFFICES ASSUME QInv, [Next]_vars PROVE QInv'
  OBVIOUS
<1>1. ASSUME NEW c \in Calls, Begin(c) PROVE QInv'
  BY <1>1, BeginQ
<1>2. ASSUME NEW c \in Calls, Step(c) PROVE QInv'
  BY <1>2, ConnectQ, TimesOutQ, OpensQ, SetsQ, AnswersQ, LeavesQ, EscapesQ, CommitsQ,
     WorksQ, ThrowsQ, RollsBackQ
     DEF Step
<1>3. ASSUME NEW k \in Clients, Cut(k) PROVE QInv'
  <2>1. cuts' \in 0 .. MaxCuts
    BY <1>3, QueryAssumption DEF Cut, QInv, QueryTypeOK
  <2> QED
    BY <1>3, <2>1, CutQ DEF Cut
<1>4. ASSUME NEW k \in Clients, Reap(k) PROVE QInv'
  <2>1. cuts' \in 0 .. MaxCuts
    BY <1>4 DEF Reap, QInv, QueryTypeOK
  <2> QED
    BY <1>4, <2>1, CutQ DEF Reap
<1>5. CASE UNCHANGED vars
  BY <1>5 DEF vars, QInv, QueryTypeOK, CleanWhenFree, ClosedIsEmpty
<1> QED
  BY <1>1, <1>2, <1>3, <1>4, <1>5 DEF Next

-------------------------------------------------------------------------------
(***************************************************************************)
(* The invariant holds, and with it the types.                             *)
(***************************************************************************)
THEOREM QueryInvariance == Spec => []QInv
<1> QED
  BY InitQ, NextQ, PTL DEF Spec

(***************************************************************************)
(* The state of clients, calls and answers is well typed in every run.     *)
(***************************************************************************)
THEOREM QueryTypeCorrect == Spec => []QueryTypeOK
<1>1. QInv => QueryTypeOK
  BY DEF QInv
<1> QED
  BY <1>1, QueryInvariance, PTL

(***************************************************************************)
(* A client goes back in no transaction and with nothing SET LOCAL, and    *)
(* none is lost, whatever fails on it and whatever its SQL does:           *)
(* connection-factory's pool of ten stays a pool of ten.                   *)
(***************************************************************************)
THEOREM GuardsRevert == Spec => []CleanWhenFree
<1>1. QInv => CleanWhenFree
  BY DEF QInv
<1> QED
  BY <1>1, QueryInvariance, PTL

(***************************************************************************)
(* An answer of queryReadOnly says that it was cut off just when it was.   *)
(***************************************************************************)
THEOREM AnswersAreHonest == Spec => []TruncationIsHonest
<1>1. QInv => TruncationIsHonest
  <2> SUFFICES ASSUME QInv, NEW c \in Calls, call[c].told # "nothing"
               PROVE  /\ call[c].told = "truncated" <=> call[c].rows < call[c].sql.matched
                      /\ call[c].rows <= RowCap
    BY DEF TruncationIsHonest
  <2>1. call[c].sql \in Sqls
    BY DEF QInv, QueryTypeOK, Call
  <2> DEFINE m == call[c].sql.matched
  <2>2. /\ call[c].rows = Shown(Fetched(m))
        /\ call[c].told = IF Truncated(Fetched(m)) THEN "truncated" ELSE "all"
    BY DEF QInv, Answer
  <2>3. m \in Nat /\ (Truncated(Fetched(m)) <=> m > RowCap)
    BY <2>1, FetchedIsBounded
  <2>4. Shown(Fetched(m)) = IF m > RowCap THEN RowCap ELSE m
    BY <2>3, QueryAssumption DEF Shown, Truncated, Fetched
  <2> HIDE DEF m
  <2>5. call[c].rows < m <=> m > RowCap
    BY <2>2, <2>3, <2>4, QueryAssumption
  <2>6. call[c].rows <= RowCap
    BY <2>2, <2>3, <2>4, QueryAssumption
  <2> QED
    BY <2>2, <2>3, <2>5, <2>6 DEF m
<1> QED
  BY <1>1, QueryInvariance, PTL

(***************************************************************************)
(* Only SQL that strays adds to what a session carries on.                 *)
(***************************************************************************)
LEMMA KeptByStrays ==
  ASSUME QInv, [Next]_vars, NEW k \in Clients
  PROVE  \/ session'[k].kept \subseteq session[k].kept
         \/ \E c \in Calls : call[c].client = k /\ call[c].sql.strays # "no"
<1>1. QueryTypeOK /\ session[k] \in Session /\ DOMAIN session = Clients
  BY DEF QInv, QueryTypeOK
<1>4. ASSUME NEW c \in Calls, Begin(c) \/ Connect(c) \/ TimesOut(c)
      PROVE  session'[k].kept \subseteq session[k].kept
  <2>1. CASE UNCHANGED session
    BY <2>1
  <2>2. CASE Connect(c)
    <3>1. PICK l \in Clients :
            session' = [session EXCEPT ![l] = IF @.open THEN @ ELSE Fresh]
      BY <2>2 DEF Connect
    <3> QED
      BY <1>1, <3>1, SessionFacts
  <2> QED
    BY <1>4, <2>1, <2>2 DEF Begin, TimesOut
<1>5. ASSUME NEW c \in Calls, Opens(c) \/ Sets(c) \/ Answers(c) \/ Works(c) \/ Throws(c)
      PROVE  session'[k].kept \subseteq session[k].kept
  BY <1>1, <1>5 DEF Opens, Sets, Answers, Works, Throws, Advances, Session
<1>6. ASSUME NEW c \in Calls, Leaves(c) \/ RollsBack(c)
      PROVE  session'[k].kept \subseteq session[k].kept
  BY <1>1, <1>6, SessionFacts DEF Leaves, RollsBack, Advances, Ended, Session
<1>7. ASSUME NEW c \in Calls, Escapes(c)
      PROVE  \/ session'[k].kept \subseteq session[k].kept
             \/ call[c].client = k /\ call[c].sql.strays # "no"
  BY <1>1, <1>7 DEF Escapes, Advances
<1>8. ASSUME NEW c \in Calls, Commits(c)
      PROVE  \/ session'[k].kept \subseteq session[k].kept
             \/ call[c].client = k /\ call[c].sql.strays # "no"
  <2>1. PICK kept \in SUBSET Guards :
          /\ call[c].sql.strays = "no" => kept = session[call[c].client].kept
          /\ session' = [session EXCEPT ![call[c].client] =
                           [Ended(session[call[c].client]) EXCEPT !.kept = kept]]
    BY <1>8 DEF Commits, Advances
  <2> QED
    BY <1>1, <2>1 DEF Ended
<1>9. ASSUME NEW l \in Clients, Cut(l) \/ Reap(l)
      PROVE  session'[k].kept \subseteq session[k].kept
  BY <1>1, <1>9, SessionFacts DEF Cut, Reap
<1>10. CASE UNCHANGED vars
  BY <1>10 DEF vars
<1> QED
  BY <1>4, <1>5, <1>6, <1>7, <1>8, <1>9, <1>10 DEF Next, Step

(***************************************************************************)
(* The guards hold for the SQL of every query for as long as it is in its  *)
(* transaction, and for nothing of ours; what outlives them, SQL that      *)
(* strays has set.                                                         *)
(***************************************************************************)
THEOREM GuardsHold == Spec => GuardsAreForQueries
<1>1. ASSUME QInv, NEW c \in Calls, Answers(c) PROVE AsAllowed(call[c].sql)
  <2>1. call[c].pc = "running" /\ session[call[c].client].open
    BY <1>1 DEF Answers, Advances
  <2>2. call[c] \in Call /\ call[c].at <= LastAt(call[c].kind)
    BY <1>1, <2>1, AdvanceFacts
  <2>3. call[c].kind = "query" /\ call[c].at = 5
    BY <1>1, <2>2, StatementFacts DEF Answers, Says
  <2>4. session[call[c].client].set = SetBefore(call[c].kind, call[c].at)
    BY <1>1, <2>1 DEF QInv, Place, Answers
  <2>5. session[call[c].client].set = Guards
    BY <2>3, <2>4 DEF SetBefore
  <2>6. /\ call[c].sql.wants \notin {"write", "eternity"}
        /\ call[c].sql.wants = "secret" => call[c].sql.strays = "sets"
    BY <1>1, <2>5 DEF Answers, Refused, Blocks, Guards
  <2> QED
    BY <2>2, <2>6 DEF Call, Sqls, AsAllowed
<1>2. ASSUME QInv, NEW c \in Calls, Works(c) PROVE session[call[c].client].set = {}
  <2>1. call[c].pc = "running" /\ session[call[c].client].open
    BY <1>2 DEF Works, Advances
  <2>2. call[c] \in Call /\ call[c].at <= LastAt(call[c].kind)
    BY <1>2, <2>1, AdvanceFacts
  <2>3. call[c].kind # "query"
    BY <1>2, <2>2, StatementFacts DEF Works, Says
  <2>5. call[c].at \in 1 .. 6 /\ call[c].at <= LastAt(call[c].kind)
    BY <2>2 DEF Call
  <2>6. call[c].at # 5
    BY <2>3, <2>5 DEF LastAt
  <2>4. session[call[c].client].set = SetBefore(call[c].kind, call[c].at)
    BY <1>2, <2>1, <2>6 DEF QInv, Place
  <2> QED
    BY <2>3, <2>4 DEF SetBefore
<1>3. ASSUME QInv, [Next]_vars, NEW k \in Clients
      PROVE  \/ session'[k].kept \subseteq session[k].kept
             \/ \E c \in Calls : call[c].client = k /\ call[c].sql.strays # "no"
  BY <1>3, KeptByStrays
<1>4. QInv /\ [Next]_vars =>
        [/\ \A c \in Calls :
              /\ Answers(c) => AsAllowed(call[c].sql)
              /\ Works(c) => session[call[c].client].set = {}
         /\ \A k \in Clients :
              \/ session'[k].kept \subseteq session[k].kept
              \/ \E c \in Calls : call[c].client = k /\ call[c].sql.strays # "no"]_vars
  BY <1>1, <1>2, <1>3
<1> QED
  BY <1>4, QueryInvariance, PTL DEF Spec, GuardsAreForQueries
===============================================================================
