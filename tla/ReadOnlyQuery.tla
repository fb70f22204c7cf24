----------------------------- MODULE ReadOnlyQuery -----------------------------
(***************************************************************************)
(* queryReadOnly() beside the other statements of one process, on the      *)
(* clients of one pool.  A client's session at the server remembers the    *)
(* transaction it is in and what was SET in it, and goes from one call to  *)
(* the next; what PostgreSQL refuses depends on both.  The SQL is sent as  *)
(* it is, in a wrapper of text and, without parameters, in a message that  *)
(* may hold several statements: it may set what outlives its transaction,  *)
(* and may end the transaction it was given.                               *)
(***************************************************************************)
EXTENDS Naturals, Sequences, FiniteSets

CONSTANTS
  Calls,       \* calls of the process that can be under way at once
  Clients,     \* the clients a pool may have: max, 10 in the source
  NoClient,
  RowCap,      \* 1000 in the source
  MaxRows,     \* bound on the rows some SQL matches
  MaxCuts      \* bound on connections the server ends

ASSUME QueryAssumption ==
  /\ NoClient \notin Clients
  /\ RowCap \in Nat \ {0}
  /\ MaxRows \in Nat
  /\ MaxCuts \in Nat

VARIABLES
  session,  \* of each client, at the server
  out,      \* clients that are checked out of the pool
  call,     \* what each call is at and what it holds
  cuts

vars == <<session, out, call, cuts>>

-------------------------------------------------------------------------------
(* Sessions, as far as the guards need them. *)

Guards == {"READ ONLY", "ROLE", "TIMEOUT"}

Session == [open : BOOLEAN, tx : {"none", "open", "failed"},
            set  : SUBSET Guards,      \* for the transaction
            kept : SUBSET Guards]      \* for as long as the connection lasts

Closed == [open |-> FALSE, tx |-> "none", set |-> {}, kept |-> {}]
Fresh  == [open |-> TRUE,  tx |-> "none", set |-> {}, kept |-> {}]

\* What a model may ask for: some rows; a write, dressed as a SELECT; a column its
\* role has no business with; rows without end.  And what else its SQL may do: set
\* something for the session, or end its transaction before the rest of it runs.
Sqls == [wants : {"rows"}, matched : 0 .. MaxRows, strays : {"no", "sets"}]
          \union [wants : {"write", "secret", "eternity"}, matched : {0},
                  strays : {"no", "sets", "leaves"}]

\* A role can be set aside by the SQL it is to hold; the mode of a transaction that
\* has begun to read cannot, and a timer that runs cannot.
Blocks(guard, sql) ==
  \/ guard = "READ ONLY" /\ sql.wants = "write"
  \/ guard = "ROLE"      /\ sql.wants = "secret" /\ sql.strays # "sets"
  \/ guard = "TIMEOUT"   /\ sql.wants = "eternity"

Refused(k, sql) == \E guard \in session[k].set \union session[k].kept : Blocks(guard, sql)

\* Faulty variant of Ended: SET, which outlives its transaction.
EndedKeeping(s) == [s EXCEPT !.tx = "none"]

\* COMMIT, and ROLLBACK: what was SET LOCAL goes with the transaction.
Ended(s) == [open |-> s.open, tx |-> "none", set |-> {}, kept |-> s.kept]

Bare(s) == s.tx = "none" /\ s.set = {}

-------------------------------------------------------------------------------
(* Calls. *)

\* Faulty variants of Script: as the role of the application, and without a timeout.
ScriptAsOurselves ==
  [query     |-> <<"BEGIN", "READ ONLY", "TIMEOUT", "SQL", "COMMIT">>,
   work      |-> <<"BEGIN", "OWN", "COMMIT">>,
   statement |-> <<"OWN">>]


\* What each sends, in order; a single db.query has no transaction.
Script ==
  [query     |-> <<"BEGIN", "READ ONLY", "ROLE", "TIMEOUT", "SQL", "COMMIT">>,
   work      |-> <<"BEGIN", "OWN", "COMMIT">>,
   statement |-> <<"OWN">>]

\* Faulty variant of Fetched: LIMIT rowCap.
FetchedToTheCap(matched) == IF matched > RowCap THEN RowCap ELSE matched

\* LIMIT rowCap + 1, and the slice.
Fetched(matched)  == IF matched > RowCap + 1 THEN RowCap + 1 ELSE matched
Truncated(rows)   == rows > RowCap
Shown(rows)       == IF Truncated(rows) THEN RowCap ELSE rows

Call == [pc     : {"idle", "waiting", "running", "undo"},
         kind   : DOMAIN Script,
         sql    : Sqls,
         client : Clients \union {NoClient},
         at     : 1 .. 6,                           \* its next statement
         rows   : 0 .. RowCap + 1,                  \* what its SQL fetched
         told   : {"nothing", "all", "truncated"}]

NoSql == [wants |-> "rows", matched |-> 0, strays |-> "no"]

NoCall == [pc |-> "idle", kind |-> "statement", sql |-> NoSql, client |-> NoClient,
           at |-> 1, rows |-> 0, told |-> "nothing"]

QueryTypeOK ==
  /\ session \in [Clients -> Session]
  /\ out     \subseteq Clients
  /\ call    \in [Calls -> Call]
  /\ cuts    \in 0 .. MaxCuts

Init ==
  /\ session = [k \in Clients |-> Closed]
  /\ out = {}
  /\ call = [c \in Calls |-> NoCall]
  /\ cuts = 0

Statement(c) == Script[call[c].kind][call[c].at]

\* A query that was answered remembers what it asked and what it was told.
Over(c) ==
  IF call[c].kind # "query" THEN NoCall
  ELSE [NoCall EXCEPT !.kind = "query", !.sql = call[c].sql, !.rows = Shown(call[c].rows),
                      !.told = IF Truncated(call[c].rows) THEN "truncated" ELSE "all"]

Begin(c) ==
  /\ call[c].pc = "idle"
  /\ \E kind \in DOMAIN Script, sql \in Sqls :
       /\ kind # "query" => sql = NoSql
       /\ call' = [call EXCEPT ![c] = [NoCall EXCEPT !.pc = "waiting", !.kind = kind, !.sql = sql]]
  /\ UNCHANGED <<session, out, cuts>>

\* pool.connect: an idle client, or a new one.
Connect(c) ==
  /\ call[c].pc = "waiting"
  /\ \E k \in Clients \ out :
       /\ out' = out \union {k}
       /\ session' = [session EXCEPT ![k] = IF @.open THEN @ ELSE Fresh]
       /\ call' = [call EXCEPT ![c].pc = "running", ![c].client = k]
  /\ UNCHANGED cuts

\* connectionTimeoutMillis
TimesOut(c) ==
  /\ call[c].pc = "waiting"
  /\ call' = [call EXCEPT ![c] = NoCall]
  /\ UNCHANGED <<session, out, cuts>>

Released(c) == out' = out \ {call[c].client}

\* The script's next statement is carried out.
Advances(c, s) ==
  /\ call[c].pc = "running" /\ session[call[c].client].open
  /\ session' = [session EXCEPT ![call[c].client] = s]
  /\ UNCHANGED cuts

GoesOn(c) == call' = [call EXCEPT ![c].at = @ + 1] /\ UNCHANGED out

Opens(c) ==
  /\ Statement(c) = "BEGIN"
  /\ Advances(c, [session[call[c].client] EXCEPT !.tx = "open"])
  /\ GoesOn(c)

Sets(c) ==
  /\ Statement(c) \in Guards
  /\ Advances(c, [session[call[c].client] EXCEPT !.set = @ \union {Statement(c)}])
  /\ GoesOn(c)

\* SQL in its transaction is answered with rows - or does what it was written to do.
Answers(c) ==
  /\ Statement(c) = "SQL" /\ call[c].sql.strays # "leaves"
  /\ call[c].sql.wants # "eternity" /\ ~ Refused(call[c].client, call[c].sql)
  /\ Advances(c, session[call[c].client])
  /\ call' = [call EXCEPT ![c].at = @ + 1, ![c].rows = Fetched(call[c].sql.matched)]
  /\ UNCHANGED out

\* SQL ends the transaction it was given, and what was SET LOCAL with it.
Leaves(c) ==
  /\ Statement(c) = "SQL" /\ call[c].sql.strays = "leaves"
  /\ session[call[c].client].tx = "open"
  /\ Advances(c, Ended(session[call[c].client]))
  /\ UNCHANGED <<out, call>>

\* The rest of it runs as the application; several results are more than the caller
\* can read, which throws.
Escapes(c) ==
  LET s == session[call[c].client] IN
  /\ Statement(c) = "SQL" /\ call[c].sql.strays = "leaves" /\ s.tx = "none"
  /\ call[c].sql.wants # "eternity" /\ ~ Refused(call[c].client, call[c].sql)
  /\ \E kept \in SUBSET Guards : Advances(c, [s EXCEPT !.kept = kept])
  /\ call' = [call EXCEPT ![c].pc = "undo"]
  /\ UNCHANGED out

\* What SQL has set for its session is the session's once its transaction commits.
Commits(c) ==
  LET s == session[call[c].client] IN
  /\ Statement(c) = "COMMIT"
  /\ \E kept \in SUBSET Guards :
       /\ call[c].sql.strays = "no" => kept = s.kept
       /\ Advances(c, [Ended(s) EXCEPT !.kept = kept])
  /\ call' = [call EXCEPT ![c] = Over(c)]
  /\ Released(c)

\* A statement of ours; one outside of a transaction is the call.
Works(c) ==
  /\ Statement(c) = "OWN"
  /\ Advances(c, session[call[c].client])
  /\ IF call[c].kind = "work" THEN GoesOn(c)
     ELSE call' = [call EXCEPT ![c] = Over(c)] /\ Released(c)

\* A statement fails: refused by a guard, wrong, cancelled, or without a connection.
\* A single statement needs no more; a transaction is in its catch.
Throws(c) ==
  LET k == call[c].client IN
  /\ call[c].pc = "running"
  /\ Statement(c) = "SQL" /\ call[c].sql.wants = "eternity" /\ session[k].open =>
       Refused(k, call[c].sql)
  /\ session' = [session EXCEPT ![k].tx = IF @ = "open" THEN "failed" ELSE @]
  /\ IF call[c].kind = "statement"
       THEN call' = [call EXCEPT ![c] = NoCall] /\ Released(c)
       ELSE call' = [call EXCEPT ![c].pc = "undo"] /\ UNCHANGED out
  /\ UNCHANGED cuts

\* ROLLBACK, which may find no connection either, and release.
RollsBack(c) ==
  LET k == call[c].client IN
  /\ call[c].pc = "undo"
  /\ session' = [session EXCEPT ![k] = IF @.open THEN Ended(@) ELSE Closed]
  /\ call' = [call EXCEPT ![c] = NoCall]
  /\ Released(c)
  /\ UNCHANGED cuts

-------------------------------------------------------------------------------
(* The server ends a connection, and the pool one that was idle for long. *)

Cut(k) ==
  /\ session[k].open /\ cuts < MaxCuts
  /\ session' = [session EXCEPT ![k] = Closed]
  /\ cuts' = cuts + 1
  /\ UNCHANGED <<out, call>>

Reap(k) ==
  /\ session[k].open /\ k \notin out
  /\ session' = [session EXCEPT ![k] = Closed]
  /\ UNCHANGED <<out, call, cuts>>

\* What a call does once it began, if nothing kills the process.
Step(c) ==
  \/ Connect(c) \/ TimesOut(c)
  \/ Opens(c) \/ Sets(c) \/ Answers(c) \/ Leaves(c) \/ Escapes(c)
  \/ Commits(c) \/ Works(c)
  \/ Throws(c) \/ RollsBack(c)

Next ==
  \/ \E c \in Calls : Begin(c) \/ Step(c)
  \/ \E k \in Clients : Cut(k) \/ Reap(k)

Spec == Init /\ [][Next]_vars

\* Every statement is answered but SQL without end; timers fire.
FairSpec == Spec /\ \A c \in Calls : WF_vars(Step(c))

-------------------------------------------------------------------------------
(***************************************************************************)
(* The reversion: a client nobody holds is in no transaction and carries   *)
(* none of the guards a call has SET LOCAL, whatever its SQL did and       *)
(* however it ended; and every client that is out is held by one call, so  *)
(* none is lost.                                                           *)
(***************************************************************************)
CleanWhenFree ==
  /\ \A k \in Clients \ out : Bare(session[k])
  /\ \A k \in out : \E c \in Calls : call[c].client = k
  /\ \A c, d \in Calls : call[c].client = call[d].client /\ c # d => call[c].client = NoClient

\* What a guard that SQL cannot set aside lets through.
AsAllowed(sql) == sql.wants = "rows" \/ (sql.wants = "secret" /\ sql.strays = "sets")

(***************************************************************************)
(* SQL in its transaction that would write, or reach what its role may     *)
(* not, is never carried out unless it sets its role aside, no statement   *)
(* of ours is under what a query has SET LOCAL, and nothing outlives its   *)
(* transaction but what SQL of a model that strays has set, whatever order *)
(* calls and failures come in.  It promises nothing of SQL that leaves its *)
(* transaction: the next two say what would be so if SQL could not stray,  *)
(* and the code makes neither so.                                          *)
(***************************************************************************)
GuardsAreForQueries ==
  [][/\ \A c \in Calls :
          /\ Answers(c) => AsAllowed(call[c].sql)
          /\ Works(c) => session[call[c].client].set = {}
     /\ \A k \in Clients :
          \/ session'[k].kept \subseteq session[k].kept
          \/ \E c \in Calls : call[c].client = k /\ call[c].sql.strays # "no"]_vars

\* A client that is free carries nothing.
NothingIsKept == \A k \in Clients \ out : session[k].kept = {}

\* SQL is carried out under the guards, or not at all.
NoSqlEscapes ==
  [][\A c \in Calls : Answers(c) \/ Escapes(c) => call[c].sql.wants = "rows"]_vars

(***************************************************************************)
(* "The only honest way to tell": an answer says that it was cut off just  *)
(* when more rows matched than are shown.                                  *)
(***************************************************************************)
TruncationIsHonest ==
  \A c \in Calls :
    call[c].told # "nothing" =>
      /\ call[c].told = "truncated" <=> call[c].rows < call[c].sql.matched
      /\ call[c].rows <= RowCap

\* SQL without end that has left its transaction, and its timeout with it.
Endless(c) == call[c].sql.strays = "leaves" /\ call[c].sql.wants = "eternity"

===============================================================================
