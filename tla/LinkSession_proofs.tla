--------------------------- MODULE LinkSession_proofs ---------------------------
(***************************************************************************)
(* The link session, for any number of calls, banks and listeners: the     *)
(* types, and that what was finished in the browser is never forgotten, in *)
(* every run; and, where calls come one at a time, that only an idle page  *)
(* is taken away and that none is left when the client has gone.           *)
(*                                                                         *)
(* What carries the last two is that there is one page: whatever listens   *)
(* or has a timer is the current server, and a call that is on its way to  *)
(* start one found none.  Two calls at once break that, which is why they  *)
(* are stated of SerialSpec.                                               *)
(***************************************************************************)
EXTENDS LinkSession, TLAPS

\* The tool calls that are not answered yet come one at a time.
OneCall == \A c, d \in Calls : call[c] # Idle /\ call[d] # Idle => c = d

\* A call that waits for a port or for the listener found no page.
StartersFoundNone == \A c \in Calls : call[c].at \in {"allocate", "listen"} => current = None

\* There is one page, and one timer.
OnePage == \A s \in Servers : listener[s] = "listening" \/ timer[s] # Off => s = current

\* The timer of the page runs, and has run no longer than nobody asked.
ClockRuns ==
  current # None => timer[current] # Off /\ quiet[current] + timer[current] >= IdleTicks

\* The client went while nothing was under way, and nothing is.
GoneQuietly ==
  gone /\ ~ abandoned => current = None /\ \A c \in Calls : call[c] = Idle

IInv ==
  /\ TypeOK
  /\ OneCall /\ StartersFoundNone /\ OnePage /\ ClockRuns /\ GoneQuietly

-------------------------------------------------------------------------------
(* Types *)

InCalls == [tool : {"link", "repair"}, at : {"list", "allocate", "listen"}]

LEMMA CallKinds ==
  ASSUME TypeOK, NEW c \in Calls
  PROVE  /\ call[c].at \in {"idle", "list", "allocate", "listen"}
         /\ call[c].at = "idle" <=> call[c] = Idle
         /\ call[c] # Idle => call[c].tool \in {"link", "repair"}
<1>1. call[c] \in InCalls \union {Idle}  BY DEF TypeOK, InCalls
<1> QED  BY <1>1 DEF InCalls, Idle

\* The timers after a request are timers.
LEMMA BumpedType ==
  ASSUME TypeOK
  PROVE  Bumped \in [Servers -> 0 .. Off]
<1>1. IdleTicks \in 0 .. Off /\ timer \in [Servers -> 0 .. Off]
  BY LinkAssumption DEF TypeOK, Off
<1> QED  BY <1>1 DEF Bumped

\* An answer takes what it tells off the lists.
LEMMA AnswerType ==
  ASSUME TypeOK, NEW c \in Calls, NEW tool, Answer(c, tool), UNCHANGED <<done, gone>>
  PROVE  /\ call' = [call EXCEPT ![c] = Idle]
         /\ call' \in [Calls -> InCalls \union {Idle}]
         /\ recent' \subseteq done' /\ heard' \subseteq done'
         /\ LinkIsTold => LinkIsTold'
<1> DEFINE taken == {f \in recent : f[1] = tool}
<1>1. /\ call' = [call EXCEPT ![c] = Idle]
      /\ recent' = recent \ taken
      /\ heard' = IF gone THEN heard ELSE heard \union taken
  BY DEF Answer
<1>2. call' \in [Calls -> InCalls \union {Idle}]  BY <1>1 DEF TypeOK, InCalls
<1>3. taken \subseteq recent  OBVIOUS
<1> HIDE DEF taken
<1>4. recent' \subseteq done' /\ heard' \subseteq done'  BY <1>1, <1>3 DEF TypeOK
<1>5. LinkIsTold => LinkIsTold'  BY <1>1 DEF LinkIsTold
<1> QED  BY <1>1, <1>2, <1>4, <1>5

\* What TypeOK says, in the parts the actions change.
PageOK ==
  /\ current  \in Servers \union {None}
  /\ listener \in [Servers -> {"none", "listening", "closing"}]
  /\ timer    \in [Servers -> 0 .. Off]
  /\ quiet    \in [Servers -> 0 .. IdleTicks]
  /\ current # None => listener[current] = "listening"

CallsOK == call \in [Calls -> InCalls \union {Idle}]

BankOK ==
  /\ post  \in [Finishes -> {"idle", "asked", "held", "stored"}]
  /\ items \subseteq Items

ToldOK ==
  /\ recent \subseteq done /\ heard \subseteq done /\ done \subseteq Finishes

RestOK == requests \in 0 .. MaxRequests /\ gone \in BOOLEAN /\ abandoned \in BOOLEAN

LEMMA InParts == TypeOK <=> PageOK /\ CallsOK /\ BankOK /\ ToldOK /\ RestOK
BY DEF TypeOK, PageOK, CallsOK, BankOK, ToldOK, RestOK, InCalls

LEMMA Asking == ASSUME TypeOK, Asked  PROVE requests' \in 0 .. MaxRequests
BY LinkAssumption DEF TypeOK, Asked

LEMMA PageSame == ASSUME PageOK, UNCHANGED pageVars  PROVE PageOK'
BY DEF PageOK, pageVars

LEMMA BankSame == ASSUME BankOK, UNCHANGED <<post, items>>  PROVE BankOK'
BY DEF BankOK

LEMMA ToldSame == ASSUME ToldOK, UNCHANGED <<recent, heard, done>>  PROVE ToldOK'
BY DEF ToldOK

LEMMA RestSame == ASSUME RestOK, UNCHANGED <<requests, gone, abandoned>>  PROVE RestOK'
BY DEF RestOK

\* One more call, at a stage.
LEMMA CallAt ==
  ASSUME TypeOK, NEW c \in Calls, NEW r \in InCalls \union {Idle}, call' = [call EXCEPT ![c] = r]
  PROVE  CallsOK'
BY DEF TypeOK, CallsOK, InCalls

-------------------------------------------------------------------------------
(***************************************************************************)
(* Every step keeps the types and forgets no link and no repair.           *)
(***************************************************************************)
Told == TypeOK /\ LinkIsTold

\* The parts after a step make the whole after it.
LEMMA Together ==
  ASSUME PageOK', CallsOK', BankOK', ToldOK', RestOK', LinkIsTold'
  PROVE  Told'
BY DEF Told, TypeOK, PageOK, CallsOK, BankOK, ToldOK, RestOK, InCalls

LEMMA ReuseKeeps ==
  ASSUME Told, NEW c \in Calls, NEW tool, Reuse(c, tool)  PROVE Told'
<1>1. /\ Asked /\ timer' = Bumped /\ Answer(c, tool)
      /\ UNCHANGED <<current, listener, quiet, gone, post, items, done, abandoned>>
  BY DEF Reuse, bankVars
<1>2. TypeOK /\ LinkIsTold /\ PageOK /\ BankOK /\ ToldOK /\ RestOK  BY InParts DEF Told
<1>3. CallsOK' /\ recent' \subseteq done' /\ heard' \subseteq done' /\ LinkIsTold'
  BY <1>1, <1>2, AnswerType DEF CallsOK
<1>4. PageOK'  BY <1>1, <1>2, BumpedType DEF PageOK
<1>5. ToldOK' /\ BankOK'  BY <1>1, <1>2, <1>3 DEF ToldOK, BankOK
<1>6. RestOK'  BY <1>1, <1>2, Asking DEF RestOK
<1> QED  BY <1>3, <1>4, <1>5, <1>6, Together

\* A call moves on, and changes nothing else.
LEMMA MovesOn ==
  ASSUME Told, NEW c \in Calls, NEW r \in InCalls \union {Idle},
         call' = [call EXCEPT ![c] = r],
         UNCHANGED <<pageVars, requests, gone, bankVars, toldVars, abandoned>>
  PROVE  Told'
<1>1. CallsOK'  BY CallAt DEF Told
<1>2. PageOK' /\ BankOK' /\ ToldOK' /\ RestOK'
  BY InParts, PageSame, BankSame, ToldSame, RestSame DEF Told, bankVars, toldVars
<1>3. LinkIsTold'  BY DEF Told, LinkIsTold, bankVars, toldVars
<1> QED  BY <1>1, <1>2, <1>3, Together

LEMMA StartKeeps ==
  ASSUME Told, NEW c \in Calls, NEW tool \in {"link", "repair"}, StartLinkServer(c, tool)
  PROVE  Told'
<1>1. [tool |-> tool, at |-> "allocate"] \in InCalls  BY DEF InCalls
<1> QED  BY <1>1, MovesOn DEF StartLinkServer

LEMMA CallKeeps ==
  ASSUME Told, NEW c \in Calls, LinkBank(c) \/ RelinkBank(c) \/ Listed(c) \/ Allocated(c) \/ StartFails(c)
  PROVE  Told'
<1>1. CASE LinkBank(c)  BY <1>1, ReuseKeeps, StartKeeps DEF LinkBank
<1>2. CASE RelinkBank(c)
  <2>1. [tool |-> "repair", at |-> "list"] \in InCalls  BY DEF InCalls
  <2> QED  BY <1>2, <2>1, MovesOn DEF RelinkBank
<1>3. CASE Listed(c)  BY <1>3, ReuseKeeps, StartKeeps DEF Listed
<1>4. CASE Allocated(c)
  <2> DEFINE r == [call[c] EXCEPT !.at = "listen"]
  <2>1. call[c] \in InCalls
    <3>1. call[c] \in InCalls \union {Idle}  BY DEF Told, TypeOK, InCalls
    <3> QED  BY <1>4, <3>1 DEF Allocated, Idle
  <2>2. r \in InCalls  BY <2>1 DEF InCalls
  <2>3. call' = [call EXCEPT ![c] = r]  BY <1>4 DEF Allocated
  <2> HIDE DEF r
  <2> QED  BY <1>4, <2>2, <2>3, MovesOn DEF Allocated
<1>5. CASE StartFails(c)
  <2>1. Idle \in InCalls \union {Idle}  OBVIOUS
  <2> QED  BY <1>5, <2>1, MovesOn DEF StartFails
<1> QED  BY <1>1, <1>2, <1>3, <1>4, <1>5

LEMMA ListeningKeeps == ASSUME Told, NEW c \in Calls, Listening(c)  PROVE Told'
<1>1. PICK s \in Servers :
        /\ listener[s] = "none" /\ timer[s] = Off
        /\ listener' = [listener EXCEPT ![s] = "listening"]
        /\ current' = s
        /\ timer' = [timer EXCEPT ![s] = IdleTicks]
        /\ quiet' = [quiet EXCEPT ![s] = 0]
  BY DEF Listening
<1>2. /\ Answer(c, call[c].tool)
      /\ UNCHANGED <<requests, gone, post, items, done, abandoned>>
  BY DEF Listening, bankVars
<1>3. TypeOK /\ LinkIsTold /\ PageOK /\ BankOK /\ ToldOK /\ RestOK  BY InParts DEF Told
<1>4. CallsOK' /\ recent' \subseteq done' /\ heard' \subseteq done' /\ LinkIsTold'
  BY <1>2, <1>3, AnswerType DEF CallsOK
<1>5. PageOK'
  <2>1. IdleTicks \in 0 .. Off /\ 0 \in 0 .. IdleTicks  BY LinkAssumption DEF Off
  <2>2. timer' \in [Servers -> 0 .. Off]  BY <1>1, <1>3, <2>1 DEF PageOK
  <2>3. quiet' \in [Servers -> 0 .. IdleTicks]  BY <1>1, <1>3, <2>1 DEF PageOK
  <2> QED  BY <1>1, <1>3, <2>2, <2>3 DEF PageOK
<1>6. ToldOK' /\ BankOK' /\ RestOK'
  BY <1>2, <1>3, <1>4 DEF ToldOK, BankOK, RestOK
<1> QED  BY <1>4, <1>5, <1>6, Together

\* A request changes the clocks.
LEMMA TouchKeeps ==
  ASSUME Told, NEW s \in Servers, Touch(s)
  PROVE  PageOK' /\ CallsOK' /\ RestOK'
<1>1. /\ Asked /\ timer' = Bumped /\ quiet' = [quiet EXCEPT ![s] = 0]
      /\ UNCHANGED <<current, listener, call, gone, abandoned>>
  BY DEF Touch
<1>2. TypeOK /\ PageOK /\ CallsOK /\ RestOK  BY InParts DEF Told
<1>3. 0 \in 0 .. IdleTicks  BY LinkAssumption
<1>4. quiet' \in [Servers -> 0 .. IdleTicks]  BY <1>1, <1>2, <1>3 DEF PageOK
<1> QED  BY <1>1, <1>2, <1>4, BumpedType, Asking DEF PageOK, CallsOK, RestOK

LEMMA RequestKeeps ==
  ASSUME Told, NEW s \in Servers, Request(s) \/ \E f \in Finishes : Post(s, f)
  PROVE  Told'
<1>1. Touch(s)  BY DEF Request, Post
<1>2. UNCHANGED <<recent, heard, gone, done, items>>
  BY DEF Request, Post, Touch, toldVars, bankVars
<1>3. ToldOK /\ BankOK /\ LinkIsTold  BY InParts DEF Told
<1>4. BankOK'  BY <1>2, <1>3 DEF Request, Post, bankVars, BankOK
<1>5. ToldOK' /\ LinkIsTold'  BY <1>2, <1>3 DEF ToldOK, LinkIsTold
<1> QED  BY <1>1, <1>4, <1>5, TouchKeeps, Together

LEMMA HandledKeeps ==
  ASSUME Told, NEW f \in Finishes, NEW p \in {"idle", "asked", "held", "stored"}, Handled(f, p)
  PROVE  /\ PageOK' /\ CallsOK' /\ RestOK'
         /\ post' \in [Finishes -> {"idle", "asked", "held", "stored"}]
         /\ UNCHANGED gone
<1>1. PageOK /\ CallsOK /\ BankOK /\ RestOK  BY InParts DEF Told
<1>2. /\ post' = [post EXCEPT ![f] = p]
      /\ UNCHANGED <<pageVars, call, requests, gone, abandoned>>
  BY DEF Handled
<1>3. CallsOK'  BY <1>1, <1>2 DEF CallsOK
<1>4. post' \in [Finishes -> {"idle", "asked", "held", "stored"}]  BY <1>1, <1>2 DEF BankOK
<1> QED  BY <1>1, <1>2, <1>3, <1>4, PageSame, RestSame

LEMMA FinishedKeeps == ASSUME Told, NEW f \in Finishes, Finished(f)  PROVE Told'
<1>1. /\ Handled(f, "idle") /\ UNCHANGED items
      /\ recent' = recent \union {f} /\ done' = done \union {f} /\ heard' = heard \ {f}
  BY DEF Finished
<1>2. ToldOK /\ BankOK /\ LinkIsTold  BY InParts DEF Told
<1>3. PageOK' /\ CallsOK' /\ RestOK' /\ BankOK' /\ UNCHANGED gone
  BY <1>1, <1>2, HandledKeeps DEF BankOK
<1>4. ToldOK'  BY <1>1, <1>2 DEF ToldOK
<1>5. LinkIsTold'  BY <1>1, <1>2, <1>3 DEF LinkIsTold
<1> QED  BY <1>3, <1>4, <1>5, Together

LEMMA HandlingKeeps ==
  ASSUME Told, NEW i \in Items, Handling(i) \/ Unlink(i)  PROVE Told'
<1>1. <<"link", i>> \in Finishes /\ <<"repair", i>> \in Finishes  BY DEF Finishes
<1>2. ToldOK /\ BankOK /\ LinkIsTold  BY InParts DEF Told
<1>3. ASSUME NEW f \in Finishes, NEW p \in {"idle", "asked", "held", "stored"}, Handled(f, p),
             UNCHANGED <<done, recent, heard>>, items' \subseteq Items
      PROVE  Told'
  <2>1. PageOK' /\ CallsOK' /\ RestOK' /\ BankOK' /\ UNCHANGED gone
    BY <1>3, HandledKeeps DEF BankOK
  <2>2. ToldOK' /\ LinkIsTold'  BY <1>2, <1>3, <2>1 DEF ToldOK, LinkIsTold
  <2> QED  BY <2>1, <2>2, Together
<1>4. CASE Exchanged(i)  BY <1>4, <1>1, <1>2, <1>3 DEF Exchanged, toldVars, BankOK
<1>5. CASE SaveItem(i)  BY <1>5, <1>1, <1>2, <1>3 DEF SaveItem, toldVars, BankOK
<1>6. CASE AccountsStored(i)  BY <1>6, <1>1, FinishedKeeps DEF AccountsStored
<1>7. CASE FindItem(i)  BY <1>7, <1>1, <1>2, <1>3 DEF FindItem, toldVars, BankOK
<1>8. CASE MarkRepaired(i)  BY <1>8, <1>1, FinishedKeeps DEF MarkRepaired
<1>9. ASSUME NEW f \in Finishes, PostFails(f)  PROVE Told'
  BY <1>9, <1>2, <1>3 DEF PostFails, toldVars, BankOK
<1>10. CASE Unlink(i)
  <2>1. items' \subseteq Items  BY <1>2, <1>10 DEF Unlink, BankOK
  <2>2. UNCHANGED <<pageVars, call, requests, gone, post, done, recent, heard, abandoned>>
    BY <1>10 DEF Unlink, toldVars
  <2>3. PageOK' /\ RestOK' /\ ToldOK'  BY <2>2, InParts, PageSame, RestSame, ToldSame DEF Told
  <2>4. CallsOK' /\ BankOK' /\ LinkIsTold'
    BY <1>2, <2>1, <2>2, InParts DEF Told, CallsOK, BankOK, LinkIsTold
  <2> QED  BY <2>3, <2>4, Together
<1> QED  BY <1>1, <1>4, <1>5, <1>6, <1>7, <1>8, <1>9, <1>10 DEF Handling

\* Only the page changes.
LEMMA PageKeeps ==
  ASSUME Told, PageOK',
         UNCHANGED <<call, requests, gone, bankVars, toldVars, abandoned>>
  PROVE  Told'
<1>1. BankOK' /\ ToldOK' /\ RestOK'
  BY InParts, BankSame, ToldSame, RestSame DEF Told, bankVars, toldVars
<1>2. CallsOK' /\ LinkIsTold'  BY InParts DEF Told, CallsOK, LinkIsTold, bankVars, toldVars
<1> QED  BY <1>1, <1>2, Together

LEMMA TickKeeps == ASSUME Told, Tick  PROVE Told'
<1>1. PageOK  BY InParts DEF Told
<1>2. timer' \in [Servers -> 0 .. Off]
  <2> SUFFICES ASSUME NEW s \in Servers
               PROVE  (IF timer[s] = Off THEN Off ELSE timer[s] - 1) \in 0 .. Off
    BY DEF Tick
  <2>1. timer[s] \in 0 .. Off /\ timer[s] # 0 /\ Off \in Nat
    BY <1>1, LinkAssumption DEF Tick, PageOK, Off
  <2> QED  BY <2>1
<1>3. quiet' \in [Servers -> 0 .. IdleTicks]
  <2> SUFFICES ASSUME NEW s \in Servers
               PROVE  (IF listener[s] = "listening" /\ quiet[s] < IdleTicks
                         THEN quiet[s] + 1 ELSE quiet[s]) \in 0 .. IdleTicks
    BY DEF Tick
  <2>1. quiet[s] \in 0 .. IdleTicks /\ IdleTicks \in Nat  BY <1>1, LinkAssumption DEF PageOK
  <2> QED  BY <2>1
<1>4. PageOK'  BY <1>1, <1>2, <1>3 DEF PageOK, Tick
<1> QED  BY <1>4, PageKeeps DEF Tick

LEMMA StopKeeps ==
  ASSUME PageOK, NEW off, StopLinkServer(off), UNCHANGED quiet
  PROVE  PageOK'
<1>1. Off \in 0 .. Off  BY LinkAssumption DEF Off
<1>2. timer' \in [Servers -> 0 .. Off]  BY <1>1 DEF StopLinkServer, PageOK
<1>3. listener' \in [Servers -> {"none", "listening", "closing"}]  BY DEF StopLinkServer, PageOK
<1> QED  BY <1>2, <1>3 DEF StopLinkServer, PageOK

LEMMA ClosingKeeps ==
  ASSUME Told, NEW s \in Servers, CloseIdle(s) \/ Closed(s)  PROVE Told'
<1>1. PageOK  BY InParts DEF Told
<1>2. CASE CloseIdle(s)  BY <1>1, <1>2, StopKeeps, PageKeeps DEF CloseIdle
<1>3. CASE Closed(s)
  <2>1. s # current  BY <1>1, <1>3, LinkAssumption DEF Closed, PageOK
  <2>2. PageOK'  BY <1>1, <1>3, <2>1 DEF Closed, PageOK
  <2> QED  BY <1>3, <2>2, PageKeeps DEF Closed
<1> QED  BY <1>2, <1>3

LEMMA DisconnectKeeps == ASSUME Told, Disconnect  PROVE Told'
<1>1. PageOK /\ CallsOK /\ RestOK /\ LinkIsTold  BY InParts DEF Told
<1>2. /\ gone' = TRUE /\ abandoned' = (\E c \in Calls : call[c] # Idle)
      /\ StopLinkServer({})
      /\ UNCHANGED <<quiet, call, requests, bankVars, toldVars>>
  BY DEF Disconnect
<1>3. PageOK'  BY <1>1, <1>2, StopKeeps
<1>4. CallsOK'  BY <1>1, <1>2 DEF CallsOK
<1>5. BankOK' /\ ToldOK'  BY <1>2, InParts, BankSame, ToldSame DEF Told, bankVars, toldVars
<1>6. RestOK'
  <2>1. abandoned' \in BOOLEAN  BY <1>2
  <2> QED  BY <1>1, <1>2, <2>1 DEF RestOK
<1>7. LinkIsTold'  BY <1>2 DEF LinkIsTold
<1> QED  BY <1>3, <1>4, <1>5, <1>6, <1>7, Together

LEMMA ToldStep == ASSUME Told, [Next]_vars  PROVE Told'
<1>1. CASE \E c \in Calls : LinkBank(c) \/ RelinkBank(c) \/ Starting(c)
  BY <1>1, CallKeeps, ListeningKeeps DEF Starting
<1>2. CASE \E s \in Servers : Request(s) \/ CloseIdle(s) \/ Closed(s) \/ \E f \in Finishes : Post(s, f)
  BY <1>2, RequestKeeps, ClosingKeeps
<1>3. CASE \E i \in Items : Handling(i) \/ Unlink(i)  BY <1>3, HandlingKeeps
<1>4. CASE Tick  BY <1>4, TickKeeps
<1>5. CASE Disconnect  BY <1>5, DisconnectKeeps
<1>6. CASE UNCHANGED vars
  <2>1. PageOK'  BY <1>6, InParts, PageSame DEF Told, vars
  <2> QED  BY <1>6, <2>1, PageKeeps DEF vars
<1> QED  BY <1>1, <1>2, <1>3, <1>4, <1>5, <1>6 DEF Next

LEMMA ToldInit == ASSUME Init  PROVE Told
<1>1. Off \in 0 .. Off /\ 0 \in 0 .. IdleTicks /\ 0 \in 0 .. MaxRequests
  BY LinkAssumption DEF Off
<1>2. PageOK  BY <1>1, LinkAssumption DEF Init, PageOK
<1>3. CallsOK /\ BankOK /\ ToldOK  BY DEF Init, CallsOK, BankOK, ToldOK
<1>4. RestOK  BY <1>1 DEF Init, RestOK
<1>5. LinkIsTold  BY DEF Init, LinkIsTold
<1> QED  BY <1>2, <1>3, <1>4, <1>5, InParts DEF Told

(***************************************************************************)
(* Every variable keeps its type, whatever calls and handlers are under    *)
(* way at once; the field of the current server never names one that has   *)
(* been closed.                                                            *)
(***************************************************************************)
THEOREM TypeCorrect == Spec => []TypeOK
<1>1. Init => Told  BY ToldInit
<1>2. Told /\ [Next]_vars => Told'  BY ToldStep
<1>3. Told => TypeOK  BY DEF Told
<1> QED  BY <1>1, <1>2, <1>3, PTL DEF Spec

(***************************************************************************)
(* A link or a repair that was finished is remembered until a tool call    *)
(* has told it, in every run: two calls that take the lists at once, a     *)
(* call that fails after the page has done something, and a bank that is   *)
(* linked and repaired before anybody asks included.                       *)
(***************************************************************************)
THEOREM NothingForgotten == Spec => []LinkIsTold
<1>1. Init => Told  BY ToldInit
<1>2. Told /\ [Next]_vars => Told'  BY ToldStep
<1>3. Told => LinkIsTold  BY DEF Told
<1> QED  BY <1>1, <1>2, <1>3, PTL DEF Spec

-------------------------------------------------------------------------------
(* One call at a time *)

\* What IInv says beyond the types and the calls' number.
Lone == StartersFoundNone /\ OnePage /\ ClockRuns /\ GoneQuietly

\* Steps of handlers, and of the tables beneath them.
LEMMA LoneSame == ASSUME Lone, UNCHANGED <<pageVars, call, gone, abandoned>>  PROVE Lone'
BY DEF Lone, StartersFoundNone, OnePage, ClockRuns, GoneQuietly, pageVars

\* A call moves on; a new one only while the client is there.
LEMMA LoneMoves ==
  ASSUME TypeOK, Lone, NEW c \in Calls, NEW r, call' = [call EXCEPT ![c] = r],
         gone => call[c] # Idle,
         r.at \in {"allocate", "listen"} => current = None,
         UNCHANGED <<pageVars, gone, abandoned>>
  PROVE  Lone'
<1>1. call'[c] = r /\ \A d \in Calls \ {c} : call'[d] = call[d]  BY DEF TypeOK
<1>2. StartersFoundNone'  BY <1>1 DEF Lone, StartersFoundNone, pageVars
<1>3. OnePage' /\ ClockRuns'  BY DEF Lone, OnePage, ClockRuns, pageVars
<1>4. GoneQuietly'  BY <1>1 DEF Lone, GoneQuietly
<1> QED  BY <1>2, <1>3, <1>4 DEF Lone

LEMMA LoneReuse ==
  ASSUME TypeOK, Lone, NEW c \in Calls, NEW tool, Reuse(c, tool)  PROVE Lone'
<1>1. /\ current # None /\ timer' = Bumped /\ call' = [call EXCEPT ![c] = Idle]
      /\ UNCHANGED <<current, listener, quiet, gone, abandoned>>
  BY DEF Reuse, Answer
<1>2. call'[c] = Idle /\ \A d \in Calls \ {c} : call'[d] = call[d]  BY <1>1 DEF TypeOK
<1>3. current \in Servers /\ quiet[current] \in Nat /\ IdleTicks \in Nat
  BY <1>1, LinkAssumption DEF TypeOK
<1>4. timer'[current] = IdleTicks /\ \A s \in Servers \ {current} : timer'[s] = timer[s]
  BY <1>1, <1>3 DEF Bumped
<1>5. StartersFoundNone'  BY <1>1, <1>2 DEF Lone, StartersFoundNone, Idle
<1>6. OnePage'  BY <1>1, <1>4 DEF Lone, OnePage
<1>7. ClockRuns'  BY <1>1, <1>3, <1>4 DEF ClockRuns, Off
<1>8. GoneQuietly'  BY <1>1, <1>2 DEF Lone, GoneQuietly
<1> QED  BY <1>5, <1>6, <1>7, <1>8 DEF Lone

LEMMA LoneStart ==
  ASSUME TypeOK, Lone, NEW c \in Calls, NEW tool, StartLinkServer(c, tool),
         gone => call[c] # Idle
  PROVE  Lone'
BY LoneMoves DEF StartLinkServer

LEMMA LoneCall ==
  ASSUME TypeOK, Lone, NEW c \in Calls,
         LinkBank(c) \/ RelinkBank(c) \/ Listed(c) \/ Allocated(c) \/ StartFails(c)
  PROVE  Lone'
<1>1. CASE LinkBank(c)  BY <1>1, LoneReuse, LoneStart DEF LinkBank
<1>2. CASE RelinkBank(c)  BY <1>2, LoneMoves DEF RelinkBank
<1>3. CASE Listed(c)
  <2>1. call[c] # Idle  BY <1>3 DEF Listed, Idle
  <2> QED  BY <1>3, <2>1, LoneReuse, LoneStart DEF Listed
<1>4. CASE Allocated(c)
  <2> DEFINE r == [call[c] EXCEPT !.at = "listen"]
  <2>1. call' = [call EXCEPT ![c] = r]  BY <1>4 DEF Allocated
  <2>2. call[c] # Idle /\ current = None
    BY <1>4 DEF Allocated, Idle, Lone, StartersFoundNone
  <2> HIDE DEF r
  <2> QED  BY <1>4, <2>1, <2>2, LoneMoves DEF Allocated
<1>5. CASE StartFails(c)  BY <1>5, LoneMoves DEF StartFails, Idle
<1> QED  BY <1>1, <1>2, <1>3, <1>4, <1>5

\* The one step that makes a page, where no other call can make one too.
LEMMA LoneListening ==
  ASSUME TypeOK, OneCall, Lone, NEW c \in Calls, Listening(c)  PROVE Lone'
<1>1. PICK s \in Servers :
        /\ listener[s] = "none" /\ timer[s] = Off
        /\ listener' = [listener EXCEPT ![s] = "listening"]
        /\ current' = s
        /\ timer' = [timer EXCEPT ![s] = IdleTicks]
        /\ quiet' = [quiet EXCEPT ![s] = 0]
  BY DEF Listening
<1>2. /\ call[c].at = "listen" /\ call' = [call EXCEPT ![c] = Idle]
      /\ UNCHANGED <<gone, abandoned>>
  BY DEF Listening, Answer
<1>3. call[c] # Idle /\ current = None
  BY <1>2 DEF Idle, Lone, StartersFoundNone
<1>4. \A d \in Calls : call'[d] = Idle  BY <1>2, <1>3 DEF TypeOK, OneCall
<1>5. StartersFoundNone'  BY <1>4 DEF StartersFoundNone, Idle
<1>6. OnePage'
  <2> SUFFICES ASSUME NEW t \in Servers, t # s, listener'[t] = "listening" \/ timer'[t] # Off
               PROVE  FALSE
    BY <1>1 DEF OnePage
  <2>1. listener'[t] = listener[t] /\ timer'[t] = timer[t]  BY <1>1 DEF TypeOK
  <2>2. t # None  BY LinkAssumption
  <2> QED  BY <2>1, <2>2, <1>3 DEF Lone, OnePage
<1>7. ClockRuns'
  <2>1. timer'[s] = IdleTicks /\ quiet'[s] = 0 /\ IdleTicks \in Nat
    BY <1>1, LinkAssumption DEF TypeOK
  <2> QED  BY <2>1, <1>1 DEF ClockRuns, Off
<1>8. GoneQuietly'  BY <1>2, <1>3 DEF Lone, GoneQuietly
<1> QED  BY <1>5, <1>6, <1>7, <1>8 DEF Lone

\* Who is asked is the current server, and it is its timer that starts again.
LEMMA LoneTouch == ASSUME TypeOK, Lone, NEW s \in Servers, Touch(s)  PROVE Lone'
<1>1. /\ listener[s] = "listening" /\ timer' = Bumped /\ quiet' = [quiet EXCEPT ![s] = 0]
      /\ UNCHANGED <<current, listener, call, gone, abandoned>>
  BY DEF Touch
<1>2. s = current  BY <1>1 DEF Lone, OnePage
<1>3. timer'[s] = IdleTicks /\ \A t \in Servers \ {s} : timer'[t] = timer[t]
  BY <1>1, <1>2 DEF Bumped
<1>4. quiet'[s] = 0 /\ IdleTicks \in Nat  BY <1>1, LinkAssumption DEF TypeOK
<1>5. StartersFoundNone'  BY <1>1 DEF Lone, StartersFoundNone
<1>6. OnePage'  BY <1>1, <1>2, <1>3 DEF Lone, OnePage
<1>7. ClockRuns'  BY <1>1, <1>2, <1>3, <1>4 DEF ClockRuns, Off
<1>8. GoneQuietly'  BY <1>1 DEF Lone, GoneQuietly
<1> QED  BY <1>5, <1>6, <1>7, <1>8 DEF Lone

LEMMA LoneTick == ASSUME TypeOK, Lone, Tick  PROVE Lone'
<1>1. /\ \A s \in Servers : timer[s] # 0
      /\ timer' = [s \in Servers |-> IF timer[s] = Off THEN Off ELSE timer[s] - 1]
      /\ quiet' = [s \in Servers |-> IF listener[s] = "listening" /\ quiet[s] < IdleTicks
                                       THEN quiet[s] + 1 ELSE quiet[s]]
      /\ UNCHANGED <<current, listener, call, gone, abandoned>>
  BY DEF Tick
<1>2. StartersFoundNone' /\ GoneQuietly'
  BY <1>1 DEF Lone, StartersFoundNone, GoneQuietly
<1>3. OnePage'  BY <1>1 DEF Lone, OnePage
<1>4. ClockRuns'
  <2> SUFFICES ASSUME current # None
               PROVE  timer'[current] # Off /\ quiet'[current] + timer'[current] >= IdleTicks
    BY <1>1 DEF ClockRuns
  <2>1. /\ current \in Servers /\ listener[current] = "listening"
        /\ timer[current] \in 0 .. Off /\ quiet[current] \in 0 .. IdleTicks
        /\ IdleTicks \in Nat
    BY LinkAssumption DEF TypeOK
  <2>2. timer[current] # Off /\ quiet[current] + timer[current] >= IdleTicks
    BY DEF Lone, ClockRuns
  <2>3. timer'[current] = timer[current] - 1  BY <1>1, <2>1, <2>2
  <2>4. quiet'[current] = IF quiet[current] < IdleTicks THEN quiet[current] + 1 ELSE quiet[current]
    BY <1>1, <2>1
  <2>5. timer[current] # 0  BY <1>1, <2>1
  <2> QED  BY <2>1, <2>2, <2>3, <2>4, <2>5 DEF Off
<1> QED  BY <1>2, <1>3, <1>4 DEF Lone

\* stopLinkServer takes away the only page and the only timer.
LEMMA LoneStop ==
  ASSUME TypeOK, Lone, NEW off, StopLinkServer(off)
  PROVE  StartersFoundNone' /\ OnePage' /\ ClockRuns' /\ current' = None
<1>1. /\ current' = None
      /\ timer' = [s \in Servers |-> IF s \in off \union {current} THEN Off ELSE timer[s]]
      /\ listener' = [s \in Servers |-> IF s = current THEN "closing" ELSE listener[s]]
  BY DEF StopLinkServer
<1>2. OnePage'
  <2> SUFFICES ASSUME NEW s \in Servers, listener'[s] = "listening" \/ timer'[s] # Off
               PROVE  FALSE
    BY DEF OnePage
  <2>1. s # current  BY <1>1
  <2>2. listener[s] = "listening" \/ timer[s] # Off  BY <1>1, <2>1
  <2> QED  BY <2>1, <2>2 DEF Lone, OnePage
<1> QED  BY <1>1, <1>2 DEF StartersFoundNone, ClockRuns

LEMMA LoneClosing ==
  ASSUME TypeOK, Lone, NEW s \in Servers, CloseIdle(s) \/ Closed(s)  PROVE Lone'
<1>1. CASE CloseIdle(s)
  <2>1. StartersFoundNone' /\ OnePage' /\ ClockRuns' /\ current' = None
    BY <1>1, LoneStop DEF CloseIdle
  <2>2. GoneQuietly'  BY <1>1, <2>1 DEF CloseIdle, Lone, GoneQuietly
  <2> QED  BY <2>1, <2>2 DEF Lone
<1>2. CASE Closed(s)
  <2>1. /\ listener' = [listener EXCEPT ![s] = "none"]
        /\ UNCHANGED <<current, timer, quiet, call, gone, abandoned>>
    BY <1>2 DEF Closed
  <2>2. OnePage'  BY <2>1 DEF TypeOK, Lone, OnePage
  <2>3. StartersFoundNone' /\ ClockRuns' /\ GoneQuietly'
    BY <2>1 DEF Lone, StartersFoundNone, ClockRuns, GoneQuietly
  <2> QED  BY <2>2, <2>3 DEF Lone
<1> QED  BY <1>1, <1>2

LEMMA LoneDisconnect == ASSUME TypeOK, Lone, Disconnect  PROVE Lone'
<1>1. StartersFoundNone' /\ OnePage' /\ ClockRuns' /\ current' = None
  BY LoneStop DEF Disconnect
<1>2. abandoned' = (\E c \in Calls : call[c] # Idle) /\ UNCHANGED call
  BY DEF Disconnect
<1>3. GoneQuietly'  BY <1>1, <1>2 DEF GoneQuietly
<1> QED  BY <1>1, <1>3 DEF Lone

LEMMA LoneStep == ASSUME TypeOK, OneCall, Lone, [Next]_vars  PROVE Lone'
<1>1. CASE \E c \in Calls : LinkBank(c) \/ RelinkBank(c) \/ Starting(c)
  BY <1>1, LoneCall, LoneListening DEF Starting
<1>2. CASE \E s \in Servers : Request(s) \/ CloseIdle(s) \/ Closed(s) \/ \E f \in Finishes : Post(s, f)
  BY <1>2, LoneTouch, LoneClosing DEF Request, Post
<1>3. CASE \E i \in Items : Handling(i) \/ Unlink(i)
  <2>1. UNCHANGED <<pageVars, call, gone, abandoned>>
    BY <1>3 DEF Handling, Unlink, Exchanged, SaveItem, AccountsStored, Finished, FindItem,
       MarkRepaired, PostFails, Handled
  <2> QED  BY <2>1, LoneSame
<1>4. CASE Tick  BY <1>4, LoneTick
<1>5. CASE Disconnect  BY <1>5, LoneDisconnect
<1>6. CASE UNCHANGED vars  BY <1>6, LoneSame DEF vars
<1> QED  BY <1>1, <1>2, <1>3, <1>4, <1>5, <1>6 DEF Next

LEMMA Start == Init => IInv
<1> SUFFICES ASSUME Init  PROVE IInv
  OBVIOUS
<1>1. TypeOK  BY ToldInit DEF Told
<1>2. OneCall /\ StartersFoundNone  BY DEF Init, OneCall, StartersFoundNone
<1>3. OnePage /\ ClockRuns /\ GoneQuietly  BY DEF Init, OnePage, ClockRuns, GoneQuietly
<1> QED  BY <1>1, <1>2, <1>3 DEF IInv

LEMMA Step == ASSUME IInv, LinkIsTold, [SerialNext]_vars  PROVE IInv' /\ LinkIsTold'
<1>1. [Next]_vars  BY DEF SerialNext
<1>2. Told /\ OneCall /\ Lone  BY DEF IInv, Told, Lone
<1>3. TypeOK' /\ LinkIsTold'
  <2>1. Told'  BY <1>1, <1>2, ToldStep
  <2> QED  BY <2>1 DEF Told
<1>4. Lone'  BY <1>1, <1>2, LoneStep DEF Told
<1>5. OneCall'
  <2>1. CASE SerialNext  BY <2>1 DEF SerialNext, OneCall
  <2>2. CASE UNCHANGED vars  BY <2>2, <1>2 DEF vars, OneCall
  <2> QED  BY <2>1, <2>2
<1> QED  BY <1>3, <1>4, <1>5 DEF IInv, Lone

(***************************************************************************)
(* Every reachable state of a session whose calls come one at a time       *)
(* satisfies the invariant.                                                *)
(***************************************************************************)
THEOREM Invariance == SerialSpec => []IInv
<1>1. Init => IInv /\ LinkIsTold  BY Start, ToldInit DEF Told
<1>2. IInv /\ LinkIsTold /\ [SerialNext]_vars => (IInv /\ LinkIsTold)'  BY Step
<1> QED  BY <1>1, <1>2, PTL DEF SerialSpec

(***************************************************************************)
(* A session whose calls come one at a time is a session: what holds of    *)
(* every run holds of its runs.                                            *)
(***************************************************************************)
THEOREM SerialIsSession == SerialSpec => Spec
<1>1. [SerialNext]_vars => [Next]_vars  BY DEF SerialNext
<1> QED  BY <1>1, PTL DEF SerialSpec, Spec

(***************************************************************************)
(* The client that goes while no call is under way leaves no listener that *)
(* would keep the process alive.                                           *)
(***************************************************************************)
THEOREM NothingIsLeft == SerialSpec => []NothingListensAfterwards
<1>1. IInv => NothingListensAfterwards
  <2> SUFFICES ASSUME IInv, gone, ~ abandoned, NEW s \in Servers  PROVE listener[s] # "listening"
    BY DEF NothingListensAfterwards
  <2>1. current = None  BY DEF IInv, GoneQuietly
  <2>2. s # None  BY LinkAssumption
  <2> QED  BY <2>1, <2>2 DEF IInv, OnePage
<1> QED  BY <1>1, Invariance, PTL

(***************************************************************************)
(* A page is taken away, while the client is there, only after ten minutes *)
(* in which nobody asked it for anything.                                  *)
(***************************************************************************)
THEOREM OnlyIdlePagesGo == SerialSpec => PageStays
<1> DEFINE Stays ==
      \A s \in Servers :
        listener[s] = "listening" /\ listener'[s] = "closing" /\ ~ gone' => quiet[s] = IdleTicks
<1>1. IInv /\ [SerialNext]_vars => [Stays]_vars
  <2> SUFFICES ASSUME IInv, SerialNext, NEW s \in Servers,
                      listener[s] = "listening", listener'[s] = "closing", ~ gone'
               PROVE  quiet[s] = IdleTicks
    OBVIOUS
  <2>1. TypeOK /\ s = current /\ s # None
    BY LinkAssumption DEF IInv, OnePage
  <2>2. PICK t \in Servers : CloseIdle(t)
    <3>1. Next  BY DEF SerialNext
    <3>2. CASE \E c \in Calls : LinkBank(c) \/ RelinkBank(c) \/ Starting(c)
      <4>1. PICK c \in Calls : LinkBank(c) \/ RelinkBank(c) \/ Starting(c)  BY <3>2
      <4>2. CASE Listening(c)  BY <4>2, <2>1 DEF Listening, TypeOK
      <4>3. CASE ~ Listening(c)
        <5>1. UNCHANGED listener
          BY <4>1, <4>3 DEF LinkBank, RelinkBank, Starting, Listed, Allocated, StartFails,
             Reuse, StartLinkServer, pageVars
        <5> QED  BY <5>1
      <4> QED  BY <4>2, <4>3
    <3>3. CASE \E u \in Servers : Request(u) \/ Closed(u) \/ \E f \in Finishes : Post(u, f)
      <4>1. PICK u \in Servers : Request(u) \/ Closed(u) \/ \E f \in Finishes : Post(u, f)  BY <3>3
      <4>2. UNCHANGED listener \/ listener' = [listener EXCEPT ![u] = "none"]
        BY <4>1 DEF Request, Post, Touch, Closed
      <4> QED  BY <4>2, <2>1 DEF TypeOK
    <3>4. CASE \E i \in Items : Handling(i) \/ Unlink(i)
      <4>1. UNCHANGED listener
        BY <3>4 DEF Handling, Unlink, Exchanged, SaveItem, AccountsStored, Finished, FindItem,
           MarkRepaired, PostFails, Handled, pageVars
      <4> QED  BY <4>1
    <3>5. CASE Tick  BY <3>5 DEF Tick
    <3>6. CASE Disconnect  BY <3>6 DEF Disconnect
    <3> QED  BY <3>1, <3>2, <3>3, <3>4, <3>5, <3>6 DEF Next
  <2>3. timer[t] = 0 /\ timer[t] # Off  BY <2>2, LinkAssumption DEF CloseIdle, Off
  <2>4. t = s  BY <2>1, <2>3 DEF IInv, OnePage
  <2>5. quiet[s] + 0 >= IdleTicks  BY <2>1, <2>3, <2>4 DEF IInv, ClockRuns
  <2>6. quiet[s] \in 0 .. IdleTicks /\ IdleTicks \in Nat  BY <2>1, LinkAssumption DEF TypeOK
  <2> QED  BY <2>5, <2>6
<1> QED  BY <1>1, Invariance, PTL DEF SerialSpec, PageStays
===============================================================================
