------------------------------ MODULE LinkSession ------------------------------
(***************************************************************************)
(* The link session of one process.  The tools link_bank and relink_bank   *)
(* (or the command link) start a page on 127.0.0.1 and return its url.  The *)
(* user's browser finishes links and repairs there, minutes later, which   *)
(* the process remembers for a later call to tell.  Ten minutes without a  *)
(* request end the page, and so does the client that goes away.            *)
(*                                                                         *)
(* The code between two awaits is one action, so two calls interleave      *)
(* where startLinkServer awaits the port and the listener, and handlers of *)
(* the page where they await Plaid and the database.                       *)
(***************************************************************************)
EXTENDS Naturals

CONSTANTS
  Calls,       \* tool calls that can be under way
  Items,       \* banks that can be linked or repaired
  Servers,     \* bound on the listeners there can be
  None,        \* no server
  IdleTicks,   \* IDLE_MS
  MaxRequests  \* bound on how often anybody asks for a page that is there

ASSUME LinkAssumption ==
  /\ None \notin Servers
  /\ IdleTicks \in Nat \ {0}
  /\ MaxRequests \in Nat

VARIABLES
  current,     \* the field of that name
  listener,    \* what each express server does
  timer,       \* ticks left on the idle timer of each State, or Off
  quiet,       \* ticks since anybody asked something of the server
  call,        \* the tool of each call, and where it is
  requests,    \* how often somebody asked for a page that was there
  gone,        \* has the client gone away?
  post,        \* where the handler of each link or repair is
  items,       \* banks with a row
  recent,      \* recentLinks and recentRepairs
  done,        \* history: links and repairs that were answered with success
  heard,       \* history: those the client was told of, since they were last done
  abandoned    \* history: did the client go while a call was under way?

pageVars == <<current, listener, timer, quiet>>
bankVars == <<post, items, done>>
toldVars == <<recent, heard>>
vars == <<pageVars, call, requests, gone, bankVars, toldVars, abandoned>>

Off == IdleTicks + 1   \* no timer

Finishes == {"link", "repair"} \X Items

Idle == [tool |-> "none", at |-> "idle"]

TypeOK ==
  /\ current  \in Servers \union {None}
  /\ listener \in [Servers -> {"none", "listening", "closing"}]
  /\ timer    \in [Servers -> 0 .. Off]
  /\ quiet    \in [Servers -> 0 .. IdleTicks]
  /\ call     \in [Calls -> [tool : {"link", "repair"}, at : {"list", "allocate", "listen"}] \union {Idle}]
  /\ requests \in 0 .. MaxRequests
  /\ gone     \in BOOLEAN
  /\ post     \in [Finishes -> {"idle", "asked", "held", "stored"}]
  /\ items    \subseteq Items
  /\ recent   \subseteq done
  /\ heard    \subseteq done
  /\ done     \subseteq Finishes
  /\ abandoned \in BOOLEAN
  /\ current # None => listener[current] = "listening"   \* forgotten before it is closed

Init ==
  /\ current = None
  /\ listener = [s \in Servers |-> "none"]
  /\ timer = [s \in Servers |-> Off]
  /\ quiet = [s \in Servers |-> 0]
  /\ call = [c \in Calls |-> Idle]
  /\ requests = 0
  /\ gone = FALSE
  /\ post = [f \in Finishes |-> "idle"]
  /\ items \in SUBSET Items
  /\ recent = {} /\ done = {} /\ heard = {}
  /\ abandoned = FALSE

-------------------------------------------------------------------------------
(* The tools *)

\* bumpIdle: the timer of the current server, whoever was asked.
Bumped == [s \in Servers |-> IF s = current THEN IdleTicks ELSE timer[s]]

Asked == requests < MaxRequests /\ requests' = requests + 1

\* The tool returns the url with what it takes off its list: takeRecentLinks
\* for link_bank, takeRecentRepairs for relink_bank.
Answer(c, tool) ==
  LET taken == {f \in recent : f[1] = tool}
  IN  /\ call' = [call EXCEPT ![c] = Idle]
      /\ recent' = recent \ taken
      /\ heard' = IF gone THEN heard ELSE heard \union taken

\* startLinkServer: one is running, and its url is the answer ...
Reuse(c, tool) ==
  /\ current # None
  /\ Asked
  /\ timer' = Bumped
  /\ Answer(c, tool)
  /\ UNCHANGED <<current, listener, quiet, gone, bankVars, abandoned>>

\* ... or there is none, and a port is wanted.
StartLinkServer(c, tool) ==
  /\ current = None
  /\ call' = [call EXCEPT ![c] = [tool |-> tool, at |-> "allocate"]]
  /\ UNCHANGED <<pageVars, requests, gone, bankVars, toldVars, abandoned>>

LinkBank(c) ==
  /\ ~ gone /\ call[c] = Idle
  /\ Reuse(c, "link") \/ StartLinkServer(c, "link")

\* relink_bank lists the banks first.
RelinkBank(c) ==
  /\ ~ gone /\ call[c] = Idle
  /\ call' = [call EXCEPT ![c] = [tool |-> "repair", at |-> "list"]]
  /\ UNCHANGED <<pageVars, requests, gone, bankVars, toldVars, abandoned>>

Listed(c) ==
  /\ call[c].at = "list" /\ items # {}
  /\ Reuse(c, "repair") \/ StartLinkServer(c, "repair")

Allocated(c) ==
  /\ call[c].at = "allocate"
  /\ call' = [call EXCEPT ![c].at = "listen"]
  /\ UNCHANGED <<pageVars, requests, gone, bankVars, toldVars, abandoned>>

\* Faulty variant of StartFails: the lists were taken before the page was started.
StartFailsTaken(c) ==
  /\ call[c] # Idle
  /\ call' = [call EXCEPT ![c] = Idle]
  /\ recent' = {f \in recent : f[1] # call[c].tool}
  /\ UNCHANGED <<pageVars, requests, gone, bankVars, heard, abandoned>>

\* No such bank, no database, no port, or an error other than EADDRINUSE.
StartFails(c) ==
  /\ call[c] # Idle
  /\ call' = [call EXCEPT ![c] = Idle]
  /\ UNCHANGED <<pageVars, requests, gone, bankVars, toldVars, abandoned>>

\* Faulty variant of Listening: no timer.
ListeningUntimed(c) ==
  /\ call[c].at = "listen"
  /\ \E s \in Servers :
       /\ listener[s] = "none" /\ timer[s] = Off
       /\ listener' = [listener EXCEPT ![s] = "listening"]
       /\ current' = s
       /\ quiet' = [quiet EXCEPT ![s] = 0]
  /\ Answer(c, call[c].tool)
  /\ UNCHANGED <<timer, requests, gone, bankVars, abandoned>>

\* The preferred port or any other is bound; this server is the current one now.
Listening(c) ==
  /\ call[c].at = "listen"
  /\ \E s \in Servers :
       /\ listener[s] = "none" /\ timer[s] = Off
       /\ listener' = [listener EXCEPT ![s] = "listening"]
       /\ current' = s
       /\ timer' = [timer EXCEPT ![s] = IdleTicks]
       /\ quiet' = [quiet EXCEPT ![s] = 0]
  /\ Answer(c, call[c].tool)
  /\ UNCHANGED <<requests, gone, bankVars, abandoned>>

-------------------------------------------------------------------------------
(* The page *)

\* Faulty variant of Touch: only the listener's first request is noticed.
TouchNothing(s) ==
  /\ listener[s] = "listening"
  /\ Asked
  /\ quiet' = [quiet EXCEPT ![s] = 0]
  /\ UNCHANGED <<current, listener, timer, call, gone, toldVars, abandoned>>

\* Whatever is asked of a listener, the page itself or a post to it.
Touch(s) ==
  /\ listener[s] = "listening"
  /\ Asked
  /\ timer' = Bumped
  /\ quiet' = [quiet EXCEPT ![s] = 0]
  /\ UNCHANGED <<current, listener, call, gone, toldVars, abandoned>>

\* The page, its environment, or a token to open Plaid Link with.
Request(s) == Touch(s) /\ UNCHANGED bankVars

\* exchange_public_token for a new Item, or repair_complete for any.
Post(s, f) ==
  /\ Touch(s)
  /\ post[f] = "idle"
  /\ f[1] = "link" => f \notin done /\ f[2] \notin items
  /\ post' = [post EXCEPT ![f] = "asked"]
  /\ UNCHANGED <<items, done>>

Handled(f, p) == post' = [post EXCEPT ![f] = p] /\ UNCHANGED <<pageVars, call, requests, gone, abandoned>>

\* The handler's last lines: it remembers what it did, and answers.
Finished(f) ==
  /\ Handled(f, "idle")
  /\ recent' = recent \union {f}
  /\ done' = done \union {f}
  /\ heard' = heard \ {f}
  /\ UNCHANGED items

\* Plaid has exchanged the public token (and told the institution's name, or not).
Exchanged(i) ==
  /\ post[<<"link", i>>] = "asked"
  /\ Handled(<<"link", i>>, "held")
  /\ UNCHANGED <<items, done, toldVars>>

SaveItem(i) ==
  /\ post[<<"link", i>>] = "held"
  /\ Handled(<<"link", i>>, "stored")
  /\ items' = items \union {i}
  /\ UNCHANGED <<done, toldVars>>

\* The accounts have been fetched and are written beneath the row.
AccountsStored(i) ==
  /\ post[<<"link", i>>] = "stored" /\ i \in items
  /\ Finished(<<"link", i>>)

\* requirePlaidItem
FindItem(i) ==
  /\ post[<<"repair", i>>] = "asked" /\ i \in items
  /\ Handled(<<"repair", i>>, "held")
  /\ UNCHANGED <<items, done, toldVars>>

\* The status is set, where the row still is.
MarkRepaired(i) ==
  /\ post[<<"repair", i>>] = "held"
  /\ Finished(<<"repair", i>>)

\* Any await of a handler throws: 500, and the reason.
PostFails(f) ==
  /\ post[f] # "idle"
  /\ Handled(f, "idle")
  /\ UNCHANGED <<items, done, toldVars>>

\* Another tool or command takes the row away.
Unlink(i) ==
  /\ i \in items /\ items' = items \ {i}
  /\ UNCHANGED <<pageVars, call, requests, gone, post, done, toldVars, abandoned>>

Handling(i) ==
  \/ Exchanged(i) \/ SaveItem(i) \/ AccountsStored(i) \/ FindItem(i) \/ MarkRepaired(i)
  \/ PostFails(<<"link", i>>) \/ PostFails(<<"repair", i>>)

-------------------------------------------------------------------------------
(* Time, and the end of the page *)

\* Time passes; no timer is passed over.
Tick ==
  /\ \A s \in Servers : timer[s] # 0
  /\ \E s \in Servers : timer[s] # Off
  /\ timer' = [s \in Servers |-> IF timer[s] = Off THEN Off ELSE timer[s] - 1]
  /\ quiet' = [s \in Servers |-> IF listener[s] = "listening" /\ quiet[s] < IdleTicks
                                   THEN quiet[s] + 1 ELSE quiet[s]]
  /\ UNCHANGED <<current, listener, call, requests, gone, bankVars, toldVars, abandoned>>

\* Faulty variant of StopLinkServer: the field is cleared once it has closed.
StopLinkServerLate(off) ==
  /\ timer' = [s \in Servers |-> IF s \in off \union {current} THEN Off ELSE timer[s]]
  /\ listener' = [s \in Servers |-> IF s = current THEN "closing" ELSE listener[s]]
  /\ UNCHANGED current

\* stopLinkServer, up to where it awaits close(); `off` are timers gone anyway.
StopLinkServer(off) ==
  /\ current' = None
  /\ timer' = [s \in Servers |-> IF s \in off \union {current} THEN Off ELSE timer[s]]
  /\ listener' = [s \in Servers |-> IF s = current THEN "closing" ELSE listener[s]]

\* closeIdle
CloseIdle(s) ==
  /\ timer[s] = 0
  /\ StopLinkServer({s})
  /\ UNCHANGED <<quiet, call, requests, gone, bankVars, toldVars, abandoned>>

Closed(s) ==
  /\ listener[s] = "closing"
  /\ listener' = [listener EXCEPT ![s] = "none"]
  /\ UNCHANGED <<current, timer, quiet, call, requests, gone, bankVars, toldVars, abandoned>>

\* Faulty variant of Disconnect: the scope holds the database only.
DisconnectListening ==
  /\ ~ gone /\ gone' = TRUE
  /\ abandoned' = (\E c \in Calls : call[c] # Idle)
  /\ UNCHANGED <<pageVars, call, requests, bankVars, toldVars>>

\* The client goes away, or Ctrl-C: the application's scope is closed.  Calls and
\* handlers under way go on; nobody hears of them.
Disconnect ==
  /\ ~ gone /\ gone' = TRUE
  /\ abandoned' = (\E c \in Calls : call[c] # Idle)
  /\ StopLinkServer({})
  /\ UNCHANGED <<quiet, call, requests, bankVars, toldVars>>

\* A call, from its first await to its return.
Starting(c) == Listed(c) \/ Allocated(c) \/ StartFails(c) \/ Listening(c)

Next ==
  \/ \E c \in Calls : LinkBank(c) \/ RelinkBank(c) \/ Starting(c)
  \/ \E s \in Servers : Request(s) \/ CloseIdle(s) \/ Closed(s) \/ \E f \in Finishes : Post(s, f)
  \/ \E i \in Items : Handling(i) \/ Unlink(i)
  \/ Tick \/ Disconnect

\* Timers fire, close() returns, the calls and the handlers get an answer.
Fairness ==
  /\ WF_vars(Tick)
  /\ \A s \in Servers : WF_vars(CloseIdle(s)) /\ WF_vars(Closed(s))
  /\ \A c \in Calls : WF_vars(Starting(c))
  /\ \A i \in Items : WF_vars(Handling(i))

Spec == Init /\ [][Next]_vars /\ Fairness

\* One call at a time.
SerialNext ==
  /\ Next
  /\ \A c, d \in Calls : call'[c] # Idle /\ call'[d] # Idle => c = d

SerialSpec == Init /\ [][SerialNext]_vars /\ Fairness

-------------------------------------------------------------------------------
(***************************************************************************)
(* A page is taken away for being idle only when nobody asked for it for   *)
(* ten minutes: every request postpones the shutdown.                      *)
(***************************************************************************)
PageStays ==
  [][\A s \in Servers :
       listener[s] = "listening" /\ listener'[s] = "closing" /\ ~ gone'
         => quiet[s] = IdleTicks]_vars

(***************************************************************************)
(* A page nobody asks for any more goes away, and when the client goes, so *)
(* does the page: the window is minutes, not the life of the process.      *)
(***************************************************************************)
PageGoesAway == \A s \in Servers : listener[s] = "listening" ~> listener[s] # "listening"

(***************************************************************************)
(* A link or a repair that was finished in the browser is either still     *)
(* remembered or was told to the client: recentLinks and recentRepairs are *)
(* the only way it finds out, and a call that fails takes nothing off them.*)
(***************************************************************************)
LinkIsTold == ~ gone => done \subseteq recent \union heard

(***************************************************************************)
(* When the client has gone, no listener keeps the process alive, unless   *)
(* it went while a call was on its way to start one.                       *)
(***************************************************************************)
NothingListensAfterwards == gone /\ ~ abandoned => \A s \in Servers : listener[s] # "listening"

(***************************************************************************)
(* The comment at recentLinks: the next tool call reports what happened.   *)
(* A call of relink_bank reports no links, and one of link_bank no repairs.*)
(***************************************************************************)
NextCallTells == [][\A c \in Calls : call[c] # Idle /\ call'[c] = Idle => recent' = {}]_vars
===============================================================================
