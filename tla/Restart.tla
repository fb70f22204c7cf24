-------------------------------- MODULE Restart --------------------------------
(***************************************************************************)
(* restartDatabase in a process whose other tool calls go on using the     *)
(* same pool, composed with PooledSource: close the pool, pg_ctl stop, and *)
(* a query, because opening a pool starts the server.                      *)
(*                                                                         *)
(* Opening a pool starts the server; opening a connection does not.  The   *)
(* server may also be stopped and started by other processes, or hang: it  *)
(* takes connections then and answers nothing.                             *)
(***************************************************************************)
EXTENDS PooledSource

CONSTANTS
  Restarters  \* calls of restartDatabase: each closes, and queries, as itself

ASSUME RestartAssumption == Restarters \subseteq Callers \intersect Closers

VARIABLES
  server,     \* the postmaster
  started,    \* promises whose open() has seen the server answer
  client,     \* the connection each call has: none, a live one, or one cut off
  restart,    \* where each restartDatabase is
  hurt,       \* history: calls during which the server went away, or no start worked
  overtaken   \* history: restarts that met a new pool before they stopped the server

serverVars == <<server, started, client, restart, hurt, overtaken>>
allVars == <<vars, serverVars>>

-------------------------------------------------------------------------------
RestartTypeOK ==
  /\ TypeOK
  /\ server    \in {"down", "up", "hanging"}
  /\ started   \subseteq Handles
  /\ client    \in [Callers -> {"none", "live", "cut"}]
  /\ restart   \in [Restarters -> {"idle", "closing", "stopped", "probing"}]
  /\ hurt      \subseteq Callers
  /\ overtaken \subseteq Restarters
  /\ \A c \in Callers : client[c] # "none" => caller[c].pc = "using"
  /\ \A h \in started : handle[h] = "opening"

RestartInit ==
  /\ Init
  /\ server = "up"
  /\ started = {}
  /\ client = [c \in Callers |-> "none"]
  /\ restart = [k \in Restarters |-> "idle"]
  /\ hurt = {}
  /\ overtaken = {}

\* The calls, and the restarts between their stop and their query.
Underway ==
  {c \in Callers \ Restarters : caller[c] # Idle}
    \union {k \in Restarters : restart[k] \in {"stopped", "probing"}}

\* Those whose pool is closed and whose server still runs.
BeforeStop == {k \in Restarters : restart[k] = "closing"}

\* Every connection ends when the postmaster does.
Cut == client' = [c \in Callers |-> IF client[c] = "live" THEN "cut" ELSE client[c]]

GoesDown ==
  /\ server' = "down"
  /\ Cut

\* A call is over, and with it the restart whose query it was.
Back(c) ==
  /\ restart' = [k \in Restarters |-> IF k = c THEN "idle" ELSE restart[k]]
  /\ hurt' = hurt \ {c}
  /\ overtaken' = overtaken \ {c}

-------------------------------------------------------------------------------
(* The pool, and what its steps have to do with the server *)

\* query or transaction of any call
Query(c) ==
  /\ Ask(c)
  /\ overtaken' = IF opening = None THEN overtaken \union BeforeStop ELSE overtaken
  /\ UNCHANGED <<server, started, client, hurt>>

\* open(): pg_ctl starts the server if it is down, and it answers.
StartServer(h) ==
  /\ handle[h] = "opening" /\ h \notin started
  /\ server # "hanging" /\ server' = "up"
  /\ started' = started \union {h}
  /\ UNCHANGED <<vars, client, restart, hurt, overtaken>>

Opened(h) ==
  /\ h \in started /\ OpenSucceeds(h)
  /\ started' = started \ {h}
  /\ UNCHANGED <<server, client, restart, hurt, overtaken>>

\* pg_ctl fails, or nothing answers in time.
NotOpened(h) ==
  /\ OpenFails(h)
  /\ started' = started \ {h}
  /\ hurt' = hurt \union (WaitsOn(h) \intersect Underway)
  /\ UNCHANGED <<server, client, restart, overtaken>>

\* The promise settles; who is told of a failure returns.
Resumed(c) ==
  /\ Resume(c)
  /\ IF caller'[c] = Idle THEN Back(c) ELSE UNCHANGED <<restart, hurt, overtaken>>
  /\ UNCHANGED <<server, started, client>>

\* A client of the pool, an idle one or a new one.
Connect(c) ==
  /\ caller[c].pc = "using" /\ client[c] = "none" /\ server # "down"
  /\ client' = [client EXCEPT ![c] = "live"]
  /\ UNCHANGED <<vars, server, started, restart, hurt, overtaken>>

Returns(c) ==
  /\ Release(c)
  /\ client' = [client EXCEPT ![c] = "none"]
  /\ Back(c)
  /\ UNCHANGED <<server, started>>

Answered(c) == client[c] = "live" /\ server = "up" /\ Returns(c)

\* The connection was cut, or there is none to be had: refused, or no answer
\* within connectionTimeoutMillis.
Failed(c) ==
  /\ \/ client[c] = "cut"
     \/ client[c] = "none" /\ server # "up"
  /\ Returns(c)

\* closeDb() of somebody else: uninstall, or the end of the application
Shutdown(k) == k \notin Restarters /\ Close(k) /\ UNCHANGED serverVars

CloseGoesOn(k) == (End(k) \/ Ended(k)) /\ UNCHANGED serverVars

-------------------------------------------------------------------------------
(* restartDatabase *)

\* Faulty variant of BeginRestart: the pool stays.
BeginRestartOpen(k) ==
  /\ restart[k] = "idle" /\ caller[k] = Idle /\ closer[k] = Idle
  /\ UNCHANGED vars
  /\ restart' = [restart EXCEPT ![k] = "closing"]
  /\ UNCHANGED <<server, started, client, hurt, overtaken>>

\* closeDb(), if there is anything to close
BeginRestart(k) ==
  /\ restart[k] = "idle" /\ caller[k] = Idle /\ closer[k] = Idle
  /\ Close(k) \/ (opening = None /\ UNCHANGED vars)
  /\ restart' = [restart EXCEPT ![k] = "closing"]
  /\ UNCHANGED <<server, started, client, hurt, overtaken>>

\* pg.stop(), once close() has returned
StopForRestart(k) ==
  /\ restart[k] = "closing" /\ closer[k] = Idle
  /\ GoesDown
  /\ restart' = [restart EXCEPT ![k] = "stopped"]
  /\ hurt' = hurt \union (Underway \ {k})
  /\ UNCHANGED <<vars, started, overtaken>>

\* ... which may give up on a server that does not go.
StopThrows(k) ==
  /\ restart[k] = "closing" /\ closer[k] = Idle /\ server # "down"
  /\ Back(k)
  /\ UNCHANGED <<vars, server, started, client>>

Probe(k) ==
  /\ restart[k] = "stopped"
  /\ Query(k)
  /\ restart' = [restart EXCEPT ![k] = "probing"]

\* withTimeout: the restart returns, its query goes on.
ProbeTimesOut(k) ==
  /\ restart[k] = "probing"
  /\ Back(k)
  /\ UNCHANGED <<vars, server, started, client>>

-------------------------------------------------------------------------------
(* The server and the other processes *)

\* `costingly stop`, or the end of the postmaster for any other reason
StopElsewhere ==
  /\ server # "down"
  /\ GoesDown
  /\ hurt' = hurt \union Underway
  /\ UNCHANGED <<vars, started, restart, overtaken>>

\* Another process opens its pool.
StartElsewhere ==
  /\ server = "down" /\ server' = "up"
  /\ UNCHANGED <<vars, started, client, restart, hurt, overtaken>>

Hang ==
  /\ server = "up" /\ server' = "hanging"
  /\ hurt' = hurt \union Underway
  /\ UNCHANGED <<vars, started, client, restart, overtaken>>

Recover ==
  /\ server = "hanging" /\ server' = "up"
  /\ UNCHANGED <<vars, started, client, restart, hurt, overtaken>>

Served(c) == Connect(c) \/ Answered(c) \/ Failed(c)
Opens(h) ==
  \/ StartServer(h) \/ Opened(h) \/ NotOpened(h)
  \/ IdleOut(h) /\ UNCHANGED serverVars
Stopping(k) == StopForRestart(k) \/ StopThrows(k)

RestartNext ==
  \/ \E c \in Callers : (c \notin Restarters /\ Query(c) /\ UNCHANGED restart) \/ Resumed(c) \/ Served(c)
  \/ \E h \in Handles : Opens(h)
  \/ \E k \in Closers : Shutdown(k) \/ CloseGoesOn(k)
  \/ \E k \in Restarters : BeginRestart(k) \/ Stopping(k) \/ Probe(k) \/ ProbeTimesOut(k)
  \/ StopElsewhere \/ StartElsewhere \/ Hang \/ Recover

\* Every await settles, but those for an answer of a server that hangs.
RestartFairness ==
  /\ \A c \in Callers : WF_allVars(Resumed(c) \/ Served(c))
  /\ \A h \in Handles : WF_allVars(Opens(h))
  /\ \A k \in Closers : WF_allVars(CloseGoesOn(k))
  /\ \A k \in Restarters : WF_allVars(Stopping(k) \/ Probe(k))

RestartSpec == RestartInit /\ [][RestartNext]_allVars /\ RestartFairness

-------------------------------------------------------------------------------
(***************************************************************************)
(* restartDatabase is a round trip: when it returns after it has stopped   *)
(* the server, the server is up again, unless somebody stopped it once     *)
(* more, it hung, or starting it failed ...                                *)
(***************************************************************************)
ComesBack(k) ==
  restart[k] = "probing" /\ caller[k] # Idle /\ caller'[k] = Idle /\ k \notin hurt => server' = "up"

RestartBringsBack == [][\A k \in Restarters : ComesBack(k)]_allVars

(***************************************************************************)
(* ... or a call of the same process opened a pool between its close and   *)
(* its stop: that pool is still there for the query, which then starts     *)
(* nothing.                                                                *)
(***************************************************************************)
RestartBringsBackUnlessOvertaken ==
  [][\A k \in Restarters : k \in overtaken \/ ComesBack(k)]_allVars

(***************************************************************************)
(* Starting is implicit: a call fails only if the server went away during  *)
(* it, and never because somebody had stopped it before.                   *)
(***************************************************************************)
ServerStartsItself == [][\A c \in Callers \ Restarters : Failed(c) => c \in hurt]_allVars

(***************************************************************************)
(* Every restart and every other call returns, if the server does not hang *)
(* for ever.                                                               *)
(***************************************************************************)
RestartsEnd ==
  <>[](server # "hanging") =>
    /\ \A k \in Restarters : restart[k] # "idle" ~> restart[k] = "idle"
    /\ \A c \in Callers \ Restarters : caller[c] # Idle ~> caller[c] = Idle
===============================================================================
