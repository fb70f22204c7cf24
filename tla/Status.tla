--------------------------------- MODULE Status --------------------------------
(***************************************************************************)
(* costinglyStatus and blockersIn: what `costingly status` and the tool    *)
(* check_costingly say is in the way, while the commands of Provision set  *)
(* the same profile up, fail and are killed.                               *)
(*                                                                         *)
(* A report is three checks at once, of the profile, of the database and   *)
(* of Plaid, each of several awaits: it is no snapshot.  It only reads.    *)
(***************************************************************************)
EXTENDS Provision, Sequences

VARIABLES
  report,  \* what a report has found so far
  steady   \* history: facts that have held since the report began

statusVars == <<vars, report, steady>>

-------------------------------------------------------------------------------
\* DatabaseHealth, ProfileStatus and PlaidStatus, as far as blockersIn reads
\* them: the answer of server.status(), whether the probe connected, the
\* migrations recorded (None: could not be read), whether there is a key, what
\* Plaid said, and the list of banks.
Report ==
  [pc     : {"idle", "cluster", "server", "probe", "ledger", "done", "banks", "told"},
   state  : {"unknown", "uninitialised", "stopped", "running"},
   ok     : BOOLEAN,
   ledger : (SUBSET (1 .. Newest)) \union {None},
   key    : {"unread", "set", "missing"},
   plaid  : {"asked", "unconfigured", "unreachable", "reachable"},
   banks  : {"unread", "none", "some"}]

NoReport == [pc |-> "idle", state |-> "unknown", ok |-> FALSE, ledger |-> None,
             key |-> "unread", plaid |-> "asked", banks |-> "unread"]

\* What a report can be held to: there is no cluster, or one without a server, or
\* a database with tables that answers; that it is of no use to anybody yet; that
\* a bank is linked.
Facts == {"uninstalled", "down", "serves", "unusable", "linked"}

Holds(fact) ==
  CASE fact = "uninstalled" -> ~ Exists
    [] fact = "down"        -> Exists /\ files # "forming" /\ server = "down"
    [] fact = "serves"      -> CanConnect /\ db /\ applied # {}
    [] fact = "unusable"    -> \A p \in Procs :
                                 ~ (db /\ Knows(p) \subseteq applied /\ rolePw = file["login"])
    [] fact = "linked"      -> tokens # {}

StatusTypeOK ==
  /\ TypeOK
  /\ report \in Report
  /\ steady \subseteq Facts

StatusInit == Init /\ report = NoReport /\ steady = {}

-------------------------------------------------------------------------------
(* The checks. *)

\* resolve: is there a value for a setting?
Missing(setting) == file[setting] = None

Found(r) == report' = r /\ UNCHANGED <<vars, steady>>

\* checkPlaid looks at the settings before anything is awaited.
Ask ==
  /\ report.pc = "idle"
  /\ report' = [NoReport EXCEPT !.pc = "cluster",
                  !.plaid = IF Missing("plaid") THEN "unconfigured" ELSE "asked"]
  /\ steady' = {f \in Facts : Holds(f)}
  /\ UNCHANGED vars

\* checkDatabase, one await after the other: is there a cluster, ...
LookForCluster ==
  /\ report.pc = "cluster"
  /\ Found(IF Exists THEN [report EXCEPT !.pc = "server"]
                     ELSE [report EXCEPT !.pc = "probe", !.state = "uninitialised"])

\* ... does pg_ctl find a server, for which the backend of an initdb may pass, ...
LookForServer ==
  /\ report.pc = "server"
  /\ \E found \in {server # "down", server # "down" \/ files = "forming"} :
       Found([report EXCEPT !.pc = "probe",
                            !.state = IF found THEN "running" ELSE "stopped"])

\* ... unless it cannot be run at all, ...
StatusThrows ==
  /\ report.pc \in {"cluster", "server"}
  /\ Found([report EXCEPT !.pc = "probe"])

\* Faulty variant of Answers: asks through the application's pool.
AnswersAsRole == CanConnect /\ db /\ rolePw = file["login"]

\* A superuser connection to the application's database.
Answers == CanConnect /\ db

\* ... does it answer, ...
Probe ==
  /\ report.pc = "probe"
  /\ Found(IF Answers THEN [report EXCEPT !.pc = "ledger", !.ok = TRUE]
                      ELSE [report EXCEPT !.pc = "done"])

\* ... and which migrations are recorded.  Their table comes with the first of
\* them, in one transaction.
ReadLedger ==
  /\ report.pc = "ledger"
  /\ Found([report EXCEPT !.pc = "done",
              !.ledger = IF Answers /\ applied # {} THEN applied ELSE None])

-------------------------------------------------------------------------------
(* blockersIn *)

OfDatabase(r) ==
  CASE r.state = "uninitialised"     -> <<"datastore">>
    [] r.state = "stopped"           -> <<"server">>
    [] r.state \in {"unknown", "running"} /\ ~ r.ok -> <<"datastore">>
    [] r.state \in {"unknown", "running"} /\ r.ok   ->
         IF r.ledger = {} THEN <<"schema">> ELSE <<>>

OfKey(r)   == IF r.key = "missing" THEN <<"encryption-key">> ELSE <<>>
OfPlaid(r) == IF r.plaid # "reachable" THEN <<"plaid-credentials">> ELSE <<>>

\* The most fundamental first.
BlockersIn(r) == OfDatabase(r) \o OfKey(r) \o OfPlaid(r)

\* The end of the other two.  checkProfile looks for the key after its files are
\* looked at; Plaid answers, refuses or takes too long, which depends on nothing
\* here.  That they come last keeps the runs small and is no matter to a property:
\* each looks once.
OthersEnd ==
  /\ report.pc = "done"
  /\ \E p \in IF report.plaid = "asked" THEN {"unreachable", "reachable"} ELSE {report.plaid} :
       Found([report EXCEPT !.pc = IF report.ok THEN "banks" ELSE "told", !.plaid = p,
                            !.key = IF Missing("key") THEN "missing" ELSE "set"])

\* readBanks, of a database that answered before: listWithAccounts, or null.
ReadBanks ==
  /\ report.pc = "banks"
  /\ Found([report EXCEPT !.pc = "told",
              !.banks = CASE ~ (Answers /\ applied # {}) -> "unread"
                          [] Answers /\ applied # {} /\ tokens = {} -> "none"
                          [] Answers /\ applied # {} /\ tokens # {} -> "some"])

Read ==
  /\ report.pc = "told"
  /\ report' = NoReport /\ steady' = {}
  /\ UNCHANGED vars

Check ==
  \/ Ask
  \/ LookForCluster \/ LookForServer \/ StatusThrows \/ Probe \/ ReadLedger
  \/ OthersEnd \/ ReadBanks \/ Read

\* A step of the commands under the report; between the last answer and what is
\* made of it nothing is awaited.
Meanwhile ==
  /\ report.pc # "told"
  /\ LoginsNext
  /\ steady' = {f \in steady : Holds(f)'}
  /\ UNCHANGED report

StatusNext == Check \/ Meanwhile

StatusSpec == StatusInit /\ [][StatusNext]_statusVars

-------------------------------------------------------------------------------
Told(what) == \E i \in DOMAIN BlockersIn(report) : BlockersIn(report)[i] = what
ToldFirst(what) == BlockersIn(report) # <<>> /\ Head(BlockersIn(report)) = what

(***************************************************************************)
(* What holds for as long as a report takes is what it says, whatever else *)
(* changes under it: that nothing is installed, or that the server is      *)
(* down, comes first, and a database that serves is not complained of; and *)
(* nobody who has linked a bank is told that none is.                      *)
(***************************************************************************)
SteadyIsTold ==
  report.pc = "told" =>
    /\ "uninstalled" \in steady => ToldFirst("datastore")
    /\ "down" \in steady => ToldFirst("server") \/ report.state = "unknown"
    /\ "serves" \in steady => \A w \in {"datastore", "server", "schema"} : ~ Told(w)
    /\ "linked" \in steady => report.banks # "none"

(***************************************************************************)
(* status.service.ts: "An empty array means costingly is usable."  Nothing *)
(* is in the way only if a migrated database whose role can log in was     *)
(* there at some time during the report.                                   *)
(***************************************************************************)
ReadyMeansUsable ==
  report.pc = "told" /\ BlockersIn(report) = <<>> => "unusable" \notin steady
===============================================================================
