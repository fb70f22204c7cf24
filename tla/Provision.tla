------------------------------- MODULE Provision -------------------------------
(***************************************************************************)
(* Setting costingly up: install(), reached from `costingly init`, from    *)
(* `costingly migrate` and from the MCP tool setup_costingly, in any       *)
(* number of processes that share one profile: its config.json, its        *)
(* cluster, its server and its database.                                   *)
(*                                                                         *)
(* Every await is a place where another process, a crash or a stop of the  *)
(* server gets in; so is the gap between reading config.json and renaming  *)
(* the new one over it, for nothing locks the file.                        *)
(***************************************************************************)
EXTENDS Integers

CONSTANTS
  Procs,       \* processes
  Old,         \* those that run the version before the last migration
  Secrets,     \* what generatePassword and generateEncryptionKey can return
  None,        \* no secret, an absent section, nobody
  Newest,      \* number of the last migration
  MaxFaults,   \* bound on crashes, stops of the server and what fails by itself
  CleanKill    \* does an initdb that is killed always get to clean up?

ASSUME ProvisionAssumption ==
  /\ Old \subseteq Procs
  /\ None \notin Secrets \union Procs
  /\ Newest \in Nat \ {0}
  /\ MaxFaults \in Nat
  /\ CleanKill \in BOOLEAN

VARIABLES
  file,      \* config.json: what each section holds
  files,     \* the cluster's files
  pw,        \* the superuser password initdb gave the cluster
  server,    \* the postmaster
  db,        \* does the application's database exist?
  applied,   \* migrations applied to it
  rolePw,    \* the password of u_app
  locks,     \* who holds the advisory locks
  tokens,    \* encryption keys some stored access token needs
  proc,      \* what each process holds in memory
  faults

clusterVars == <<files, pw, server, db, applied, rolePw, locks, tokens>>
vars == <<file, files, pw, server, db, applied, rolePw, locks, tokens, proc, faults>>

-------------------------------------------------------------------------------
(* Values. *)

\* key and plaid are costingly's; login is the section `database`, whose two
\* passwords are generated together and count as one secret here.
Sections == {"key", "login", "ports", "plaid"}
Values   == Secrets \union {None, "set"}
Empty    == [s \in Sections |-> None]

\* PG_VERSION is there from "forming" on: initdb writes it first.  "bare" has
\* what initdb wrote, "managed" what writeManagedConfig made of it, "broken" is
\* what a killed initdb leaves.
Files    == {"absent", "forming", "broken", "bare", "managed"}
Servers  == {"down", "starting", "up"}
LockIds  == {"migrations", "role"}

Phases ==
  {"idle", "prompt", "merge", "rename", "key", "look", "ports", "logins",
   "initdb", "forming", "conf", "start", "await", "database", "create",
   "pending", "lock", "migrate", "relogin", "role", "alter", "ok", "failed"}

Proc == [pc    : Phases,
         seen  : [Sections -> Values],   \* init: the file when init began
         saw   : [Sections -> Values],   \* an update: the file it merges into
         patch : [Sections -> Values],   \* an update: what it sets
         next  : Phases,                 \* where an update returns to
         login : Secrets \union {None},  \* decideLogins' result
         todo  : SUBSET (1 .. Newest)]   \* pending migrations

IdleProc == [pc |-> "idle", seen |-> Empty, saw |-> Empty, patch |-> Empty,
             next |-> "idle", login |-> None, todo |-> {}]

TypeOK ==
  /\ file    \in [Sections -> Values]
  /\ files   \in Files
  /\ pw      \in Secrets \union {None}
  /\ server  \in Servers
  /\ db      \in BOOLEAN
  /\ applied \in SUBSET (1 .. Newest)
  /\ rolePw  \in Secrets \union {None}
  /\ locks   \in [LockIds -> Procs \union {None}]
  /\ tokens  \in SUBSET Secrets
  /\ proc    \in [Procs -> Proc]
  /\ faults  \in 0 .. MaxFaults

Knows(p) == IF p \in Old THEN 1 .. Newest - 1 ELSE 1 .. Newest

\* Random bytes: a value nobody has seen, and it does not matter which.
InUse ==
  {pw, rolePw} \union tokens \union {file[s] : s \in Sections}
    \union {proc[p].login : p \in Procs}
    \union {proc[p].seen[s]  : p \in Procs, s \in Sections}
    \union {proc[p].saw[s]   : p \in Procs, s \in Sections}
    \union {proc[p].patch[s] : p \in Procs, s \in Sections}

Unused ==
  LET new == Secrets \ InUse
  IN  IF new = {} THEN {} ELSE {CHOOSE s \in new : TRUE}

Exists == files # "absent"

\* readDatabaseLogins: both logins or none, for half a pair is worse than nothing.
HasLogins == file["login"] # None

\* A superuser connection authenticates with what the file says right now.
CanConnect == server = "up" /\ HasLogins /\ file["login"] = pw

Init ==
  /\ file = Empty
  /\ files = "absent" /\ pw = None /\ server = "down"
  /\ db = FALSE /\ applied = {} /\ rolePw = None
  /\ locks = [l \in LockIds |-> None]
  /\ tokens = {}
  /\ proc = [p \in Procs |-> IdleProc]
  /\ faults = 0

-------------------------------------------------------------------------------
(* Steps of a process. *)

At(p, phase) == proc[p].pc = phase

Become(p, r) == proc' = [proc EXCEPT ![p] = r]
Goto(p, phase) == Become(p, [proc[p] EXCEPT !.pc = phase])

\* An exception: locals are gone, and so is a transaction that was open.
Throw(p) == Become(p, [IdleProc EXCEPT !.pc = "failed"])

Setting(s, v) == [Empty EXCEPT ![s] = v]

\* A process on its way into updateConfig.
Updating(p, patch, next) ==
  [proc[p] EXCEPT !.pc = "merge", !.patch = patch, !.next = next]

\* updateConfigSyncAt and updateConfigFileAt read the file they merge into ...
ReadConfig(p) ==
  /\ At(p, "merge")
  /\ Become(p, [proc[p] EXCEPT !.pc = "rename", !.saw = file])
  /\ UNCHANGED <<file, clusterVars, faults>>

Merged(saw, patch) ==
  [s \in Sections |-> IF patch[s] # None THEN patch[s] ELSE saw[s]]

\* ... and rename the result over whatever is there by then.
RenameConfig(p) ==
  /\ At(p, "rename")
  /\ file' = Merged(proc[p].saw, proc[p].patch)
  /\ Become(p, [proc[p] EXCEPT !.pc = proc[p].next, !.saw = Empty,
                               !.patch = Empty, !.next = "idle"])
  /\ UNCHANGED <<clusterVars, faults>>

\* setup_costingly and `costingly migrate`.
BeginInstall(p) ==
  /\ At(p, "idle")
  /\ Goto(p, "key")
  /\ UNCHANGED <<file, clusterVars, faults>>

\* runInit reads the file, then prompts.
BeginInit(p) ==
  /\ At(p, "idle")
  /\ Become(p, [proc[p] EXCEPT !.pc = "prompt", !.seen = file])
  /\ UNCHANGED <<file, clusterVars, faults>>

\* Faulty variant of WriteSettings: always a new key.
WriteSettingsNewKey(p) ==
  /\ At(p, "prompt")
  /\ \E k \in Unused :
       Become(p, [Updating(p, [Setting("plaid", "set") EXCEPT !["key"] = k], "key")
                    EXCEPT !.seen = Empty])
  /\ UNCHANGED <<file, clusterVars, faults>>

\* The prompts are answered: the key it found, or a new one, is written beside
\* the Plaid credentials; then the user may want the database as well.
WriteSettings(p) ==
  /\ At(p, "prompt")
  /\ \E k \in IF proc[p].seen["key"] # None THEN {proc[p].seen["key"]} ELSE Unused,
        next \in {"key", "idle"} :
       Become(p, [Updating(p, [Setting("plaid", "set") EXCEPT !["key"] = k], next)
                    EXCEPT !.seen = Empty])
  /\ UNCHANGED <<file, clusterVars, faults>>

EnsureKey(p) ==
  /\ At(p, "key")
  /\ IF file["key"] # None
       THEN Goto(p, "look")
       ELSE \E k \in Unused : Become(p, Updating(p, Setting("key", k), "look"))
  /\ UNCHANGED <<file, clusterVars, faults>>

\* install: is there a cluster?
Look(p) ==
  /\ At(p, "look")
  /\ Goto(p, IF Exists THEN "start" ELSE "ports")
  /\ UNCHANGED <<file, clusterVars, faults>>

\* Faulty variant of Allocate: looks again at what it recorded.
AllocateAgain(p) ==
  /\ At(p, "ports")
  /\ \/ file["ports"] # None /\ Goto(p, "logins")
     \/ Become(p, Updating(p, Setting("ports", "set"), "ports"))
  /\ UNCHANGED <<file, clusterVars, faults>>

\* allocate: the recorded port is still free, or another one is recorded.
Allocate(p) ==
  /\ At(p, "ports")
  /\ \/ file["ports"] # None /\ Goto(p, "logins")
     \/ Become(p, Updating(p, Setting("ports", "set"), "logins"))
  /\ UNCHANGED <<file, clusterVars, faults>>

\* Every port allocate tries is taken.
NoFreePort(p) ==
  /\ At(p, "ports")
  /\ faults < MaxFaults /\ faults' = faults + 1
  /\ Throw(p)
  /\ UNCHANGED <<file, clusterVars>>

\* Faulty variant of DecideLogins: nothing is stored.
DecideLoginsUnsaved(p, from, next) ==
  /\ At(p, from)
  /\ \E l \in IF HasLogins THEN {file["login"]} ELSE Unused :
       Become(p, [proc[p] EXCEPT !.pc = next, !.login = l])
  /\ UNCHANGED <<file, clusterVars, faults>>

\* Faulty variant of DecideLogins: new passwords every time.
DecideLoginsAnew(p, from, next) ==
  /\ At(p, from)
  /\ \E l \in Unused :
       Become(p, [Updating(p, Setting("login", l), next) EXCEPT !.login = l])
  /\ UNCHANGED <<file, clusterVars, faults>>

\* decideLogins, before the cluster is created and again before u_app gets its
\* password.
DecideLogins(p, from, next) ==
  /\ At(p, from)
  /\ IF HasLogins
       THEN Become(p, [proc[p] EXCEPT !.pc = next, !.login = file["login"]])
       ELSE \E l \in Unused :
              Become(p, [Updating(p, Setting("login", l), next) EXCEPT !.login = l])
  /\ UNCHANGED <<file, clusterVars, faults>>

\* cluster().create: initdb refuses a directory that is not empty, and then it
\* is enough that there is a cluster.
Initdb(p) ==
  /\ At(p, "initdb")
  /\ IF Exists
       THEN Goto(p, "start") /\ UNCHANGED <<files, pw>>
       ELSE Goto(p, "forming") /\ files' = "forming" /\ pw' = proc[p].login
  /\ UNCHANGED <<file, server, db, applied, rolePw, locks, tokens, faults>>

InitdbEnds(p) ==
  /\ At(p, "forming")
  /\ files' = "bare"
  /\ Goto(p, "conf")
  /\ UNCHANGED <<file, pw, server, db, applied, rolePw, locks, tokens, faults>>

\* initdb exits with an error.  It removes what it made, unless it was killed:
\* then there is something that passes for a cluster, and install goes on.
InitdbFails(p) ==
  /\ At(p, "forming")
  /\ faults < MaxFaults /\ faults' = faults + 1
  /\ \/ files' = "absent" /\ pw' = None /\ Throw(p)
     \/ ~ CleanKill /\ files' = "broken" /\ Goto(p, "start") /\ UNCHANGED pw
  /\ UNCHANGED <<file, server, db, applied, rolePw, locks, tokens>>

\* writeManagedConfig.
WriteManagedConfig(p) ==
  /\ At(p, "conf")
  /\ files' = "managed"
  /\ Goto(p, "start")
  /\ UNCHANGED <<file, pw, server, db, applied, rolePw, locks, tokens, faults>>

\* postmaster().start.  While initdb is at work its own backend can pass for a
\* running server; what a killed initdb left does not start.
StartServer(p) ==
  /\ At(p, "start")
  /\ \/ server # "down" /\ Goto(p, "await") /\ UNCHANGED server
     \/ server = "down" /\ files \in {"bare", "managed"}
          /\ server' = "starting" /\ Goto(p, "await")
     \/ server = "down" /\ files = "forming" /\ Goto(p, "await") /\ UNCHANGED server
     \/ server = "down" /\ files \in {"absent", "forming", "broken"}
          /\ Throw(p) /\ UNCHANGED server
  /\ UNCHANGED <<file, files, pw, db, applied, rolePw, locks, tokens, faults>>

\* pg_ctl gives up on a cluster that is whole, and no other process has started it.
CannotStart(p) ==
  /\ At(p, "start")
  /\ server = "down" /\ files \in {"bare", "managed"}
  /\ faults < MaxFaults /\ faults' = faults + 1
  /\ Throw(p)
  /\ UNCHANGED <<file, clusterVars>>

\* waitUntilAccepting: a wrong or missing password is not worth waiting for.
AwaitServer(p) ==
  /\ At(p, "await")
  /\ server = "up" \/ ~ HasLogins
  /\ IF CanConnect THEN Goto(p, "database") ELSE Throw(p)
  /\ UNCHANGED <<file, clusterVars, faults>>

AwaitTimesOut(p) ==
  /\ At(p, "await")
  /\ server = "down"
  /\ Throw(p)
  /\ UNCHANGED <<file, clusterVars, faults>>

\* Faulty variant of FindDatabase: a database that exists has its migrations.
FindDatabaseSkips(p) ==
  /\ At(p, "database")
  /\ IF CanConnect THEN Goto(p, IF db THEN "relogin" ELSE "create") ELSE Throw(p)
  /\ UNCHANGED <<file, clusterVars, faults>>

\* databases().create, its two statements.
FindDatabase(p) ==
  /\ At(p, "database")
  /\ IF CanConnect THEN Goto(p, IF db THEN "pending" ELSE "create") ELSE Throw(p)
  /\ UNCHANGED <<file, clusterVars, faults>>

CreateDatabase(p) ==
  /\ At(p, "create")
  /\ IF CanConnect /\ ~ db
       THEN Goto(p, "pending") /\ db' = TRUE
       ELSE Throw(p) /\ UNCHANGED db
  /\ UNCHANGED <<file, files, pw, server, applied, rolePw, locks, tokens, faults>>

\* applyPendingMigrations asks before it takes the lock ...
PendingMigrations(p) ==
  LET todo == Knows(p) \ applied
  IN  /\ At(p, "pending")
      /\ IF CanConnect
           THEN Become(p, [proc[p] EXCEPT !.pc = IF todo = {} THEN "relogin" ELSE "lock",
                                          !.todo = todo])
           ELSE Throw(p)
      /\ UNCHANGED <<file, clusterVars, faults>>

\* Faulty variant of LockMigrations: what was pending before the lock.
LockMigrationsStale(p) ==
  /\ At(p, "lock")
  /\ CanConnect
  /\ locks["migrations"] = None
  /\ locks' = [locks EXCEPT !["migrations"] = p]
  /\ Goto(p, "migrate")
  /\ UNCHANGED <<file, files, pw, server, db, applied, rolePw, tokens, faults>>

\* ... and again once it has it.
LockMigrations(p) ==
  /\ At(p, "lock")
  /\ CanConnect
  /\ locks["migrations"] = None
  /\ locks' = [locks EXCEPT !["migrations"] = p]
  /\ Become(p, [proc[p] EXCEPT !.pc = "migrate", !.todo = Knows(p) \ applied])
  /\ UNCHANGED <<file, files, pw, server, db, applied, rolePw, tokens, faults>>

\* runMigrations commits.  A migration that was applied before fails, on the
\* tables it creates and on the ledger's primary key.
RunMigrations(p) ==
  /\ At(p, "migrate")
  /\ locks' = [locks EXCEPT !["migrations"] = None]
  /\ IF proc[p].todo \intersect applied = {}
       THEN /\ applied' = applied \union proc[p].todo
            /\ Become(p, [proc[p] EXCEPT !.pc = "relogin", !.todo = {}])
       ELSE Throw(p) /\ UNCHANGED applied
  /\ UNCHANGED <<file, files, pw, server, db, rolePw, tokens, faults>>

\* Faulty variant of TryRoleLock: one lock for the role and for the migrations.
TryOneLock(p) ==
  /\ At(p, "role")
  /\ IF ~ CanConnect THEN Throw(p) /\ UNCHANGED locks
     ELSE IF locks = [l \in LockIds |-> None]
       THEN Goto(p, "alter") /\ locks' = [locks EXCEPT !["role"] = p]
       ELSE Goto(p, "ok") /\ UNCHANGED locks
  /\ UNCHANGED <<file, files, pw, server, db, applied, rolePw, tokens, faults>>

\* setRolePassword: whoever finds the lock taken skips.
TryRoleLock(p) ==
  /\ At(p, "role")
  /\ IF ~ CanConnect THEN Throw(p) /\ UNCHANGED locks
     ELSE IF locks["role"] = None
       THEN Goto(p, "alter") /\ locks' = [locks EXCEPT !["role"] = p]
       ELSE Goto(p, "ok") /\ UNCHANGED locks
  /\ UNCHANGED <<file, files, pw, server, db, applied, rolePw, tokens, faults>>

AlterRole(p) ==
  /\ At(p, "alter")
  /\ rolePw' = proc[p].login
  /\ locks' = [locks EXCEPT !["role"] = None]
  /\ Goto(p, "ok")
  /\ UNCHANGED <<file, files, pw, server, db, applied, tokens, faults>>

\* A connection that cannot be made for a migration is an exception as well.
LockUnreachable(p) ==
  /\ At(p, "lock")
  /\ ~ CanConnect
  /\ Throw(p)
  /\ UNCHANGED <<file, clusterVars, faults>>

Return(p) ==
  /\ proc[p].pc \in {"ok", "failed"}
  /\ Become(p, IdleProc)
  /\ UNCHANGED <<file, clusterVars, faults>>

-------------------------------------------------------------------------------
(* What happens to a process, and what else happens. *)

Released(S) == [l \in LockIds |-> IF locks[l] \in S THEN None ELSE locks[l]]

\* The process dies, or the user cancels.  An initdb under way goes on by
\* itself, cleans up, or is killed along with it.
Crash(p) ==
  /\ proc[p].pc \notin {"idle", "ok", "failed"}
  /\ faults < MaxFaults /\ faults' = faults + 1
  /\ IF At(p, "forming")
       THEN \/ files' = "bare"   /\ UNCHANGED pw
            \/ files' = "absent" /\ pw' = None
            \/ ~ CleanKill /\ files' = "broken" /\ UNCHANGED pw
       ELSE UNCHANGED <<files, pw>>
  /\ locks' = Released({p})
  /\ Become(p, IdleProc)
  /\ UNCHANGED <<file, server, db, applied, rolePw, tokens>>

ServerReady ==
  /\ server = "starting"
  /\ server' = "up"
  /\ UNCHANGED <<file, files, pw, db, applied, rolePw, locks, tokens, proc, faults>>

\* `costingly stop`, or a reboot: open transactions are rolled back.
ServerStops ==
  /\ server # "down"
  /\ faults < MaxFaults /\ faults' = faults + 1
  /\ server' = "down"
  /\ locks' = [l \in LockIds |-> None]
  /\ proc' = [p \in Procs |-> IF proc[p].pc \in {"migrate", "alter"}
                                THEN [IdleProc EXCEPT !.pc = "failed"]
                                ELSE proc[p]]
  /\ UNCHANGED <<file, files, pw, db, applied, rolePw, tokens>>

\* A bank is linked: its access token is encrypted with the key of the file.
SaveToken ==
  /\ server = "up" /\ rolePw # None /\ file["login"] = rolePw
  /\ file["key"] # None
  /\ tokens' = tokens \union {file["key"]}
  /\ UNCHANGED <<file, files, pw, server, db, applied, rolePw, locks, proc, faults>>

\* What a command does once begun.
Step(p) ==
  \/ ReadConfig(p) \/ RenameConfig(p) \/ WriteSettings(p) \/ EnsureKey(p)
  \/ Look(p) \/ Allocate(p)
  \/ DecideLogins(p, "logins", "initdb") \/ DecideLogins(p, "relogin", "role")
  \/ Initdb(p) \/ InitdbEnds(p) \/ WriteManagedConfig(p)
  \/ StartServer(p) \/ AwaitServer(p) \/ AwaitTimesOut(p)
  \/ FindDatabase(p) \/ CreateDatabase(p)
  \/ PendingMigrations(p) \/ LockMigrations(p) \/ LockUnreachable(p)
  \/ RunMigrations(p) \/ TryRoleLock(p) \/ AlterRole(p) \/ Return(p)

Begin(p) == BeginInstall(p) \/ BeginInit(p)

\* What fails by itself.
Fails(p) == NoFreePort(p) \/ InitdbFails(p) \/ CannotStart(p)

GoesOn(p) == Step(p) \/ Fails(p) \/ Crash(p)

ProcNext(p) == Begin(p) \/ GoesOn(p)

ServerNext == ServerReady \/ ServerStops

Next == (\E p \in Procs : ProcNext(p)) \/ ServerNext \/ SaveToken

Spec == Init /\ [][Next]_vars

\* No command is under way.
Quiet == \A p \in Procs : At(p, "idle")

\* One command at a time until the logins are stored, any number from then on.
LoginsNext ==
  \/ \E p \in Procs : (HasLogins \/ Quiet) /\ Begin(p)
  \/ \E p \in Procs : GoesOn(p)
  \/ ServerNext
  \/ SaveToken

LoginsSpec == Init /\ [][LoginsNext]_vars

\* A profile that some version has set up.
Works ==
  /\ HasLogins /\ rolePw = file["login"] /\ pw = rolePw /\ file["key"] # None
  /\ files = "managed" /\ db /\ 1 .. Newest - 1 \subseteq applied

\* One command at a time on a profile that starts from nothing, then two at once
\* as well once it works: each version's own first install, then an upgrade.
Room == \E q \in Procs : \A r \in Procs \ {q} : At(r, "idle")

GrowNext ==
  \/ \E p \in Procs : (Quiet \/ (Works /\ Room)) /\ Begin(p)
  \/ \E p \in Procs : GoesOn(p)
  \/ ServerNext
  \/ (Quiet \/ Works) /\ SaveToken

\* ... where install is tried again for as long as it takes.
GrowSpec ==
  /\ Init /\ [][GrowNext]_vars
  /\ WF_vars(ServerReady)
  /\ \A p \in Procs : WF_vars(Step(p))
  /\ SF_vars(\E p \in Procs : Quiet /\ BeginInstall(p))

-------------------------------------------------------------------------------
(* What a profile must hold on to. *)

(***************************************************************************)
(* The file holds the password of the cluster, from the moment initdb has  *)
(* it: postgres-datastore.ts stores the logins first so that no crash can  *)
(* leave a cluster nothing holds the password for.                         *)
(***************************************************************************)
PasswordHeld == Exists => file["login"] = pw

(***************************************************************************)
(* Every stored access token can be decrypted with the key in the file: an *)
(* existing key is never replaced, by init or by anything else.            *)
(***************************************************************************)
TokensReadable == tokens \subseteq {file["key"]}

(***************************************************************************)
(* config.json is merged into: no write drops a section another command    *)
(* put there.                                                              *)
(***************************************************************************)
SectionsKept ==
  [][\A s \in Sections : file[s] # None => file'[s] # None]_vars

(***************************************************************************)
(* A cluster that serves has the settings the code insists on.             *)
(***************************************************************************)
ServedManaged == server # "down" => files = "managed"

(***************************************************************************)
(* When install returns without an exception, the profile can be used: the *)
(* database is there with every migration this version has, and u_app can  *)
(* log in with what the file says.                                         *)
(***************************************************************************)
Usable(p) ==
  /\ db /\ Knows(p) \subseteq applied
  /\ HasLogins /\ rolePw = file["login"]

SuccessMeansUsable ==
  [][\A p \in Procs : proc[p].pc # "ok" /\ proc'[p].pc = "ok" => Usable(p)']_vars

(***************************************************************************)
(* However many commands are under way, an install that returns without an *)
(* exception has created and migrated the database, and if u_app cannot    *)
(* log in yet, another install holds the lock on it and the password of    *)
(* the file: setRolePassword skips for somebody, never for nobody.         *)
(***************************************************************************)
UsableButForTheRole(p) ==
  /\ db /\ Knows(p) \subseteq applied /\ HasLogins
  /\ \/ rolePw = file["login"]
     \/ \E q \in Procs \ {p} : locks["role"] = q /\ proc[q].login = file["login"]

SkipsForSomebody ==
  [][\A p \in Procs :
       proc[p].pc # "ok" /\ proc'[p].pc = "ok" => UsableButForTheRole(p)']_vars

(***************************************************************************)
(* Installs at once on a profile that works all succeed, and so does one   *)
(* on a profile that does not, unless something is killed or stopped under *)
(* them or fails by itself: who waited for the migrations of another finds *)
(* nothing left to do.                                                     *)
(***************************************************************************)
RaceIsHarmless == faults = 0 => \A p \in Procs : proc[p].pc # "failed"

(***************************************************************************)
(* Every command ends.                                                     *)
(***************************************************************************)
CommandsEnd == \A p \in Procs : proc[p].pc # "idle" ~> proc[p].pc = "idle"

(***************************************************************************)
(* Whatever went wrong on the way, install tried again sets the profile    *)
(* up: nothing is left half-created that a second attempt cannot finish.   *)
(***************************************************************************)
RetrySucceeds == <>(\E p \in Procs : proc[p].pc = "ok")
===============================================================================
