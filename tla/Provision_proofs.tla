--------------------------- MODULE Provision_proofs ---------------------------
(***************************************************************************)
(* Promises of setting a profile up, for any number of processes and any   *)
(* number of faults: config.json holds the password of the cluster and the *)
(* key of every stored access token, if commands run one at a time until   *)
(* the logins are stored; an install that returns leaves a profile that    *)
(* can be used, and none throws unless something is killed or stopped; and *)
(* what a report beside them says holds for as long as the report takes.   *)
(***************************************************************************)
EXTENDS Status, TLAPS

-------------------------------------------------------------------------------
(* Types. *)

\* The sections key and login hold secrets or nothing, wherever a copy is kept.
Held    == Secrets \union {None}
Settled == {f \in [Sections -> Values] : f["key"] \in Held /\ f["login"] \in Held}

Local == [pc : Phases, seen : Settled, saw : Settled, patch : Settled,
          next : Phases, login : Held, todo : SUBSET (1 .. Newest)]

Types ==
  /\ file \in Settled
  /\ files \in Files /\ pw \in Held /\ server \in Servers
  /\ db \in BOOLEAN /\ applied \in SUBSET (1 .. Newest) /\ rolePw \in Held
  /\ locks \in [LockIds -> Procs \union {None}]
  /\ tokens \in SUBSET Secrets
  /\ proc \in [Procs -> Local]
  /\ faults \in 0 .. MaxFaults

LEMMA TypesGiveTypeOK == Types => TypeOK
<1>1. Settled \subseteq [Sections -> Values]  BY DEF Settled
<1>2. Local \subseteq Proc  BY <1>1 DEF Local, Proc, Held
<1> QED  BY <1>1, <1>2 DEF Types, TypeOK, Held

LEMMA EmptySettled == Empty \in Settled /\ \A s \in Sections : Empty[s] = None
BY DEF Empty, Settled, Held, Values, Sections

LEMMA IdleLocal == IdleProc \in Local
BY EmptySettled, ProvisionAssumption DEF IdleProc, Local, Phases, Held

LEMMA UnusedSecrets == Unused \subseteq Secrets
<1> DEFINE new == Secrets \ InUse
<1>1. new # {} => (CHOOSE s \in new : TRUE) \in new  OBVIOUS
<1> QED  BY <1>1 DEF Unused

\* What is written of one section leaves the others out.
LEMMA SettingSettled ==
  /\ \A v \in Secrets :
       /\ Setting("key", v) \in Settled /\ Setting("login", v) \in Settled
       /\ Setting("key", v)["login"] = None /\ Setting("login", v)["login"] = v
       /\ Setting("key", v)["key"] = v /\ Setting("login", v)["key"] = None
  /\ \A s \in {"ports", "plaid"} :
       /\ Setting(s, "set") \in Settled
       /\ Setting(s, "set")["login"] = None /\ Setting(s, "set")["key"] = None
  /\ \A k \in Secrets :
       LET f == [Setting("plaid", "set") EXCEPT !["key"] = k]
       IN  f \in Settled /\ f["login"] = None /\ f["key"] = k
BY EmptySettled, SMTT(30) DEF Setting, Settled, Sections, Values, Held, Empty

LEMMA MergedSettled ==
  ASSUME NEW f \in Settled, NEW g \in Settled
  PROVE  /\ Merged(f, g) \in Settled
         /\ \A s \in Sections : Merged(f, g)[s] = IF g[s] # None THEN g[s] ELSE f[s]
BY DEF Merged, Settled, Sections

LEMMA Assigned ==
  ASSUME NEW r \in Local
  PROVE  /\ \A n \in Phases : [r EXCEPT !.pc = n] \in Local
         /\ \A f \in Settled : [r EXCEPT !.seen = f] \in Local
         /\ \A f \in Settled : [r EXCEPT !.saw = f] \in Local
         /\ \A f \in Settled : [r EXCEPT !.patch = f] \in Local
         /\ \A n \in Phases : [r EXCEPT !.next = n] \in Local
         /\ \A l \in Held : [r EXCEPT !.login = l] \in Local
         /\ \A t \in SUBSET (1 .. Newest) : [r EXCEPT !.todo = t] \in Local
BY DEF Local

\* Local state after an assignment to one process.
LEMMA Becomes ==
  ASSUME Types, NEW p \in Procs, NEW r \in Local, Become(p, r)
  PROVE  /\ proc' \in [Procs -> Local]
         /\ proc'[p] = r
         /\ \A q \in Procs \ {p} : proc'[q] = proc[q]
BY DEF Types, Become

LEMMA UpdatingLocal ==
  ASSUME Types, NEW p \in Procs, NEW f \in Settled, NEW n \in Phases
  PROVE  Updating(p, f, n) \in Local
<1>1. proc[p] \in Local /\ "merge" \in Phases  BY DEF Types, Phases
<1>2. [proc[p] EXCEPT !.pc = "merge"] \in Local  BY <1>1, Assigned
<1>3. [[proc[p] EXCEPT !.pc = "merge"] EXCEPT !.patch = f] \in Local  BY <1>2, Assigned
<1>4. [[[proc[p] EXCEPT !.pc = "merge"] EXCEPT !.patch = f] EXCEPT !.next = n] \in Local
  BY <1>3, Assigned
<1> QED  BY <1>4 DEF Updating

LEMMA TypesStart == Init => Types
<1> SUFFICES ASSUME Init  PROVE Types
  OBVIOUS
<1>1. proc \in [Procs -> Local] /\ file \in Settled
  BY EmptySettled, IdleLocal DEF Init
<1>2. faults \in 0 .. MaxFaults  BY ProvisionAssumption DEF Init
<1>3. locks \in [LockIds -> Procs \union {None}]  BY DEF Init
<1> QED  BY <1>1, <1>2, <1>3 DEF Init, Types, Held, Files, Servers

LEMMA StepTypes ==
  ASSUME Types, NEW p \in Procs, Step(p)
  PROVE  Types'
<1> USE DEF Types
<1> DEFINE to(n) == [proc[p] EXCEPT !.pc = n]
<1>0. /\ proc[p] \in Local
      /\ \A n \in Phases : to(n) \in Local /\ [IdleProc EXCEPT !.pc = n] \in Local
      /\ IdleProc \in Local
  BY IdleLocal, Assigned
<1> HIDE DEF to
<1>a. ASSUME NEW r \in Local, Become(p, r)  PROVE proc' \in [Procs -> Local]
  BY <1>a, Becomes
<1>b. ASSUME NEW n \in Phases, Goto(p, n)  PROVE proc' \in [Procs -> Local]
  BY <1>b, <1>a, <1>0 DEF Goto, to
<1>c. ASSUME Throw(p)  PROVE proc' \in [Procs -> Local]
  BY <1>c, <1>a, <1>0 DEF Throw, Phases
<1>d. Unused \subseteq Secrets  BY UnusedSecrets
<1>1. ASSUME ReadConfig(p)  PROVE Types'
  <2>1. [proc[p] EXCEPT !.pc = "rename"] \in Local  BY <1>0 DEF to, Phases
  <2>2. [proc[p] EXCEPT !.pc = "rename", !.saw = file] \in Local  BY <2>1, Assigned
  <2> QED  BY <1>1, <2>2, <1>a DEF ReadConfig, clusterVars
<1>2. ASSUME RenameConfig(p)  PROVE Types'
  <2>1. /\ proc[p].next \in Phases /\ proc[p].saw \in Settled /\ proc[p].patch \in Settled
    BY <1>0 DEF Local
  <2>2. [proc[p] EXCEPT !.pc = proc[p].next, !.saw = Empty, !.patch = Empty,
                        !.next = "idle"] \in Local
    <3>1. "idle" \in Phases  BY DEF Phases
    <3>2. [proc[p] EXCEPT !.pc = proc[p].next, !.saw = Empty] \in Local
      BY <1>0, <2>1, EmptySettled, Assigned
    <3>3. [proc[p] EXCEPT !.pc = proc[p].next, !.saw = Empty, !.patch = Empty] \in Local
      BY <3>2, EmptySettled, Assigned
    <3> QED  BY <3>1, <3>3, Assigned
  <2>3. Merged(proc[p].saw, proc[p].patch) \in Settled  BY <2>1, MergedSettled
  <2> QED  BY <1>2, <2>2, <2>3, <1>a DEF RenameConfig, clusterVars
<1>3. ASSUME WriteSettings(p)  PROVE Types'
  <2>1. PICK k \in IF proc[p].seen["key"] # None THEN {proc[p].seen["key"]} ELSE Unused,
             next \in {"key", "idle"} :
          Become(p, [Updating(p, [Setting("plaid", "set") EXCEPT !["key"] = k], next)
                       EXCEPT !.seen = Empty])
    BY <1>3 DEF WriteSettings
  <2>2. k \in Secrets  BY <1>0, <1>d DEF Local, Settled, Held
  <2>3. Updating(p, [Setting("plaid", "set") EXCEPT !["key"] = k], next) \in Local
    BY <2>2, SettingSettled, UpdatingLocal DEF Phases
  <2>4. [Updating(p, [Setting("plaid", "set") EXCEPT !["key"] = k], next)
           EXCEPT !.seen = Empty] \in Local
    BY <2>3, EmptySettled, Assigned
  <2> QED  BY <1>3, <2>1, <2>4, <1>a DEF WriteSettings, clusterVars
<1>4. ASSUME EnsureKey(p)  PROVE Types'
  <2>1. CASE file["key"] # None
    BY <1>4, <2>1, <1>b DEF EnsureKey, clusterVars, Phases
  <2>2. CASE file["key"] = None
    <3>1. PICK k \in Unused : Become(p, Updating(p, Setting("key", k), "look"))
      BY <1>4, <2>2 DEF EnsureKey
    <3>2. Updating(p, Setting("key", k), "look") \in Local
      BY <1>d, SettingSettled, UpdatingLocal DEF Phases
    <3> QED  BY <1>4, <3>1, <3>2, <1>a DEF EnsureKey, clusterVars
  <2> QED  BY <2>1, <2>2
<1>5. ASSUME Look(p)  PROVE Types'
  BY <1>5, <1>b DEF Look, clusterVars, Phases
<1>6. ASSUME Allocate(p)  PROVE Types'
  <2>1. Updating(p, Setting("ports", "set"), "logins") \in Local
    BY SettingSettled, UpdatingLocal DEF Phases
  <2> QED  BY <1>6, <2>1, <1>a, <1>b DEF Allocate, clusterVars, Phases
<1>7. ASSUME NEW from, NEW next \in Phases, DecideLogins(p, from, next)  PROVE Types'
  <2>1. CASE HasLogins
    <3>1. [proc[p] EXCEPT !.pc = next, !.login = file["login"]] \in Local
      BY <1>0, Assigned DEF Settled
    <3> QED  BY <1>7, <2>1, <3>1, <1>a DEF DecideLogins, clusterVars
  <2>2. CASE ~ HasLogins
    <3>1. PICK l \in Unused :
            Become(p, [Updating(p, Setting("login", l), next) EXCEPT !.login = l])
      BY <1>7, <2>2 DEF DecideLogins
    <3>2. Updating(p, Setting("login", l), next) \in Local
      BY <1>d, SettingSettled, UpdatingLocal
    <3>3. [Updating(p, Setting("login", l), next) EXCEPT !.login = l] \in Local
      BY <3>2, <1>d, Assigned DEF Held
    <3> QED  BY <1>7, <3>1, <3>3, <1>a DEF DecideLogins, clusterVars
  <2> QED  BY <2>1, <2>2
<1>8. ASSUME Initdb(p)  PROVE Types'
  <2>1. proc' \in [Procs -> Local]  BY <1>8, <1>b DEF Initdb, Phases
  <2>2. proc[p].login \in Held  BY <1>0 DEF Local
  <2> QED  BY <1>8, <2>1, <2>2 DEF Initdb, Files
<1>9. ASSUME InitdbEnds(p)  PROVE Types'
  BY <1>9, <1>b DEF InitdbEnds, Phases, Files
<1>10. ASSUME WriteManagedConfig(p)  PROVE Types'
  BY <1>10, <1>b DEF WriteManagedConfig, Phases, Files
<1>11. ASSUME StartServer(p)  PROVE Types'
  BY <1>11, <1>b, <1>c DEF StartServer, Phases, Servers
<1>12. ASSUME AwaitServer(p) \/ AwaitTimesOut(p)  PROVE Types'
  BY <1>12, <1>b, <1>c DEF AwaitServer, AwaitTimesOut, Phases, clusterVars
<1>13. ASSUME FindDatabase(p) \/ CreateDatabase(p)  PROVE Types'
  BY <1>13, <1>b, <1>c DEF FindDatabase, CreateDatabase, Phases, clusterVars
<1>14. ASSUME PendingMigrations(p)  PROVE Types'
  <2> DEFINE todo == Knows(p) \ applied
  <2>1. todo \in SUBSET (1 .. Newest)  BY ProvisionAssumption DEF Knows
  <2> HIDE DEF todo
  <2>2. [proc[p] EXCEPT !.pc = IF todo = {} THEN "relogin" ELSE "lock", !.todo = todo]
          \in Local
    <3>1. (IF todo = {} THEN "relogin" ELSE "lock") \in Phases  BY DEF Phases
    <3> QED  BY <3>1, <2>1, <1>0, Assigned
  <2> USE DEF todo
  <2> QED  BY <1>14, <2>2, <1>a, <1>c DEF PendingMigrations, clusterVars
<1>15. ASSUME LockMigrations(p)  PROVE Types'
  <2>1. Knows(p) \ applied \in SUBSET (1 .. Newest)  BY ProvisionAssumption DEF Knows
  <2>2. [proc[p] EXCEPT !.pc = "migrate", !.todo = Knows(p) \ applied] \in Local
    <3>1. "migrate" \in Phases  BY DEF Phases
    <3> QED  BY <3>1, <2>1, <1>0, Assigned
  <2> QED  BY <1>15, <2>2, <1>a DEF LockMigrations, LockIds
<1>16. ASSUME LockUnreachable(p)  PROVE Types'
  BY <1>16, <1>c DEF LockUnreachable, clusterVars
<1>17. ASSUME RunMigrations(p)  PROVE Types'
  <2>1. proc[p].todo \in SUBSET (1 .. Newest)  BY <1>0 DEF Local
  <2>2. [proc[p] EXCEPT !.pc = "relogin", !.todo = {}] \in Local
    <3>1. "relogin" \in Phases /\ {} \in SUBSET (1 .. Newest)  BY DEF Phases
    <3> QED  BY <3>1, <1>0, Assigned
  <2> QED  BY <1>17, <2>1, <2>2, <1>a, <1>c DEF RunMigrations, LockIds
<1>18. ASSUME TryRoleLock(p)  PROVE Types'
  BY <1>18, <1>b, <1>c DEF TryRoleLock, Phases, LockIds
<1>19. ASSUME AlterRole(p)  PROVE Types'
  <2>1. proc' \in [Procs -> Local]  BY <1>19, <1>b DEF AlterRole, Phases
  <2>2. proc[p].login \in Held  BY <1>0 DEF Local
  <2> QED  BY <1>19, <2>1, <2>2 DEF AlterRole, LockIds
<1>20. ASSUME Return(p)  PROVE Types'
  BY <1>20, <1>a, <1>0 DEF Return, clusterVars
<1> QED
  BY <1>1, <1>2, <1>3, <1>4, <1>5, <1>6, <1>7, <1>8, <1>9, <1>10, <1>11, <1>12, <1>13,
     <1>14, <1>15, <1>16, <1>17, <1>18, <1>19, <1>20 DEF Step, Phases

LEMMA TypesKept ==
  ASSUME Types, [Next]_vars
  PROVE  Types'
<1>1. ASSUME NEW p \in Procs, ProcNext(p)  PROVE Types'
  <2>0. /\ proc[p] \in Local /\ IdleProc \in Local
        /\ \A n \in Phases : [proc[p] EXCEPT !.pc = n] \in Local
                             /\ [IdleProc EXCEPT !.pc = n] \in Local
    BY IdleLocal, Assigned DEF Types
  <2>a. ASSUME NEW r \in Local, Become(p, r)  PROVE proc' \in [Procs -> Local]
    BY <2>a, Becomes
  <2>1. CASE BeginInstall(p)
    BY <2>1, <2>0, <2>a DEF BeginInstall, Goto, Types, clusterVars, Phases
  <2>2. CASE BeginInit(p)
    <3>1. "prompt" \in Phases /\ file \in Settled  BY DEF Types, Phases
    <3>2. [proc[p] EXCEPT !.pc = "prompt", !.seen = file] \in Local
      BY <2>0, <3>1, Assigned
    <3> QED  BY <2>2, <3>2, <2>a DEF BeginInit, Types, clusterVars
  <2>3. CASE InitdbFails(p)
    <3>1. faults' \in 0 .. MaxFaults  BY <2>3, ProvisionAssumption DEF InitdbFails, Types
    <3>2. proc' \in [Procs -> Local]
      BY <2>3, <2>0, <2>a DEF InitdbFails, Throw, Goto, Phases
    <3>3. files' \in Files /\ pw' \in Held
      BY <2>3 DEF InitdbFails, Files, Held, Types
    <3> QED  BY <2>3, <3>1, <3>2, <3>3 DEF InitdbFails, Types
  <2>4. CASE Crash(p)
    <3>1. faults' \in 0 .. MaxFaults  BY <2>4, ProvisionAssumption DEF Crash, Types
    <3>2. proc' \in [Procs -> Local]  BY <2>4, <2>0, <2>a DEF Crash
    <3>3. files' \in Files /\ pw' \in Held  BY <2>4 DEF Crash, Files, Held, Types
    <3>4. locks' \in [LockIds -> Procs \union {None}]
      BY <2>4 DEF Crash, Released, Types
    <3> QED  BY <2>4, <3>1, <3>2, <3>3, <3>4 DEF Crash, Types
  <2>5. CASE NoFreePort(p) \/ CannotStart(p)
    <3>1. faults' \in 0 .. MaxFaults
      BY <2>5, ProvisionAssumption DEF NoFreePort, CannotStart, Types
    <3>2. proc' \in [Procs -> Local]
      <4>1. "failed" \in Phases  BY DEF Phases
      <4> QED  BY <2>5, <2>0, <2>a, <4>1 DEF NoFreePort, CannotStart, Throw
    <3> QED  BY <2>5, <3>1, <3>2 DEF NoFreePort, CannotStart, clusterVars, Types
  <2> QED
    BY <1>1, <2>1, <2>2, <2>3, <2>4, <2>5, StepTypes DEF ProcNext, GoesOn, Fails, Begin
<1>2. ASSUME ServerNext  PROVE Types'
  <2>1. CASE ServerReady  BY <2>1 DEF ServerReady, Types, Servers
  <2>2. CASE ServerStops
    <3>1. \A p \in Procs : proc[p] \in Local /\ [IdleProc EXCEPT !.pc = "failed"] \in Local
      BY IdleLocal, Assigned DEF Types, Phases
    <3>2. proc' \in [Procs -> Local]  BY <2>2, <3>1 DEF ServerStops
    <3>3. faults' \in 0 .. MaxFaults  BY <2>2, ProvisionAssumption DEF ServerStops, Types
    <3> QED  BY <2>2, <3>2, <3>3 DEF ServerStops, Types, Servers
  <2> QED  BY <1>2, <2>1, <2>2 DEF ServerNext
<1>3. ASSUME SaveToken  PROVE Types'
  BY <1>3 DEF SaveToken, Types, Settled, Held
<1>4. ASSUME UNCHANGED vars  PROVE Types'
  BY <1>4 DEF vars, Types
<1> QED  BY <1>1, <1>2, <1>3, <1>4 DEF Next
-------------------------------------------------------------------------------
(* The password of the cluster. *)

\* What the local state of a process may say of the logins, the file and the
\* cluster: an update never replaces logins that are stored, whoever runs initdb
\* runs it with them, and nobody else touches the files meanwhile.
Kept(r) ==
  /\ r.pc \notin {"merge", "rename"} => r.patch["login"] = None
  /\ r.pc \in {"merge", "rename"} =>
       /\ r.next \in {"idle", "key", "look", "logins", "initdb", "role"}
       /\ r.next = "initdb" => r.patch["login"] # None
  /\ r.patch["login"] # None => ~ HasLogins /\ r.login = r.patch["login"]
  /\ r.pc = "rename" => r.saw["login"] = file["login"]
  /\ r.pc = "initdb" => HasLogins /\ r.login = file["login"]
  /\ r.pc = "forming" => files = "forming"
  /\ r.pc = "conf" => files \in {"bare", "managed"}

Apart ==
  \A p, q \in Procs :
    /\ ~ HasLogins /\ proc[p].pc # "idle" /\ proc[q].pc # "idle" => p = q
    /\ proc[p].pc = "forming" /\ proc[q].pc = "forming" => p = q

Cluster ==
  /\ Exists => HasLogins /\ file["login"] = pw
  /\ server # "down" => files \in {"bare", "managed"}

LInv ==
  /\ Types
  /\ \A p \in Procs : Kept(proc[p])
  /\ Apart
  /\ Cluster

LEMMA LoginsAreNext == [LoginsNext]_vars => [Next]_vars
BY DEF LoginsNext, Next, ProcNext

LEMMA GrowIsLogins == [GrowNext]_vars => [LoginsNext]_vars
BY DEF GrowNext, LoginsNext, Works

LEMMA LoginsStart == Init => LInv
<1> SUFFICES ASSUME Init  PROVE LInv
  OBVIOUS
<1>1. \A p \in Procs : proc[p] = IdleProc  BY DEF Init
<1>2. Kept(IdleProc)  BY EmptySettled DEF Kept, IdleProc, Sections
<1>3. Apart  BY <1>1 DEF Apart, IdleProc
<1>4. Cluster  BY DEF Init, Cluster, Exists
<1> QED  BY <1>1, <1>2, <1>3, <1>4, TypesStart DEF LInv

\* A step that leaves the file and the cluster alone.
LEMMA LocalStep ==
  ASSUME LInv, Types', NEW p \in Procs, NEW r \in Local, Become(p, r),
         UNCHANGED <<file, files, pw, server>>,
         Kept(r), r.pc = "forming" => proc[p].pc = "forming",
         proc[p].pc # "idle" \/ HasLogins \/ Quiet
  PROVE  LInv'
<1>1. /\ proc'[p] = r
      /\ \A q \in Procs \ {p} : proc'[q] = proc[q]
  BY Becomes DEF LInv
<1>2. HasLogins' = HasLogins /\ Exists' = Exists  BY DEF HasLogins, Exists
<1>3. ASSUME NEW q \in Procs  PROVE Kept(proc[q])'
  <2>1. \A x \in Local : Kept(x) => Kept(x)'  BY <1>2 DEF Kept
  <2>2. proc'[q] \in Local /\ Kept(proc'[q])
    BY <1>1 DEF LInv, Types
  <2> QED  BY <2>2, <1>2 DEF Kept
<1>4. Apart'  BY <1>1, <1>2 DEF LInv, Apart, Quiet, At
<1>5. Cluster'  BY <1>2 DEF LInv, Cluster
<1> QED  BY <1>3, <1>4, <1>5 DEF LInv
LEMMA StepKeepsLogins ==
  ASSUME LInv, NEW p \in Procs, Step(p)
  PROVE  LInv'
<1>0. /\ proc[p] \in Local /\ Kept(proc[p]) /\ Types
      /\ IdleProc \in Local /\ [IdleProc EXCEPT !.pc = "failed"] \in Local
      /\ \A n \in Phases : [proc[p] EXCEPT !.pc = n] \in Local
  BY IdleLocal, Assigned DEF LInv, Types, Phases
<1>t. Types'  BY <1>0, StepTypes
<1>n. None \notin Secrets /\ Unused \subseteq Secrets
  BY ProvisionAssumption, UnusedSecrets
\* Three ways to go on that disturb nothing.
<1>a. ASSUME NEW n \in Phases \ {"merge", "rename", "initdb", "forming", "conf"},
             Goto(p, n), UNCHANGED <<file, files, pw, server>>,
             proc[p].pc \notin {"idle", "merge", "rename"}
      PROVE  LInv'
  <2>1. [proc[p] EXCEPT !.pc = n] \in Local  BY <1>0
  <2>2. Kept([proc[p] EXCEPT !.pc = n])  BY <1>0, <1>a DEF Kept, Local
  <2>3. [proc[p] EXCEPT !.pc = n].pc = n  BY <1>0 DEF Local
  <2> QED  BY <1>a, <1>t, <2>1, <2>2, <2>3, LocalStep DEF Goto
<1>b. ASSUME Throw(p), UNCHANGED <<file, files, pw, server>>, proc[p].pc # "idle"
      PROVE  LInv'
  <2>1. Kept([IdleProc EXCEPT !.pc = "failed"])
    BY EmptySettled DEF Kept, IdleProc, Sections
  <2>2. [IdleProc EXCEPT !.pc = "failed"].pc = "failed"  BY DEF IdleProc
  <2> QED  BY <1>b, <1>0, <1>t, <2>1, <2>2, LocalStep DEF Throw
<1>c. ASSUME NEW f \in Settled, f["login"] = None,
             NEW n \in {"idle", "key", "look", "logins", "role"},
             NEW r \in Local, Become(p, r), UNCHANGED <<file, files, pw, server>>,
             r.pc = "merge", r.patch = f, r.next = n, proc[p].pc # "idle"
      PROVE  LInv'
  <2>1. Kept(r)  BY <1>c DEF Kept
  <2> QED  BY <1>c, <1>t, <2>1, LocalStep
<1>1. CASE ReadConfig(p)
  <2> DEFINE r == [proc[p] EXCEPT !.pc = "rename", !.saw = file]
  <2>1. r \in Local
    <3>1. "rename" \in Phases /\ file \in Settled  BY <1>0 DEF Phases, Types
    <3> QED  BY <3>1, <1>0, Assigned
  <2>2. proc[p].pc = "merge"  BY <1>1 DEF ReadConfig, At
  <2>3. Kept(r) /\ r.pc = "rename"  BY <1>0, <2>2 DEF Kept, Local
  <2> HIDE DEF r
  <2>4. Become(p, r)  BY <1>1 DEF ReadConfig, r
  <2> QED  BY <1>1, <1>t, <2>1, <2>2, <2>3, <2>4, LocalStep DEF ReadConfig, clusterVars
<1>2. CASE RenameConfig(p)
  <2> DEFINE r == [proc[p] EXCEPT !.pc = proc[p].next, !.saw = Empty, !.patch = Empty,
                                  !.next = "idle"]
  <2>1. /\ proc[p].pc = "rename" /\ Become(p, r)
        /\ file' = Merged(proc[p].saw, proc[p].patch)
        /\ UNCHANGED <<files, pw, server>>
    BY <1>2 DEF RenameConfig, At, clusterVars
  <2>2. proc[p].saw \in Settled /\ proc[p].patch \in Settled  BY <1>0 DEF Local
  <2>3. file'["login"] = IF proc[p].patch["login"] # None THEN proc[p].patch["login"]
                                                        ELSE file["login"]
    <3>1. proc[p].saw["login"] = file["login"]  BY <1>0, <2>1 DEF Kept
    <3> QED  BY <2>1, <2>2, <3>1, MergedSettled DEF Sections
  <2>4. HasLogins => file'["login"] = file["login"]  BY <1>0, <2>3 DEF Kept
  <2>5. /\ r.pc = proc[p].next /\ r.patch = Empty /\ r.login = proc[p].login
    BY <1>0 DEF Local
  <2>6. /\ proc[p].next \in {"idle", "key", "look", "logins", "initdb", "role"}
        /\ proc[p].next = "initdb" =>
              proc[p].patch["login"] # None /\ proc[p].login = proc[p].patch["login"]
    BY <1>0, <2>1 DEF Kept
  <2> HIDE DEF r
  <2>7. /\ proc'[p] = r
        /\ \A q \in Procs \ {p} : proc'[q] = proc[q]
    <3>1. proc \in [Procs -> Local]  BY <1>0 DEF Types
    <3> QED  BY <2>1, <3>1 DEF Become
  <2>8. Kept(proc[p])'
    <3>1. r.patch["login"] = None  BY <2>5, EmptySettled DEF Sections
    <3>2. proc[p].next = "initdb" => HasLogins' /\ r.login = file'["login"]
      BY <2>3, <2>5, <2>6 DEF HasLogins
    <3> QED  BY <2>5, <2>6, <2>7, <3>1, <3>2 DEF Kept
  <2>9. ASSUME NEW q \in Procs \ {p}  PROVE Kept(proc[q])'
    <3>1. Kept(proc[q]) /\ proc'[q] = proc[q]  BY <2>7 DEF LInv
    <3>2. CASE HasLogins
      BY <2>1, <2>4, <3>1, <3>2 DEF Kept, HasLogins
    <3>3. CASE ~ HasLogins
      <4>1. proc[q].pc = "idle"  BY <3>3, <2>1 DEF LInv, Apart
      <4> QED  BY <3>1, <4>1 DEF Kept
    <3> QED  BY <3>2, <3>3
  <2>10. Apart'
    <3>1. HasLogins => HasLogins'  BY <2>4 DEF HasLogins
    <3>2. r.pc # "forming"  BY <2>5, <2>6
    <3> QED  BY <2>1, <2>7, <3>1, <3>2 DEF LInv, Apart
  <2>11. Cluster'  BY <2>1, <2>4 DEF LInv, Cluster, Exists, HasLogins
  <2> QED  BY <1>t, <2>8, <2>9, <2>10, <2>11 DEF LInv
<1>3. CASE WriteSettings(p)
  <2>1. PICK k \in IF proc[p].seen["key"] # None THEN {proc[p].seen["key"]} ELSE Unused,
             n \in {"key", "idle"} :
          Become(p, [Updating(p, [Setting("plaid", "set") EXCEPT !["key"] = k], n)
                       EXCEPT !.seen = Empty])
    BY <1>3 DEF WriteSettings
  <2>2. k \in Secrets  BY <1>0, <1>n DEF Local, Settled, Held
  <2> DEFINE f == [Setting("plaid", "set") EXCEPT !["key"] = k]
             u == Updating(p, f, n)
             r == [u EXCEPT !.seen = Empty]
  <2>3. f \in Settled /\ f["login"] = None  BY <2>2, SettingSettled
  <2>4. u \in Local  BY <1>0, <2>3, UpdatingLocal DEF Phases
  <2>5. u.pc = "merge" /\ u.patch = f /\ u.next = n  BY <1>0 DEF Updating, Local
  <2> HIDE DEF f, u
  <2>6. /\ r \in Local /\ r.pc = "merge" /\ r.patch = f /\ r.next = n
    BY <2>4, <2>5, EmptySettled, Assigned DEF Local
  <2>7. Become(p, r)  BY <2>1 DEF f, u
  <2> HIDE DEF r
  <2>8. proc[p].pc # "idle" /\ UNCHANGED <<file, files, pw, server>>
    BY <1>3 DEF WriteSettings, At, clusterVars
  <2> QED  BY <2>3, <2>6, <2>7, <2>8, <1>c
<1>4. CASE EnsureKey(p)
  <2>1. proc[p].pc = "key" /\ UNCHANGED <<file, files, pw, server>>
    BY <1>4 DEF EnsureKey, At, clusterVars
  <2>2. CASE file["key"] # None
    BY <1>4, <2>1, <2>2, <1>a DEF EnsureKey, Phases
  <2>3. CASE file["key"] = None
    <3>1. PICK k \in Unused : Become(p, Updating(p, Setting("key", k), "look"))
      BY <1>4, <2>3 DEF EnsureKey
    <3> DEFINE f == Setting("key", k)
               r == Updating(p, f, "look")
    <3>2. f \in Settled /\ f["login"] = None  BY <1>n, SettingSettled
    <3>3. r \in Local  BY <1>0, <3>2, UpdatingLocal DEF Phases
    <3>4. r.pc = "merge" /\ r.patch = f /\ r.next = "look"  BY <1>0 DEF Updating, Local
    <3>5. Become(p, r)  BY <3>1
    <3> HIDE DEF f, r
    <3> QED  BY <2>1, <3>2, <3>3, <3>4, <3>5, <1>c
  <2> QED  BY <2>2, <2>3
<1>5. CASE Look(p)
  BY <1>5, <1>a DEF Look, At, clusterVars, Phases
<1>6. CASE Allocate(p)
  <2>1. proc[p].pc = "ports" /\ UNCHANGED <<file, files, pw, server>>
    BY <1>6 DEF Allocate, At, clusterVars
  <2>2. CASE Goto(p, "logins")
    BY <2>1, <2>2, <1>a DEF Phases
  <2>3. CASE Become(p, Updating(p, Setting("ports", "set"), "logins"))
    <3> DEFINE f == Setting("ports", "set")
               r == Updating(p, f, "logins")
    <3>2. f \in Settled /\ f["login"] = None  BY SettingSettled
    <3>3. r \in Local  BY <1>0, <3>2, UpdatingLocal DEF Phases
    <3>4. r.pc = "merge" /\ r.patch = f /\ r.next = "logins"  BY <1>0 DEF Updating, Local
    <3>5. Become(p, r)  BY <2>3
    <3> HIDE DEF f, r
    <3> QED  BY <2>1, <3>2, <3>3, <3>4, <3>5, <1>c
  <2> QED  BY <1>6, <2>2, <2>3 DEF Allocate
<1>7. ASSUME NEW from \in {"logins", "relogin"}, NEW next \in {"initdb", "role"},
             DecideLogins(p, from, next)
      PROVE  LInv'
  <2>1. proc[p].pc = from /\ UNCHANGED <<file, files, pw, server>>
    BY <1>7 DEF DecideLogins, At, clusterVars
  <2>2. CASE HasLogins
    <3> DEFINE r == [proc[p] EXCEPT !.pc = next, !.login = file["login"]]
    <3>1. r \in Local
      <4>1. next \in Phases /\ file["login"] \in Held  BY <1>0 DEF Phases, Types, Settled
      <4> QED  BY <4>1, <1>0, Assigned
    <3>2. r.pc = next /\ r.login = file["login"] /\ r.patch = proc[p].patch
      BY <1>0 DEF Local
    <3>3. Become(p, r)  BY <1>7, <2>2 DEF DecideLogins
    <3> HIDE DEF r
    <3>4. Kept(r)  BY <1>0, <2>1, <2>2, <3>2 DEF Kept
    <3> QED  BY <2>1, <2>2, <3>1, <3>2, <3>3, <3>4, <1>t, LocalStep
  <2>3. CASE ~ HasLogins
    <3>1. PICK l \in Unused :
            Become(p, [Updating(p, Setting("login", l), next) EXCEPT !.login = l])
      BY <1>7, <2>3 DEF DecideLogins
    <3> DEFINE f == Setting("login", l)
               u == Updating(p, f, next)
               r == [u EXCEPT !.login = l]
    <3>2. f \in Settled /\ f["login"] = l /\ l # None  BY <1>n, SettingSettled
    <3>3. u \in Local  BY <1>0, <3>2, UpdatingLocal DEF Phases
    <3>4. u.pc = "merge" /\ u.patch = f /\ u.next = next  BY <1>0 DEF Updating, Local
    <3> HIDE DEF f, u
    <3>5. r \in Local /\ r.pc = "merge" /\ r.patch = f /\ r.next = next /\ r.login = l
      BY <1>n, <3>3, <3>4, Assigned DEF Local, Held
    <3>6. Become(p, r)  BY <3>1 DEF f, u
    <3> HIDE DEF r
    <3>7. Kept(r)  BY <2>3, <3>2, <3>5 DEF Kept
    <3> QED  BY <2>1, <3>5, <3>6, <3>7, <1>t, LocalStep
  <2> QED  BY <2>2, <2>3
\* The steps of initdb and what follows it.
<1>d. ASSUME NEW n \in Phases \ {"merge", "rename", "initdb"}, Goto(p, n),
             UNCHANGED <<file, server>>, proc[p].pc \notin {"idle", "merge", "rename"},
             n = "forming" => files' = "forming",
             n = "conf" => files' \in {"bare", "managed"},
             \A q \in Procs \ {p} :
               /\ proc[q].pc = "forming" => files' = "forming" /\ n # "forming"
               /\ proc[q].pc = "conf" => files' \in {"bare", "managed"},
             Cluster'
      PROVE  LInv'
  <2> DEFINE r == [proc[p] EXCEPT !.pc = n]
  <2>1. r \in Local /\ r.pc = n /\ r.patch = proc[p].patch  BY <1>0 DEF Local
  <2>2. Become(p, r)  BY <1>d DEF Goto
  <2> HIDE DEF r
  <2>3. /\ proc'[p] = r
        /\ \A q \in Procs \ {p} : proc'[q] = proc[q]
    BY <1>0, <2>1, <2>2, Becomes
  <2>4. HasLogins' = HasLogins  BY <1>d DEF HasLogins
  <2>5. Kept(proc[p])'  BY <1>0, <1>d, <2>1, <2>3, <2>4 DEF Kept
  <2>6. ASSUME NEW q \in Procs \ {p}  PROVE Kept(proc[q])'
    <3>1. Kept(proc[q]) /\ proc'[q] = proc[q]  BY <2>3 DEF LInv
    <3> QED  BY <1>d, <2>4, <3>1 DEF Kept
  <2>7. Apart'  BY <1>d, <2>1, <2>3, <2>4 DEF LInv, Apart
  <2> QED  BY <1>d, <1>t, <2>5, <2>6, <2>7 DEF LInv
<1>8. CASE Initdb(p)
  <2>1. proc[p].pc = "initdb" /\ UNCHANGED <<file, server>>  BY <1>8 DEF Initdb, At
  <2>2. CASE Exists
    BY <1>8, <2>1, <2>2, <1>a DEF Initdb, Phases
  <2>3. CASE ~ Exists
    <3>1. Goto(p, "forming") /\ files' = "forming" /\ pw' = proc[p].login
      BY <1>8, <2>3 DEF Initdb
    <3>2. HasLogins /\ proc[p].login = file["login"]  BY <1>0, <2>1 DEF Kept
    <3>3. files = "absent" /\ server = "down"  BY <2>3 DEF LInv, Cluster, Exists
    <3>4. \A q \in Procs : proc[q].pc \notin {"forming", "conf"}
      BY <3>3 DEF LInv, Kept
    <3>5. Cluster'  BY <2>1, <3>1, <3>2, <3>3 DEF Cluster, Exists, HasLogins
    <3> QED  BY <2>1, <3>1, <3>4, <3>5, <1>d DEF Phases
  <2> QED  BY <2>2, <2>3
<1>9. CASE InitdbEnds(p)
  <2>1. /\ proc[p].pc = "forming" /\ files' = "bare" /\ Goto(p, "conf")
        /\ UNCHANGED <<file, pw, server>>
    BY <1>9 DEF InitdbEnds, At
  <2>2. files = "forming"  BY <1>0, <2>1 DEF Kept
  <2>3. \A q \in Procs \ {p} : proc[q].pc # "forming"  BY <2>1 DEF LInv, Apart
  <2>4. Cluster'  BY <2>1, <2>2 DEF LInv, Cluster, Exists, HasLogins
  <2> QED  BY <2>1, <2>3, <2>4, <1>d DEF Phases
<1>10. CASE WriteManagedConfig(p)
  <2>1. /\ proc[p].pc = "conf" /\ files' = "managed" /\ Goto(p, "start")
        /\ UNCHANGED <<file, pw, server>>
    BY <1>10 DEF WriteManagedConfig, At
  <2>2. files \in {"bare", "managed"}  BY <1>0, <2>1 DEF Kept
  <2>3. \A q \in Procs : proc[q].pc # "forming"  BY <2>2 DEF LInv, Kept
  <2>4. Cluster'  BY <2>1, <2>2 DEF LInv, Cluster, Exists, HasLogins
  <2> QED  BY <2>1, <2>3, <2>4, <1>d DEF Phases
<1>11. CASE StartServer(p)
  <2>1. /\ proc[p].pc = "start" /\ UNCHANGED <<file, files, pw>>
        /\ \/ server' = server
           \/ server' = "starting" /\ files \in {"bare", "managed"} /\ Goto(p, "await")
    BY <1>11 DEF StartServer, At
  <2>2. CASE server' = server
    <3>1. Goto(p, "await") \/ Throw(p)  BY <1>11 DEF StartServer
    <3> QED  BY <2>1, <2>2, <3>1, <1>a, <1>b DEF Phases
  <2>3. CASE server' = "starting" /\ files \in {"bare", "managed"} /\ Goto(p, "await")
    <3> DEFINE r == [proc[p] EXCEPT !.pc = "await"]
    <3>1. r \in Local /\ r.pc = "await" /\ r.patch = proc[p].patch
      <4>1. "await" \in Phases  BY DEF Phases
      <4> QED  BY <4>1, <1>0 DEF Local
    <3>2. Become(p, r)  BY <2>3 DEF Goto
    <3> HIDE DEF r
    <3>3. /\ proc'[p] = r
          /\ \A q \in Procs \ {p} : proc'[q] = proc[q]
      BY <1>0, <3>1, <3>2, Becomes
    <3>4. HasLogins' = HasLogins  BY <2>1 DEF HasLogins
    <3>5. Kept(proc[p])'  BY <1>0, <2>1, <3>1, <3>3, <3>4 DEF Kept
    <3>6. ASSUME NEW q \in Procs \ {p}  PROVE Kept(proc[q])'
      <4>1. Kept(proc[q]) /\ proc'[q] = proc[q]  BY <3>3 DEF LInv
      <4> QED  BY <2>1, <3>4, <4>1 DEF Kept
    <3>7. Apart'  BY <2>1, <3>1, <3>3, <3>4 DEF LInv, Apart
    <3>8. Cluster'  BY <2>1, <2>3 DEF LInv, Cluster, Exists, HasLogins
    <3> QED  BY <1>t, <3>5, <3>6, <3>7, <3>8 DEF LInv
  <2> QED  BY <2>1, <2>2, <2>3
<1>12. CASE AwaitServer(p) \/ AwaitTimesOut(p)
  BY <1>12, <1>a, <1>b DEF AwaitServer, AwaitTimesOut, At, clusterVars, Phases
<1>13. CASE FindDatabase(p)
  BY <1>13, <1>a, <1>b DEF FindDatabase, At, clusterVars, Phases
<1>14. CASE CreateDatabase(p)
  BY <1>14, <1>a, <1>b DEF CreateDatabase, At, Phases
\* Steps on the database, which keep a list of migrations as well.
<1>e. ASSUME NEW n \in {"relogin", "lock", "migrate"}, NEW t \in SUBSET (1 .. Newest),
             Become(p, [proc[p] EXCEPT !.pc = n, !.todo = t]),
             UNCHANGED <<file, files, pw, server>>,
             proc[p].pc \in {"pending", "lock", "migrate"}
      PROVE  LInv'
  <2> DEFINE r == [proc[p] EXCEPT !.pc = n, !.todo = t]
  <2>1. r \in Local
    <3>1. n \in Phases  BY <1>e DEF Phases
    <3> QED  BY <3>1, <1>0, Assigned
  <2>2. r.pc = n /\ r.patch = proc[p].patch  BY <1>0 DEF Local
  <2>3. Become(p, r)  BY <1>e
  <2> HIDE DEF r
  <2>4. Kept(r)  BY <1>0, <1>e, <2>2 DEF Kept
  <2> QED  BY <1>e, <1>t, <2>1, <2>2, <2>3, <2>4, LocalStep
<1>15. CASE PendingMigrations(p)
  <2> DEFINE todo == Knows(p) \ applied
             n == IF todo = {} THEN "relogin" ELSE "lock"
  <2>1. todo \in SUBSET (1 .. Newest)  BY ProvisionAssumption DEF Knows
  <2>2. proc[p].pc = "pending" /\ UNCHANGED <<file, files, pw, server>>
    BY <1>15 DEF PendingMigrations, At, clusterVars
  <2>3. Become(p, [proc[p] EXCEPT !.pc = n, !.todo = todo]) \/ Throw(p)
    BY <1>15 DEF PendingMigrations
  <2>4. n \in {"relogin", "lock"}  OBVIOUS
  <2> HIDE DEF todo, n
  <2> QED  BY <2>1, <2>2, <2>3, <2>4, <1>b, <1>e
<1>16. CASE LockMigrations(p)
  <2>1. Knows(p) \ applied \in SUBSET (1 .. Newest)  BY ProvisionAssumption DEF Knows
  <2>2. /\ proc[p].pc = "lock" /\ UNCHANGED <<file, files, pw, server>>
        /\ Become(p, [proc[p] EXCEPT !.pc = "migrate", !.todo = Knows(p) \ applied])
    BY <1>16 DEF LockMigrations, At
  <2> QED  BY <2>1, <2>2, <1>e
<1>17. CASE LockUnreachable(p)
  BY <1>17, <1>b DEF LockUnreachable, At, clusterVars
<1>18. CASE RunMigrations(p)
  <2>1. /\ proc[p].pc = "migrate" /\ UNCHANGED <<file, files, pw, server>>
        /\ Become(p, [proc[p] EXCEPT !.pc = "relogin", !.todo = {}]) \/ Throw(p)
    BY <1>18 DEF RunMigrations, At
  <2>2. {} \in SUBSET (1 .. Newest)  OBVIOUS
  <2> QED  BY <2>1, <2>2, <1>b, <1>e
<1>19. CASE TryRoleLock(p)
  BY <1>19, <1>a, <1>b DEF TryRoleLock, At, Phases
<1>20. CASE AlterRole(p)
  BY <1>20, <1>a DEF AlterRole, At, Phases
<1>21. CASE Return(p)
  <2>1. Kept(IdleProc) /\ IdleProc.pc = "idle"
    BY EmptySettled DEF Kept, IdleProc, Sections
  <2>2. /\ proc[p].pc # "idle" /\ Become(p, IdleProc)
        /\ UNCHANGED <<file, files, pw, server>>
    BY <1>21 DEF Return, clusterVars
  <2> QED  BY <1>0, <1>t, <2>1, <2>2, LocalStep
<1> QED
  BY <1>1, <1>2, <1>3, <1>4, <1>5, <1>6, <1>7, <1>8, <1>9, <1>10, <1>11, <1>12, <1>13,
     <1>14, <1>15, <1>16, <1>17, <1>18, <1>19, <1>20, <1>21, <1>0 DEF Step
LEMMA LoginsKept == ASSUME LInv, [LoginsNext]_vars  PROVE LInv'
<1>t. Types'  BY LoginsAreNext, TypesKept DEF LInv
<1>i. Kept(IdleProc) /\ IdleProc.pc = "idle" /\ IdleProc \in Local
  BY EmptySettled, IdleLocal DEF Kept, IdleProc, Sections
<1>1. ASSUME NEW p \in Procs, HasLogins \/ Quiet, Begin(p)  PROVE LInv'
  <2>0. /\ proc[p] \in Local /\ Kept(proc[p]) /\ proc[p].pc = "idle"
        /\ UNCHANGED <<file, files, pw, server>> /\ file \in Settled
    BY <1>1 DEF LInv, Types, Begin, BeginInstall, BeginInit, At, clusterVars
  <2>1. CASE BeginInstall(p)
    <3> DEFINE r == [proc[p] EXCEPT !.pc = "key"]
    <3>1. r \in Local
      <4>1. "key" \in Phases  BY DEF Phases
      <4> QED  BY <4>1, <2>0, Assigned
    <3>2. r.pc = "key" /\ r.patch = proc[p].patch  BY <2>0 DEF Local
    <3>3. Become(p, r)  BY <2>1 DEF BeginInstall, Goto
    <3> HIDE DEF r
    <3>4. Kept(r)  BY <2>0, <3>2 DEF Kept
    <3> QED  BY <1>1, <1>t, <2>0, <3>1, <3>2, <3>3, <3>4, LocalStep
  <2>2. CASE BeginInit(p)
    <3> DEFINE r == [proc[p] EXCEPT !.pc = "prompt", !.seen = file]
    <3>1. r \in Local
      <4>1. "prompt" \in Phases  BY DEF Phases
      <4> QED  BY <4>1, <2>0, Assigned
    <3>2. r.pc = "prompt" /\ r.patch = proc[p].patch  BY <2>0 DEF Local
    <3>3. Become(p, r)  BY <2>2 DEF BeginInit
    <3> HIDE DEF r
    <3>4. Kept(r)  BY <2>0, <3>2 DEF Kept
    <3> QED  BY <1>1, <1>t, <2>0, <3>1, <3>2, <3>3, <3>4, LocalStep
  <2> QED  BY <1>1, <2>1, <2>2 DEF Begin
\* The files are left by an initdb that fails or dies.
<1>a. ASSUME NEW p \in Procs, NEW r \in Local, Become(p, r), Kept(r),
             r.pc \notin {"forming", "conf", "initdb"}, proc[p].pc = "forming",
             UNCHANGED <<file, server>>, files' \in {"bare", "absent", "broken"},
             files' # "absent" => pw' = pw
      PROVE  LInv'
  <2>1. /\ proc'[p] = r
        /\ \A q \in Procs \ {p} : proc'[q] = proc[q]
    BY <1>a, Becomes DEF LInv
  <2>2. files = "forming"  BY <1>a DEF LInv, Kept
  <2>3. HasLogins' = HasLogins /\ HasLogins
    BY <1>a, <2>2 DEF HasLogins, LInv, Cluster, Exists
  <2>4. \A q \in Procs \ {p} : proc[q].pc \notin {"forming", "conf"}
    BY <1>a, <2>2 DEF LInv, Apart, Kept
  <2>5. Kept(proc[p])'  BY <1>a, <2>1, <2>3 DEF Kept
  <2>6. ASSUME NEW q \in Procs \ {p}  PROVE Kept(proc[q])'
    <3>1. Kept(proc[q]) /\ proc'[q] = proc[q]  BY <2>1 DEF LInv
    <3> QED  BY <1>a, <2>3, <2>4, <3>1 DEF Kept
  <2>7. Apart'  BY <1>a, <2>1, <2>3 DEF LInv, Apart
  <2>8. Cluster'  BY <1>a, <2>2, <2>3 DEF LInv, Cluster, Exists
  <2> QED  BY <1>t, <2>5, <2>6, <2>7, <2>8 DEF LInv
<1>2. ASSUME NEW p \in Procs, InitdbFails(p)  PROVE LInv'
  <2>0. proc[p] \in Local /\ Kept(proc[p])  BY DEF LInv, Types
  <2>1. proc[p].pc = "forming" /\ UNCHANGED <<file, server>>
    BY <1>2 DEF InitdbFails, At
  <2>2. CASE files' = "absent" /\ Throw(p)
    <3> DEFINE r == [IdleProc EXCEPT !.pc = "failed"]
    <3>1. r \in Local
      <4>1. "failed" \in Phases  BY DEF Phases
      <4> QED  BY <4>1, <1>i, Assigned
    <3>2. r.pc = "failed" /\ Kept(r)  BY EmptySettled DEF Kept, IdleProc, Sections
    <3>3. Become(p, r)  BY <2>2 DEF Throw
    <3> HIDE DEF r
    <3> QED  BY <2>1, <2>2, <3>1, <3>2, <3>3, <1>a
  <2>3. CASE files' = "broken" /\ Goto(p, "start") /\ UNCHANGED pw
    <3> DEFINE r == [proc[p] EXCEPT !.pc = "start"]
    <3>1. r \in Local
      <4>1. "start" \in Phases  BY DEF Phases
      <4> QED  BY <4>1, <2>0, Assigned
    <3>2. r.pc = "start" /\ r.patch = proc[p].patch  BY <2>0 DEF Local
    <3>3. Become(p, r)  BY <2>3 DEF Goto
    <3> HIDE DEF r
    <3>4. Kept(r)  BY <2>0, <2>1, <3>2 DEF Kept
    <3> QED  BY <2>1, <2>3, <3>1, <3>2, <3>3, <3>4, <1>a
  <2> QED  BY <1>2, <2>2, <2>3 DEF InitdbFails
<1>3. ASSUME NEW p \in Procs, Crash(p)  PROVE LInv'
  <2>1. /\ proc[p].pc # "idle" /\ Become(p, IdleProc) /\ UNCHANGED <<file, server>>
    BY <1>3 DEF Crash
  <2>2. CASE proc[p].pc = "forming"
    BY <1>3, <1>i, <2>1, <2>2, <1>a DEF Crash, At
  <2>3. CASE proc[p].pc # "forming"
    <3>1. UNCHANGED <<files, pw>>  BY <1>3, <2>3 DEF Crash, At
    <3> QED  BY <1>i, <1>t, <2>1, <3>1, LocalStep
  <2> QED  BY <2>2, <2>3
<1>4. CASE ServerNext
  <2>1. /\ UNCHANGED <<file, files, pw>>
        /\ server' = "down" \/ (server # "down" /\ server' # "down")
    BY <1>4 DEF ServerNext, ServerReady, ServerStops
  <2>2. HasLogins' = HasLogins /\ Exists' = Exists  BY <2>1 DEF HasLogins, Exists
  <2>3. Cluster'  BY <2>1, <2>2 DEF LInv, Cluster
  <2>4. \A p \in Procs : \/ proc'[p] = proc[p]
                        \/ /\ proc'[p] = [IdleProc EXCEPT !.pc = "failed"]
                           /\ proc[p].pc # "idle"
    BY <1>4 DEF ServerNext, ServerReady, ServerStops, LInv, Types
  <2>5. Kept([IdleProc EXCEPT !.pc = "failed"]) /\ [IdleProc EXCEPT !.pc = "failed"].pc = "failed"
    BY EmptySettled DEF Kept, IdleProc, Sections
  <2>6. ASSUME NEW p \in Procs  PROVE Kept(proc[p])'
    <3>1. Kept(proc'[p])  BY <2>4, <2>5 DEF LInv
    <3> QED  BY <2>1, <2>2, <3>1 DEF Kept
  <2>7. Apart'  BY <2>2, <2>4, <2>5 DEF LInv, Apart
  <2> QED  BY <1>t, <2>3, <2>6, <2>7 DEF LInv
<1>5. CASE SaveToken \/ UNCHANGED vars
  <2>1. UNCHANGED <<file, files, pw, server, proc>>
    BY <1>5 DEF SaveToken, vars
  <2> QED  BY <1>t, <2>1 DEF LInv, Kept, Apart, Cluster, HasLogins, Exists
<1>6. ASSUME NEW p \in Procs, NoFreePort(p) \/ CannotStart(p)  PROVE LInv'
  <2> DEFINE r == [IdleProc EXCEPT !.pc = "failed"]
  <2>1. r \in Local
    <3>1. "failed" \in Phases  BY DEF Phases
    <3> QED  BY <3>1, <1>i, Assigned
  <2>2. r.pc = "failed" /\ Kept(r)  BY EmptySettled DEF Kept, IdleProc, Sections
  <2>3. /\ Become(p, r) /\ UNCHANGED <<file, files, pw, server>>
        /\ proc[p].pc \in {"ports", "start"}
    BY <1>6 DEF NoFreePort, CannotStart, Throw, At, clusterVars
  <2> HIDE DEF r
  <2> QED  BY <1>t, <2>1, <2>2, <2>3, LocalStep
<1> QED
  BY <1>1, <1>2, <1>3, <1>4, <1>5, <1>6, StepKeepsLogins DEF LoginsNext, GoesOn, Fails

LEMMA LoginsInvariant == LoginsSpec => []LInv
<1>1. Init => LInv  BY LoginsStart
<1>2. LInv /\ [LoginsNext]_vars => LInv'  BY LoginsKept
<1> QED  BY <1>1, <1>2, PTL DEF LoginsSpec

(***************************************************************************)
(* Once there is a cluster, config.json has its password, whatever fails   *)
(* and however many commands run after the logins are stored: they are     *)
(* stored before initdb runs (install), and never replaced.                *)
(***************************************************************************)
THEOREM PasswordIsHeld == LoginsSpec => []PasswordHeld
<1>1. LInv => PasswordHeld  BY DEF LInv, Cluster, PasswordHeld
<1> QED  BY <1>1, LoginsInvariant, PTL

(***************************************************************************)
(* Every variable has its type under that specification.                   *)
(***************************************************************************)
THEOREM LoginsTypeCorrect == LoginsSpec => []TypeOK
<1>1. LInv => TypeOK  BY TypesGiveTypeOK DEF LInv
<1> QED  BY <1>1, LoginsInvariant, PTL
-------------------------------------------------------------------------------
(* The key of the access tokens. *)

\* Where a process can be before it has seen to it that there is a key.
Early == {"idle", "prompt", "merge", "rename", "key", "failed"}

\* What a process knows of the key is what the file says; logins are stored after it.
KeyKept(r) ==
  /\ r.pc \notin Early => file["key"] # None
  /\ r.patch["login"] # None => file["key"] # None
  /\ r.pc \in {"merge", "rename"} /\ r.next \notin {"idle", "key"} =>
       file["key"] # None \/ r.patch["key"] # None
  /\ r.pc = "rename" /\ r.saw["login"] # None => file["key"] # None
  /\ r.pc \notin {"merge", "rename"} => r.patch["key"] = None
  /\ r.pc \in {"merge", "rename"} =>
       r.next \in {"idle", "key", "look", "logins", "initdb", "role"}
  /\ r.pc = "prompt" => r.seen["key"] = file["key"]
  /\ r.pc = "rename" => r.saw["key"] = file["key"]
  /\ r.patch["key"] # None => file["key"] \in {None, r.patch["key"]}

Alone ==
  \A p, q \in Procs : proc[p].pc # "idle" /\ proc[q].pc # "idle" => p = q

KInv ==
  /\ Types
  /\ \A p \in Procs : KeyKept(proc[p])
  /\ file["key"] = None => Alone /\ ~ HasLogins
  /\ TokensReadable

LEMMA KeyStart == Init => KInv
<1> SUFFICES ASSUME Init  PROVE KInv
  OBVIOUS
<1>1. \A p \in Procs : proc[p] = IdleProc  BY DEF Init
<1>2. KeyKept(IdleProc)  BY EmptySettled DEF KeyKept, IdleProc, Sections, Early
<1>3. Alone /\ ~ HasLogins
  BY <1>1, EmptySettled DEF Alone, IdleProc, Init, HasLogins, Sections
<1>4. TokensReadable  BY DEF Init, TokensReadable
<1> QED  BY <1>1, <1>2, <1>3, <1>4, TypesStart DEF KInv

\* A step of one process that leaves the file and the tokens alone.
LEMMA KeyLocalStep ==
  ASSUME KInv, Types', NEW p \in Procs, NEW r \in Local, Become(p, r),
         UNCHANGED <<file, tokens>>, KeyKept(r),
         proc[p].pc # "idle" \/ HasLogins \/ Quiet
  PROVE  KInv'
<1>1. /\ proc'[p] = r
      /\ \A q \in Procs \ {p} : proc'[q] = proc[q]
  BY Becomes DEF KInv
<1>2. ASSUME NEW q \in Procs  PROVE KeyKept(proc[q])'
  <2>1. KeyKept(proc'[q])  BY <1>1 DEF KInv
  <2> QED  BY <2>1 DEF KeyKept
<1>3. (file["key"] = None => Alone /\ ~ HasLogins)'
  BY <1>1 DEF KInv, Alone, Quiet, At, HasLogins
<1> QED  BY <1>2, <1>3 DEF KInv, TokensReadable

\* One that keeps what it knows of the key.
LEMMA KeySameStep ==
  ASSUME KInv, Types', NEW p \in Procs, NEW r \in Local, Become(p, r),
         UNCHANGED <<file, tokens>>, proc[p].pc \notin {"idle", "merge", "rename"},
         r.pc \notin {"prompt", "merge", "rename"}, r.patch \in {proc[p].patch, Empty},
         r.pc \in Early \/ proc[p].pc \notin Early \/ file["key"] # None
  PROVE  KInv'
<1>1. KeyKept(proc[p])  BY DEF KInv
<1>2. KeyKept(r)  BY <1>1, EmptySettled DEF KeyKept, Sections
<1> QED  BY <1>2, KeyLocalStep

LEMMA StepKeepsKey ==
  ASSUME KInv, NEW p \in Procs, Step(p)
  PROVE  KInv'
<1>0. /\ proc[p] \in Local /\ KeyKept(proc[p]) /\ Types
      /\ IdleProc \in Local /\ [IdleProc EXCEPT !.pc = "failed"] \in Local
      /\ \A n \in Phases : [proc[p] EXCEPT !.pc = n] \in Local
  BY IdleLocal, Assigned DEF KInv, Types, Phases
<1>t. Types'  BY <1>0, StepTypes
<1>n. None \notin Secrets /\ Unused \subseteq Secrets
  BY ProvisionAssumption, UnusedSecrets
<1>a. ASSUME NEW n \in Phases \ {"prompt", "merge", "rename"}, Goto(p, n),
             UNCHANGED <<file, tokens>>, proc[p].pc \notin {"idle", "merge", "rename"},
             proc[p].pc \notin Early \/ file["key"] # None
      PROVE  KInv'
  <2> DEFINE r == [proc[p] EXCEPT !.pc = n]
  <2>1. r \in Local /\ r.pc = n /\ r.patch = proc[p].patch  BY <1>0 DEF Local
  <2>2. Become(p, r)  BY <1>a DEF Goto
  <2> HIDE DEF r
  <2> QED  BY <1>a, <1>t, <2>1, <2>2, KeySameStep DEF Early
<1>b. ASSUME Throw(p), UNCHANGED <<file, tokens>>,
             proc[p].pc \notin {"idle", "merge", "rename"}
      PROVE  KInv'
  <2>1. /\ [IdleProc EXCEPT !.pc = "failed"].pc = "failed"
        /\ [IdleProc EXCEPT !.pc = "failed"].patch = Empty
    BY DEF IdleProc
  <2> QED  BY <1>b, <1>0, <1>t, <2>1, KeySameStep DEF Throw, Early
<1>c. ASSUME NEW f \in Settled, f["key"] # None => file["key"] \in {None, f["key"]},
             f["login"] # None => file["key"] # None,
             NEW n \in {"idle", "key", "look", "logins", "initdb", "role"},
             NEW r \in Local, Become(p, r), UNCHANGED <<file, tokens>>,
             r.pc = "merge", r.patch = f, r.next = n, proc[p].pc # "idle",
             n \notin {"idle", "key"} => file["key"] # None \/ f["key"] # None
      PROVE  KInv'
  <2>1. KeyKept(r)  BY <1>c DEF KeyKept, Early
  <2> QED  BY <1>c, <1>t, <2>1, KeyLocalStep
<1>1. CASE ReadConfig(p)
  <2> DEFINE r == [proc[p] EXCEPT !.pc = "rename", !.saw = file]
  <2>1. r \in Local
    <3>1. "rename" \in Phases /\ file \in Settled  BY <1>0 DEF Phases, Types
    <3> QED  BY <3>1, <1>0, Assigned
  <2>2. proc[p].pc = "merge"  BY <1>1 DEF ReadConfig, At
  <2>3. KeyKept(r)  BY <1>0, <2>2 DEF KeyKept, Local, Early, KInv, HasLogins
  <2> HIDE DEF r
  <2>4. Become(p, r) /\ UNCHANGED <<file, tokens>>
    BY <1>1 DEF ReadConfig, r, clusterVars
  <2> QED  BY <1>t, <2>1, <2>2, <2>3, <2>4, KeyLocalStep
<1>2. CASE RenameConfig(p)
  <2> DEFINE r == [proc[p] EXCEPT !.pc = proc[p].next, !.saw = Empty, !.patch = Empty,
                                  !.next = "idle"]
  <2>1. /\ proc[p].pc = "rename" /\ Become(p, r)
        /\ file' = Merged(proc[p].saw, proc[p].patch) /\ UNCHANGED tokens
    BY <1>2 DEF RenameConfig, At, clusterVars
  <2>2. proc[p].saw \in Settled /\ proc[p].patch \in Settled  BY <1>0 DEF Local
  <2>3. file'["key"] = IF proc[p].patch["key"] # None THEN proc[p].patch["key"]
                                                      ELSE file["key"]
    <3>1. proc[p].saw["key"] = file["key"]  BY <1>0, <2>1 DEF KeyKept
    <3> QED  BY <2>1, <2>2, <3>1, MergedSettled DEF Sections
  <2>4. file["key"] # None => file'["key"] = file["key"]  BY <1>0, <2>3 DEF KeyKept
  <2>5. r.pc = proc[p].next /\ r.patch = Empty  BY <1>0 DEF Local
  <2>6. /\ proc[p].next \in {"idle", "key", "look", "logins", "initdb", "role"}
        /\ proc[p].next \notin {"idle", "key"} => file'["key"] # None
    BY <1>0, <2>1, <2>3 DEF KeyKept
  <2>l. file'["login"] # None => file'["key"] # None
    <3>1. file'["login"] = IF proc[p].patch["login"] # None THEN proc[p].patch["login"]
                                                            ELSE proc[p].saw["login"]
      BY <2>1, <2>2, MergedSettled DEF Sections
    <3> QED  BY <1>0, <2>1, <2>4, <3>1 DEF KeyKept
  <2> HIDE DEF r
  <2>7. /\ proc'[p] = r
        /\ \A q \in Procs \ {p} : proc'[q] = proc[q]
        /\ file["key"] = None => \A q \in Procs \ {p} : proc[q].pc = "idle"
    <3>1. proc \in [Procs -> Local]  BY <1>0 DEF Types
    <3> QED  BY <2>1, <3>1 DEF Become, KInv, Alone
  <2>8. ASSUME NEW q \in Procs  PROVE KeyKept(proc[q])'
    <3>1. CASE q = p
      <4>1. r.patch["key"] = None /\ r.patch["login"] = None
        BY <2>5, EmptySettled DEF Sections
      <4> QED  BY <2>5, <2>6, <2>7, <3>1, <4>1 DEF KeyKept, Early
    <3>2. CASE q # p
      <4>1. KeyKept(proc[q]) /\ proc'[q] = proc[q]  BY <2>7, <3>2 DEF KInv
      <4>2. CASE file["key"] = None
        <5>1. proc[q].pc = "idle"  BY <2>7, <3>2, <4>2
        <5> QED  BY <4>1, <4>2, <5>1 DEF KeyKept, Early
      <4>3. CASE file["key"] # None  BY <2>4, <4>1, <4>3 DEF KeyKept
      <4> QED  BY <4>2, <4>3
    <3> QED  BY <3>1, <3>2
  <2>9. (file["key"] = None => Alone /\ ~ HasLogins)'
    BY <2>4, <2>7, <2>l DEF Alone, HasLogins
  <2>10. TokensReadable'
    <3>1. tokens \subseteq {file["key"]} /\ None \notin tokens
      BY <1>0, <1>n DEF KInv, TokensReadable, Types
    <3>2. CASE file["key"] = None  BY <2>1, <3>1, <3>2 DEF TokensReadable
    <3>3. CASE file["key"] # None  BY <2>1, <2>4, <3>1, <3>3 DEF TokensReadable
    <3> QED  BY <3>2, <3>3
  <2> QED  BY <1>t, <2>8, <2>9, <2>10 DEF KInv
<1>3. CASE WriteSettings(p)
  <2>1. PICK k \in IF proc[p].seen["key"] # None THEN {proc[p].seen["key"]} ELSE Unused,
             n \in {"key", "idle"} :
          Become(p, [Updating(p, [Setting("plaid", "set") EXCEPT !["key"] = k], n)
                       EXCEPT !.seen = Empty])
    BY <1>3 DEF WriteSettings
  <2>2. k \in Secrets  BY <1>0, <1>n DEF Local, Settled, Held
  <2> DEFINE f == [Setting("plaid", "set") EXCEPT !["key"] = k]
             u == Updating(p, f, n)
             r == [u EXCEPT !.seen = Empty]
  <2>3. f \in Settled /\ f["key"] = k /\ f["login"] = None  BY <2>2, SettingSettled
  <2>4. u \in Local  BY <1>0, <2>3, UpdatingLocal DEF Phases
  <2>5. u.pc = "merge" /\ u.patch = f /\ u.next = n  BY <1>0 DEF Updating, Local
  <2> HIDE DEF f, u
  <2>6. /\ r \in Local /\ r.pc = "merge" /\ r.patch = f /\ r.next = n
    BY <2>4, <2>5, EmptySettled, Assigned DEF Local
  <2>7. Become(p, r)  BY <2>1 DEF f, u
  <2> HIDE DEF r
  <2>8. proc[p].pc = "prompt" /\ UNCHANGED <<file, tokens>>
    BY <1>3 DEF WriteSettings, At, clusterVars
  <2>9. file["key"] \in {None, k}  BY <1>0, <2>1, <2>8 DEF KeyKept
  <2> QED  BY <2>3, <2>6, <2>7, <2>8, <2>9, <1>c
<1>4. CASE EnsureKey(p)
  <2>1. proc[p].pc = "key" /\ UNCHANGED <<file, tokens>>
    BY <1>4 DEF EnsureKey, At, clusterVars
  <2>2. CASE file["key"] # None
    BY <1>4, <2>1, <2>2, <1>a DEF EnsureKey, Phases, Early
  <2>3. CASE file["key"] = None
    <3>1. PICK k \in Unused : Become(p, Updating(p, Setting("key", k), "look"))
      BY <1>4, <2>3 DEF EnsureKey
    <3> DEFINE f == Setting("key", k)
               r == Updating(p, f, "look")
    <3>2. f \in Settled /\ f["key"] # None /\ f["login"] = None  BY <1>n, SettingSettled
    <3>3. r \in Local  BY <1>0, <3>2, UpdatingLocal DEF Phases
    <3>4. r.pc = "merge" /\ r.patch = f /\ r.next = "look"  BY <1>0 DEF Updating, Local
    <3>5. Become(p, r)  BY <3>1
    <3> HIDE DEF f, r
    <3> QED  BY <2>1, <2>3, <3>2, <3>3, <3>4, <3>5, <1>c
  <2> QED  BY <2>2, <2>3
<1>5. CASE Look(p)
  BY <1>5, <1>a DEF Look, At, clusterVars, Phases, Early
<1>6. CASE Allocate(p)
  <2>1. proc[p].pc = "ports" /\ UNCHANGED <<file, tokens>>
    BY <1>6 DEF Allocate, At, clusterVars
  <2>2. CASE Goto(p, "logins")
    BY <2>1, <2>2, <1>a DEF Phases, Early
  <2>3. CASE Become(p, Updating(p, Setting("ports", "set"), "logins"))
    <3> DEFINE f == Setting("ports", "set")
               r == Updating(p, f, "logins")
    <3>2. f \in Settled /\ f["key"] = None  BY SettingSettled
    <3>3. r \in Local  BY <1>0, <3>2, UpdatingLocal DEF Phases
    <3>4. r.pc = "merge" /\ r.patch = f /\ r.next = "logins"  BY <1>0 DEF Updating, Local
    <3>5. Become(p, r)  BY <2>3
    <3> HIDE DEF f, r
    <3> QED  BY <1>0, <2>1, <3>2, <3>3, <3>4, <3>5, <1>c DEF KeyKept, Early
  <2> QED  BY <1>6, <2>2, <2>3 DEF Allocate
<1>7. ASSUME NEW from \in {"logins", "relogin"}, NEW next \in {"initdb", "role"},
             DecideLogins(p, from, next)
      PROVE  KInv'
  <2>1. proc[p].pc = from /\ UNCHANGED <<file, tokens>>
    BY <1>7 DEF DecideLogins, At, clusterVars
  <2>2. CASE HasLogins
    <3> DEFINE r == [proc[p] EXCEPT !.pc = next, !.login = file["login"]]
    <3>1. r \in Local
      <4>1. next \in Phases /\ file["login"] \in Held  BY <1>0 DEF Phases, Types, Settled
      <4> QED  BY <4>1, <1>0, Assigned
    <3>2. r.pc = next /\ r.patch = proc[p].patch  BY <1>0 DEF Local
    <3>3. Become(p, r)  BY <1>7, <2>2 DEF DecideLogins
    <3> HIDE DEF r
    <3> QED  BY <2>1, <3>1, <3>2, <3>3, <1>t, KeySameStep DEF Early
  <2>3. CASE ~ HasLogins
    <3>1. PICK l \in Unused :
            Become(p, [Updating(p, Setting("login", l), next) EXCEPT !.login = l])
      BY <1>7, <2>3 DEF DecideLogins
    <3> DEFINE f == Setting("login", l)
               u == Updating(p, f, next)
               r == [u EXCEPT !.login = l]
    <3>2. f \in Settled /\ f["key"] = None  BY <1>n, SettingSettled
    <3>3. u \in Local  BY <1>0, <3>2, UpdatingLocal DEF Phases
    <3>4. u.pc = "merge" /\ u.patch = f /\ u.next = next  BY <1>0 DEF Updating, Local
    <3> HIDE DEF f, u
    <3>5. r \in Local /\ r.pc = "merge" /\ r.patch = f /\ r.next = next
      BY <1>n, <3>3, <3>4, Assigned DEF Local, Held
    <3>6. Become(p, r)  BY <3>1 DEF f, u
    <3> HIDE DEF r
    <3> QED  BY <1>0, <2>1, <3>2, <3>5, <3>6, <1>c DEF KeyKept, Early
  <2> QED  BY <2>2, <2>3
<1>8. CASE Initdb(p) \/ InitdbEnds(p) \/ WriteManagedConfig(p)
  BY <1>8, <1>a DEF Initdb, InitdbEnds, WriteManagedConfig, At, Phases, Early
<1>9. CASE StartServer(p) \/ AwaitServer(p) \/ AwaitTimesOut(p)
  BY <1>9, <1>a, <1>b DEF StartServer, AwaitServer, AwaitTimesOut, At, clusterVars, Phases, Early
<1>10. CASE FindDatabase(p) \/ CreateDatabase(p)
  BY <1>10, <1>a, <1>b DEF FindDatabase, CreateDatabase, At, clusterVars, Phases, Early
<1>e. ASSUME NEW n \in {"relogin", "lock", "migrate"}, NEW t \in SUBSET (1 .. Newest),
             Become(p, [proc[p] EXCEPT !.pc = n, !.todo = t]),
             UNCHANGED <<file, tokens>>, proc[p].pc \in {"pending", "lock", "migrate"}
      PROVE  KInv'
  <2> DEFINE r == [proc[p] EXCEPT !.pc = n, !.todo = t]
  <2>1. r \in Local
    <3>1. n \in Phases  BY <1>e DEF Phases
    <3> QED  BY <3>1, <1>0, Assigned
  <2>2. r.pc = n /\ r.patch = proc[p].patch  BY <1>0 DEF Local
  <2>3. Become(p, r)  BY <1>e
  <2> HIDE DEF r
  <2> QED  BY <1>e, <1>t, <2>1, <2>2, <2>3, KeySameStep DEF Early
<1>11. CASE PendingMigrations(p)
  <2> DEFINE todo == Knows(p) \ applied
             n == IF todo = {} THEN "relogin" ELSE "lock"
  <2>1. todo \in SUBSET (1 .. Newest)  BY ProvisionAssumption DEF Knows
  <2>2. proc[p].pc = "pending" /\ UNCHANGED <<file, tokens>>
    BY <1>11 DEF PendingMigrations, At, clusterVars
  <2>3. Become(p, [proc[p] EXCEPT !.pc = n, !.todo = todo]) \/ Throw(p)
    BY <1>11 DEF PendingMigrations
  <2>4. n \in {"relogin", "lock"}  OBVIOUS
  <2> HIDE DEF todo, n
  <2> QED  BY <2>1, <2>2, <2>3, <2>4, <1>b, <1>e DEF Early
<1>12. CASE LockMigrations(p)
  <2>1. Knows(p) \ applied \in SUBSET (1 .. Newest)  BY ProvisionAssumption DEF Knows
  <2>2. /\ proc[p].pc = "lock" /\ UNCHANGED <<file, tokens>>
        /\ Become(p, [proc[p] EXCEPT !.pc = "migrate", !.todo = Knows(p) \ applied])
    BY <1>12 DEF LockMigrations, At
  <2> QED  BY <2>1, <2>2, <1>e
<1>13. CASE RunMigrations(p)
  <2>1. /\ proc[p].pc = "migrate" /\ UNCHANGED <<file, tokens>>
        /\ Become(p, [proc[p] EXCEPT !.pc = "relogin", !.todo = {}]) \/ Throw(p)
    BY <1>13 DEF RunMigrations, At
  <2>2. {} \in SUBSET (1 .. Newest)  OBVIOUS
  <2> QED  BY <2>1, <2>2, <1>b, <1>e DEF Early
<1>14. CASE LockUnreachable(p) \/ TryRoleLock(p) \/ AlterRole(p)
  BY <1>14, <1>a, <1>b DEF LockUnreachable, TryRoleLock, AlterRole, At, clusterVars, Phases, Early
<1>15. CASE Return(p)
  <2>1. IdleProc.pc = "idle" /\ IdleProc.patch = Empty  BY DEF IdleProc
  <2>2. /\ proc[p].pc \in {"ok", "failed"} /\ Become(p, IdleProc)
        /\ UNCHANGED <<file, tokens>>
    BY <1>15 DEF Return, clusterVars
  <2> QED  BY <1>0, <1>t, <2>1, <2>2, KeySameStep DEF Early
<1> QED
  BY <1>1, <1>2, <1>3, <1>4, <1>5, <1>6, <1>7, <1>8, <1>9, <1>10, <1>11, <1>12, <1>13,
     <1>14, <1>15 DEF Step

LEMMA KeyStays == ASSUME KInv, [LoginsNext]_vars  PROVE KInv'
<1>t. Types'  BY LoginsAreNext, TypesKept DEF KInv
<1>i. /\ IdleProc \in Local /\ IdleProc.pc = "idle" /\ KeyKept(IdleProc)
  BY EmptySettled, IdleLocal DEF KeyKept, IdleProc, Sections, Early
<1>1. ASSUME NEW p \in Procs, HasLogins \/ Quiet, Begin(p)  PROVE KInv'
  <2>0. /\ proc[p] \in Local /\ KeyKept(proc[p]) /\ proc[p].pc = "idle"
        /\ UNCHANGED <<file, tokens>> /\ file \in Settled
    BY <1>1 DEF KInv, Types, Begin, BeginInstall, BeginInit, At, clusterVars
  <2>1. CASE BeginInstall(p)
    <3> DEFINE r == [proc[p] EXCEPT !.pc = "key"]
    <3>1. r \in Local
      <4>1. "key" \in Phases  BY DEF Phases
      <4> QED  BY <4>1, <2>0, Assigned
    <3>2. r.pc = "key" /\ r.patch = proc[p].patch  BY <2>0 DEF Local
    <3>3. Become(p, r)  BY <2>1 DEF BeginInstall, Goto
    <3> HIDE DEF r
    <3>4. KeyKept(r)  BY <2>0, <3>2 DEF KeyKept, Early
    <3> QED  BY <1>1, <1>t, <2>0, <3>1, <3>3, <3>4, KeyLocalStep
  <2>2. CASE BeginInit(p)
    <3> DEFINE r == [proc[p] EXCEPT !.pc = "prompt", !.seen = file]
    <3>1. r \in Local
      <4>1. "prompt" \in Phases  BY DEF Phases
      <4> QED  BY <4>1, <2>0, Assigned
    <3>2. r.pc = "prompt" /\ r.patch = proc[p].patch /\ r.seen = file
      BY <2>0 DEF Local
    <3>3. Become(p, r)  BY <2>2 DEF BeginInit
    <3> HIDE DEF r
    <3>4. KeyKept(r)  BY <2>0, <3>2 DEF KeyKept, Early
    <3> QED  BY <1>1, <1>t, <2>0, <3>1, <3>3, <3>4, KeyLocalStep
  <2> QED  BY <1>1, <2>1, <2>2 DEF Begin
<1>2. ASSUME NEW p \in Procs, InitdbFails(p)  PROVE KInv'
  <2>0. proc[p] \in Local /\ proc[p].pc = "forming" /\ UNCHANGED <<file, tokens>>
    BY <1>2 DEF KInv, Types, InitdbFails, At
  <2>1. CASE Throw(p)
    <3> DEFINE r == [IdleProc EXCEPT !.pc = "failed"]
    <3>1. r \in Local
      <4>1. "failed" \in Phases  BY DEF Phases
      <4> QED  BY <4>1, <1>i, Assigned
    <3>2. r.pc = "failed" /\ r.patch = Empty  BY DEF IdleProc
    <3>3. Become(p, r)  BY <2>1 DEF Throw
    <3> HIDE DEF r
    <3> QED  BY <1>t, <2>0, <3>1, <3>2, <3>3, KeySameStep DEF Early
  <2>2. CASE Goto(p, "start")
    <3> DEFINE r == [proc[p] EXCEPT !.pc = "start"]
    <3>1. r \in Local
      <4>1. "start" \in Phases  BY DEF Phases
      <4> QED  BY <4>1, <2>0, Assigned
    <3>2. r.pc = "start" /\ r.patch = proc[p].patch  BY <2>0 DEF Local
    <3>3. Become(p, r)  BY <2>2 DEF Goto
    <3> HIDE DEF r
    <3> QED  BY <1>t, <2>0, <3>1, <3>2, <3>3, KeySameStep DEF Early
  <2> QED  BY <1>2, <2>1, <2>2 DEF InitdbFails
<1>3. ASSUME NEW p \in Procs, Crash(p)  PROVE KInv'
  <2>1. proc[p].pc # "idle" /\ Become(p, IdleProc) /\ UNCHANGED <<file, tokens>>
    BY <1>3 DEF Crash
  <2> QED  BY <1>i, <1>t, <2>1, KeyLocalStep
<1>4. CASE ServerNext
  <2>1. UNCHANGED <<file, tokens>>
    BY <1>4 DEF ServerNext, ServerReady, ServerStops
  <2>2. \A p \in Procs : \/ proc'[p] = proc[p]
                        \/ /\ proc'[p] = [IdleProc EXCEPT !.pc = "failed"]
                           /\ proc[p].pc # "idle"
    BY <1>4 DEF ServerNext, ServerReady, ServerStops, KInv, Types
  <2>3. KeyKept([IdleProc EXCEPT !.pc = "failed"])
    BY EmptySettled DEF KeyKept, IdleProc, Sections, Early
  <2>4. ASSUME NEW p \in Procs  PROVE KeyKept(proc[p])'
    <3>1. KeyKept(proc'[p])  BY <2>2, <2>3 DEF KInv
    <3> QED  BY <2>1, <3>1 DEF KeyKept
  <2>5. (file["key"] = None => Alone /\ ~ HasLogins)'
    <3>1. IdleProc.pc = "idle" /\ [IdleProc EXCEPT !.pc = "failed"].pc = "failed"
      BY DEF IdleProc
    <3> QED  BY <2>1, <2>2, <3>1 DEF KInv, Alone, HasLogins
  <2> QED  BY <1>t, <2>1, <2>4, <2>5 DEF KInv, TokensReadable
<1>5. CASE SaveToken
  <2>1. UNCHANGED <<file, proc>> /\ tokens' = tokens \union {file["key"]}
    BY <1>5 DEF SaveToken
  <2> QED  BY <1>t, <2>1 DEF KInv, KeyKept, Alone, HasLogins, TokensReadable
<1>6. CASE UNCHANGED vars
  BY <1>6, <1>t DEF vars, KInv, KeyKept, Alone, HasLogins, TokensReadable
<1>7. ASSUME NEW p \in Procs, NoFreePort(p) \/ CannotStart(p)  PROVE KInv'
  <2> DEFINE r == [IdleProc EXCEPT !.pc = "failed"]
  <2>1. r \in Local
    <3>1. "failed" \in Phases  BY DEF Phases
    <3> QED  BY <3>1, <1>i, Assigned
  <2>2. r.pc = "failed" /\ KeyKept(r)
    BY EmptySettled DEF KeyKept, IdleProc, Sections, Early
  <2>3. /\ Become(p, r) /\ UNCHANGED <<file, tokens>>
        /\ proc[p].pc \in {"ports", "start"}
    BY <1>7 DEF NoFreePort, CannotStart, Throw, At, clusterVars
  <2> HIDE DEF r
  <2> QED  BY <1>t, <2>1, <2>2, <2>3, KeyLocalStep
<1> QED
  BY <1>1, <1>2, <1>3, <1>4, <1>5, <1>6, <1>7, StepKeepsKey DEF LoginsNext, GoesOn, Fails

LEMMA KeyInvariant == LoginsSpec => []KInv
<1>1. Init => KInv  BY KeyStart
<1>2. KInv /\ [LoginsNext]_vars => KInv'  BY KeyStays
<1> QED  BY <1>1, <1>2, PTL DEF LoginsSpec

(***************************************************************************)
(* One command at a time until the logins are stored and any number from   *)
(* then on, every stored access token can be decrypted with the key in     *)
(* config.json: init writes back the key it found, ensureKey makes one     *)
(* only where there is none, and no merge drops it, not even one that      *)
(* loses what another process wrote meanwhile.                             *)
(***************************************************************************)
THEOREM TokensStayReadable == LoginsSpec => []TokensReadable
<1>1. KInv => TokensReadable  BY DEF KInv
<1> QED  BY <1>1, KeyInvariant, PTL

(***************************************************************************)
(* So do the installs that the run checks: they are some of those.         *)
(***************************************************************************)
LEMMA GrowingIsLogins == GrowSpec => LoginsSpec
BY GrowIsLogins, PTL DEF GrowSpec, LoginsSpec

-------------------------------------------------------------------------------
(* Installs at once. *)

\* Where a process has a server to talk to.
Served == {"database", "create", "pending", "lock", "migrate", "relogin", "role", "alter"}

\* What the local state of a process may say of a profile nothing has failed on:
\* from "start" on there is a cluster complete with its configuration, then a
\* server on it, and what it is about to create or to apply is not there.
Fine(p, r, c, s, d, l, a) ==
  /\ r.pc # "failed"
  /\ r.pc \in {"merge", "rename"} => r.next # "role"
  /\ r.pc \in {"start", "await"} \union Served => c = "managed"
  /\ r.pc = "await" => s # "down"
  /\ r.pc \in Served => s = "up"
  /\ r.pc = "create" => ~ d
  /\ r.pc = "migrate" => l["migrations"] = p /\ r.todo \intersect a = {}

\* Two at once meet on a profile that works, so whoever finds half a cluster is
\* the one who is making it.
Race ==
  /\ \A p, q \in Procs :
       proc[p].pc # "idle" /\ proc[q].pc # "idle" /\ p # q => files = "managed" /\ db
  /\ files # "broken"
  /\ files \in {"forming", "bare"} => \E p \in Procs : proc[p].pc \in {"forming", "conf"}
  /\ \A p \in Procs : Fine(p, proc[p], files, server, db, locks, applied)

RInv == LInv /\ (faults = 0 => Race)

LEMMA RaceStart == Init => RInv
<1> SUFFICES ASSUME Init  PROVE RInv
  OBVIOUS
<1>1. \A p \in Procs : proc[p] = IdleProc  BY DEF Init
<1>2. \A p \in Procs : Fine(p, IdleProc, files, server, db, locks, applied)
  BY DEF Fine, IdleProc, Served
<1>3. Race  BY <1>1, <1>2 DEF Race, Init, IdleProc
<1> QED  BY <1>3, LoginsStart DEF RInv

\* A step of one process that takes nothing away from another.
LEMMA RaceStep ==
  ASSUME LInv, Race, NEW p \in Procs, NEW r \in Local, Become(p, r),
         proc[p].pc # "idle",
         Fine(p, r, files', server', db', locks', applied'),
         files = "managed" => files' = "managed",
         files' # "broken",
         files' \in {"forming", "bare"} => r.pc \in {"forming", "conf"},
         server' = server \/ (server = "down" /\ server' = "starting"),
         db' = db \/ ~ db,
         \A q \in Procs \ {p} :
           proc[q].pc = "migrate" => locks'["migrations"] = q /\ applied' = applied
  PROVE  Race'
<1>1. /\ proc'[p] = r
      /\ \A q \in Procs \ {p} : proc'[q] = proc[q]
  BY Becomes DEF LInv
<1>2. ASSUME NEW q \in Procs \ {p}, proc[q].pc # "idle"
      PROVE  files' = "managed" /\ db /\ db' = db
  BY <1>2 DEF Race
<1>3. \A q, s \in Procs :
        proc'[q].pc # "idle" /\ proc'[s].pc # "idle" /\ q # s => files' = "managed" /\ db'
  BY <1>1, <1>2
<1>4. ASSUME NEW q \in Procs \ {p}
      PROVE  Fine(q, proc[q], files', server', db', locks', applied')
  <2>1. Fine(q, proc[q], files, server, db, locks, applied)  BY DEF Race
  <2>2. CASE proc[q].pc = "idle"  BY <2>2 DEF Fine, Served
  <2>3. CASE proc[q].pc # "idle"
    <3>1. files' = "managed" /\ db' = db  BY <1>2, <2>3
    <3> QED  BY <2>1, <3>1 DEF Fine, Served
  <2> QED  BY <2>2, <2>3
<1>5. \A q \in Procs : Fine(q, proc'[q], files', server', db', locks', applied')
  BY <1>1, <1>4
<1> QED  BY <1>1, <1>3, <1>5 DEF Race

LEMMA StepIsHarmless ==
  ASSUME LInv, Race, NEW p \in Procs, Step(p)
  PROVE  Race'
<1>0. /\ proc[p] \in Local /\ Kept(proc[p]) /\ Types
      /\ Fine(p, proc[p], files, server, db, locks, applied)
      /\ IdleProc \in Local
      /\ \A n \in Phases : [proc[p] EXCEPT !.pc = n] \in Local
      /\ None \notin Procs
  BY IdleLocal, Assigned, ProvisionAssumption DEF LInv, Types, Race
<1>k. \A q \in Procs \ {p} :
        proc[q].pc = "migrate" => locks["migrations"] = q
  BY DEF Race, Fine
<1>c. ASSUME proc[p].pc \in {"start", "await"} \union Served
      PROVE  /\ HasLogins /\ (server = "up" => CanConnect)
             /\ files = "managed"
             /\ proc[p].pc = "await" => server # "down"
             /\ proc[p].pc \in Served => CanConnect
  BY <1>0, <1>c DEF Fine, LInv, Cluster, Exists, CanConnect
\* Who is not making the cluster finds all of it or nothing.
<1>f. ASSUME proc[p].pc \notin {"idle", "forming", "conf"}
      PROVE  files \in {"absent", "managed"}
  <2>1. files \in {"absent", "forming", "bare", "managed"}
    BY <1>0 DEF Race, Types, Files
  <2>2. ASSUME files \in {"forming", "bare"}  PROVE FALSE
    <3>1. PICK q \in Procs : proc[q].pc \in {"forming", "conf"}  BY <2>2 DEF Race
    <3>2. q # p /\ proc[q].pc # "idle"  BY <1>f, <3>1
    <3> QED  BY <1>f, <2>2, <3>2 DEF Race
  <2> QED  BY <2>1, <2>2
\* Steps that change local state at most.
<1>a. ASSUME NEW r \in Local, Become(p, r),
             UNCHANGED <<files, server, db, applied>>, locks'["migrations"] = locks["migrations"],
             proc[p].pc \notin {"idle", "forming", "conf"},
             Fine(p, r, files, server, db, locks, applied)
      PROVE  Race'
  <2>1. Fine(p, r, files', server', db', locks', applied')  BY <1>a DEF Fine
  <2> QED  BY <1>a, <1>f, <1>k, <2>1, RaceStep
<1>b. ASSUME NEW n \in Phases, Goto(p, n),
             UNCHANGED <<files, server, db, applied>>, locks'["migrations"] = locks["migrations"],
             proc[p].pc \notin {"idle", "forming", "conf"},
             n \notin {"merge", "rename", "failed", "migrate"},
             n \in {"start", "await"} \union Served => files = "managed",
             n = "await" => server # "down",
             n \in Served => server = "up",
             n = "create" => ~ db
      PROVE  Race'
  <2> DEFINE r == [proc[p] EXCEPT !.pc = n]
  <2>1. r \in Local /\ r.pc = n  BY <1>0 DEF Local
  <2>2. Become(p, r)  BY <1>b DEF Goto
  <2> HIDE DEF r
  <2>3. Fine(p, r, files, server, db, locks, applied)  BY <1>b, <2>1 DEF Fine
  <2> QED  BY <1>a, <1>b, <2>1, <2>2, <2>3
<1>u. ASSUME NEW f \in Settled, NEW n \in Phases \ {"role"},
             NEW r \in Local, Become(p, r), r.pc = "merge", r.next = n,
             UNCHANGED <<files, server, db, applied, locks>>,
             proc[p].pc \notin {"idle", "forming", "conf"}
      PROVE  Race'
  <2>1. Fine(p, r, files, server, db, locks, applied)  BY <1>u DEF Fine, Served
  <2> QED  BY <1>a, <1>u, <2>1
<1>1. CASE ReadConfig(p)
  <2> DEFINE r == [proc[p] EXCEPT !.pc = "rename", !.saw = file]
  <2>1. r \in Local
    <3>1. "rename" \in Phases /\ file \in Settled  BY <1>0 DEF Phases, Types
    <3> QED  BY <3>1, <1>0, Assigned
  <2>2. r.pc = "rename" /\ r.next = proc[p].next  BY <1>0 DEF Local
  <2>3. Become(p, r) /\ proc[p].pc = "merge" /\ UNCHANGED <<files, server, db, applied, locks>>
    BY <1>1 DEF ReadConfig, At, clusterVars
  <2> HIDE DEF r
  <2>4. Fine(p, r, files, server, db, locks, applied)  BY <1>0, <2>2, <2>3 DEF Fine, Served
  <2> QED  BY <1>a, <2>1, <2>3, <2>4
<1>2. CASE RenameConfig(p)
  <2> DEFINE r == [proc[p] EXCEPT !.pc = proc[p].next, !.saw = Empty, !.patch = Empty,
                                  !.next = "idle"]
  <2>1. proc[p].pc = "rename" /\ Become(p, r) /\ UNCHANGED <<files, server, db, applied, locks>>
    BY <1>2 DEF RenameConfig, At, clusterVars
  <2>2. proc[p].next \in {"idle", "key", "look", "logins", "initdb"}
    BY <1>0, <2>1 DEF Kept, Fine
  <2>3. r \in Local
    <3>1. "idle" \in Phases /\ proc[p].next \in Phases  BY <2>2 DEF Phases
    <3>2. [proc[p] EXCEPT !.pc = proc[p].next, !.saw = Empty] \in Local
      BY <1>0, <3>1, EmptySettled, Assigned
    <3>3. [proc[p] EXCEPT !.pc = proc[p].next, !.saw = Empty, !.patch = Empty] \in Local
      BY <3>2, EmptySettled, Assigned
    <3> QED  BY <3>1, <3>3, Assigned
  <2>4. r.pc = proc[p].next  BY <1>0 DEF Local
  <2> HIDE DEF r
  <2>5. Fine(p, r, files, server, db, locks, applied)  BY <2>2, <2>4 DEF Fine, Served
  <2> QED  BY <1>a, <2>1, <2>3, <2>5
<1>3. CASE WriteSettings(p)
  <2>1. PICK k \in IF proc[p].seen["key"] # None THEN {proc[p].seen["key"]} ELSE Unused,
             n \in {"key", "idle"} :
          Become(p, [Updating(p, [Setting("plaid", "set") EXCEPT !["key"] = k], n)
                       EXCEPT !.seen = Empty])
    BY <1>3 DEF WriteSettings
  <2>2. k \in Secrets  BY <1>0, UnusedSecrets DEF Local, Settled, Held
  <2> DEFINE f == [Setting("plaid", "set") EXCEPT !["key"] = k]
             u == Updating(p, f, n)
             r == [u EXCEPT !.seen = Empty]
  <2>3. f \in Settled  BY <2>2, SettingSettled
  <2>4. u \in Local  BY <1>0, <2>3, UpdatingLocal DEF Phases
  <2>5. u.pc = "merge" /\ u.next = n  BY <1>0 DEF Updating, Local
  <2> HIDE DEF f, u
  <2>6. r \in Local /\ r.pc = "merge" /\ r.next = n
    BY <2>4, <2>5, EmptySettled, Assigned DEF Local
  <2>7. Become(p, r)  BY <2>1 DEF f, u
  <2> HIDE DEF r
  <2>8. proc[p].pc = "prompt" /\ UNCHANGED <<files, server, db, applied, locks>>
    BY <1>3 DEF WriteSettings, At, clusterVars
  <2>9. n \in Phases \ {"role"}  BY DEF Phases
  <2> QED  BY <2>3, <2>6, <2>7, <2>8, <2>9, <1>u
<1>4. CASE EnsureKey(p)
  <2>1. proc[p].pc = "key" /\ UNCHANGED <<files, server, db, applied, locks>>
    BY <1>4 DEF EnsureKey, At, clusterVars
  <2>2. CASE file["key"] # None
    BY <1>4, <2>1, <2>2, <1>b DEF EnsureKey, Phases, Served
  <2>3. CASE file["key"] = None
    <3>1. PICK k \in Unused : Become(p, Updating(p, Setting("key", k), "look"))
      BY <1>4, <2>3 DEF EnsureKey
    <3> DEFINE f == Setting("key", k)
               r == Updating(p, f, "look")
    <3>2. f \in Settled  BY UnusedSecrets, SettingSettled
    <3>3. r \in Local  BY <1>0, <3>2, UpdatingLocal DEF Phases
    <3>4. r.pc = "merge" /\ r.next = "look"  BY <1>0 DEF Updating, Local
    <3>5. Become(p, r)  BY <3>1
    <3> HIDE DEF f, r
    <3>6. "look" \in Phases \ {"role"}  BY DEF Phases
    <3> QED  BY <2>1, <3>2, <3>3, <3>4, <3>5, <3>6, <1>u
  <2> QED  BY <2>2, <2>3
<1>5. CASE Look(p)
  <2>1. /\ proc[p].pc = "look" /\ UNCHANGED <<files, server, db, applied, locks>>
        /\ Goto(p, IF Exists THEN "start" ELSE "ports")
    BY <1>5 DEF Look, At, clusterVars
  <2>2. Exists => files = "managed"  BY <2>1, <1>f DEF Exists
  <2> QED  BY <2>1, <2>2, <1>b DEF Phases, Served
<1>6. CASE Allocate(p)
  <2>1. proc[p].pc = "ports" /\ UNCHANGED <<files, server, db, applied, locks>>
    BY <1>6 DEF Allocate, At, clusterVars
  <2>2. CASE Goto(p, "logins")
    BY <2>1, <2>2, <1>b DEF Phases, Served
  <2>3. CASE Become(p, Updating(p, Setting("ports", "set"), "logins"))
    <3> DEFINE f == Setting("ports", "set")
               r == Updating(p, f, "logins")
    <3>2. f \in Settled  BY SettingSettled
    <3>3. r \in Local  BY <1>0, <3>2, UpdatingLocal DEF Phases
    <3>4. r.pc = "merge" /\ r.next = "logins"  BY <1>0 DEF Updating, Local
    <3>5. Become(p, r)  BY <2>3
    <3> HIDE DEF f, r
    <3>6. "logins" \in Phases \ {"role"}  BY DEF Phases
    <3> QED  BY <2>1, <3>2, <3>3, <3>4, <3>5, <3>6, <1>u
  <2> QED  BY <1>6, <2>2, <2>3 DEF Allocate
<1>7. CASE DecideLogins(p, "logins", "initdb")
  <2>1. proc[p].pc = "logins" /\ UNCHANGED <<files, server, db, applied, locks>>
    BY <1>7 DEF DecideLogins, At, clusterVars
  <2>2. CASE HasLogins
    <3> DEFINE r == [proc[p] EXCEPT !.pc = "initdb", !.login = file["login"]]
    <3>1. r \in Local
      <4>1. "initdb" \in Phases /\ file["login"] \in Held  BY <1>0 DEF Phases, Types, Settled
      <4> QED  BY <4>1, <1>0, Assigned
    <3>2. r.pc = "initdb"  BY <1>0 DEF Local
    <3>3. Become(p, r)  BY <1>7, <2>2 DEF DecideLogins
    <3> HIDE DEF r
    <3>4. Fine(p, r, files, server, db, locks, applied)  BY <3>2 DEF Fine, Served
    <3> QED  BY <2>1, <3>1, <3>3, <3>4, <1>a
  <2>3. CASE ~ HasLogins
    <3>1. PICK l \in Unused :
            Become(p, [Updating(p, Setting("login", l), "initdb") EXCEPT !.login = l])
      BY <1>7, <2>3 DEF DecideLogins
    <3> DEFINE f == Setting("login", l)
               u == Updating(p, f, "initdb")
               r == [u EXCEPT !.login = l]
    <3>2. f \in Settled /\ l \in Secrets  BY UnusedSecrets, SettingSettled
    <3>3. u \in Local  BY <1>0, <3>2, UpdatingLocal DEF Phases
    <3>4. u.pc = "merge" /\ u.next = "initdb"  BY <1>0 DEF Updating, Local
    <3> HIDE DEF f, u
    <3>5. r \in Local /\ r.pc = "merge" /\ r.next = "initdb"
      BY <3>2, <3>3, <3>4, Assigned DEF Local, Held
    <3>6. Become(p, r)  BY <3>1 DEF f, u
    <3> HIDE DEF r
    <3>7. "initdb" \in Phases \ {"role"}  BY DEF Phases
    <3> QED  BY <2>1, <3>2, <3>5, <3>6, <3>7, <1>u
  <2> QED  BY <2>2, <2>3
\* There are logins by then: the server was connected to with them.
<1>8. CASE DecideLogins(p, "relogin", "role")
  <2> DEFINE r == [proc[p] EXCEPT !.pc = "role", !.login = file["login"]]
  <2>1. proc[p].pc = "relogin" /\ UNCHANGED <<files, server, db, applied, locks>>
    BY <1>8 DEF DecideLogins, At, clusterVars
  <2>2. HasLogins /\ files = "managed"  BY <2>1, <1>c DEF Served
  <2>3. r \in Local
    <3>1. "role" \in Phases /\ file["login"] \in Held  BY <1>0 DEF Phases, Types, Settled
    <3> QED  BY <3>1, <1>0, Assigned
  <2>4. r.pc = "role"  BY <1>0 DEF Local
  <2>5. Become(p, r)  BY <1>8, <2>2 DEF DecideLogins
  <2> HIDE DEF r
  <2>6. Fine(p, r, files, server, db, locks, applied)
    BY <1>0, <2>1, <2>4 DEF Fine, Served
  <2> QED  BY <2>1, <2>3, <2>5, <2>6, <1>a
<1>9. CASE Initdb(p)
  <2>1. proc[p].pc = "initdb" /\ UNCHANGED <<server, db, applied, locks>>
    BY <1>9 DEF Initdb, At
  <2>2. CASE Exists
    <3>1. files = "managed"  BY <2>1, <2>2, <1>f DEF Exists
    <3> QED  BY <1>9, <2>1, <2>2, <3>1, <1>b DEF Initdb, Phases, Served
  <2>3. CASE ~ Exists
    <3> DEFINE r == [proc[p] EXCEPT !.pc = "forming"]
    <3>1. "forming" \in Phases  BY DEF Phases
    <3>2. r \in Local /\ r.pc = "forming"  BY <1>0, <3>1 DEF Local
    <3>3. Become(p, r) /\ files' = "forming" /\ files = "absent"
      BY <1>9, <2>3 DEF Initdb, Goto, Exists
    <3> HIDE DEF r
    <3>4. Fine(p, r, files', server', db', locks', applied')  BY <3>2 DEF Fine, Served
    <3> QED  BY <2>1, <3>2, <3>3, <3>4, <1>k, RaceStep
  <2> QED  BY <2>2, <2>3
<1>10. CASE InitdbEnds(p) \/ WriteManagedConfig(p)
  <2>1. PICK n \in {"conf", "start"} :
          /\ Goto(p, n) /\ proc[p].pc \in {"forming", "conf"}
          /\ files = "managed" => files' = "managed"
          /\ files' = IF n = "conf" THEN "bare" ELSE "managed"
          /\ UNCHANGED <<server, db, applied, locks>>
    BY <1>0, <1>10 DEF InitdbEnds, WriteManagedConfig, At, Kept
  <2> DEFINE r == [proc[p] EXCEPT !.pc = n]
  <2>2. n \in Phases  BY DEF Phases
  <2>3. r \in Local /\ r.pc = n  BY <1>0, <2>2 DEF Local
  <2>4. Become(p, r)  BY <2>1 DEF Goto
  <2> HIDE DEF r
  <2>5. Fine(p, r, files', server', db', locks', applied')  BY <2>1, <2>3 DEF Fine, Served
  <2> QED  BY <2>1, <2>3, <2>4, <2>5, <1>k, RaceStep
<1>11. CASE StartServer(p)
  <2> DEFINE r == [proc[p] EXCEPT !.pc = "await"]
  <2>1. proc[p].pc = "start" /\ UNCHANGED <<files, db, applied, locks>>
    BY <1>11 DEF StartServer, At
  <2>2. files = "managed"  BY <2>1, <1>c
  <2>3. Goto(p, "await") /\ ((server' = server /\ server # "down")
                             \/ (server = "down" /\ server' = "starting"))
    BY <1>11, <2>2 DEF StartServer
  <2>4. "await" \in Phases  BY DEF Phases
  <2>5. r \in Local /\ r.pc = "await"  BY <1>0, <2>4 DEF Local
  <2>6. Become(p, r)  BY <2>3 DEF Goto
  <2> HIDE DEF r
  <2>7. Fine(p, r, files', server', db', locks', applied')
    BY <2>1, <2>2, <2>3, <2>5 DEF Fine, Served
  <2> QED  BY <2>1, <2>2, <2>3, <2>5, <2>6, <2>7, <1>k, RaceStep
<1>12. CASE AwaitServer(p) \/ AwaitTimesOut(p)
  <2>1. proc[p].pc = "await" /\ UNCHANGED <<files, server, db, applied, locks>>
    BY <1>12 DEF AwaitServer, AwaitTimesOut, At, clusterVars
  <2>2. HasLogins /\ server # "down" /\ (server = "up" => CanConnect) /\ files = "managed"
    BY <2>1, <1>c
  <2>3. server = "up" /\ Goto(p, "database")
    BY <1>12, <2>2 DEF AwaitServer, AwaitTimesOut
  <2> QED  BY <2>1, <2>2, <2>3, <1>b DEF Phases, Served
<1>13. CASE FindDatabase(p)
  <2>1. proc[p].pc = "database" /\ UNCHANGED <<files, server, db, applied, locks>>
    BY <1>13 DEF FindDatabase, At, clusterVars
  <2>2. CanConnect /\ files = "managed"  BY <2>1, <1>c DEF Served
  <2>3. server = "up" /\ Goto(p, IF db THEN "pending" ELSE "create")
    BY <1>13, <2>2 DEF FindDatabase, CanConnect
  <2> QED  BY <2>1, <2>2, <2>3, <1>b DEF Phases, Served
<1>14. CASE CreateDatabase(p)
  <2> DEFINE r == [proc[p] EXCEPT !.pc = "pending"]
  <2>1. proc[p].pc = "create" /\ UNCHANGED <<files, server, applied, locks>>
    BY <1>14 DEF CreateDatabase, At
  <2>2. CanConnect /\ files = "managed" /\ ~ db /\ server = "up"
    BY <1>0, <2>1, <1>c DEF Fine, Served
  <2>3. Goto(p, "pending") /\ db' = TRUE  BY <1>14, <2>2 DEF CreateDatabase
  <2>4. "pending" \in Phases  BY DEF Phases
  <2>5. r \in Local /\ r.pc = "pending"  BY <1>0, <2>4 DEF Local
  <2>6. Become(p, r)  BY <2>3 DEF Goto
  <2> HIDE DEF r
  <2>7. Fine(p, r, files', server', db', locks', applied')
    BY <2>1, <2>2, <2>5 DEF Fine, Served
  <2> QED  BY <2>1, <2>2, <2>3, <2>5, <2>6, <2>7, <1>k, RaceStep
<1>15. CASE PendingMigrations(p)
  <2> DEFINE t == Knows(p) \ applied
             n == IF t = {} THEN "relogin" ELSE "lock"
             r == [proc[p] EXCEPT !.pc = n, !.todo = t]
  <2>1. proc[p].pc = "pending" /\ UNCHANGED <<files, server, db, applied, locks>>
    BY <1>15 DEF PendingMigrations, At, clusterVars
  <2>2. CanConnect /\ files = "managed" /\ server = "up"
    BY <2>1, <1>c DEF Served, CanConnect
  <2>3. Become(p, r)  BY <1>15, <2>2 DEF PendingMigrations
  <2>4. n \in {"relogin", "lock"} /\ t \in SUBSET (1 .. Newest)
    BY ProvisionAssumption DEF Knows
  <2> HIDE DEF n, t
  <2>5. r \in Local
    <3>1. n \in Phases  BY <2>4 DEF Phases
    <3> QED  BY <3>1, <2>4, <1>0, Assigned
  <2>6. r.pc = n  BY <1>0 DEF Local
  <2> HIDE DEF r
  <2>7. Fine(p, r, files, server, db, locks, applied)  BY <2>2, <2>4, <2>6 DEF Fine, Served
  <2> QED  BY <2>1, <2>3, <2>5, <2>7, <1>a
<1>16. CASE LockMigrations(p)
  <2> DEFINE t == Knows(p) \ applied
             r == [proc[p] EXCEPT !.pc = "migrate", !.todo = t]
  <2>1. /\ proc[p].pc = "lock" /\ UNCHANGED <<files, server, db, applied>>
        /\ locks["migrations"] = None
        /\ Become(p, r)
    BY <1>16 DEF LockMigrations, At
  <2>2. locks'["migrations"] = p  BY <1>0, <1>16 DEF LockMigrations, Types, LockIds
  <2>3. files = "managed" /\ server = "up"
    BY <2>1, <1>c DEF Served, CanConnect
  <2>4. t \in SUBSET (1 .. Newest) /\ t \intersect applied = {}
    BY ProvisionAssumption DEF Knows
  <2> HIDE DEF t
  <2>5. r \in Local
    <3>1. "migrate" \in Phases  BY DEF Phases
    <3> QED  BY <3>1, <2>4, <1>0, Assigned
  <2>6. r.pc = "migrate" /\ r.todo = t  BY <1>0, <2>4 DEF Local
  <2> HIDE DEF r
  <2>7. Fine(p, r, files', server', db', locks', applied')
    BY <2>1, <2>2, <2>3, <2>4, <2>6 DEF Fine, Served
  <2>8. \A q \in Procs \ {p} : proc[q].pc # "migrate"  BY <1>0, <1>k, <2>1
  <2> QED  BY <2>1, <2>3, <2>5, <2>7, <2>8, RaceStep
<1>17. CASE LockUnreachable(p)
  <2>1. proc[p].pc = "lock" /\ ~ CanConnect  BY <1>17 DEF LockUnreachable, At
  <2> QED  BY <2>1, <1>c DEF Served
<1>18. CASE RunMigrations(p)
  <2> DEFINE r == [proc[p] EXCEPT !.pc = "relogin", !.todo = {}]
  <2>1. proc[p].pc = "migrate" /\ UNCHANGED <<files, server, db>>
    BY <1>18 DEF RunMigrations, At
  <2>2. /\ locks["migrations"] = p /\ proc[p].todo \intersect applied = {}
        /\ files = "managed" /\ server = "up"
    BY <1>0, <2>1 DEF Fine, Served
  <2>3. Become(p, r)  BY <1>18, <2>2 DEF RunMigrations
  <2>4. r \in Local
    <3>1. "relogin" \in Phases /\ {} \in SUBSET (1 .. Newest)  BY DEF Phases
    <3> QED  BY <3>1, <1>0, Assigned
  <2>5. r.pc = "relogin"  BY <1>0 DEF Local
  <2> HIDE DEF r
  <2>6. Fine(p, r, files', server', db', locks', applied')
    BY <2>1, <2>2, <2>5 DEF Fine, Served
  <2>7. \A q \in Procs \ {p} : proc[q].pc # "migrate"  BY <1>k, <2>2
  <2> QED  BY <2>1, <2>2, <2>3, <2>4, <2>6, <2>7, RaceStep
<1>19. CASE TryRoleLock(p)
  <2>1. proc[p].pc = "role" /\ UNCHANGED <<files, server, db, applied>>
    BY <1>19 DEF TryRoleLock, At
  <2>2. CanConnect /\ files = "managed" /\ server = "up"
    BY <2>1, <1>c DEF Served, CanConnect
  <2>3. Goto(p, "alter") \/ Goto(p, "ok")  BY <1>19, <2>2 DEF TryRoleLock
  <2>4. locks'["migrations"] = locks["migrations"]
    BY <1>0, <1>19 DEF TryRoleLock, Types, LockIds
  <2> QED  BY <2>1, <2>2, <2>3, <2>4, <1>b DEF Phases, Served
<1>20. CASE AlterRole(p)
  <2>1. proc[p].pc = "alter" /\ Goto(p, "ok") /\ UNCHANGED <<files, server, db, applied>>
    BY <1>20 DEF AlterRole, At
  <2>2. locks'["migrations"] = locks["migrations"]
    BY <1>0, <1>20 DEF AlterRole, Types, LockIds
  <2> QED  BY <2>1, <2>2, <1>b DEF Phases, Served
<1>21. CASE Return(p)
  <2>1. /\ proc[p].pc \in {"ok", "failed"} /\ Become(p, IdleProc)
        /\ UNCHANGED <<files, server, db, applied, locks>>
    BY <1>21 DEF Return, clusterVars
  <2>2. Fine(p, IdleProc, files, server, db, locks, applied)
    BY DEF Fine, IdleProc, Served
  <2> QED  BY <1>0, <2>1, <2>2, <1>a
<1> QED
  BY <1>1, <1>2, <1>3, <1>4, <1>5, <1>6, <1>7, <1>8, <1>9, <1>10, <1>11, <1>12, <1>13,
     <1>14, <1>15, <1>16, <1>17, <1>18, <1>19, <1>20, <1>21 DEF Step

\* Only a process that finds nobody else, or a profile that works, begins.
LEMMA BeginIsHarmless ==
  ASSUME LInv, Race, NEW p \in Procs, Begin(p), Quiet \/ (Works /\ Room)
  PROVE  Race'
<1> DEFINE r == IF BeginInstall(p) THEN [proc[p] EXCEPT !.pc = "key"]
                                   ELSE [proc[p] EXCEPT !.pc = "prompt", !.seen = file]
<1>1. proc[p] \in Local /\ proc \in [Procs -> Local] /\ file \in Settled
  BY DEF LInv, Types
<1>2. r \in Local /\ r.pc \in {"key", "prompt"}
  <2>1. "key" \in Phases /\ "prompt" \in Phases  BY DEF Phases
  <2>2. [proc[p] EXCEPT !.pc = "prompt"] \in Local  BY <1>1, <2>1, Assigned
  <2>3. [proc[p] EXCEPT !.pc = "prompt", !.seen = file] \in Local  BY <1>1, <2>2, Assigned
  <2>4. [proc[p] EXCEPT !.pc = "key"] \in Local  BY <1>1, <2>1, Assigned
  <2> QED  BY <1>1, <2>3, <2>4 DEF Local
<1>3. Become(p, r) /\ proc[p].pc = "idle" /\ UNCHANGED <<files, server, db, applied, locks>>
  BY DEF Begin, BeginInstall, BeginInit, At, Goto, clusterVars
<1> HIDE DEF r
<1>4. /\ proc'[p] = r
      /\ \A q \in Procs \ {p} : proc'[q] = proc[q]
  BY <1>2, <1>3, Becomes DEF LInv
<1>5. \A q, s \in Procs :
        proc'[q].pc # "idle" /\ proc'[s].pc # "idle" /\ q # s => files' = "managed" /\ db'
  BY <1>3, <1>4 DEF Quiet, Works, At
<1>6. Fine(p, r, files', server', db', locks', applied')  BY <1>2 DEF Fine, Served
<1>7. \A q \in Procs : Fine(q, proc'[q], files', server', db', locks', applied')
  BY <1>3, <1>4, <1>6 DEF Race
<1>8. files' \in {"forming", "bare"} => \E q \in Procs : proc'[q].pc \in {"forming", "conf"}
  BY <1>3, <1>4 DEF Race
<1> QED  BY <1>3, <1>5, <1>7, <1>8 DEF Race

LEMMA RaceKept == ASSUME RInv, [GrowNext]_vars  PROVE RInv'
<1>1. LInv'  BY GrowIsLogins, LoginsKept DEF RInv
<1>2. SUFFICES ASSUME faults' = 0  PROVE Race'
  BY <1>1 DEF RInv
<1>3. faults \in Nat /\ faults + 1 # 0  BY ProvisionAssumption DEF RInv, LInv, Types
<1>4. ASSUME UNCHANGED <<files, server, db, applied, locks, proc, faults>>  PROVE Race'
  BY <1>2, <1>4 DEF Race, RInv
<1>5. CASE \E p \in Procs : (Quiet \/ (Works /\ Room)) /\ Begin(p)
  <2>1. faults = 0  BY <1>2, <1>5 DEF Begin, BeginInstall, BeginInit
  <2> QED  BY <1>5, <2>1, BeginIsHarmless DEF RInv
<1>6. ASSUME NEW p \in Procs, GoesOn(p)  PROVE Race'
  <2>1. CASE Step(p)
    <3>1. faults' = faults
      BY <2>1 DEF Step, ReadConfig, RenameConfig, WriteSettings, EnsureKey, Look, Allocate,
         DecideLogins, Initdb, InitdbEnds, WriteManagedConfig, StartServer, AwaitServer,
         AwaitTimesOut, FindDatabase, CreateDatabase, PendingMigrations, LockMigrations,
         LockUnreachable, RunMigrations, TryRoleLock, AlterRole, Return
    <3> QED  BY <1>2, <2>1, <3>1, StepIsHarmless DEF RInv
  <2>2. CASE Fails(p) \/ Crash(p)
    <3>1. faults' = faults + 1
      BY <2>2 DEF Fails, NoFreePort, InitdbFails, CannotStart, Crash
    <3> QED  BY <1>2, <1>3, <3>1
  <2> QED  BY <1>6, <2>1, <2>2 DEF GoesOn
<1>7. CASE ServerReady
  <2>1. Race /\ server = "starting" /\ server' = "up"
        /\ UNCHANGED <<files, db, applied, locks, proc>>
    BY <1>2, <1>7 DEF ServerReady, RInv
  <2>2. \A p \in Procs : Fine(p, proc[p], files', server', db', locks', applied')
    BY <2>1 DEF Race, Fine
  <2> QED  BY <2>1, <2>2 DEF Race
<1>8. CASE ServerStops
  <2>1. faults' = faults + 1  BY <1>8 DEF ServerStops
  <2> QED  BY <1>2, <1>3, <2>1
<1>9. CASE SaveToken
  BY <1>4, <1>9 DEF SaveToken
<1>10. CASE UNCHANGED vars
  BY <1>4, <1>10 DEF vars
<1> QED  BY <1>5, <1>6, <1>7, <1>8, <1>9, <1>10 DEF GrowNext, ServerNext

(***************************************************************************)
(* Nothing fails by itself: as long as nothing is killed or stopped, no    *)
(* install throws, however many processes there are and in whatever order  *)
(* two of them go about a profile that works.                              *)
(***************************************************************************)
THEOREM RacesAreHarmless == GrowSpec => []RaceIsHarmless
<1>1. Init => RInv  BY RaceStart
<1>2. RInv /\ [GrowNext]_vars => RInv'  BY RaceKept
<1>3. RInv => RaceIsHarmless  BY DEF RInv, Race, Fine, RaceIsHarmless
<1> QED  BY <1>1, <1>2, <1>3, PTL DEF GrowSpec

-------------------------------------------------------------------------------
(* What success means. *)

\* What has been done for a process by the time it gets somewhere: the database
\* is created and migrated, and none of it is ever undone.  Nobody who got as far
\* as the last password has to make it up: the file has it.
Ready(p, r, f, d, a) ==
  /\ r.pc \in {"pending", "lock", "migrate", "relogin", "role", "alter", "ok"} => d
  /\ r.pc = "migrate" => Knows(p) \ r.todo \subseteq a
  /\ r.pc \in {"relogin", "role", "alter", "ok"} => Knows(p) \subseteq a
  /\ r.pc \in {"merge", "rename"} => r.next # "role"
  /\ r.pc \in {"role", "alter"} => f["login"] # None /\ r.login = f["login"]
  /\ r.pc = "ok" => f["login"] # None

\* Whoever has the lock on u_app is about to give it the password of the file.
Done ==
  /\ db => files \in {"bare", "managed"}
  /\ \A p \in Procs : locks["role"] = p => proc[p].pc = "alter"
  /\ \A p \in Procs : Ready(p, proc[p], file, db, applied)

UInv == LInv /\ Done

LEMMA UseStart == Init => UInv
<1> SUFFICES ASSUME Init  PROVE UInv
  OBVIOUS
<1>1. \A p \in Procs : proc[p] = IdleProc  BY DEF Init
<1>2. \A p \in Procs : Ready(p, IdleProc, file, db, applied)
  BY DEF Ready, IdleProc
<1>3. locks["role"] = None /\ None \notin Procs /\ ~ db
  BY ProvisionAssumption DEF Init, LockIds
<1>4. Done  BY <1>1, <1>2, <1>3 DEF Done, IdleProc
<1> QED  BY <1>4, LoginsStart DEF UInv

\* A step of one process that undoes nothing.
LEMMA UseStep ==
  ASSUME LInv, Done, NEW p \in Procs, NEW r \in Local, Become(p, r),
         Ready(p, r, file', db', applied'),
         HasLogins => file'["login"] = file["login"],
         db => db', applied \subseteq applied',
         db' => files' \in {"bare", "managed"},
         locks'["role"] = p => r.pc = "alter",
         \A q \in Procs \ {p} : locks'["role"] = q => locks["role"] = q
  PROVE  Done'
<1>1. /\ proc'[p] = r
      /\ \A q \in Procs \ {p} : proc'[q] = proc[q]
  BY Becomes DEF LInv
<1>3. ASSUME NEW q \in Procs \ {p}
      PROVE  Ready(q, proc[q], file', db', applied')
  <2>1. Ready(q, proc[q], file, db, applied)  BY DEF Done
  <2> QED  BY <2>1 DEF Ready, HasLogins
<1>4. \A q \in Procs : Ready(q, proc'[q], file', db', applied')
  BY <1>1, <1>3
<1>5. \A q \in Procs : locks'["role"] = q => proc'[q].pc = "alter"
  BY <1>1 DEF Done
<1> QED  BY <1>4, <1>5 DEF Done

LEMMA StepIsOfUse ==
  ASSUME LInv, Done, NEW p \in Procs, Step(p)
  PROVE  Done'
<1>0. /\ proc[p] \in Local /\ Kept(proc[p]) /\ Types
      /\ Ready(p, proc[p], file, db, applied)
      /\ IdleProc \in Local /\ [IdleProc EXCEPT !.pc = "failed"] \in Local
      /\ \A n \in Phases : [proc[p] EXCEPT !.pc = n] \in Local
      /\ None \notin Procs
  BY IdleLocal, Assigned, ProvisionAssumption DEF LInv, Types, Done, Phases
<1>k. proc[p].pc # "alter" => locks["role"] # p  BY DEF Done
\* Steps that change local state at most.
<1>a. ASSUME NEW r \in Local, Become(p, r),
             UNCHANGED <<file, files, db, applied, rolePw>>, locks'["role"] = locks["role"],
             proc[p].pc \notin {"idle", "alter"},
             Ready(p, r, file, db, applied)
      PROVE  Done'
  <2>1. Ready(p, r, file', db', applied')  BY <1>a
  <2>2. db' => files' \in {"bare", "managed"}  BY <1>a DEF Done
  <2> QED  BY <1>a, <1>k, <2>1, <2>2, UseStep
<1>b. ASSUME NEW n \in Phases, Goto(p, n),
             UNCHANGED <<file, files, db, applied, rolePw>>, locks'["role"] = locks["role"],
             proc[p].pc \notin {"idle", "alter"},
             n \notin {"merge", "rename", "migrate", "relogin", "role", "alter", "ok"},
             n \in {"pending", "lock"} => db
      PROVE  Done'
  <2> DEFINE r == [proc[p] EXCEPT !.pc = n]
  <2>1. r \in Local /\ r.pc = n  BY <1>0 DEF Local
  <2>2. Become(p, r)  BY <1>b DEF Goto
  <2> HIDE DEF r
  <2>3. Ready(p, r, file, db, applied)  BY <1>b, <2>1 DEF Ready
  <2> QED  BY <1>a, <1>b, <2>1, <2>2, <2>3
<1>t. ASSUME Throw(p),
             UNCHANGED <<file, files, db, applied, rolePw>>, locks'["role"] = locks["role"],
             proc[p].pc \notin {"idle", "alter"}
      PROVE  Done'
  <2>1. Ready(p, [IdleProc EXCEPT !.pc = "failed"], file, db, applied)
    BY DEF Ready, IdleProc
  <2> QED  BY <1>0, <1>a, <1>t, <2>1 DEF Throw
<1>u. ASSUME NEW n \in Phases \ {"role"},
             NEW r \in Local, Become(p, r), r.pc = "merge", r.next = n,
             UNCHANGED <<file, files, db, applied, rolePw, locks>>,
             proc[p].pc \notin {"idle", "alter"}
      PROVE  Done'
  <2>1. Ready(p, r, file, db, applied)  BY <1>u DEF Ready
  <2> QED  BY <1>a, <1>u, <2>1
<1>1. CASE ReadConfig(p)
  <2> DEFINE r == [proc[p] EXCEPT !.pc = "rename", !.saw = file]
  <2>1. r \in Local
    <3>1. "rename" \in Phases /\ file \in Settled  BY <1>0 DEF Phases, Types
    <3> QED  BY <3>1, <1>0, Assigned
  <2>2. r.pc = "rename" /\ r.next = proc[p].next  BY <1>0 DEF Local
  <2>3. Become(p, r) /\ proc[p].pc = "merge" /\ UNCHANGED <<file, files, db, applied, rolePw, locks>>
    BY <1>1 DEF ReadConfig, At, clusterVars
  <2> HIDE DEF r
  <2>4. Ready(p, r, file, db, applied)  BY <1>0, <2>2, <2>3 DEF Ready
  <2> QED  BY <1>a, <2>1, <2>3, <2>4
<1>2. CASE RenameConfig(p)
  <2> DEFINE r == [proc[p] EXCEPT !.pc = proc[p].next, !.saw = Empty, !.patch = Empty,
                                  !.next = "idle"]
  <2>1. /\ proc[p].pc = "rename" /\ Become(p, r)
        /\ file' = Merged(proc[p].saw, proc[p].patch)
        /\ UNCHANGED <<files, db, applied, rolePw, locks>>
    BY <1>2 DEF RenameConfig, At, clusterVars
  <2>2. proc[p].next \in {"idle", "key", "look", "logins", "initdb"}
    BY <1>0, <2>1 DEF Kept, Ready
  <2>3. HasLogins => file'["login"] = file["login"]
    <3>1. proc[p].saw["login"] = file["login"]  BY <1>0, <2>1 DEF Kept
    <3>2. proc[p].saw \in Settled /\ proc[p].patch \in Settled  BY <1>0 DEF Local
    <3> QED  BY <1>0, <2>1, <3>1, <3>2, MergedSettled DEF Kept, Sections
  <2>4. r \in Local
    <3>1. "idle" \in Phases /\ proc[p].next \in Phases  BY <2>2 DEF Phases
    <3>2. [proc[p] EXCEPT !.pc = proc[p].next, !.saw = Empty] \in Local
      BY <1>0, <3>1, EmptySettled, Assigned
    <3>3. [proc[p] EXCEPT !.pc = proc[p].next, !.saw = Empty, !.patch = Empty] \in Local
      BY <3>2, EmptySettled, Assigned
    <3> QED  BY <3>1, <3>3, Assigned
  <2>5. r.pc = proc[p].next  BY <1>0 DEF Local
  <2> HIDE DEF r
  <2>6. Ready(p, r, file', db', applied')  BY <2>2, <2>5 DEF Ready
  <2>7. db' => files' \in {"bare", "managed"}  BY <2>1 DEF Done
  <2> QED  BY <1>k, <2>1, <2>3, <2>4, <2>6, <2>7, UseStep
<1>3. CASE WriteSettings(p)
  <2>1. PICK k \in IF proc[p].seen["key"] # None THEN {proc[p].seen["key"]} ELSE Unused,
             n \in {"key", "idle"} :
          Become(p, [Updating(p, [Setting("plaid", "set") EXCEPT !["key"] = k], n)
                       EXCEPT !.seen = Empty])
    BY <1>3 DEF WriteSettings
  <2>2. k \in Secrets  BY <1>0, UnusedSecrets DEF Local, Settled, Held
  <2> DEFINE f == [Setting("plaid", "set") EXCEPT !["key"] = k]
             u == Updating(p, f, n)
             r == [u EXCEPT !.seen = Empty]
  <2>3. f \in Settled  BY <2>2, SettingSettled
  <2>4. u \in Local  BY <1>0, <2>3, UpdatingLocal DEF Phases
  <2>5. u.pc = "merge" /\ u.next = n  BY <1>0 DEF Updating, Local
  <2> HIDE DEF f, u
  <2>6. r \in Local /\ r.pc = "merge" /\ r.next = n
    BY <2>4, <2>5, EmptySettled, Assigned DEF Local
  <2>7. Become(p, r)  BY <2>1 DEF f, u
  <2> HIDE DEF r
  <2>8. proc[p].pc = "prompt" /\ UNCHANGED <<file, files, db, applied, rolePw, locks>>
    BY <1>3 DEF WriteSettings, At, clusterVars
  <2>9. n \in Phases \ {"role"}  BY DEF Phases
  <2> QED  BY <2>3, <2>6, <2>7, <2>8, <2>9, <1>u
<1>4. CASE EnsureKey(p)
  <2>1. proc[p].pc = "key" /\ UNCHANGED <<file, files, db, applied, rolePw, locks>>
    BY <1>4 DEF EnsureKey, At, clusterVars
  <2>2. CASE file["key"] # None
    BY <1>4, <2>1, <2>2, <1>b DEF EnsureKey, Phases
  <2>3. CASE file["key"] = None
    <3>1. PICK k \in Unused : Become(p, Updating(p, Setting("key", k), "look"))
      BY <1>4, <2>3 DEF EnsureKey
    <3> DEFINE f == Setting("key", k)
               r == Updating(p, f, "look")
    <3>2. f \in Settled  BY UnusedSecrets, SettingSettled
    <3>3. r \in Local  BY <1>0, <3>2, UpdatingLocal DEF Phases
    <3>4. r.pc = "merge" /\ r.next = "look"  BY <1>0 DEF Updating, Local
    <3>5. Become(p, r)  BY <3>1
    <3> HIDE DEF f, r
    <3>6. "look" \in Phases \ {"role"}  BY DEF Phases
    <3> QED  BY <2>1, <3>2, <3>3, <3>4, <3>5, <3>6, <1>u
  <2> QED  BY <2>2, <2>3
<1>5. CASE Look(p)
  BY <1>5, <1>b DEF Look, At, clusterVars, Phases
<1>6. CASE Allocate(p)
  <2>1. proc[p].pc = "ports" /\ UNCHANGED <<file, files, db, applied, rolePw, locks>>
    BY <1>6 DEF Allocate, At, clusterVars
  <2>2. CASE Goto(p, "logins")
    BY <2>1, <2>2, <1>b DEF Phases
  <2>3. CASE Become(p, Updating(p, Setting("ports", "set"), "logins"))
    <3> DEFINE f == Setting("ports", "set")
               r == Updating(p, f, "logins")
    <3>2. f \in Settled  BY SettingSettled
    <3>3. r \in Local  BY <1>0, <3>2, UpdatingLocal DEF Phases
    <3>4. r.pc = "merge" /\ r.next = "logins"  BY <1>0 DEF Updating, Local
    <3>5. Become(p, r)  BY <2>3
    <3> HIDE DEF f, r
    <3>6. "logins" \in Phases \ {"role"}  BY DEF Phases
    <3> QED  BY <2>1, <3>2, <3>3, <3>4, <3>5, <3>6, <1>u
  <2> QED  BY <1>6, <2>2, <2>3 DEF Allocate
<1>7. CASE DecideLogins(p, "logins", "initdb")
  <2>1. proc[p].pc = "logins" /\ UNCHANGED <<file, files, db, applied, rolePw, locks>>
    BY <1>7 DEF DecideLogins, At, clusterVars
  <2>2. CASE HasLogins
    <3> DEFINE r == [proc[p] EXCEPT !.pc = "initdb", !.login = file["login"]]
    <3>1. r \in Local
      <4>1. "initdb" \in Phases /\ file["login"] \in Held  BY <1>0 DEF Phases, Types, Settled
      <4> QED  BY <4>1, <1>0, Assigned
    <3>2. r.pc = "initdb"  BY <1>0 DEF Local
    <3>3. Become(p, r)  BY <1>7, <2>2 DEF DecideLogins
    <3> HIDE DEF r
    <3>4. Ready(p, r, file, db, applied)  BY <3>2 DEF Ready
    <3> QED  BY <2>1, <3>1, <3>3, <3>4, <1>a
  <2>3. CASE ~ HasLogins
    <3>1. PICK l \in Unused :
            Become(p, [Updating(p, Setting("login", l), "initdb") EXCEPT !.login = l])
      BY <1>7, <2>3 DEF DecideLogins
    <3> DEFINE f == Setting("login", l)
               u == Updating(p, f, "initdb")
               r == [u EXCEPT !.login = l]
    <3>2. f \in Settled /\ l \in Secrets  BY UnusedSecrets, SettingSettled
    <3>3. u \in Local  BY <1>0, <3>2, UpdatingLocal DEF Phases
    <3>4. u.pc = "merge" /\ u.next = "initdb"  BY <1>0 DEF Updating, Local
    <3> HIDE DEF f, u
    <3>5. r \in Local /\ r.pc = "merge" /\ r.next = "initdb"
      BY <3>2, <3>3, <3>4, Assigned DEF Local, Held
    <3>6. Become(p, r)  BY <3>1 DEF f, u
    <3> HIDE DEF r
    <3>7. "initdb" \in Phases \ {"role"}  BY DEF Phases
    <3> QED  BY <2>1, <3>2, <3>5, <3>6, <3>7, <1>u
  <2> QED  BY <2>2, <2>3
\* There are logins by then: the database was created with them.
<1>8. CASE DecideLogins(p, "relogin", "role")
  <2> DEFINE r == [proc[p] EXCEPT !.pc = "role", !.login = file["login"]]
  <2>1. proc[p].pc = "relogin" /\ UNCHANGED <<file, files, db, applied, rolePw, locks>>
    BY <1>8 DEF DecideLogins, At, clusterVars
  <2>2. HasLogins  BY <1>0, <2>1 DEF Ready, Done, LInv, Cluster, Exists
  <2>3. r \in Local
    <3>1. "role" \in Phases /\ file["login"] \in Held  BY <1>0 DEF Phases, Types, Settled
    <3> QED  BY <3>1, <1>0, Assigned
  <2>4. r.pc = "role" /\ r.login = file["login"]  BY <1>0 DEF Local
  <2>5. Become(p, r)  BY <1>8, <2>2 DEF DecideLogins
  <2> HIDE DEF r
  <2>6. Ready(p, r, file, db, applied)
    BY <1>0, <2>1, <2>2, <2>4 DEF Ready, HasLogins
  <2> QED  BY <2>1, <2>3, <2>5, <2>6, <1>a
<1>9. ASSUME NEW n \in {"start", "forming", "conf"}, Goto(p, n),
             proc[p].pc \in {"initdb", "forming", "conf"},
             files \in {"bare", "managed"} => files' \in {"bare", "managed"},
             UNCHANGED <<file, db, applied, rolePw, locks>>
      PROVE  Done'
  <2> DEFINE r == [proc[p] EXCEPT !.pc = n]
  <2>1. n \in Phases  BY DEF Phases
  <2>2. r \in Local /\ r.pc = n  BY <1>0, <2>1 DEF Local
  <2>3. Become(p, r)  BY <1>9 DEF Goto
  <2> HIDE DEF r
  <2>4. Ready(p, r, file', db', applied')  BY <2>2 DEF Ready
  <2>5. db' => files' \in {"bare", "managed"}  BY <1>9 DEF Done
  <2> QED  BY <1>k, <1>9, <2>2, <2>3, <2>4, <2>5, UseStep
<1>10. CASE Initdb(p) \/ InitdbEnds(p) \/ WriteManagedConfig(p)
  BY <1>0, <1>9, <1>10 DEF Initdb, InitdbEnds, WriteManagedConfig, At, Exists
<1>11. CASE StartServer(p)
  <2>1. proc[p].pc = "start" /\ UNCHANGED <<file, files, db, applied, rolePw, locks>>
    BY <1>11 DEF StartServer, At
  <2>2. Goto(p, "await") \/ Throw(p)  BY <1>11 DEF StartServer
  <2> QED  BY <2>1, <2>2, <1>b, <1>t DEF Phases
<1>12. CASE AwaitServer(p) \/ AwaitTimesOut(p)
  BY <1>12, <1>b, <1>t DEF AwaitServer, AwaitTimesOut, At, clusterVars, Phases
<1>13. CASE FindDatabase(p)
  BY <1>13, <1>b, <1>t DEF FindDatabase, At, clusterVars, Phases
<1>14. CASE CreateDatabase(p)
  <2> DEFINE r == [proc[p] EXCEPT !.pc = "pending"]
  <2>1. proc[p].pc = "create" /\ UNCHANGED <<file, files, applied, rolePw, locks>>
    BY <1>14 DEF CreateDatabase, At
  <2>2. CASE CanConnect /\ ~ db
    <3>1. Goto(p, "pending") /\ db' = TRUE  BY <1>14, <2>2 DEF CreateDatabase
    <3>2. "pending" \in Phases  BY DEF Phases
    <3>3. r \in Local /\ r.pc = "pending"  BY <1>0, <3>2 DEF Local
    <3>4. Become(p, r)  BY <3>1 DEF Goto
    <3> HIDE DEF r
    <3>5. Ready(p, r, file', db', applied')  BY <3>1, <3>3 DEF Ready
    <3>6. files' \in {"bare", "managed"}  BY <2>1, <2>2 DEF LInv, Cluster, CanConnect
    <3> QED  BY <1>k, <2>1, <3>1, <3>3, <3>4, <3>5, <3>6, UseStep
  <2>3. CASE ~ (CanConnect /\ ~ db)
    BY <1>14, <2>1, <2>3, <1>t DEF CreateDatabase
  <2> QED  BY <2>2, <2>3
<1>15. CASE PendingMigrations(p)
  <2>1. proc[p].pc = "pending" /\ UNCHANGED <<file, files, db, applied, rolePw, locks>>
    BY <1>15 DEF PendingMigrations, At, clusterVars
  <2>2. CASE CanConnect
    <3> DEFINE t == Knows(p) \ applied
               n == IF t = {} THEN "relogin" ELSE "lock"
               r == [proc[p] EXCEPT !.pc = n, !.todo = t]
    <3>1. Become(p, r)  BY <1>15, <2>2 DEF PendingMigrations
    <3>2. /\ n \in {"relogin", "lock"} /\ t \in SUBSET (1 .. Newest)
          /\ n = "relogin" => Knows(p) \subseteq applied
      BY ProvisionAssumption DEF Knows
    <3> HIDE DEF n, t
    <3>3. r \in Local
      <4>1. n \in Phases  BY <3>2 DEF Phases
      <4> QED  BY <4>1, <3>2, <1>0, Assigned
    <3>4. r.pc = n  BY <1>0 DEF Local
    <3> HIDE DEF r
    <3>5. Ready(p, r, file, db, applied)
      BY <1>0, <2>1, <3>2, <3>4 DEF Ready
    <3> QED  BY <2>1, <3>1, <3>3, <3>5, <1>a
  <2>3. CASE ~ CanConnect
    BY <1>15, <2>1, <2>3, <1>t DEF PendingMigrations
  <2> QED  BY <2>2, <2>3
<1>16. CASE LockMigrations(p)
  <2> DEFINE t == Knows(p) \ applied
             r == [proc[p] EXCEPT !.pc = "migrate", !.todo = t]
  <2>1. /\ proc[p].pc = "lock" /\ UNCHANGED <<file, files, db, applied, rolePw>>
        /\ Become(p, r)
    BY <1>16 DEF LockMigrations, At
  <2>2. locks'["role"] = locks["role"]  BY <1>0, <1>16 DEF LockMigrations, Types, LockIds
  <2>3. t \in SUBSET (1 .. Newest) /\ Knows(p) \ t \subseteq applied
    BY ProvisionAssumption DEF Knows
  <2> HIDE DEF t
  <2>4. r \in Local
    <3>1. "migrate" \in Phases  BY DEF Phases
    <3> QED  BY <3>1, <2>3, <1>0, Assigned
  <2>5. r.pc = "migrate" /\ r.todo = t  BY <1>0, <2>3 DEF Local
  <2> HIDE DEF r
  <2>6. Ready(p, r, file, db, applied)
    BY <1>0, <2>1, <2>3, <2>5 DEF Ready
  <2> QED  BY <2>1, <2>2, <2>4, <2>6, <1>a
<1>17. CASE LockUnreachable(p)
  BY <1>17, <1>t DEF LockUnreachable, At, clusterVars
<1>18. CASE RunMigrations(p)
  <2>1. proc[p].pc = "migrate" /\ UNCHANGED <<file, files, db, rolePw>>
    BY <1>18 DEF RunMigrations, At
  <2>2. locks'["role"] = locks["role"]  BY <1>0, <1>18 DEF RunMigrations, Types, LockIds
  <2>3. CASE proc[p].todo \intersect applied = {}
    <3> DEFINE r == [proc[p] EXCEPT !.pc = "relogin", !.todo = {}]
    <3>1. Become(p, r) /\ applied' = applied \union proc[p].todo
      BY <1>18, <2>3 DEF RunMigrations
    <3>2. r \in Local
      <4>1. "relogin" \in Phases /\ {} \in SUBSET (1 .. Newest)  BY DEF Phases
      <4> QED  BY <4>1, <1>0, Assigned
    <3>3. r.pc = "relogin"  BY <1>0 DEF Local
    <3> HIDE DEF r
    <3>4. db /\ Knows(p) \ proc[p].todo \subseteq applied  BY <1>0, <2>1 DEF Ready
    <3>5. Ready(p, r, file', db', applied')  BY <2>1, <3>1, <3>3, <3>4 DEF Ready
    <3>6. db' => files' \in {"bare", "managed"}  BY <2>1 DEF Done
    <3>7. applied \subseteq applied'  BY <3>1
    <3> HIDE DEF Ready
    <3> QED  BY <1>k, <2>1, <2>2, <3>2, <3>1, <3>5, <3>6, <3>7, UseStep
  <2>4. CASE proc[p].todo \intersect applied # {}
    BY <1>18, <2>1, <2>2, <2>4, <1>t DEF RunMigrations
  <2> QED  BY <2>3, <2>4
<1>19. CASE TryRoleLock(p)
  <2>1. proc[p].pc = "role" /\ UNCHANGED <<file, files, db, applied, rolePw>>
    BY <1>19 DEF TryRoleLock, At
  <2>2. db /\ Knows(p) \subseteq applied /\ file["login"] # None /\ proc[p].login = file["login"]
    BY <1>0, <2>1 DEF Ready
  <2>3. CASE ~ CanConnect
    BY <1>19, <2>1, <2>3, <1>t DEF TryRoleLock
  <2>4. ASSUME NEW n \in {"alter", "ok"}, Goto(p, n),
               locks'["role"] = p => n = "alter",
               \A q \in Procs \ {p} : locks'["role"] = q => locks["role"] = q
        PROVE  Done'
    <3> DEFINE r == [proc[p] EXCEPT !.pc = n]
    <3>1. n \in Phases  BY DEF Phases
    <3>2. r \in Local /\ r.pc = n /\ r.login = proc[p].login  BY <1>0, <3>1 DEF Local
    <3>3. Become(p, r)  BY <2>4 DEF Goto
    <3> HIDE DEF r
    <3>4. Ready(p, r, file', db', applied')  BY <2>1, <2>2, <2>4, <3>2 DEF Ready
    <3>5. db' => files' \in {"bare", "managed"}  BY <2>1 DEF Done
    <3> QED  BY <2>1, <2>4, <3>2, <3>3, <3>4, <3>5, UseStep
  <2>5. CASE CanConnect /\ locks["role"] = None
    <3>1. Goto(p, "alter") /\ locks' = [locks EXCEPT !["role"] = p]
      BY <1>19, <2>5 DEF TryRoleLock
    <3>2. locks'["role"] = p  BY <1>0, <3>1 DEF Types, LockIds
    <3> QED  BY <2>4, <3>1, <3>2
  <2>6. CASE CanConnect /\ locks["role"] # None
    <3>1. Goto(p, "ok") /\ locks' = locks  BY <1>19, <2>6 DEF TryRoleLock
    <3> QED  BY <1>k, <2>1, <2>4, <3>1
  <2> QED  BY <2>3, <2>5, <2>6
<1>20. CASE AlterRole(p)
  <2> DEFINE r == [proc[p] EXCEPT !.pc = "ok"]
  <2>1. /\ proc[p].pc = "alter" /\ Goto(p, "ok") /\ rolePw' = proc[p].login
        /\ UNCHANGED <<file, files, db, applied>>
    BY <1>20 DEF AlterRole, At
  <2>2. locks'["role"] = None  BY <1>0, <1>20 DEF AlterRole, Types, LockIds
  <2>3. "ok" \in Phases  BY DEF Phases
  <2>4. r \in Local /\ r.pc = "ok"  BY <1>0, <2>3 DEF Local
  <2>5. Become(p, r)  BY <2>1 DEF Goto
  <2> HIDE DEF r
  <2>6. /\ db /\ Knows(p) \subseteq applied
        /\ file["login"] # None /\ proc[p].login = file["login"]
    BY <1>0, <2>1 DEF Ready
  <2>7. Ready(p, r, file', db', applied')  BY <2>1, <2>4, <2>6 DEF Ready
  <2>8. db' => files' \in {"bare", "managed"}  BY <2>1 DEF Done
  <2> QED  BY <1>0, <2>1, <2>2, <2>4, <2>5, <2>6, <2>7, <2>8, UseStep
<1>21. CASE Return(p)
  <2>1. /\ proc[p].pc \in {"ok", "failed"} /\ Become(p, IdleProc)
        /\ UNCHANGED <<file, files, db, applied, rolePw, locks>>
    BY <1>21 DEF Return, clusterVars
  <2>2. Ready(p, IdleProc, file, db, applied)  BY DEF Ready, IdleProc
  <2> QED  BY <1>0, <2>1, <2>2, <1>a
<1> QED
  BY <1>1, <1>2, <1>3, <1>4, <1>5, <1>6, <1>7, <1>8, <1>10, <1>11, <1>12, <1>13,
     <1>14, <1>15, <1>16, <1>17, <1>18, <1>19, <1>20, <1>21 DEF Step

LEMMA UseKept == ASSUME UInv, [LoginsNext]_vars  PROVE UInv'
<1>1. LInv'  BY LoginsKept DEF UInv
<1>2. SUFFICES Done'
  BY <1>1 DEF UInv
<1>0. LInv /\ Done /\ Types /\ None \notin Procs
  BY ProvisionAssumption DEF UInv, LInv
<1>4. ASSUME UNCHANGED <<file, files, db, applied, rolePw, locks, proc>>  PROVE Done'
  BY <1>0, <1>4 DEF Done
<1>5. ASSUME NEW p \in Procs, Begin(p)  PROVE Done'
  <2> DEFINE r == IF BeginInstall(p) THEN [proc[p] EXCEPT !.pc = "key"]
                                     ELSE [proc[p] EXCEPT !.pc = "prompt", !.seen = file]
  <2>1. proc[p] \in Local /\ proc \in [Procs -> Local] /\ file \in Settled
    BY <1>0 DEF Types
  <2>2. r \in Local /\ r.pc \in {"key", "prompt"}
    <3>1. "key" \in Phases /\ "prompt" \in Phases  BY DEF Phases
    <3>2. [proc[p] EXCEPT !.pc = "prompt"] \in Local  BY <2>1, <3>1, Assigned
    <3>3. [proc[p] EXCEPT !.pc = "prompt", !.seen = file] \in Local  BY <2>1, <3>2, Assigned
    <3>4. [proc[p] EXCEPT !.pc = "key"] \in Local  BY <2>1, <3>1, Assigned
    <3> QED  BY <2>1, <3>3, <3>4 DEF Local
  <2>3. /\ Become(p, r) /\ proc[p].pc = "idle"
        /\ UNCHANGED <<file, files, db, applied, rolePw, locks>>
    BY <1>5 DEF Begin, BeginInstall, BeginInit, At, Goto, clusterVars
  <2> HIDE DEF r
  <2>4. Ready(p, r, file', db', applied')  BY <2>2 DEF Ready
  <2>5. db' => files' \in {"bare", "managed"}  BY <1>0, <2>3 DEF Done
  <2>6. locks'["role"] # p  BY <1>0, <2>3 DEF Done
  <2> QED  BY <1>0, <2>2, <2>3, <2>4, <2>5, <2>6, UseStep
<1>6. ASSUME NEW p \in Procs, Fails(p) \/ Crash(p)  PROVE Done'
  <2>1. /\ proc[p] \in Local /\ Kept(proc[p])
        /\ IdleProc \in Local /\ [IdleProc EXCEPT !.pc = "failed"] \in Local
        /\ \A n \in Phases : [proc[p] EXCEPT !.pc = n] \in Local
    BY <1>0, IdleLocal, Assigned DEF LInv, Types, Phases
  <2>2. PICK r \in {IdleProc, [IdleProc EXCEPT !.pc = "failed"],
                    [proc[p] EXCEPT !.pc = "start"]} :
          Become(p, r)
    BY <1>6 DEF Fails, NoFreePort, InitdbFails, CannotStart, Crash, Throw, Goto
  <2>3. r \in Local /\ r.pc \in {"idle", "failed", "start"}
    <3>1. "start" \in Phases  BY DEF Phases
    <3> QED  BY <2>1, <3>1 DEF Local, IdleProc
  <2>4. UNCHANGED <<file, db, applied, rolePw>>
    BY <1>6 DEF Fails, NoFreePort, InitdbFails, CannotStart, Crash, clusterVars
  <2>5. db' => files' \in {"bare", "managed"}
    <3>1. db => proc[p].pc # "forming"  BY <1>0, <2>1 DEF Done, Kept
    <3>2. UNCHANGED files \/ proc[p].pc = "forming"
      BY <1>6 DEF Fails, NoFreePort, InitdbFails, CannotStart, Crash, At, clusterVars
    <3> QED  BY <1>0, <2>4, <3>1, <3>2 DEF Done
  <2>6. /\ locks'["role"] = p => locks["role"] = p /\ proc[p].pc # "alter"
        /\ \A q \in Procs \ {p} : locks'["role"] = q => locks["role"] = q
    <3>1. \/ locks' = locks /\ proc[p].pc \in {"ports", "start", "forming"}
          \/ locks' = Released({p})
      BY <1>6 DEF Fails, NoFreePort, InitdbFails, CannotStart, Crash, At, clusterVars
    <3> QED  BY <1>0, <3>1 DEF Released, LockIds
  <2>7. locks'["role"] # p  BY <1>0, <2>6 DEF Done
  <2>8. Ready(p, r, file', db', applied')  BY <2>3 DEF Ready
  <2> QED  BY <1>0, <2>2, <2>3, <2>4, <2>5, <2>6, <2>7, <2>8, UseStep
<1>7. CASE ServerReady
  BY <1>4, <1>7 DEF ServerReady
<1>8. CASE ServerStops
  <2>1. /\ UNCHANGED <<file, files, db, applied>>
        /\ locks'["role"] = None
        /\ \A p \in Procs : \/ proc'[p] = proc[p]
                            \/ proc'[p] = [IdleProc EXCEPT !.pc = "failed"]
    BY <1>8 DEF ServerStops, LockIds
  <2>2. \A p \in Procs : Ready(p, [IdleProc EXCEPT !.pc = "failed"], file, db, applied)
    BY DEF Ready, IdleProc
  <2>3. \A p \in Procs : Ready(p, proc'[p], file', db', applied')
    BY <1>0, <2>1, <2>2 DEF Done
  <2> QED  BY <1>0, <2>1, <2>3 DEF Done
<1>9. CASE SaveToken
  BY <1>4, <1>9 DEF SaveToken
<1>10. CASE UNCHANGED vars
  BY <1>4, <1>10 DEF vars
<1>11. ASSUME NEW p \in Procs, GoesOn(p)  PROVE Done'
  BY <1>0, <1>6, <1>11, StepIsOfUse DEF GoesOn
<1> QED  BY <1>5, <1>7, <1>8, <1>9, <1>10, <1>11 DEF LoginsNext, ServerNext

\* The only steps that end in success are those at the lock on u_app.
LEMMA WhoSucceeds ==
  ASSUME LInv, NEW p \in Procs, Step(p)
  PROVE  /\ \A q \in Procs \ {p} : proc'[q] = proc[q]
         /\ proc'[p].pc = "ok" => TryRoleLock(p) \/ AlterRole(p)
<1>0. proc[p] \in Local /\ Kept(proc[p]) /\ proc \in [Procs -> Local]
  BY DEF LInv, Types
<1>1. SUFFICES \E r : Become(p, r) /\ (r.pc = "ok" => TryRoleLock(p) \/ AlterRole(p))
  BY <1>0 DEF Become
<1>g. ASSUME NEW n, Goto(p, n), n = "ok" => TryRoleLock(p) \/ AlterRole(p)
      PROVE  \E r : Become(p, r) /\ (r.pc = "ok" => TryRoleLock(p) \/ AlterRole(p))
  <2>1. [proc[p] EXCEPT !.pc = n].pc = n  BY <1>0 DEF Local
  <2> QED  BY <1>g, <2>1 DEF Goto
<1>t. ASSUME Throw(p)
      PROVE  \E r : Become(p, r) /\ (r.pc = "ok" => TryRoleLock(p) \/ AlterRole(p))
  <2>1. [IdleProc EXCEPT !.pc = "failed"].pc = "failed"  BY DEF IdleProc
  <2> QED  BY <1>t, <2>1 DEF Throw
<1>2. CASE ReadConfig(p)
  <2>1. Become(p, [proc[p] EXCEPT !.pc = "rename", !.saw = file])  BY <1>2 DEF ReadConfig
  <2>2. [proc[p] EXCEPT !.pc = "rename", !.saw = file].pc = "rename"  BY <1>0 DEF Local
  <2> QED  BY <2>1, <2>2
<1>3. CASE RenameConfig(p)
  <2> DEFINE r == [proc[p] EXCEPT !.pc = proc[p].next, !.saw = Empty, !.patch = Empty,
                                  !.next = "idle"]
  <2>1. Become(p, r) /\ proc[p].pc = "rename"  BY <1>3 DEF RenameConfig, At
  <2>2. proc[p].next # "ok"  BY <1>0, <2>1 DEF Kept
  <2>3. r.pc = proc[p].next  BY <1>0 DEF Local
  <2> QED  BY <2>1, <2>2, <2>3
<1>u. ASSUME NEW f, NEW n, Become(p, Updating(p, f, n))
      PROVE  \E r : Become(p, r) /\ (r.pc = "ok" => TryRoleLock(p) \/ AlterRole(p))
  <2>1. Updating(p, f, n).pc = "merge"  BY <1>0 DEF Updating, Local
  <2> QED  BY <1>u, <2>1
<1>4. CASE WriteSettings(p)
  <2>1. PICK f, n : Become(p, [Updating(p, f, n) EXCEPT !.seen = Empty])
    BY <1>4 DEF WriteSettings
  <2>2. [Updating(p, f, n) EXCEPT !.seen = Empty].pc = "merge"  BY <1>0 DEF Updating, Local
  <2> QED  BY <2>1, <2>2
<1>5. CASE EnsureKey(p)
  BY <1>5, <1>g, <1>u DEF EnsureKey
<1>6. CASE Look(p)
  BY <1>6, <1>g DEF Look
<1>7. CASE Allocate(p)
  BY <1>7, <1>g, <1>u DEF Allocate
<1>8. ASSUME NEW from, NEW n \in {"initdb", "role"}, DecideLogins(p, from, n)
      PROVE  \E r : Become(p, r) /\ (r.pc = "ok" => TryRoleLock(p) \/ AlterRole(p))
  <2>1. CASE HasLogins
    <3>1. Become(p, [proc[p] EXCEPT !.pc = n, !.login = file["login"]])
      BY <1>8, <2>1 DEF DecideLogins
    <3>2. [proc[p] EXCEPT !.pc = n, !.login = file["login"]].pc = n  BY <1>0 DEF Local
    <3> QED  BY <3>1, <3>2
  <2>2. CASE ~ HasLogins
    <3>1. PICK l : Become(p, [Updating(p, Setting("login", l), n) EXCEPT !.login = l])
      BY <1>8, <2>2 DEF DecideLogins
    <3>2. [Updating(p, Setting("login", l), n) EXCEPT !.login = l].pc = "merge"
      BY <1>0 DEF Updating, Local
    <3> QED  BY <3>1, <3>2
  <2> QED  BY <2>1, <2>2
<1>9. CASE Initdb(p) \/ InitdbEnds(p) \/ WriteManagedConfig(p)
  BY <1>9, <1>g DEF Initdb, InitdbEnds, WriteManagedConfig
<1>10. CASE StartServer(p)
  BY <1>10, <1>g, <1>t DEF StartServer
<1>11. CASE AwaitServer(p) \/ AwaitTimesOut(p) \/ LockUnreachable(p)
  BY <1>11, <1>g, <1>t DEF AwaitServer, AwaitTimesOut, LockUnreachable
<1>12. CASE FindDatabase(p) \/ CreateDatabase(p)
  BY <1>12, <1>g, <1>t DEF FindDatabase, CreateDatabase
<1>13. CASE PendingMigrations(p)
  <2>1. CASE CanConnect
    <3> DEFINE t == Knows(p) \ applied
               n == IF t = {} THEN "relogin" ELSE "lock"
               r == [proc[p] EXCEPT !.pc = n, !.todo = t]
    <3>1. Become(p, r)  BY <1>13, <2>1 DEF PendingMigrations
    <3>2. n # "ok"  OBVIOUS
    <3> HIDE DEF n, t
    <3>3. r.pc = n  BY <1>0 DEF Local
    <3> QED  BY <3>1, <3>2, <3>3
  <2>2. CASE ~ CanConnect
    BY <1>13, <2>2, <1>t DEF PendingMigrations
  <2> QED  BY <2>1, <2>2
<1>14. CASE LockMigrations(p)
  <2> DEFINE t == Knows(p) \ applied
             r == [proc[p] EXCEPT !.pc = "migrate", !.todo = t]
  <2>1. Become(p, r)  BY <1>14 DEF LockMigrations
  <2> HIDE DEF t
  <2>2. r.pc = "migrate"  BY <1>0 DEF Local
  <2> QED  BY <2>1, <2>2
<1>15. CASE RunMigrations(p)
  <2> DEFINE r == [proc[p] EXCEPT !.pc = "relogin", !.todo = {}]
  <2>1. Become(p, r) \/ Throw(p)  BY <1>15 DEF RunMigrations
  <2>2. r.pc = "relogin"  BY <1>0 DEF Local
  <2> QED  BY <2>1, <2>2, <1>t
<1>16. CASE TryRoleLock(p)
  BY <1>16, <1>g, <1>t DEF TryRoleLock
<1>17. CASE AlterRole(p)
  BY <1>17, <1>g DEF AlterRole
<1>18. CASE Return(p)
  <2>1. Become(p, IdleProc) /\ IdleProc.pc # "ok"  BY <1>18 DEF Return, IdleProc
  <2> QED  BY <2>1
<1> QED
  BY <1>2, <1>3, <1>4, <1>5, <1>6, <1>7, <1>8, <1>9, <1>10, <1>11, <1>12, <1>13,
     <1>14, <1>15, <1>16, <1>17, <1>18 DEF Step

\* Nothing but a step of its own takes a process there.
LEMMA HowItSucceeds ==
  ASSUME LInv, [LoginsNext]_vars, NEW p \in Procs, proc[p].pc # "ok", proc'[p].pc = "ok"
  PROVE  /\ TryRoleLock(p) \/ AlterRole(p)
         /\ \A q \in Procs \ {p} : proc'[q] = proc[q]
<1>0. /\ proc \in [Procs -> Local]
      /\ IdleProc.pc = "idle" /\ [IdleProc EXCEPT !.pc = "failed"].pc = "failed"
  BY DEF LInv, Types, IdleProc
<1>1. ASSUME NEW q \in Procs, Begin(q) \/ Fails(q) \/ Crash(q)  PROVE FALSE
  <2> DEFINE r == [proc[q] EXCEPT !.pc = "prompt", !.seen = file]
  <2>1. /\ [proc[q] EXCEPT !.pc = "key"].pc = "key" /\ r.pc = "prompt"
        /\ [proc[q] EXCEPT !.pc = "start"].pc = "start"
    <3>1. proc[q] \in Local  BY <1>0
    <3> QED  BY <3>1 DEF Local
  <2>2. PICK s \in {IdleProc, [IdleProc EXCEPT !.pc = "failed"],
                    [proc[q] EXCEPT !.pc = "key"], [proc[q] EXCEPT !.pc = "start"], r} :
          Become(q, s)
    BY <1>1 DEF Begin, BeginInstall, BeginInit, Fails, NoFreePort, InitdbFails, CannotStart,
       Crash, Throw, Goto
  <2> HIDE DEF r
  <2>3. s.pc # "ok"  BY <1>0, <2>1
  <2>4. proc'[p] = IF p = q THEN s ELSE proc[p]  BY <1>0, <2>2 DEF Become
  <2> QED  BY <2>3, <2>4
<1>2. ASSUME ServerNext \/ SaveToken \/ UNCHANGED vars  PROVE FALSE
  <2>1. proc'[p] = proc[p] \/ proc'[p] = [IdleProc EXCEPT !.pc = "failed"]
    BY <1>2 DEF ServerNext, ServerReady, ServerStops, SaveToken, vars
  <2> QED  BY <1>0, <2>1
<1>3. PICK q \in Procs : Step(q)
  BY <1>1, <1>2 DEF LoginsNext, GoesOn
<1>4. q = p  BY <1>3, WhoSucceeds
<1> QED  BY <1>3, <1>4, WhoSucceeds

\* What was true of u_app's password, or of whoever has the lock, when it did.
LEMMA RoleOnSuccess ==
  ASSUME UInv, UInv', [LoginsNext]_vars,
         NEW p \in Procs, proc[p].pc # "ok", proc'[p].pc = "ok"
  PROVE  UsableButForTheRole(p)'
<1>0. LInv /\ Done /\ Types /\ None \notin Procs /\ proc \in [Procs -> Local]
  BY ProvisionAssumption DEF UInv, LInv, Types
<1>1. Ready(p, proc[p], file, db, applied) /\ Ready(p, proc'[p], file', db', applied')
  BY DEF UInv, Done
<1>2. db' /\ Knows(p) \subseteq applied' /\ HasLogins'
  BY <1>1 DEF Ready, HasLogins
<1>3. /\ TryRoleLock(p) \/ AlterRole(p)
      /\ \A q \in Procs \ {p} : proc'[q] = proc[q]
  BY <1>0, HowItSucceeds
<1>4. CASE AlterRole(p)
  <2>1. proc[p].pc = "alter" /\ rolePw' = proc[p].login /\ file' = file
    BY <1>4 DEF AlterRole, At
  <2>2. rolePw' = file'["login"]  BY <1>1, <2>1 DEF Ready
  <2> QED  BY <1>2, <2>2 DEF UsableButForTheRole, Knows
<1>5. CASE TryRoleLock(p)
  <2>1. /\ proc[p].pc = "role" /\ file' = file
        /\ [proc[p] EXCEPT !.pc = "alter"].pc = "alter"
        /\ [IdleProc EXCEPT !.pc = "failed"].pc = "failed"
    <3>1. proc[p] \in Local  BY <1>0
    <3> QED  BY <1>5, <3>1 DEF TryRoleLock, At, Local, IdleProc
  <2>2. ~ Throw(p) /\ ~ Goto(p, "alter")
    BY <1>0, <2>1 DEF Throw, Goto, Become
  <2>3. locks["role"] # None /\ locks' = locks  BY <1>5, <2>2 DEF TryRoleLock
  <2>4. PICK q \in Procs : locks["role"] = q  BY <1>0, <2>3 DEF Types, LockIds
  <2>5. proc[q].pc = "alter" /\ q # p  BY <1>0, <2>1, <2>4 DEF Done
  <2>6. Ready(q, proc[q], file, db, applied)  BY <1>0 DEF Done
  <2>7. proc[q].login = file["login"]  BY <2>5, <2>6 DEF Ready
  <2>8. locks'["role"] = q /\ proc'[q].login = file'["login"]
    BY <1>3, <2>1, <2>3, <2>4, <2>5, <2>7
  <2> QED  BY <1>2, <2>5, <2>8 DEF UsableButForTheRole, Knows
<1> QED  BY <1>3, <1>4, <1>5

(***************************************************************************)
(* However many commands overlap once the logins are stored, whatever is   *)
(* killed or fails, an install that returns has created and migrated the   *)
(* database, and skips the password of u_app only for another install that *)
(* holds the lock on it and the password of the file.  That one may still  *)
(* die: no more than this is true.                                         *)
(***************************************************************************)
THEOREM SkippingIsForSomebody == LoginsSpec => SkipsForSomebody
<1> DEFINE Met == \A p \in Procs :
                    proc[p].pc # "ok" /\ proc'[p].pc = "ok" => UsableButForTheRole(p)'
<1>1. Init => UInv  BY UseStart
<1>2. UInv /\ [LoginsNext]_vars => UInv'  BY UseKept
<1>3. UInv /\ UInv' /\ [LoginsNext]_vars => Met  BY RoleOnSuccess
<1>4. UInv /\ [LoginsNext]_vars => [Met]_vars  BY <1>2, <1>3
<1> QED  BY <1>1, <1>2, <1>4, PTL DEF LoginsSpec, SkipsForSomebody

\* If commands overlap only on a profile that works, u_app has its password by
\* the time anybody can find the lock taken.
Overlap ==
  \A p, q \in Procs :
    proc[p].pc # "idle" /\ proc[q].pc # "idle" /\ p # q
      => file["login"] # None /\ rolePw = file["login"]

LEMMA LoginsStay ==
  ASSUME UInv, NEW p \in Procs, GoesOn(p)
  PROVE  /\ HasLogins => file'["login"] = file["login"]
         /\ rolePw' = rolePw \/ rolePw' = file["login"]
         /\ \A q \in Procs : proc'[q].pc # "idle" => proc[q].pc # "idle"
<1>0. /\ proc[p] \in Local /\ Kept(proc[p]) /\ proc \in [Procs -> Local]
      /\ Ready(p, proc[p], file, db, applied)
  BY DEF UInv, LInv, Types, Done
<1>1. HasLogins => file'["login"] = file["login"]
  <2>1. CASE RenameConfig(p)
    <3>1. proc[p].pc = "rename" /\ file' = Merged(proc[p].saw, proc[p].patch)
      BY <2>1 DEF RenameConfig, At
    <3>2. proc[p].saw["login"] = file["login"]  BY <1>0, <3>1 DEF Kept
    <3>3. proc[p].saw \in Settled /\ proc[p].patch \in Settled  BY <1>0 DEF Local
    <3> QED  BY <1>0, <3>1, <3>2, <3>3, MergedSettled DEF Kept, Sections
  <2>2. CASE ~ RenameConfig(p)
    <3>1. file' = file
      BY <2>2 DEF GoesOn, Fails, Step, ReadConfig, WriteSettings, EnsureKey, Look, Allocate,
         DecideLogins, Initdb, InitdbEnds, WriteManagedConfig, StartServer, AwaitServer,
         AwaitTimesOut, FindDatabase, CreateDatabase, PendingMigrations, LockMigrations,
         LockUnreachable, RunMigrations, TryRoleLock, AlterRole, Return, NoFreePort,
         InitdbFails, CannotStart, Crash
    <3> QED  BY <3>1
  <2> QED  BY <2>1, <2>2
<1>2. rolePw' = rolePw \/ rolePw' = file["login"]
  <2>1. CASE AlterRole(p)
    <3>1. proc[p].pc = "alter" /\ rolePw' = proc[p].login  BY <2>1 DEF AlterRole, At
    <3> QED  BY <1>0, <3>1 DEF Ready
  <2>2. CASE ~ AlterRole(p)
    BY <2>2 DEF GoesOn, Fails, Step, ReadConfig, RenameConfig, WriteSettings, EnsureKey,
       Look, Allocate, DecideLogins, Initdb, InitdbEnds, WriteManagedConfig, StartServer,
       AwaitServer, AwaitTimesOut, FindDatabase, CreateDatabase, PendingMigrations,
       LockMigrations, LockUnreachable, RunMigrations, TryRoleLock, Return, NoFreePort,
       InitdbFails, CannotStart, Crash, clusterVars
  <2> QED  BY <2>1, <2>2
<1>3. \A q \in Procs \ {p} : proc'[q] = proc[q]
  <2>1. CASE Step(p)  BY <2>1, WhoSucceeds DEF UInv
  <2>2. CASE Fails(p) \/ Crash(p)
    <3>1. \E r : Become(p, r)
      BY <2>2 DEF Fails, NoFreePort, InitdbFails, CannotStart, Crash, Throw, Goto
    <3> QED  BY <1>0, <3>1 DEF Become
  <2> QED  BY <2>1, <2>2 DEF GoesOn
<1>4. proc[p].pc # "idle"
  BY DEF GoesOn, Fails, Step, ReadConfig, RenameConfig, WriteSettings, EnsureKey,
     Look, Allocate, DecideLogins, Initdb, InitdbEnds, WriteManagedConfig, StartServer,
     AwaitServer, AwaitTimesOut, FindDatabase, CreateDatabase, PendingMigrations,
     LockMigrations, LockUnreachable, RunMigrations, TryRoleLock, AlterRole, Return,
     NoFreePort, InitdbFails, CannotStart, Crash, At
<1> QED  BY <1>1, <1>2, <1>3, <1>4

LEMMA OverlapKept ==
  ASSUME UInv, Overlap, [GrowNext]_vars
  PROVE  Overlap'
<1>0. proc \in [Procs -> Local]  BY DEF UInv, LInv, Types
<1>1. CASE \E p \in Procs : (Quiet \/ (Works /\ Room)) /\ Begin(p)
  <2>1. PICK p \in Procs : (Quiet \/ Works) /\ Begin(p)  BY <1>1
  <2>2. UNCHANGED <<file, rolePw>> /\ \E r : Become(p, r)
    BY <2>1 DEF Begin, BeginInstall, BeginInit, Goto, clusterVars
  <2>3. \A q \in Procs \ {p} : proc'[q] = proc[q]  BY <1>0, <2>2 DEF Become
  <2> QED  BY <2>1, <2>2, <2>3 DEF Overlap, Quiet, Works, At, HasLogins
<1>2. ASSUME NEW p \in Procs, GoesOn(p)  PROVE Overlap'
  BY <1>2, LoginsStay DEF Overlap, HasLogins
<1>3. CASE ServerNext \/ SaveToken \/ UNCHANGED vars
  <2>1. /\ UNCHANGED <<file, rolePw>>
        /\ \A p \in Procs : proc'[p] = proc[p] \/ proc[p].pc # "idle"
    BY <1>3 DEF ServerNext, ServerReady, ServerStops, SaveToken, vars
  <2> QED  BY <2>1 DEF Overlap
<1> QED  BY <1>1, <1>2, <1>3 DEF GrowNext

(***************************************************************************)
(* If commands overlap only on a profile that works, as GrowSpec has it,   *)
(* an install that returns leaves a profile its version can use, whatever  *)
(* was killed, stopped or tried before.  Two that set it up at once are    *)
(* not covered: see SkippingIsForSomebody.                                 *)
(***************************************************************************)
THEOREM SuccessIsUsable == GrowSpec => SuccessMeansUsable
<1> DEFINE Met == \A p \in Procs : proc[p].pc # "ok" /\ proc'[p].pc = "ok" => Usable(p)'
           Both == UInv /\ Overlap
<1>1. Init => Both
  <2>1. Init => Overlap  BY DEF Init, Overlap, IdleProc
  <2> QED  BY <2>1, UseStart
<1>2. Both /\ [GrowNext]_vars => Both'  BY GrowIsLogins, UseKept, OverlapKept
<1>3. Both /\ Both' /\ [GrowNext]_vars => Met
  <2> SUFFICES ASSUME Both, Both', [GrowNext]_vars, NEW p \in Procs,
                      proc[p].pc # "ok", proc'[p].pc = "ok"
               PROVE  Usable(p)'
    OBVIOUS
  <2>1. UsableButForTheRole(p)'  BY GrowIsLogins, RoleOnSuccess
  <2>2. ASSUME NEW q \in Procs \ {p}, locks'["role"] = q  PROVE rolePw' = file'["login"]
    <3>1. proc'[q].pc = "alter"  BY <2>2 DEF UInv, Done
    <3> QED  BY <3>1 DEF Overlap
  <2> QED  BY <2>1, <2>2 DEF UsableButForTheRole, Usable, Knows
<1>4. Both /\ [GrowNext]_vars => [Met]_vars  BY <1>2, <1>3
<1> QED  BY <1>1, <1>2, <1>4, PTL DEF GrowSpec, SuccessMeansUsable

-------------------------------------------------------------------------------
(* A report beside the commands. *)

\* What has been so since the report began is so now.
SteadyNow == \A f \in steady : Holds(f)

After(phases) == report.pc \notin {"idle"} \union phases

\* What a report has found of a fact it looked at.
Looked ==
  /\ "uninstalled" \in steady =>
       /\ report.pc # "server"
       /\ After({"cluster"}) => ~ report.ok /\ report.state \in {"unknown", "uninitialised"}
  /\ "down" \in steady /\ After({"cluster", "server"}) =>
       report.state \in {"unknown", "stopped"}
  /\ "serves" \in steady =>
       /\ After({"cluster", "server"}) => report.state \in {"unknown", "running"}
       /\ After({"cluster", "server", "probe"}) => report.ok
       /\ After({"cluster", "server", "probe", "ledger"}) => report.ledger # {}
  /\ "linked" \in steady => report.banks # "none"

\* What it has not looked at yet.
NotYet ==
  /\ report.pc \in {"idle", "cluster", "server", "probe"} => ~ report.ok
  /\ report.pc \in {"idle", "cluster", "server"} => report.state = "unknown"

SInv ==
  /\ LInv
  /\ report \in Report /\ steady \subseteq Facts
  /\ SteadyNow
  /\ NotYet
  /\ Looked

-------------------------------------------------------------------------------
(* The list of blockers. *)

LEMMA Ends ==
  ASSUME NEW r \in Report
  PROVE  /\ OfKey(r) \in {<<>>, <<"encryption-key">>}
         /\ OfPlaid(r) \in {<<>>, <<"plaid-credentials">>}
BY DEF OfKey, OfPlaid

\* The blocker of the database is the first one.
LEMMA DatabaseFirst ==
  ASSUME NEW r \in Report, NEW w \in {"datastore", "server", "schema"},
         OfDatabase(r) = <<w>>
  PROVE  BlockersIn(r) # <<>> /\ Head(BlockersIn(r)) = w
<1>1. CASE OfKey(r) = <<>> /\ OfPlaid(r) = <<>>
  BY <1>1 DEF BlockersIn
<1>2. CASE OfKey(r) = <<"encryption-key">> /\ OfPlaid(r) = <<>>
  BY <1>2 DEF BlockersIn
<1>3. CASE OfKey(r) = <<>> /\ OfPlaid(r) = <<"plaid-credentials">>
  BY <1>3 DEF BlockersIn
<1>4. CASE OfKey(r) = <<"encryption-key">> /\ OfPlaid(r) = <<"plaid-credentials">>
  BY <1>4 DEF BlockersIn
<1> QED  BY <1>1, <1>2, <1>3, <1>4, Ends

LEMMA DatabaseNot ==
  ASSUME NEW r \in Report, OfDatabase(r) = <<>>
  PROVE  \A i \in DOMAIN BlockersIn(r) :
           BlockersIn(r)[i] \notin {"datastore", "server", "schema"}
<1>1. CASE OfKey(r) = <<>> /\ OfPlaid(r) = <<>>
  BY <1>1 DEF BlockersIn
<1>2. CASE OfKey(r) = <<"encryption-key">> /\ OfPlaid(r) = <<>>
  BY <1>2 DEF BlockersIn
<1>3. CASE OfKey(r) = <<>> /\ OfPlaid(r) = <<"plaid-credentials">>
  BY <1>3 DEF BlockersIn
<1>4. CASE OfKey(r) = <<"encryption-key">> /\ OfPlaid(r) = <<"plaid-credentials">>
  BY <1>4 DEF BlockersIn
<1> QED  BY <1>1, <1>2, <1>3, <1>4, Ends

LEMMA FoundIsTold == SInv => SteadyIsTold
<1> SUFFICES ASSUME SInv, report.pc = "told"  PROVE SteadyIsTold
  BY DEF SteadyIsTold
<1>0. report \in Report /\ Looked /\ After({"cluster", "server", "probe", "ledger"})
      /\ After({"cluster", "server", "probe"}) /\ After({"cluster", "server"})
      /\ After({"cluster"})
  BY DEF SInv, After
<1>1. ASSUME "uninstalled" \in steady  PROVE ToldFirst("datastore")
  <2>1. OfDatabase(report) = <<"datastore">>  BY <1>0, <1>1 DEF Looked, OfDatabase
  <2> QED  BY <1>0, <2>1, DatabaseFirst DEF ToldFirst
<1>2. ASSUME "down" \in steady, report.state # "unknown"  PROVE ToldFirst("server")
  <2>1. OfDatabase(report) = <<"server">>  BY <1>0, <1>2 DEF Looked, OfDatabase
  <2> QED  BY <1>0, <2>1, DatabaseFirst DEF ToldFirst
<1>3. ASSUME "serves" \in steady, NEW w \in {"datastore", "server", "schema"}
      PROVE  ~ Told(w)
  <2>1. OfDatabase(report) = <<>>  BY <1>0, <1>3 DEF Looked, OfDatabase
  <2> QED  BY <1>0, <2>1, DatabaseNot DEF Told
<1> QED  BY <1>0, <1>1, <1>2, <1>3 DEF SteadyIsTold, Looked

-------------------------------------------------------------------------------
(* The steps. *)

\* What a report is made of.
Places  == {"idle", "cluster", "server", "probe", "ledger", "done", "banks", "told"}
States  == {"unknown", "uninitialised", "stopped", "running"}
Ledgers == (SUBSET (1 .. Newest)) \union {None}

LEMMA Fields ==
  ASSUME NEW r \in Report
  PROVE  /\ \A x \in Places : [r EXCEPT !.pc = x] \in Report
         /\ \A x \in States : [r EXCEPT !.state = x] \in Report
         /\ \A x \in BOOLEAN : [r EXCEPT !.ok = x] \in Report
         /\ \A x \in Ledgers : [r EXCEPT !.ledger = x] \in Report
         /\ \A x \in {"unread", "set", "missing"} : [r EXCEPT !.key = x] \in Report
         /\ \A x \in {"asked", "unconfigured", "unreachable", "reachable"} :
              [r EXCEPT !.plaid = x] \in Report
         /\ \A x \in {"unread", "none", "some"} : [r EXCEPT !.banks = x] \in Report
<1>1. Report = [pc : Places, state : States, ok : BOOLEAN, ledger : Ledgers,
                key : {"unread", "set", "missing"},
                plaid : {"asked", "unconfigured", "unreachable", "reachable"},
                banks : {"unread", "none", "some"}]
  BY DEF Report, Places, States, Ledgers
<1>2. \A x \in Places : [r EXCEPT !.pc = x] \in Report  BY <1>1
<1>3. \A x \in States : [r EXCEPT !.state = x] \in Report  BY <1>1
<1>4. \A x \in BOOLEAN : [r EXCEPT !.ok = x] \in Report  BY <1>1
<1>5. \A x \in Ledgers : [r EXCEPT !.ledger = x] \in Report  BY <1>1
<1>6. \A x \in {"unread", "set", "missing"} : [r EXCEPT !.key = x] \in Report  BY <1>1
<1>7. \A x \in {"asked", "unconfigured", "unreachable", "reachable"} :
         [r EXCEPT !.plaid = x] \in Report
  BY <1>1
<1>8. \A x \in {"unread", "none", "some"} : [r EXCEPT !.banks = x] \in Report  BY <1>1
<1> QED  BY <1>2, <1>3, <1>4, <1>5, <1>6, <1>7, <1>8

LEMMA NoReportIsReport == NoReport \in Report
<1>1. None \in Ledgers  BY DEF Ledgers
<1> QED  BY <1>1, ZenonT(30) DEF NoReport, Report, Ledgers

LEMMA StatusStart == StatusInit => SInv
<1> SUFFICES ASSUME StatusInit  PROVE SInv
  OBVIOUS
<1>1. LInv /\ steady = {} /\ report = NoReport  BY LoginsStart DEF StatusInit
<1>2. report \in Report  BY <1>1, NoReportIsReport
<1> QED  BY <1>1, <1>2 DEF SInv, SteadyNow, NotYet, Looked, NoReport, Facts

LEMMA MeanwhileKeeps == ASSUME SInv, Meanwhile  PROVE SInv'
<1>1. LInv'  BY LoginsKept DEF SInv, Meanwhile
<1>2. steady' = {f \in steady : Holds(f)'} /\ report' = report  BY DEF Meanwhile
<1>3. steady' \subseteq steady  BY <1>2
<1>4. SteadyNow'  BY <1>2 DEF SteadyNow
<1> QED  BY <1>1, <1>2, <1>3, <1>4 DEF SInv, NotYet, Looked, After

LEMMA FoundKeeps ==
  ASSUME SInv, NEW r \in Report, Found(r), NotYet', Looked'
  PROVE  SInv'
<1>1. report' = r /\ UNCHANGED <<vars, steady>>  BY DEF Found
<1>2. LInv'  BY <1>1, LoginsKept DEF SInv
<1>3. \A f \in Facts : Holds(f)' = Holds(f)
  BY <1>1 DEF vars, Holds, Exists, CanConnect, HasLogins, Knows, Facts
<1>4. SteadyNow'  BY <1>1, <1>3 DEF SInv, SteadyNow
<1> QED  BY <1>1, <1>2, <1>4 DEF SInv
LEMMA CheckKeeps == ASSUME SInv, Check  PROVE SInv'
<1>0. report \in Report /\ SteadyNow /\ NotYet /\ Looked /\ Cluster /\ Types
      /\ steady \subseteq Facts
  BY DEF SInv, LInv
<1>1. CASE Ask
  <2> DEFINE r == [NoReport EXCEPT !.pc = "cluster",
                     !.plaid = IF Missing("plaid") THEN "unconfigured" ELSE "asked"]
  <2>1. r \in Report
    <3>1. [NoReport EXCEPT !.pc = "cluster"] \in Report  BY NoReportIsReport, Fields DEF Places, States
    <3>2. (IF Missing("plaid") THEN "unconfigured" ELSE "asked")
             \in {"asked", "unconfigured", "unreachable", "reachable"}
      OBVIOUS
    <3> QED  BY <3>1, <3>2, Fields DEF Places, States
  <2>2. /\ r.pc = "cluster" /\ r.state = "unknown" /\ ~ r.ok /\ r.banks = "unread"
    BY DEF NoReport
  <2>3. report' = r /\ steady' = {f \in Facts : Holds(f)} /\ UNCHANGED vars
    BY <1>1 DEF Ask
  <2> HIDE DEF r
  <2>4. LInv'  BY <2>3, LoginsKept DEF SInv
  <2>5. \A f \in Facts : Holds(f)' = Holds(f)
    BY <2>3 DEF vars, Holds, Exists, CanConnect, HasLogins, Knows, Facts
  <2>6. SteadyNow'  BY <2>3, <2>5 DEF SteadyNow
  <2>7. NotYet' /\ Looked'  BY <2>2, <2>3 DEF NotYet, Looked, After
  <2> QED  BY <2>1, <2>3, <2>4, <2>6, <2>7 DEF SInv
<1>2. CASE LookForCluster
  <2> DEFINE r == IF Exists THEN [report EXCEPT !.pc = "server"]
                            ELSE [report EXCEPT !.pc = "probe", !.state = "uninitialised"]
  <2>1. report.pc = "cluster" /\ Found(r)  BY <1>2 DEF LookForCluster
  <2>2. r \in Report  BY <1>0, Fields DEF Places, States
  <2>3. /\ r.pc = IF Exists THEN "server" ELSE "probe"
        /\ r.state = IF Exists THEN report.state ELSE "uninitialised"
        /\ r.ok = report.ok /\ r.banks = report.banks /\ r.ledger = report.ledger
    BY <1>0 DEF Report
  <2> HIDE DEF r
  <2>4. report' = r /\ steady' = steady  BY <2>1 DEF Found
  <2>5. /\ "uninstalled" \in steady => ~ Exists
        /\ "down" \in steady => Exists
        /\ "serves" \in steady => Exists
    BY <1>0 DEF SteadyNow, Holds, CanConnect, Cluster, Exists
  <2>6. NotYet' /\ Looked'
    BY <1>0, <2>1, <2>3, <2>4, <2>5 DEF NotYet, Looked, After
  <2> QED  BY <2>1, <2>2, <2>6, FoundKeeps
<1>3. CASE LookForServer
  <2>1. PICK found \in {server # "down", server # "down" \/ files = "forming"} :
          Found([report EXCEPT !.pc = "probe",
                               !.state = IF found THEN "running" ELSE "stopped"])
    BY <1>3 DEF LookForServer
  <2> DEFINE s == IF found THEN "running" ELSE "stopped"
             r == [report EXCEPT !.pc = "probe", !.state = s]
  <2>2. s \in {"running", "stopped"}  OBVIOUS
  <2>3. /\ "down" \in steady => s = "stopped"
        /\ "serves" \in steady => s = "running"
    BY <1>0, <2>1 DEF SteadyNow, Holds, CanConnect
  <2>4. Found(r)  BY <2>1
  <2> HIDE DEF s
  <2>5. r \in Report  BY <1>0, <2>2, Fields DEF Places, States
  <2>6. /\ r.pc = "probe" /\ r.state = s
        /\ r.ok = report.ok /\ r.banks = report.banks /\ r.ledger = report.ledger
    BY <1>0 DEF Report
  <2> HIDE DEF r
  <2>7. report' = r /\ steady' = steady /\ report.pc = "server"
    BY <1>3, <2>4 DEF Found, LookForServer
  <2>8. NotYet' /\ Looked'
    BY <1>0, <2>3, <2>6, <2>7 DEF NotYet, Looked, After
  <2> QED  BY <2>4, <2>5, <2>8, FoundKeeps
<1>4. CASE StatusThrows
  <2> DEFINE r == [report EXCEPT !.pc = "probe"]
  <2>1. report.pc \in {"cluster", "server"} /\ Found(r)  BY <1>4 DEF StatusThrows
  <2>2. r \in Report  BY <1>0, Fields DEF Places, States
  <2>3. /\ r.pc = "probe" /\ r.state = report.state
        /\ r.ok = report.ok /\ r.banks = report.banks /\ r.ledger = report.ledger
    BY <1>0 DEF Report
  <2> HIDE DEF r
  <2>4. report' = r /\ steady' = steady  BY <2>1 DEF Found
  <2>5. NotYet' /\ Looked'
    BY <1>0, <2>1, <2>3, <2>4 DEF NotYet, Looked, After
  <2> QED  BY <2>1, <2>2, <2>5, FoundKeeps
<1>5. CASE Probe
  <2> DEFINE r == IF Answers THEN [report EXCEPT !.pc = "ledger", !.ok = TRUE]
                             ELSE [report EXCEPT !.pc = "done"]
  <2>1. report.pc = "probe" /\ Found(r)  BY <1>5 DEF Probe
  <2>2. r \in Report  BY <1>0, Fields DEF Places, States
  <2>3. /\ r.pc = IF Answers THEN "ledger" ELSE "done"
        /\ r.ok = IF Answers THEN TRUE ELSE report.ok
        /\ r.state = report.state /\ r.banks = report.banks /\ r.ledger = report.ledger
    BY <1>0 DEF Report
  <2> HIDE DEF r
  <2>4. report' = r /\ steady' = steady  BY <2>1 DEF Found
  <2>5. /\ "uninstalled" \in steady => ~ Answers
        /\ "serves" \in steady => Answers
    BY <1>0 DEF SteadyNow, Holds, Answers, CanConnect, Cluster, Exists
  <2>6. NotYet' /\ Looked'
    BY <1>0, <2>1, <2>3, <2>4, <2>5 DEF NotYet, Looked, After
  <2> QED  BY <2>1, <2>2, <2>6, FoundKeeps
<1>6. CASE ReadLedger
  <2> DEFINE l == IF Answers /\ applied # {} THEN applied ELSE None
             r == [report EXCEPT !.pc = "done", !.ledger = l]
  <2>1. report.pc = "ledger" /\ Found(r)  BY <1>6 DEF ReadLedger
  <2>2. l \in Ledgers  BY <1>0 DEF Types, Ledgers
  <2>3. "serves" \in steady => l # {}
    BY <1>0 DEF SteadyNow, Holds, Answers
  <2> HIDE DEF l
  <2>4. r \in Report  BY <1>0, <2>2, Fields DEF Places, States
  <2>5. /\ r.pc = "done" /\ r.ledger = l
        /\ r.ok = report.ok /\ r.state = report.state /\ r.banks = report.banks
    BY <1>0 DEF Report
  <2> HIDE DEF r
  <2>6. report' = r /\ steady' = steady  BY <2>1 DEF Found
  <2>7. NotYet' /\ Looked'
    BY <1>0, <2>1, <2>3, <2>5, <2>6 DEF NotYet, Looked, After
  <2> QED  BY <2>1, <2>4, <2>7, FoundKeeps
<1>7. CASE OthersEnd
  <2> DEFINE n == IF report.ok THEN "banks" ELSE "told"
             k == IF Missing("key") THEN "missing" ELSE "set"
  <2>1. PICK p \in IF report.plaid = "asked" THEN {"unreachable", "reachable"}
                                              ELSE {report.plaid} :
          Found([report EXCEPT !.pc = n, !.plaid = p, !.key = k])
    BY <1>7 DEF OthersEnd
  <2> DEFINE r == [report EXCEPT !.pc = n, !.plaid = p, !.key = k]
  <2>2. /\ n \in {"banks", "told"} /\ k \in {"missing", "set"}
        /\ p \in {"asked", "unconfigured", "unreachable", "reachable"}
    BY <1>0, <2>1 DEF Report
  <2> HIDE DEF n, k
  <2>3. r \in Report  BY <1>0, <2>2, Fields DEF Places, States
  <2>4. /\ r.pc = n /\ r.ledger = report.ledger
        /\ r.ok = report.ok /\ r.state = report.state /\ r.banks = report.banks
    BY <1>0 DEF Report
  <2>5. Found(r)  BY <2>1
  <2> HIDE DEF r
  <2>6. report' = r /\ steady' = steady /\ report.pc = "done"
    BY <1>7, <2>5 DEF Found, OthersEnd
  <2>7. NotYet' /\ Looked'
    BY <1>0, <2>2, <2>4, <2>6 DEF NotYet, Looked, After
  <2> QED  BY <2>3, <2>5, <2>7, FoundKeeps
<1>8. CASE ReadBanks
  <2> DEFINE b == CASE ~ (Answers /\ applied # {}) -> "unread"
                    [] Answers /\ applied # {} /\ tokens = {} -> "none"
                    [] Answers /\ applied # {} /\ tokens # {} -> "some"
             r == [report EXCEPT !.pc = "told", !.banks = b]
  <2>1. report.pc = "banks" /\ Found(r)  BY <1>8 DEF ReadBanks
  <2>2. b \in {"unread", "none", "some"}  OBVIOUS
  <2>3. "linked" \in steady => b # "none"  BY <1>0 DEF SteadyNow, Holds
  <2> HIDE DEF b
  <2>4. r \in Report  BY <1>0, <2>2, Fields DEF Places, States
  <2>5. /\ r.pc = "told" /\ r.ledger = report.ledger
        /\ r.ok = report.ok /\ r.state = report.state /\ r.banks = b
    BY <1>0 DEF Report
  <2> HIDE DEF r
  <2>6. report' = r /\ steady' = steady  BY <2>1 DEF Found
  <2>7. NotYet' /\ Looked'
    BY <1>0, <2>1, <2>3, <2>5, <2>6 DEF NotYet, Looked, After
  <2> QED  BY <2>1, <2>4, <2>7, FoundKeeps
<1>9. CASE Read
  <2>1. report' = NoReport /\ steady' = {} /\ UNCHANGED vars  BY <1>9 DEF Read
  <2>2. LInv'  BY <2>1, LoginsKept DEF SInv
  <2>3. NotYet' /\ Looked' /\ SteadyNow'
    BY <2>1 DEF NotYet, Looked, SteadyNow, NoReport
  <2> QED  BY <2>1, <2>2, <2>3, NoReportIsReport DEF SInv
<1> QED  BY <1>1, <1>2, <1>3, <1>4, <1>5, <1>6, <1>7, <1>8, <1>9 DEF Check

LEMMA StatusInvariant == StatusSpec => []SInv
<1>1. StatusInit => SInv  BY StatusStart
<1>2. SInv /\ [StatusNext]_statusVars => SInv'
  <2> SUFFICES ASSUME SInv, [StatusNext]_statusVars  PROVE SInv'
    OBVIOUS
  <2>1. CASE UNCHANGED statusVars
    <3>1. UNCHANGED <<vars, report, steady>>  BY <2>1 DEF statusVars
    <3>2. LInv'  BY <3>1, LoginsKept DEF SInv
    <3>3. \A f \in Facts : Holds(f)' = Holds(f)
      BY <3>1 DEF vars, Holds, Exists, CanConnect, HasLogins, Knows, Facts
    <3>4. SteadyNow'  BY <3>1, <3>3 DEF SInv, SteadyNow
    <3> QED  BY <3>1, <3>2, <3>4 DEF SInv, NotYet, Looked, After
  <2> QED  BY <2>1, CheckKeeps, MeanwhileKeeps DEF StatusNext
<1> QED  BY <1>1, <1>2, PTL DEF StatusSpec

(***************************************************************************)
(* What holds from the first await of costinglyStatus to its last is what  *)
(* the report says, although no lock keeps the commands out meanwhile.     *)
(***************************************************************************)
THEOREM SteadyIsReported == StatusSpec => []SteadyIsTold
<1>1. SInv => SteadyIsTold  BY FoundIsTold
<1> QED  BY <1>1, StatusInvariant, PTL

(***************************************************************************)
(* Every variable has its type.                                            *)
(***************************************************************************)
THEOREM StatusTypeCorrect == StatusSpec => []StatusTypeOK
<1>1. SInv => StatusTypeOK  BY TypesGiveTypeOK DEF SInv, LInv, StatusTypeOK
<1> QED  BY <1>1, StatusInvariant, PTL
===============================================================================
