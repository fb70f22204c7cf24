----------------------------- MODULE PooledSource -----------------------------
(***************************************************************************)
(* PooledDataSource in one process: a pool opened by the first query,      *)
(* shared by the calls of concurrent tools, and closed under them by       *)
(* shutdown, by uninstall or by restartDatabase.                           *)
(*                                                                         *)
(* The code between two awaits is one action.  `opening` holds a promise;  *)
(* a handle stands for the promise and for the pool it resolves to.        *)
(***************************************************************************)
EXTENDS Naturals, FiniteSets

CONSTANTS
  Callers,    \* calls of query or transaction that can be under way
  Closers,    \* calls of close that can be under way
  Handles,    \* bound on the promises somebody still refers to
  None        \* no handle

ASSUME PoolAssumption == None \notin Handles

VARIABLES
  opening,    \* the field of that name
  handle,     \* what became of each promise
  caller,     \* who waits for a pool or uses one
  closer,     \* who is closing one
  forgotten   \* history: promises the failure of another one cleared

vars == <<opening, handle, caller, closer, forgotten>>

-------------------------------------------------------------------------------
States == {"none", "opening", "open", "failed", "ended"}

Waiting == [pc : {"waiting"}, on : Handles]
Busy    == [pc : {"using"}, on : Handles]
Ending  == [pc : {"ending"}, on : Handles]
Idle    == [pc |-> "idle", on |-> None]

TypeOK ==
  /\ opening \in Handles \union {None}
  /\ handle  \in [Handles -> States]
  /\ caller  \in [Callers -> Waiting \union Busy \union {Idle}]
  /\ closer  \in [Closers -> Waiting \union Ending \union {Idle}]
  /\ forgotten \subseteq Handles

Init ==
  /\ opening = None
  /\ handle = [h \in Handles |-> "none"]
  /\ caller = [c \in Callers |-> Idle]
  /\ closer = [k \in Closers |-> Idle]
  /\ forgotten = {}

WaitsOn(h) == {c \in Callers : caller[c] = [pc |-> "waiting", on |-> h]}
Uses(h)    == {c \in Callers : caller[c] = [pc |-> "using", on |-> h]}
Closing(h) == {k \in Closers : closer[k].on = h}

\* Nobody can reach a promise any more: it makes room for a new one.
Unheld(h) == h # opening /\ WaitsOn(h) = {} /\ Uses(h) = {} /\ Closing(h) = {}
Free(h)   == handle[h] \in {"none", "failed", "ended"} /\ Unheld(h)

\* Faulty variant of Ask: one pool each.
AskAnew(c) ==
  /\ caller[c] = Idle
  /\ \E h \in Handles :
       /\ Free(h)
       /\ opening' = h
       /\ handle' = [handle EXCEPT ![h] = "opening"]
       /\ caller' = [caller EXCEPT ![c] = [pc |-> "waiting", on |-> h]]
       /\ forgotten' = forgotten \ {h}
  /\ UNCHANGED closer

\* pool(): the promise that is there, or a new one.
Ask(c) ==
  /\ caller[c] = Idle
  /\ \E h \in Handles :
       /\ \/ h = opening /\ UNCHANGED <<opening, handle>>
          \/ opening = None /\ Free(h)
               /\ opening' = h /\ handle' = [handle EXCEPT ![h] = "opening"]
       /\ caller' = [caller EXCEPT ![c] = [pc |-> "waiting", on |-> h]]
       /\ forgotten' = forgotten \ {h}
  /\ UNCHANGED closer

OpenSucceeds(h) ==
  /\ handle[h] = "opening"
  /\ handle' = [handle EXCEPT ![h] = "open"]
  /\ UNCHANGED <<opening, caller, closer, forgotten>>

\* The handler clears the field whatever the field holds by now.
OpenFails(h) ==
  /\ handle[h] = "opening"
  /\ handle' = [handle EXCEPT ![h] = "failed"]
  /\ opening' = None
  /\ forgotten' = forgotten \union ({opening} \ {h, None})
  /\ UNCHANGED <<caller, closer>>

\* The awaited promise settles: the statements go to its pool, or it throws.
Resume(c) ==
  /\ caller[c].pc = "waiting"
  /\ handle[caller[c].on] # "opening"
  /\ caller' = [caller EXCEPT ![c] =
                  IF handle[caller[c].on] = "failed" THEN Idle
                  ELSE [pc |-> "using", on |-> caller[c].on]]
  /\ UNCHANGED <<opening, handle, closer, forgotten>>

\* Faulty variant of Release: what failed is tried again and again.
ReleaseRetried(c) ==
  /\ caller[c].pc = "using"
  /\ caller' = [caller EXCEPT ![c].pc = "waiting"]
  /\ UNCHANGED <<opening, handle, closer, forgotten>>

\* The statements return, or the server closes the connection under them.
Release(c) ==
  /\ caller[c].pc = "using"
  /\ caller' = [caller EXCEPT ![c] = Idle]
  /\ UNCHANGED <<opening, handle, closer, forgotten>>

\* Faulty variant of Close: the field keeps the promise it closes.
CloseKept(k) ==
  /\ closer[k] = Idle
  /\ opening # None
  /\ closer' = [closer EXCEPT ![k] = [pc |-> "waiting", on |-> opening]]
  /\ UNCHANGED <<opening, handle, caller, forgotten>>

\* close(): the field is cleared before the promise is awaited.
Close(k) ==
  /\ closer[k] = Idle
  /\ opening # None
  /\ opening' = None
  /\ closer' = [closer EXCEPT ![k] = [pc |-> "waiting", on |-> opening]]
  /\ UNCHANGED <<handle, caller, forgotten>>

\* A promise wakes those who await it in the order they came, so the calls that
\* had asked for this pool have it by now.  end() lets them finish.
End(k) ==
  LET h == closer[k].on
  IN  /\ closer[k].pc = "waiting"
      /\ handle[h] # "opening" /\ WaitsOn(h) = {}
      /\ closer' = [closer EXCEPT ![k] =
                      IF handle[h] = "failed" THEN Idle ELSE [pc |-> "ending", on |-> h]]
      /\ UNCHANGED <<opening, handle, caller, forgotten>>

Ended(k) ==
  /\ closer[k].pc = "ending"
  /\ Uses(closer[k].on) = {}
  /\ handle' = [handle EXCEPT ![closer[k].on] = "ended"]
  /\ closer' = [closer EXCEPT ![k] = Idle]
  /\ UNCHANGED <<opening, caller, forgotten>>

\* A pool the field lost: its clients close when they have been idle for
\* idleTimeoutMillis.
IdleOut(h) ==
  /\ h \in forgotten /\ handle[h] = "open" /\ Unheld(h)
  /\ handle' = [handle EXCEPT ![h] = "ended"]
  /\ forgotten' = forgotten \ {h}
  /\ UNCHANGED <<opening, caller, closer>>

Next ==
  \/ \E c \in Callers : Ask(c) \/ Resume(c) \/ Release(c)
  \/ \E k \in Closers : Close(k) \/ End(k) \/ Ended(k)
  \/ \E h \in Handles : OpenSucceeds(h) \/ OpenFails(h) \/ IdleOut(h)

Spec == Init /\ [][Next]_vars

-------------------------------------------------------------------------------
(***************************************************************************)
(* No call is handed a promise that is rejected or a pool that has ended:  *)
(* `opening` forgets both, so one failed start does not fail every later   *)
(* call, and a closed source reopens on its next query.                    *)
(***************************************************************************)
OpeningIsLive == opening # None => handle[opening] \in {"opening", "open"}

(***************************************************************************)
(* No statement runs on a pool that has ended, whoever closed it and when. *)
(***************************************************************************)
NoUseAfterEnd == \A c \in Callers : caller[c].pc = "using" => handle[caller[c].on] = "open"

(***************************************************************************)
(* Every pool there is can be closed: the field refers to it, or a close   *)
(* under way does.  shutdown releases every connection this process holds, *)
(* but those of a pool the failure of an older start cleared.              *)
(***************************************************************************)
NoOrphan ==
  \A h \in Handles :
    handle[h] \in {"opening", "open"} =>
      h = opening \/ Closing(h) # {} \/ h \in forgotten
===============================================================================
