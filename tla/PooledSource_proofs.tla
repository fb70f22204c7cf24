------------------------- MODULE PooledSource_proofs -------------------------
(***************************************************************************)
(* What PooledDataSource promises, for any number of calls, closes and     *)
(* pools: the types, that no call is handed a dead promise, that nothing   *)
(* runs on an ended pool and that only a start that fails late can lose a  *)
(* pool.  And what restartDatabase promises on top of it: the pool's       *)
(* promises are kept, and the server is up again when it returns.          *)
(*                                                                         *)
(* None of these is inductive.  What carries the pool's is how close()     *)
(* lets go of the field first: a closer never holds what `opening` refers  *)
(* to, so no call can begin to wait for a pool that is about to end, and   *)
(* no two closers hold the same pool.                                      *)
(***************************************************************************)
EXTENDS Restart, TLAPS

ClosersLetGo == \A k \in Closers : closer[k].pc # "idle" => closer[k].on # opening

ClosersApart ==
  \A k, l \in Closers :
    closer[k].pc # "idle" /\ closer[l].pc # "idle" /\ closer[k].on = closer[l].on => k = l

EndingIsQuiet ==
  \A k \in Closers :
    closer[k].pc = "ending" =>
      /\ handle[closer[k].on] = "open"
      /\ \A c \in Callers : caller[c].pc = "waiting" => caller[c].on # closer[k].on

Pending == {"opening", "open", "failed"}

WaitersHold ==
  /\ \A c \in Callers : caller[c].pc = "waiting" => handle[caller[c].on] \in Pending
  /\ \A k \in Closers : closer[k].pc = "waiting" => handle[closer[k].on] \in Pending

IInv ==
  /\ TypeOK /\ OpeningIsLive /\ NoUseAfterEnd
  /\ ClosersLetGo /\ ClosersApart /\ EndingIsQuiet /\ WaitersHold

-------------------------------------------------------------------------------
\* What the three kinds of record are, for the steps below.
LEMMA CallerKinds ==
  ASSUME TypeOK, NEW c \in Callers
  PROVE  /\ caller[c].pc \in {"idle", "waiting", "using"}
         /\ caller[c].pc = "idle" <=> caller[c] = Idle
         /\ caller[c].pc # "idle" => caller[c].on \in Handles
         /\ caller[c].pc # "idle" => caller[c] = [pc |-> caller[c].pc, on |-> caller[c].on]
<1>1. caller[c] \in Waiting \union Busy \union {Idle}  BY DEF TypeOK
<1> QED  BY <1>1 DEF Waiting, Busy, Idle

LEMMA CloserKinds ==
  ASSUME TypeOK, NEW k \in Closers
  PROVE  /\ closer[k].pc \in {"idle", "waiting", "ending"}
         /\ closer[k].pc = "idle" <=> closer[k] = Idle
         /\ closer[k].pc # "idle" => closer[k].on \in Handles
         /\ closer[k].pc = "idle" => closer[k].on = None
<1>1. closer[k] \in Waiting \union Ending \union {Idle}  BY DEF TypeOK
<1> QED  BY <1>1 DEF Waiting, Ending, Idle

-------------------------------------------------------------------------------
(***************************************************************************)
(* The inductive invariant: every step of a call, a close or an opening    *)
(* keeps it.                                                               *)
(***************************************************************************)
LEMMA Start == Init => IInv
BY PoolAssumption DEF Init, IInv, TypeOK, OpeningIsLive, NoUseAfterEnd, ClosersLetGo,
   ClosersApart, EndingIsQuiet, WaitersHold, Idle, States

LEMMA AskKeeps == ASSUME IInv, NEW c \in Callers, Ask(c)  PROVE IInv'
<1>1. PICK h \in Handles :
        /\ \/ h = opening /\ UNCHANGED <<opening, handle>>
           \/ opening = None /\ Free(h)
                /\ opening' = h /\ handle' = [handle EXCEPT ![h] = "opening"]
        /\ caller' = [caller EXCEPT ![c] = [pc |-> "waiting", on |-> h]]
        /\ forgotten' = forgotten \ {h}
  BY DEF Ask
<1>2. UNCHANGED closer  BY DEF Ask
<1>3. TypeOK  BY DEF IInv
<1>4. /\ caller'[c] = [pc |-> "waiting", on |-> h]
      /\ \A d \in Callers \ {c} : caller'[d] = caller[d]
  BY <1>1, <1>3 DEF TypeOK
<1>5. opening' = h /\ handle'[h] \in {"opening", "open"}
  BY <1>1, <1>3, PoolAssumption DEF IInv, OpeningIsLive, TypeOK
<1>6. ASSUME NEW g \in Handles, handle'[g] # handle[g]
      PROVE  /\ g = h
             /\ \A d \in Callers : caller[d].pc # "idle" => caller[d].on # g
             /\ \A k \in Closers : closer[k].pc # "idle" => closer[k].on # g
  <2>1. g = h /\ Free(g)  BY <1>1, <1>3, <1>6 DEF TypeOK
  <2> QED  BY <2>1, <1>3, CallerKinds DEF Free, Unheld, WaitsOn, Uses, Closing
<1>7. \A k \in Closers : closer[k].pc # "idle" => closer[k].on # h
  <2>1. CASE h = opening  BY <2>1 DEF IInv, ClosersLetGo
  <2>2. CASE Free(h)  BY <2>2 DEF Free, Unheld, Closing
  <2> QED  BY <1>1, <2>1, <2>2
<1>8. TypeOK'
  <2>1. [pc |-> "waiting", on |-> h] \in Waiting  BY DEF Waiting
  <2> QED  BY <1>1, <1>2, <1>3, <2>1 DEF TypeOK, States
<1>9. OpeningIsLive'  BY <1>5 DEF OpeningIsLive
<1>10. NoUseAfterEnd'
  <2> SUFFICES ASSUME NEW d \in Callers, caller'[d].pc = "using"
               PROVE  handle'[caller'[d].on] = "open"
    BY DEF NoUseAfterEnd
  <2>1. d # c /\ caller'[d] = caller[d]  BY <1>4
  <2>2. handle[caller[d].on] = "open" /\ caller[d].on \in Handles
    BY <2>1, <1>3, CallerKinds DEF IInv, NoUseAfterEnd
  <2> QED  BY <2>1, <2>2, <1>6
<1>11. ClosersLetGo' /\ ClosersApart'
  BY <1>2, <1>5, <1>7 DEF IInv, ClosersLetGo, ClosersApart
<1>12. EndingIsQuiet'
  <2> SUFFICES ASSUME NEW k \in Closers, closer[k].pc = "ending"
               PROVE  /\ handle'[closer[k].on] = "open"
                      /\ \A d \in Callers : caller'[d].pc = "waiting" => caller'[d].on # closer[k].on
    BY <1>2 DEF EndingIsQuiet
  <2>1. closer[k].on \in Handles  BY <1>3, CloserKinds
  <2>2. handle'[closer[k].on] = "open"  BY <2>1, <1>6 DEF IInv, EndingIsQuiet
  <2>3. closer[k].on # h  BY <1>7
  <2> QED  BY <2>2, <2>3, <1>4 DEF IInv, EndingIsQuiet
<1>13. WaitersHold'
  <2>1. ASSUME NEW d \in Callers, caller'[d].pc = "waiting"
        PROVE  handle'[caller'[d].on] \in Pending
    <3>1. CASE d = c  BY <3>1, <1>4, <1>5 DEF Pending
    <3>2. CASE d # c
      <4>1. handle[caller[d].on] \in Pending /\ caller[d].on \in Handles
        BY <3>2, <2>1, <1>3, <1>4, CallerKinds DEF IInv, WaitersHold
      <4> QED  BY <4>1, <3>2, <2>1, <1>4, <1>6
    <3> QED  BY <3>1, <3>2
  <2>2. ASSUME NEW k \in Closers, closer[k].pc = "waiting"
        PROVE  handle'[closer[k].on] \in Pending
    <3>1. handle[closer[k].on] \in Pending /\ closer[k].on \in Handles
      BY <2>2, <1>3, CloserKinds DEF IInv, WaitersHold
    <3> QED  BY <3>1, <2>2, <1>6
  <2> QED  BY <2>1, <2>2, <1>2 DEF WaitersHold
<1> QED  BY <1>8, <1>9, <1>10, <1>11, <1>12, <1>13 DEF IInv

LEMMA OpenSucceedsKeeps == ASSUME IInv, NEW h \in Handles, OpenSucceeds(h)  PROVE IInv'
<1>1. /\ handle[h] = "opening" /\ handle' = [handle EXCEPT ![h] = "open"]
      /\ UNCHANGED <<opening, caller, closer, forgotten>>
  BY DEF OpenSucceeds
<1>2. TypeOK  BY DEF IInv
<1>3. handle'[h] = "open" /\ \A g \in Handles \ {h} : handle'[g] = handle[g]
  BY <1>1, <1>2 DEF TypeOK
<1>4. TypeOK'  BY <1>1, <1>2 DEF TypeOK, States
<1>5. OpeningIsLive'  BY <1>1, <1>2, <1>3 DEF IInv, OpeningIsLive, TypeOK
<1>6. NoUseAfterEnd'  BY <1>1, <1>2, <1>3, CallerKinds DEF IInv, NoUseAfterEnd
<1>7. ClosersLetGo' /\ ClosersApart'  BY <1>1 DEF IInv, ClosersLetGo, ClosersApart
<1>8. EndingIsQuiet'  BY <1>1, <1>2, <1>3, CloserKinds DEF IInv, EndingIsQuiet
<1>9. WaitersHold'
  BY <1>1, <1>2, <1>3, CallerKinds, CloserKinds DEF IInv, WaitersHold, Pending
<1> QED  BY <1>4, <1>5, <1>6, <1>7, <1>8, <1>9 DEF IInv

LEMMA OpenFailsKeeps == ASSUME IInv, NEW h \in Handles, OpenFails(h)  PROVE IInv'
<1>1. /\ handle[h] = "opening" /\ handle' = [handle EXCEPT ![h] = "failed"]
      /\ opening' = None /\ UNCHANGED <<caller, closer>>
      /\ forgotten' = forgotten \union ({opening} \ {h, None})
  BY DEF OpenFails
<1>2. TypeOK  BY DEF IInv
<1>3. handle'[h] = "failed" /\ \A g \in Handles \ {h} : handle'[g] = handle[g]
  BY <1>1, <1>2 DEF TypeOK
<1>4. TypeOK'  BY <1>1, <1>2 DEF TypeOK, States
<1>5. OpeningIsLive'  BY <1>1 DEF OpeningIsLive
<1>6. NoUseAfterEnd'  BY <1>1, <1>2, <1>3, CallerKinds DEF IInv, NoUseAfterEnd
<1>7. ClosersLetGo'
  BY <1>1, <1>2, CloserKinds, PoolAssumption DEF ClosersLetGo
<1>8. ClosersApart'  BY <1>1 DEF IInv, ClosersApart
<1>9. EndingIsQuiet'  BY <1>1, <1>2, <1>3, CloserKinds DEF IInv, EndingIsQuiet
<1>10. WaitersHold'
  BY <1>1, <1>2, <1>3, CallerKinds, CloserKinds DEF IInv, WaitersHold, Pending
<1> QED  BY <1>4, <1>5, <1>6, <1>7, <1>8, <1>9, <1>10 DEF IInv

LEMMA ResumeKeeps == ASSUME IInv, NEW c \in Callers, Resume(c)  PROVE IInv'
<1> DEFINE h == caller[c].on
<1>1. /\ caller[c].pc = "waiting" /\ handle[h] # "opening"
      /\ caller' = [caller EXCEPT ![c] =
                      IF handle[h] = "failed" THEN Idle ELSE [pc |-> "using", on |-> h]]
      /\ UNCHANGED <<opening, handle, closer, forgotten>>
  BY DEF Resume
<1>2. TypeOK  BY DEF IInv
<1>3. h \in Handles /\ handle[h] \in Pending
  BY <1>1, <1>2, CallerKinds DEF IInv, WaitersHold
<1>4. /\ caller'[c] = IF handle[h] = "failed" THEN Idle ELSE [pc |-> "using", on |-> h]
      /\ \A d \in Callers \ {c} : caller'[d] = caller[d]
  BY <1>1, <1>2 DEF TypeOK
<1>5. TypeOK'
  <2>1. [pc |-> "using", on |-> h] \in Busy  BY <1>3 DEF Busy
  <2>2. caller' \in [Callers -> Waiting \union Busy \union {Idle}]
    BY <1>1, <1>2, <2>1 DEF TypeOK
  <2> QED  BY <1>1, <1>2, <2>2 DEF TypeOK
<1>6. NoUseAfterEnd'
  BY <1>1, <1>3, <1>4 DEF IInv, NoUseAfterEnd, Pending, Idle
<1>7. OpeningIsLive' /\ ClosersLetGo' /\ ClosersApart'
  BY <1>1 DEF IInv, OpeningIsLive, ClosersLetGo, ClosersApart
<1>8. caller'[c].pc # "waiting"  BY <1>4 DEF Idle
<1>9. EndingIsQuiet' /\ WaitersHold'
  BY <1>1, <1>4, <1>8 DEF IInv, EndingIsQuiet, WaitersHold
<1> QED  BY <1>5, <1>6, <1>7, <1>9 DEF IInv

LEMMA ReleaseKeeps == ASSUME IInv, NEW c \in Callers, Release(c)  PROVE IInv'
<1>1. caller' = [caller EXCEPT ![c] = Idle] /\ UNCHANGED <<opening, handle, closer, forgotten>>
  BY DEF Release
<1>2. TypeOK  BY DEF IInv
<1>3. caller'[c].pc = "idle" /\ \A d \in Callers \ {c} : caller'[d] = caller[d]
  BY <1>1, <1>2 DEF TypeOK, Idle
<1>4. TypeOK'  BY <1>1, <1>2 DEF TypeOK
<1>5. OpeningIsLive' /\ ClosersLetGo' /\ ClosersApart'
  BY <1>1 DEF IInv, OpeningIsLive, ClosersLetGo, ClosersApart
<1>6. NoUseAfterEnd' /\ EndingIsQuiet' /\ WaitersHold'
  BY <1>1, <1>3 DEF IInv, NoUseAfterEnd, EndingIsQuiet, WaitersHold
<1> QED  BY <1>4, <1>5, <1>6 DEF IInv

LEMMA CloseKeeps == ASSUME IInv, NEW k \in Closers, Close(k)  PROVE IInv'
<1>1. /\ closer[k] = Idle /\ opening # None /\ opening' = None
      /\ closer' = [closer EXCEPT ![k] = [pc |-> "waiting", on |-> opening]]
      /\ UNCHANGED <<handle, caller, forgotten>>
  BY DEF Close
<1>2. TypeOK  BY DEF IInv
<1>3. /\ closer'[k] = [pc |-> "waiting", on |-> opening]
      /\ \A l \in Closers \ {k} : closer'[l] = closer[l]
  BY <1>1, <1>2 DEF TypeOK
<1>4. opening \in Handles /\ handle[opening] \in Pending
  BY <1>1, <1>2 DEF IInv, TypeOK, OpeningIsLive, Pending
<1>5. TypeOK'
  <2>1. [pc |-> "waiting", on |-> opening] \in Waiting  BY <1>4 DEF Waiting
  <2> QED  BY <1>1, <1>2, <2>1 DEF TypeOK
<1>6. OpeningIsLive' /\ NoUseAfterEnd'
  BY <1>1 DEF IInv, OpeningIsLive, NoUseAfterEnd
<1>7. ClosersLetGo'
  BY <1>1, <1>2, <1>3, <1>4, CloserKinds, PoolAssumption DEF ClosersLetGo
<1>8. ClosersApart'
  <2>1. \A l \in Closers \ {k} : closer'[l].pc # "idle" => closer'[l].on # closer'[k].on
    BY <1>3 DEF IInv, ClosersLetGo
  <2>2. \A l, m \in Closers \ {k} :
          closer'[l].pc # "idle" /\ closer'[m].pc # "idle" /\ closer'[l].on = closer'[m].on
            => l = m
    BY <1>3 DEF IInv, ClosersApart
  <2> QED  BY <1>3, <2>1, <2>2 DEF ClosersApart
<1>9. EndingIsQuiet' /\ WaitersHold'
  BY <1>1, <1>3, <1>4 DEF IInv, EndingIsQuiet, WaitersHold
<1> QED  BY <1>5, <1>6, <1>7, <1>8, <1>9 DEF IInv

LEMMA EndKeeps == ASSUME IInv, NEW k \in Closers, End(k)  PROVE IInv'
<1> DEFINE h == closer[k].on
<1>1. /\ closer[k].pc = "waiting" /\ handle[h] # "opening" /\ WaitsOn(h) = {}
      /\ closer' = [closer EXCEPT ![k] =
                      IF handle[h] = "failed" THEN Idle ELSE [pc |-> "ending", on |-> h]]
      /\ UNCHANGED <<opening, handle, caller, forgotten>>
  BY DEF End
<1>2. TypeOK  BY DEF IInv
<1>3. h \in Handles /\ handle[h] \in {"open", "failed"}
  BY <1>1, <1>2, CloserKinds DEF IInv, WaitersHold, Pending
<1>4. /\ closer'[k] = IF handle[h] = "failed" THEN Idle ELSE [pc |-> "ending", on |-> h]
      /\ \A l \in Closers \ {k} : closer'[l] = closer[l]
  BY <1>1, <1>2 DEF TypeOK
<1>5. \A l \in Closers : closer'[l].pc # "idle" =>
         closer[l].pc # "idle" /\ closer'[l].on = closer[l].on
  BY <1>1, <1>4 DEF Idle
<1>6. TypeOK'
  <2>1. [pc |-> "ending", on |-> h] \in Ending  BY <1>3 DEF Ending
  <2>2. closer' \in [Closers -> Waiting \union Ending \union {Idle}]
    BY <1>1, <1>2, <2>1 DEF TypeOK
  <2> QED  BY <1>1, <1>2, <2>2 DEF TypeOK
<1>7. OpeningIsLive' /\ NoUseAfterEnd'
  BY <1>1 DEF IInv, OpeningIsLive, NoUseAfterEnd
<1>8. ClosersLetGo' /\ ClosersApart'
  BY <1>1, <1>5 DEF IInv, ClosersLetGo, ClosersApart
<1>9. EndingIsQuiet'
  <2> SUFFICES ASSUME NEW l \in Closers, closer'[l].pc = "ending"
               PROVE  /\ handle[closer'[l].on] = "open"
                      /\ \A c \in Callers : caller[c].pc = "waiting" => caller[c].on # closer'[l].on
    BY <1>1 DEF EndingIsQuiet
  <2>1. CASE l = k
    <3>1. handle[h] = "open" /\ closer'[l].on = h  BY <2>1, <1>3, <1>4 DEF Idle
    <3>2. \A c \in Callers : caller[c].pc = "waiting" => caller[c].on # h
      BY <1>1, <1>2, CallerKinds DEF WaitsOn
    <3> QED  BY <3>1, <3>2
  <2>2. CASE l # k  BY <2>2, <1>4 DEF IInv, EndingIsQuiet
  <2> QED  BY <2>1, <2>2
<1>10. closer'[k].pc # "waiting"  BY <1>4 DEF Idle
<1>11. WaitersHold'  BY <1>1, <1>4, <1>10 DEF IInv, WaitersHold
<1> QED  BY <1>6, <1>7, <1>8, <1>9, <1>11 DEF IInv

LEMMA EndedKeeps == ASSUME IInv, NEW k \in Closers, Ended(k)  PROVE IInv'
<1> DEFINE h == closer[k].on
<1>1. /\ closer[k].pc = "ending" /\ Uses(h) = {}
      /\ handle' = [handle EXCEPT ![h] = "ended"]
      /\ closer' = [closer EXCEPT ![k] = Idle]
      /\ UNCHANGED <<opening, caller, forgotten>>
  BY DEF Ended
<1>2. TypeOK  BY DEF IInv
<1>3. h \in Handles  BY <1>1, <1>2, CloserKinds
<1>4. \A g \in Handles \ {h} : handle'[g] = handle[g]  BY <1>1, <1>2 DEF TypeOK
<1>5. closer'[k].pc = "idle" /\ \A l \in Closers \ {k} : closer'[l] = closer[l]
  BY <1>1, <1>2 DEF TypeOK, Idle
<1>6. \A l \in Closers \ {k} : closer[l].pc # "idle" => closer[l].on \in Handles \ {h}
  BY <1>1, <1>2, CloserKinds DEF IInv, ClosersApart
<1>7. \A c \in Callers : caller[c].pc # "idle" => caller[c].on \in Handles \ {h}
  <2> SUFFICES ASSUME NEW c \in Callers, caller[c].pc # "idle"  PROVE caller[c].on \in Handles \ {h}
    OBVIOUS
  <2>1. caller[c].on \in Handles  BY <1>2, CallerKinds
  <2>2. CASE caller[c].pc = "waiting"  BY <2>1, <2>2, <1>1 DEF IInv, EndingIsQuiet
  <2>3. CASE caller[c].pc = "using"  BY <2>1, <2>3, <1>1, <1>2, CallerKinds DEF Uses
  <2> QED  BY <2>2, <2>3, <1>2, CallerKinds
<1>8. TypeOK'  BY <1>1, <1>2 DEF TypeOK, States
<1>9. OpeningIsLive'
  <2>1. opening # h  BY <1>1 DEF IInv, ClosersLetGo
  <2> QED  BY <2>1, <1>1, <1>2, <1>4 DEF IInv, OpeningIsLive, TypeOK
<1>10. NoUseAfterEnd'  BY <1>1, <1>4, <1>7 DEF IInv, NoUseAfterEnd
<1>11. ClosersLetGo' /\ ClosersApart'  BY <1>1, <1>5 DEF IInv, ClosersLetGo, ClosersApart
<1>12. EndingIsQuiet'  BY <1>1, <1>4, <1>5, <1>6 DEF IInv, EndingIsQuiet
<1>13. WaitersHold'  BY <1>1, <1>4, <1>5, <1>6, <1>7 DEF IInv, WaitersHold
<1> QED  BY <1>8, <1>9, <1>10, <1>11, <1>12, <1>13 DEF IInv

LEMMA IdleOutKeeps == ASSUME IInv, NEW h \in Handles, IdleOut(h)  PROVE IInv'
<1>1. /\ handle[h] = "open" /\ handle' = [handle EXCEPT ![h] = "ended"]
      /\ forgotten' = forgotten \ {h}
      /\ UNCHANGED <<opening, caller, closer>>
  BY DEF IdleOut
<1>2. TypeOK  BY DEF IInv
<1>3. \A g \in Handles \ {h} : handle'[g] = handle[g]  BY <1>1, <1>2 DEF TypeOK
<1>4. opening # h  BY DEF IdleOut, Unheld
<1>5. \A c \in Callers : caller[c].pc # "idle" => caller[c].on \in Handles \ {h}
  BY <1>2, CallerKinds DEF IdleOut, Unheld, WaitsOn, Uses
<1>6. \A k \in Closers : closer[k].pc # "idle" => closer[k].on \in Handles \ {h}
  BY <1>2, CloserKinds DEF IdleOut, Unheld, Closing
<1>7. TypeOK'  BY <1>1, <1>2 DEF TypeOK, States
<1>8. OpeningIsLive'  BY <1>1, <1>2, <1>3, <1>4 DEF IInv, OpeningIsLive, TypeOK
<1>9. NoUseAfterEnd'  BY <1>1, <1>3, <1>5 DEF IInv, NoUseAfterEnd
<1>10. ClosersLetGo' /\ ClosersApart'  BY <1>1 DEF IInv, ClosersLetGo, ClosersApart
<1>11. EndingIsQuiet'  BY <1>1, <1>3, <1>6 DEF IInv, EndingIsQuiet
<1>12. WaitersHold'  BY <1>1, <1>3, <1>5, <1>6 DEF IInv, WaitersHold
<1> QED  BY <1>7, <1>8, <1>9, <1>10, <1>11, <1>12 DEF IInv

LEMMA Step == ASSUME IInv, [Next]_vars  PROVE IInv'
<1>1. CASE \E c \in Callers : Ask(c) \/ Resume(c) \/ Release(c)
  BY <1>1, AskKeeps, ResumeKeeps, ReleaseKeeps
<1>2. CASE \E k \in Closers : Close(k) \/ End(k) \/ Ended(k)
  BY <1>2, CloseKeeps, EndKeeps, EndedKeeps
<1>3. CASE \E h \in Handles : OpenSucceeds(h) \/ OpenFails(h) \/ IdleOut(h)
  BY <1>3, OpenSucceedsKeeps, OpenFailsKeeps, IdleOutKeeps
<1>4. CASE UNCHANGED vars
  BY <1>4 DEF vars, IInv, TypeOK, OpeningIsLive, NoUseAfterEnd, ClosersLetGo, ClosersApart,
     EndingIsQuiet, WaitersHold
<1> QED  BY <1>1, <1>2, <1>3, <1>4 DEF Next

(***************************************************************************)
(* Every reachable state of PooledDataSource satisfies the invariant.      *)
(***************************************************************************)
THEOREM Invariance == Spec => []IInv
BY Start, Step, PTL DEF Spec

(***************************************************************************)
(* Every variable keeps its type, for any number of calls and closes.      *)
(***************************************************************************)
THEOREM TypeCorrect == Spec => []TypeOK
<1>1. IInv => TypeOK  BY DEF IInv
<1> QED  BY <1>1, Invariance, PTL

(***************************************************************************)
(* `opening` never holds a rejected promise or an ended pool.              *)
(***************************************************************************)
THEOREM NoDeadPromise == Spec => []OpeningIsLive
<1>1. IInv => OpeningIsLive  BY DEF IInv
<1> QED  BY <1>1, Invariance, PTL

(***************************************************************************)
(* No statement of query or transaction runs on a pool that close() ended. *)
(***************************************************************************)
THEOREM NoStatementAfterEnd == Spec => []NoUseAfterEnd
<1>1. IInv => NoUseAfterEnd  BY DEF IInv
<1> QED  BY <1>1, Invariance, PTL

-------------------------------------------------------------------------------
\* No step loses a pool without remembering it.
LEMMA NoneLost == ASSUME IInv, NoOrphan, [Next]_vars  PROVE NoOrphan'
<1>1. TypeOK  BY DEF IInv
<1>2. ASSUME NEW c \in Callers, Ask(c)  PROVE NoOrphan'
  <2>1. PICK h \in Handles :
          /\ \/ h = opening /\ UNCHANGED <<opening, handle>>
             \/ opening = None /\ opening' = h /\ handle' = [handle EXCEPT ![h] = "opening"]
          /\ forgotten' = forgotten \ {h} /\ UNCHANGED closer
    BY <1>2 DEF Ask
  <2> SUFFICES ASSUME NEW g \in Handles, handle'[g] \in {"opening", "open"}, g # opening'
               PROVE  Closing(g)' # {} \/ g \in forgotten'
    BY DEF NoOrphan
  <2>2. g # h /\ handle[g] = handle'[g] /\ g # opening
    BY <2>1, <1>1, PoolAssumption DEF TypeOK
  <2> QED  BY <2>1, <2>2 DEF NoOrphan, Closing
<1>3. ASSUME NEW c \in Callers, Resume(c) \/ Release(c)  PROVE NoOrphan'
  BY <1>3 DEF Resume, Release, NoOrphan, Closing
<1>4. ASSUME NEW k \in Closers, Close(k)  PROVE NoOrphan'
  <2> SUFFICES ASSUME NEW h \in Handles, handle[h] \in {"opening", "open"}, h \notin forgotten
               PROVE  Closing(h)' # {}
    BY <1>4 DEF Close, NoOrphan
  <2>1. CASE h = opening
    <3>1. closer'[k].on = h  BY <2>1, <1>1, <1>4 DEF Close, TypeOK
    <3> QED  BY <3>1 DEF Closing
  <2>2. CASE h # opening
    <3>1. PICK l \in Closers : closer[l].on = h  BY <2>2 DEF NoOrphan, Closing
    <3>2. l # k  BY <3>1, <1>4, PoolAssumption DEF Close, Idle
    <3>3. closer'[l].on = h  BY <3>1, <3>2, <1>1, <1>4 DEF Close, TypeOK
    <3> QED  BY <3>3 DEF Closing
  <2> QED  BY <2>1, <2>2
<1>5. ASSUME NEW k \in Closers, End(k)  PROVE NoOrphan'
  <2> SUFFICES ASSUME NEW h \in Handles, handle[h] \in {"opening", "open"}, h # opening,
                      h \notin forgotten
               PROVE  Closing(h)' # {}
    BY <1>5 DEF End, NoOrphan
  <2>1. PICK l \in Closers : closer[l].on = h  BY DEF NoOrphan, Closing
  <2>2. closer'[l].on = h  BY <2>1, <1>1, <1>5 DEF End, TypeOK
  <2> QED  BY <2>2 DEF Closing
<1>6. ASSUME NEW k \in Closers, Ended(k)  PROVE NoOrphan'
  <2> SUFFICES ASSUME NEW h \in Handles, handle'[h] \in {"opening", "open"}, h # opening,
                      h \notin forgotten
               PROVE  Closing(h)' # {}
    BY <1>6 DEF Ended, NoOrphan
  <2>1. closer[k].on # h /\ handle'[h] = handle[h]  BY <1>1, <1>6 DEF Ended, TypeOK
  <2>2. PICK l \in Closers : closer[l].on = h  BY <2>1 DEF NoOrphan, Closing
  <2>3. closer'[l].on = h  BY <2>1, <2>2, <1>1, <1>6 DEF Ended, TypeOK
  <2> QED  BY <2>3 DEF Closing
<1>7. ASSUME NEW h \in Handles, OpenSucceeds(h)  PROVE NoOrphan'
  BY <1>1, <1>7 DEF OpenSucceeds, NoOrphan, Closing, TypeOK
<1>8. ASSUME NEW h \in Handles, OpenFails(h)  PROVE NoOrphan'
  <2>1. /\ handle' = [handle EXCEPT ![h] = "failed"] /\ UNCHANGED closer
        /\ forgotten' = forgotten \union ({opening} \ {h, None})
    BY <1>8 DEF OpenFails
  <2> SUFFICES ASSUME NEW g \in Handles, handle'[g] \in {"opening", "open"}
               PROVE  Closing(g)' # {} \/ g \in forgotten'
    BY DEF NoOrphan
  <2>2. g # h /\ handle[g] = handle'[g] /\ g # None  BY <2>1, <1>1, PoolAssumption DEF TypeOK
  <2> QED  BY <2>1, <2>2 DEF NoOrphan, Closing
<1>9. ASSUME NEW h \in Handles, IdleOut(h)  PROVE NoOrphan'
  <2>1. /\ handle' = [handle EXCEPT ![h] = "ended"] /\ forgotten' = forgotten \ {h}
        /\ UNCHANGED <<opening, closer>>
    BY <1>9 DEF IdleOut
  <2> SUFFICES ASSUME NEW g \in Handles, handle'[g] \in {"opening", "open"}
               PROVE  g = opening \/ Closing(g)' # {} \/ g \in forgotten'
    BY <2>1 DEF NoOrphan
  <2>2. g # h /\ handle[g] = handle'[g]  BY <2>1, <1>1 DEF TypeOK
  <2> QED  BY <2>1, <2>2 DEF NoOrphan, Closing
<1>10. CASE UNCHANGED vars  BY <1>10 DEF vars, NoOrphan, Closing
<1> QED  BY <1>2, <1>3, <1>4, <1>5, <1>6, <1>7, <1>8, <1>9, <1>10 DEF Next

(***************************************************************************)
(* shutdown can reach every pool but those a late failure cleared: there   *)
(* is no other way to lose one.                                            *)
(***************************************************************************)
THEOREM NothingLost == Spec => []NoOrphan
<1>1. Init => NoOrphan  BY DEF Init, NoOrphan
<1>2. IInv /\ NoOrphan /\ [Next]_vars => NoOrphan'  BY NoneLost
<1> QED  BY <1>1, <1>2, Invariance, PTL DEF Spec

-------------------------------------------------------------------------------
(* The pool among restarts *)

(***************************************************************************)
(* Every step of a process that restarts its database, and of the server,  *)
(* is a step of the pool or none of its business.                          *)
(***************************************************************************)
LEMMA PoolStep == [RestartNext]_allVars => [Next]_vars
<1> SUFFICES ASSUME [RestartNext]_allVars  PROVE [Next]_vars
  OBVIOUS
<1>1. ASSUME NEW c \in Callers, Query(c) \/ Resumed(c) \/ Served(c)  PROVE [Next]_vars
  BY <1>1 DEF Query, Resumed, Served, Connect, Answered, Failed, Returns, Next
<1>2. ASSUME NEW h \in Handles, Opens(h)  PROVE [Next]_vars
  BY <1>2 DEF Opens, StartServer, Opened, NotOpened, Next
<1>3. ASSUME NEW k \in Closers, Shutdown(k) \/ CloseGoesOn(k)  PROVE [Next]_vars
  BY <1>3 DEF Shutdown, CloseGoesOn, Next
<1>4. ASSUME NEW k \in Restarters, BeginRestart(k) \/ Stopping(k) \/ Probe(k) \/ ProbeTimesOut(k)
      PROVE  [Next]_vars
  <2>1. k \in Callers /\ k \in Closers  BY RestartAssumption
  <2>2. CASE BeginRestart(k)  BY <2>1, <2>2 DEF BeginRestart, Next
  <2>3. CASE Probe(k)  BY <2>1, <2>3, <1>1 DEF Probe
  <2> QED  BY <1>4, <2>2, <2>3 DEF Stopping, StopForRestart, StopThrows, ProbeTimesOut
<1>5. CASE StopElsewhere \/ StartElsewhere \/ Hang \/ Recover
  BY <1>5 DEF StopElsewhere, StartElsewhere, Hang, Recover
<1>6. CASE UNCHANGED allVars  BY <1>6 DEF allVars
<1> QED  BY <1>1, <1>2, <1>3, <1>4, <1>5, <1>6 DEF RestartNext

(***************************************************************************)
(* Restart is the pool with more said about it: its behaviours are         *)
(* behaviours of PooledSource.                                             *)
(***************************************************************************)
THEOREM RestartIsPool == RestartSpec => Spec
<1>1. RestartInit => Init  BY DEF RestartInit
<1> QED  BY <1>1, PoolStep, PTL DEF RestartSpec, Spec

(***************************************************************************)
(* However often the database is restarted under the calls, none of them   *)
(* runs a statement on a pool that was ended ...                           *)
(***************************************************************************)
THEOREM RestartUsesNoDeadPool == RestartSpec => []NoUseAfterEnd
BY RestartIsPool, NoStatementAfterEnd, PTL

(***************************************************************************)
(* ... and no pool is lost but by a start that failed late.                *)
(***************************************************************************)
THEOREM RestartLosesNoPool == RestartSpec => []NoOrphan
BY RestartIsPool, NothingLost, PTL

-------------------------------------------------------------------------------
(***************************************************************************)
(* Why the server is up again when restartDatabase has stopped it.  A pool *)
(* whose open() has not seen the server yet will start it.  Until it is    *)
(* stopped there is no pool, or the restart was overtaken; from then on to *)
(* the answer of the query, the pool the query has or would get is one     *)
(* that will start the server, unless the server is up.                    *)
(***************************************************************************)
WillSee(h) == handle[h] = "opening" /\ h \notin started

Untouched(k) == k \notin hurt /\ k \notin overtaken

QueryIsLast == \A k \in Restarters : caller[k] # Idle => restart[k] \in {"idle", "probing"}

ClosedFirst ==
  \A k \in Restarters : restart[k] = "closing" /\ k \notin overtaken => opening = None

Stopped ==
  \A k \in Restarters :
    restart[k] = "stopped" /\ Untouched(k) =>
      (opening = None \/ WillSee(opening) \/ server = "up")

Queried ==
  \A k \in Restarters :
    restart[k] = "probing" /\ Untouched(k) =>
      (caller[k] # Idle /\ (WillSee(caller[k].on) \/ server = "up"))

RoundTrip == QueryIsLast /\ ClosedFirst /\ Stopped /\ Queried

ServerOK ==
  /\ server    \in {"down", "up", "hanging"}
  /\ started   \subseteq Handles
  /\ client    \in [Callers -> {"none", "live", "cut"}]
  /\ restart   \in [Restarters -> {"idle", "closing", "stopped", "probing"}]
  /\ hurt      \subseteq Callers
  /\ overtaken \subseteq Restarters
  /\ \A c \in Callers : client[c] # "none" => caller[c].pc = "using"
  /\ \A h \in started : handle[h] = "opening"

LEMMA TypesInParts == RestartTypeOK <=> TypeOK /\ ServerOK
BY DEF RestartTypeOK, ServerOK

RInv == IInv /\ ServerOK /\ RoundTrip

-------------------------------------------------------------------------------
(* The types *)

LEMMA UnderwayAreCalls == Underway \subseteq Callers
BY RestartAssumption DEF Underway

LEMMA BackType ==
  ASSUME ServerOK, NEW c, Back(c)
  PROVE  /\ restart' \in [Restarters -> {"idle", "closing", "stopped", "probing"}]
         /\ hurt' \subseteq Callers /\ overtaken' \subseteq Restarters
<1>1. restart' \in [Restarters -> {"idle", "closing", "stopped", "probing"}]
  BY DEF Back, ServerOK
<1> QED  BY <1>1 DEF Back, ServerOK

LEMMA CutType ==
  ASSUME ServerOK, Cut, UNCHANGED caller
  PROVE  /\ client' \in [Callers -> {"none", "live", "cut"}]
         /\ \A c \in Callers : client'[c] # "none" => caller'[c].pc = "using"
<1>1. client' = [c \in Callers |-> IF client[c] = "live" THEN "cut" ELSE client[c]]
  BY DEF Cut
<1> QED  BY <1>1 DEF ServerOK

\* The calls, and what they have of the pool.
LEMMA CallTypes ==
  ASSUME IInv, ServerOK, NEW c \in Callers,
         \/ Query(c) /\ restart' \in [Restarters -> {"idle", "closing", "stopped", "probing"}]
         \/ Resumed(c) \/ Served(c)
  PROVE  ServerOK'
<1>1. TypeOK /\ NoUseAfterEnd  BY DEF IInv
<1>2. CASE Query(c) /\ restart' \in [Restarters -> {"idle", "closing", "stopped", "probing"}]
  <2>1. PICK h \in Handles :
          /\ \/ h = opening /\ UNCHANGED <<opening, handle>>
             \/ opening = None /\ Free(h)
                  /\ opening' = h /\ handle' = [handle EXCEPT ![h] = "opening"]
          /\ caller' = [caller EXCEPT ![c] = [pc |-> "waiting", on |-> h]]
    BY <1>2 DEF Query, Ask
  <2>2. caller[c] = Idle /\ UNCHANGED <<server, started, client, hurt>>
    BY <1>2 DEF Query, Ask
  <2>3. \A g \in started : handle'[g] = "opening"
    BY <2>1, <1>1 DEF ServerOK, TypeOK
  <2>4. \A d \in Callers : client[d] # "none" => caller'[d].pc = "using"
    BY <2>1, <2>2, <1>1 DEF ServerOK, TypeOK, Idle
  <2>5. overtaken' \subseteq Restarters
    BY <1>2 DEF Query, BeforeStop, ServerOK
  <2> QED  BY <1>2, <2>2, <2>3, <2>4, <2>5 DEF ServerOK
<1>3. CASE Resumed(c)
  <2>1. /\ Resume(c) /\ UNCHANGED <<server, started, client, handle>>
        /\ caller[c].pc = "waiting"
        /\ \A d \in Callers \ {c} : caller'[d] = caller[d]
    BY <1>1, <1>3 DEF Resumed, Resume, TypeOK
  <2>2. Back(c) \/ UNCHANGED <<restart, hurt, overtaken>>  BY <1>3 DEF Resumed
  <2>3. \A d \in Callers : client'[d] # "none" => caller'[d].pc = "using"
    BY <2>1 DEF ServerOK
  <2>4. /\ restart' \in [Restarters -> {"idle", "closing", "stopped", "probing"}]
        /\ hurt' \subseteq Callers /\ overtaken' \subseteq Restarters
    <3>1. CASE Back(c)  BY <3>1, BackType
    <3>2. CASE UNCHANGED <<restart, hurt, overtaken>>  BY <3>2 DEF ServerOK
    <3> QED  BY <2>2, <3>1, <3>2
  <2> QED  BY <2>1, <2>3, <2>4 DEF ServerOK
<1>4. CASE Connect(c)
  <2>1. /\ caller[c].pc = "using" /\ client' = [client EXCEPT ![c] = "live"]
        /\ UNCHANGED <<vars, server, started, restart, hurt, overtaken>>
    BY <1>4 DEF Connect
  <2>2. client' \in [Callers -> {"none", "live", "cut"}]  BY <2>1 DEF ServerOK
  <2>3. \A d \in Callers : client'[d] # "none" => caller[d].pc = "using"
    BY <2>1 DEF ServerOK
  <2> QED  BY <2>1, <2>2, <2>3 DEF ServerOK, vars
<1>5. CASE Returns(c)
  <2>1. /\ Back(c) /\ client' = [client EXCEPT ![c] = "none"]
        /\ caller' = [caller EXCEPT ![c] = Idle]
        /\ UNCHANGED <<server, started, handle>>
    BY <1>5 DEF Returns, Release
  <2>2. client' \in [Callers -> {"none", "live", "cut"}]  BY <2>1 DEF ServerOK
  <2>3. \A d \in Callers : client'[d] # "none" => caller'[d].pc = "using"
    BY <2>1, <1>1 DEF ServerOK, TypeOK
  <2> QED  BY <2>1, <2>2, <2>3, BackType DEF ServerOK
<1> QED  BY <1>2, <1>3, <1>4, <1>5 DEF Served, Answered, Failed

LEMMA OpenTypes == ASSUME IInv, ServerOK, NEW h \in Handles, Opens(h)  PROVE ServerOK'
<1>1. TypeOK  BY DEF IInv
<1>2. CASE StartServer(h)  BY <1>2 DEF StartServer, ServerOK, vars
<1>3. CASE Opened(h)
  <2>1. /\ handle' = [handle EXCEPT ![h] = "open"] /\ started' = started \ {h}
        /\ UNCHANGED <<caller, server, client, restart, hurt, overtaken>>
    BY <1>3 DEF Opened, OpenSucceeds
  <2>2. \A g \in started' : handle'[g] = "opening"  BY <2>1, <1>1 DEF ServerOK, TypeOK
  <2> QED  BY <2>1, <2>2 DEF ServerOK
<1>4. CASE NotOpened(h)
  <2>1. /\ handle' = [handle EXCEPT ![h] = "failed"] /\ started' = started \ {h}
        /\ hurt' = hurt \union (WaitsOn(h) \intersect Underway)
        /\ UNCHANGED <<caller, server, client, restart, overtaken>>
    BY <1>4 DEF NotOpened, OpenFails
  <2>2. \A g \in started' : handle'[g] = "opening"  BY <2>1, <1>1 DEF ServerOK, TypeOK
  <2>3. hurt' \subseteq Callers  BY <2>1, UnderwayAreCalls DEF ServerOK
  <2> QED  BY <2>1, <2>2, <2>3 DEF ServerOK
<1>5. CASE IdleOut(h) /\ UNCHANGED serverVars
  <2>1. /\ handle[h] = "open" /\ handle' = [handle EXCEPT ![h] = "ended"]
        /\ UNCHANGED <<caller, server, started, client, restart, hurt, overtaken>>
    BY <1>5 DEF IdleOut, serverVars
  <2>2. \A g \in started : handle'[g] = "opening"  BY <2>1, <1>1 DEF ServerOK, TypeOK
  <2> QED  BY <2>1, <2>2 DEF ServerOK
<1> QED  BY <1>2, <1>3, <1>4, <1>5 DEF Opens

LEMMA CloseTypes ==
  ASSUME IInv, ServerOK, NEW k \in Closers, Shutdown(k) \/ CloseGoesOn(k)
  PROVE  ServerOK'
<1>1. UNCHANGED <<caller, server, started, client, restart, hurt, overtaken>>
  BY DEF Shutdown, CloseGoesOn, Close, End, Ended, serverVars
<1>2. \A g \in started : handle'[g] = "opening"
  <2>1. CASE Close(k) \/ End(k)  BY <2>1 DEF Close, End, ServerOK
  <2>2. CASE Ended(k)
    <3>1. handle[closer[k].on] = "open"  BY <2>2 DEF Ended, IInv, EndingIsQuiet
    <3> QED  BY <2>2, <3>1 DEF Ended, ServerOK, IInv, TypeOK
  <2> QED  BY <2>1, <2>2 DEF Shutdown, CloseGoesOn
<1> QED  BY <1>1, <1>2 DEF ServerOK

\* A restart moves on.
LEMMA RestartTypes ==
  ASSUME ServerOK, NEW k \in Restarters,
         BeginRestart(k) \/ Stopping(k) \/ ProbeTimesOut(k)
  PROVE  ServerOK'
<1>1. ASSUME NEW r \in {"idle", "closing", "stopped", "probing"}, restart' = [restart EXCEPT ![k] = r]
      PROVE  restart' \in [Restarters -> {"idle", "closing", "stopped", "probing"}]
  BY <1>1 DEF ServerOK
<1>2. CASE BeginRestart(k)
  <2>1. UNCHANGED <<handle, caller, server, started, client, hurt, overtaken>>
    BY <1>2 DEF BeginRestart, Close, vars
  <2>2. restart' = [restart EXCEPT ![k] = "closing"]  BY <1>2 DEF BeginRestart
  <2> QED  BY <2>1, <2>2, <1>1 DEF ServerOK
<1>3. CASE StopForRestart(k)
  <2>1. /\ Cut /\ server' = "down" /\ restart' = [restart EXCEPT ![k] = "stopped"]
        /\ hurt' = hurt \union (Underway \ {k})
        /\ UNCHANGED <<handle, caller, started, overtaken>>
    BY <1>3 DEF StopForRestart, GoesDown, vars
  <2>2. hurt' \subseteq Callers  BY <2>1, UnderwayAreCalls DEF ServerOK
  <2> QED  BY <2>1, <2>2, <1>1, CutType DEF ServerOK
<1>4. CASE Back(k) /\ UNCHANGED <<vars, server, started, client>>
  BY <1>4, BackType DEF ServerOK, vars
<1> QED  BY <1>2, <1>3, <1>4 DEF Stopping, StopThrows, ProbeTimesOut

LEMMA ElsewhereTypes ==
  ASSUME ServerOK, StopElsewhere \/ StartElsewhere \/ Hang \/ Recover
  PROVE  ServerOK'
<1>1. CASE StopElsewhere
  <2>1. /\ Cut /\ server' = "down" /\ hurt' = hurt \union Underway
        /\ UNCHANGED <<handle, caller, started, restart, overtaken>>
    BY <1>1 DEF StopElsewhere, GoesDown, vars
  <2>2. hurt' \subseteq Callers  BY <2>1, UnderwayAreCalls DEF ServerOK
  <2> QED  BY <2>1, <2>2, CutType DEF ServerOK
<1>2. CASE Hang
  <2>1. hurt' \subseteq Callers  BY <1>2, UnderwayAreCalls DEF Hang, ServerOK
  <2> QED  BY <1>2, <2>1 DEF Hang, ServerOK, vars
<1>3. CASE StartElsewhere \/ Recover  BY <1>3 DEF StartElsewhere, Recover, ServerOK, vars
<1> QED  BY <1>1, <1>2, <1>3

-------------------------------------------------------------------------------
(* The round trip *)

\* A call is over; what it was part of is too.
LEMMA TripBack ==
  ASSUME RoundTrip, NEW c \in Callers, Back(c),
         \A d \in Callers \ {c} : caller'[d] = caller[d],
         UNCHANGED <<opening, handle, started, server>>
  PROVE  RoundTrip'
<1>1. /\ restart' = [k \in Restarters |-> IF k = c THEN "idle" ELSE restart[k]]
      /\ hurt' = hurt \ {c} /\ overtaken' = overtaken \ {c}
  BY DEF Back
<1>2. /\ \A k \in Restarters \ {c} : /\ restart'[k] = restart[k] /\ caller'[k] = caller[k]
                                     /\ k \in overtaken' <=> k \in overtaken
                                     /\ k \in hurt' <=> k \in hurt
      /\ c \in Restarters => restart'[c] = "idle"
  BY <1>1, RestartAssumption
<1>3. QueryIsLast' /\ ClosedFirst'
  BY <1>2 DEF RoundTrip, QueryIsLast, ClosedFirst
<1>4. Stopped' /\ Queried'
  BY <1>2 DEF RoundTrip, Stopped, Queried, Untouched, WillSee
<1> QED  BY <1>3, <1>4 DEF RoundTrip

\* What leaves the restarts as they are, and makes no pool they would use older.
LEMMA TripGoesOn ==
  ASSUME RoundTrip,
         \A k \in Restarters : caller'[k] # Idle <=> caller[k] # Idle,
         \A k \in Restarters : caller[k] # Idle => caller'[k].on = caller[k].on,
         opening' = opening \/ opening' = None,
         \A k \in Restarters :
           restart[k] = "probing" /\ Untouched(k)' /\ WillSee(caller[k].on) =>
             WillSee(caller[k].on)' \/ server' = "up",
         WillSee(opening) => WillSee(opening)' \/ server' = "up" \/ opening' = None,
         server = "up" => server' = "up",
         hurt \subseteq hurt',
         UNCHANGED <<restart, overtaken>>
  PROVE  RoundTrip'
<1>1. QueryIsLast' /\ ClosedFirst'  BY DEF RoundTrip, QueryIsLast, ClosedFirst
<1>2. \A k \in Restarters : Untouched(k)' => Untouched(k)  BY DEF Untouched
<1>3. Stopped'  BY <1>2 DEF RoundTrip, Stopped
<1>4. Queried'
  <2> SUFFICES ASSUME NEW k \in Restarters, restart[k] = "probing", Untouched(k)'
               PROVE  caller'[k] # Idle /\ (WillSee(caller[k].on)' \/ server' = "up")
    BY DEF Queried
  <2>1. caller[k] # Idle /\ (WillSee(caller[k].on) \/ server = "up")
    BY <1>2 DEF RoundTrip, Queried
  <2>2. caller'[k].on = caller[k].on /\ caller'[k] # Idle  BY <2>1
  <2>3. WillSee(caller[k].on) => WillSee(caller[k].on)' \/ server' = "up"  OBVIOUS
  <2> QED  BY <2>1, <2>2, <2>3 DEF WillSee
<1> QED  BY <1>1, <1>3, <1>4 DEF RoundTrip

\* The server goes away under everybody who is past its stop.
LEMMA TripBroken ==
  ASSUME RoundTrip, UNCHANGED <<vars, restart, overtaken>>, hurt' = hurt \union Underway
  PROVE  RoundTrip'
<1>1. QueryIsLast' /\ ClosedFirst'  BY DEF RoundTrip, QueryIsLast, ClosedFirst, vars
<1>2. \A k \in Restarters : restart[k] \in {"stopped", "probing"} => ~ Untouched(k)'
  BY DEF Underway, Untouched
<1>3. Stopped' /\ Queried'  BY <1>2 DEF Stopped, Queried
<1> QED  BY <1>1, <1>3 DEF RoundTrip

\* What a query does to the pool there is.
LEMMA Asks ==
  ASSUME IInv, ServerOK, NEW c \in Callers, Query(c)
  PROVE  /\ \A g \in Handles : WillSee(g) => WillSee(g)'
         /\ opening = None => WillSee(opening)'
         /\ opening # None => opening' = opening
         /\ opening' # None
         /\ caller[c] = Idle /\ caller'[c] # Idle /\ caller'[c].on = opening'
         /\ \A d \in Callers \ {c} : caller'[d] = caller[d]
         /\ overtaken \subseteq overtaken'
         /\ opening = None => BeforeStop \subseteq overtaken'
         /\ UNCHANGED <<server, started, hurt>>
<1>1. PICK h \in Handles :
        /\ \/ h = opening /\ UNCHANGED <<opening, handle>>
           \/ opening = None /\ Free(h)
                /\ opening' = h /\ handle' = [handle EXCEPT ![h] = "opening"]
        /\ caller' = [caller EXCEPT ![c] = [pc |-> "waiting", on |-> h]]
  BY DEF Query, Ask
<1>2. TypeOK  BY DEF IInv
<1>3. opening' = h /\ h # None  BY <1>1, PoolAssumption
<1>4. /\ caller[c] = Idle /\ caller'[c] = [pc |-> "waiting", on |-> h]
      /\ \A d \in Callers \ {c} : caller'[d] = caller[d]
  BY <1>1, <1>2 DEF TypeOK, Query, Ask
<1>5. caller'[c] # Idle /\ caller'[c].on = h  BY <1>4 DEF Idle
<1>6. UNCHANGED <<server, started, hurt>>  BY DEF Query
<1>7. \A g \in Handles : handle[g] = "opening" => handle'[g] = "opening"
  BY <1>1, <1>2 DEF TypeOK
<1>8. \A g \in Handles : WillSee(g) => WillSee(g)'  BY <1>6, <1>7 DEF WillSee
<1>9. opening = None => WillSee(h)'
  <2> SUFFICES ASSUME opening = None  PROVE WillSee(h)'
    OBVIOUS
  <2>1. Free(h) /\ handle' = [handle EXCEPT ![h] = "opening"]  BY <1>1, <1>3
  <2>2. h \notin started  BY <2>1 DEF Free, ServerOK
  <2> QED  BY <2>1, <2>2, <1>2, <1>6 DEF WillSee, TypeOK
<1>10. /\ overtaken \subseteq overtaken'
       /\ opening = None => BeforeStop \subseteq overtaken'
  BY DEF Query
<1>11. opening # None => opening' = opening  BY <1>1
<1>12. opening = None => WillSee(opening)'  BY <1>3, <1>9 DEF WillSee
<1> QED  BY <1>3, <1>4, <1>5, <1>6, <1>8, <1>10, <1>11, <1>12

\* A query, with the stage of its restart if it is one's.
LEMMA TripAsks ==
  ASSUME IInv, ServerOK, RoundTrip, NEW c \in Callers, Query(c),
         \/ c \notin Restarters /\ UNCHANGED restart
         \/ c \in Restarters /\ restart[c] = "stopped"
              /\ restart' = [restart EXCEPT ![c] = "probing"]
  PROVE  RoundTrip'
<1>1. /\ \A k \in Restarters \ {c} : restart'[k] = restart[k] /\ caller'[k] = caller[k]
      /\ c \in Restarters => restart[c] = "stopped" /\ restart'[c] = "probing"
  BY Asks, RestartAssumption DEF ServerOK
<1>2. \A k \in Restarters : Untouched(k)' => Untouched(k)  BY Asks DEF Untouched
<1>3. TypeOK /\ opening \in Handles \union {None}  BY DEF IInv, TypeOK
<1>4. QueryIsLast'  BY <1>1 DEF RoundTrip, QueryIsLast
<1>5. ClosedFirst'
  <2> SUFFICES ASSUME NEW k \in Restarters, restart'[k] = "closing", k \notin overtaken'
               PROVE  FALSE
    BY DEF ClosedFirst
  <2>1. restart[k] = "closing" /\ k \notin overtaken  BY <1>1, Asks
  <2>2. opening = None /\ k \in BeforeStop
    BY <2>1 DEF RoundTrip, ClosedFirst, BeforeStop
  <2> QED  BY <2>2, Asks
<1>6. WillSee(opening) /\ opening # None => WillSee(opening)'
  BY <1>3, Asks DEF WillSee
<1>7. Stopped'
  <2> SUFFICES ASSUME NEW k \in Restarters, restart'[k] = "stopped", Untouched(k)'
               PROVE  WillSee(opening)' \/ server' = "up"
    BY DEF Stopped
  <2>1. restart[k] = "stopped" /\ Untouched(k)  BY <1>1, <1>2
  <2>2. opening = None \/ WillSee(opening) \/ server = "up"  BY <2>1 DEF RoundTrip, Stopped
  <2> QED  BY <2>2, <1>6, Asks
<1>8. Queried'
  <2> SUFFICES ASSUME NEW k \in Restarters, restart'[k] = "probing", Untouched(k)'
               PROVE  caller'[k] # Idle /\ (WillSee(caller[k].on)' \/ server' = "up")
    BY DEF Queried
  <2>1. CASE k = c
    <3>1. restart[c] = "stopped" /\ Untouched(c)  BY <2>1, <1>1, <1>2
    <3>2. opening = None \/ WillSee(opening) \/ server = "up"
      BY <2>1, <3>1 DEF RoundTrip, Stopped
    <3>3. WillSee(opening)' \/ server' = "up"  BY <3>2, <1>6, Asks
    <3>4. caller'[c] # Idle /\ caller'[c].on = opening'  BY Asks
    <3> QED  BY <2>1, <3>3, <3>4 DEF WillSee
  <2>2. CASE k # c
    <3>1. restart[k] = "probing" /\ Untouched(k) /\ caller'[k] = caller[k]
      BY <2>2, <1>1, <1>2
    <3>2. caller[k] # Idle /\ (WillSee(caller[k].on) \/ server = "up")
      BY <3>1 DEF RoundTrip, Queried
    <3>3. caller[k].on \in Handles
      <4>1. k \in Callers  BY RestartAssumption
      <4> QED  BY <4>1, <3>2, <1>3, CallerKinds
    <3>4. server' = server  BY Asks
    <3>5. WillSee(caller[k].on) => handle'[caller[k].on] = "opening" /\ caller[k].on \notin started'
      BY <3>3, Asks DEF WillSee
    <3> QED  BY <3>1, <3>2, <3>4, <3>5 DEF WillSee
  <2> QED  BY <2>1, <2>2
<1> QED  BY <1>4, <1>5, <1>7, <1>8 DEF RoundTrip

LEMMA TripCalls ==
  ASSUME IInv, RoundTrip, NEW c \in Callers, Resumed(c) \/ Served(c)
  PROVE  RoundTrip'
<1>1. TypeOK  BY DEF IInv
<1>2. CASE Resumed(c)
  <2>1. /\ caller[c].pc = "waiting"
        /\ caller'[c] = IF handle[caller[c].on] = "failed" THEN Idle
                          ELSE [pc |-> "using", on |-> caller[c].on]
        /\ \A d \in Callers \ {c} : caller'[d] = caller[d]
        /\ UNCHANGED <<opening, handle, started, server>>
    BY <1>1, <1>2 DEF Resumed, Resume, TypeOK
  <2>2. CASE caller'[c] = Idle
    <3>1. Back(c)  BY <1>2, <2>2 DEF Resumed
    <3> QED  BY <2>1, <3>1, TripBack
  <2>3. CASE caller'[c] # Idle
    <3>1. UNCHANGED <<restart, hurt, overtaken>>  BY <1>2, <2>3 DEF Resumed
    <3>2. caller'[c] # Idle /\ caller[c] # Idle /\ caller'[c].on = caller[c].on
      BY <2>1, <2>3 DEF Idle
    <3>3. \A k \in Restarters : /\ caller'[k] # Idle <=> caller[k] # Idle
                                /\ caller'[k].on = caller[k].on
      BY <2>1, <3>2, RestartAssumption
    <3>4. UNCHANGED <<opening, handle, started, server>>  BY <2>1
    <3>5. \A k \in Restarters : WillSee(caller[k].on) => WillSee(caller[k].on)'
      BY <3>3, <3>4 DEF WillSee
    <3>6. WillSee(opening) => WillSee(opening)'  BY <3>4 DEF WillSee
    <3> QED  BY <3>1, <3>3, <3>4, <3>5, <3>6, TripGoesOn
  <2> QED  BY <2>2, <2>3
<1>3. CASE Connect(c)
  <2>1. UNCHANGED <<vars, server, started, restart, hurt, overtaken>>  BY <1>3 DEF Connect
  <2> QED  BY <2>1, TripGoesOn DEF vars, WillSee
<1>4. CASE Returns(c)
  <2>1. /\ Back(c) /\ UNCHANGED <<opening, handle, started, server>>
        /\ \A d \in Callers \ {c} : caller'[d] = caller[d]
    BY <1>1, <1>4 DEF Returns, Release, TypeOK
  <2> QED  BY <2>1, TripBack
<1> QED  BY <1>2, <1>3, <1>4 DEF Served, Answered, Failed

\* A start that fails is told to those who wait for it.
LEMMA TripOpens ==
  ASSUME IInv, ServerOK, RoundTrip, NEW h \in Handles, Opens(h)
  PROVE  RoundTrip'
<1>1. TypeOK /\ NoUseAfterEnd  BY DEF IInv
<1>2. CASE StartServer(h)
  <2>1. server' = "up" /\ UNCHANGED <<vars, restart, hurt, overtaken>>
    BY <1>2 DEF StartServer
  <2> QED  BY <2>1, TripGoesOn DEF vars
<1>3. CASE Opened(h)
  <2>1. /\ h \in started /\ handle' = [handle EXCEPT ![h] = "open"]
        /\ started' = started \ {h}
        /\ UNCHANGED <<opening, caller, server, restart, hurt, overtaken>>
    BY <1>3 DEF Opened, OpenSucceeds
  <2>2. \A g : WillSee(g) => handle'[g] = "opening" /\ g \notin started'
    BY <2>1, <1>1 DEF WillSee, TypeOK
  <2>3. \A k \in Restarters : WillSee(caller[k].on) => WillSee(caller[k].on)'
    BY <2>1, <2>2 DEF WillSee
  <2>4. WillSee(opening) => WillSee(opening)'  BY <2>1, <2>2 DEF WillSee
  <2> QED  BY <2>1, <2>3, <2>4, TripGoesOn
<1>4. CASE NotOpened(h)
  <2>1. /\ handle[h] = "opening" /\ handle' = [handle EXCEPT ![h] = "failed"]
        /\ started' = started \ {h} /\ opening' = None
        /\ hurt' = hurt \union (WaitsOn(h) \intersect Underway)
        /\ UNCHANGED <<caller, server, restart, overtaken>>
    BY <1>4 DEF NotOpened, OpenFails
  <2>2. ASSUME NEW k \in Restarters, restart[k] = "probing", Untouched(k)', WillSee(caller[k].on)
        PROVE  WillSee(caller[k].on)'
    <3>1. k \in Callers /\ k \in Underway /\ k \notin hurt'
      BY <2>2, RestartAssumption DEF Underway, Untouched
    <3>2. k \notin hurt /\ k \notin overtaken
      BY <2>1, <2>2 DEF Untouched
    <3>3. caller[k] # Idle  BY <2>2, <3>2 DEF RoundTrip, Queried, Untouched
    <3>4. caller[k].pc = "waiting"
      BY <2>2, <3>1, <3>3, <1>1, CallerKinds DEF WillSee, NoUseAfterEnd
    <3>5. caller[k].on # h
      BY <2>1, <3>1, <3>4, <1>1, CallerKinds DEF WaitsOn
    <3> QED  BY <2>1, <2>2, <3>5, <1>1 DEF WillSee, TypeOK
  <2> QED  BY <2>1, <2>2, TripGoesOn
<1>5. CASE IdleOut(h) /\ UNCHANGED serverVars
  <2>1. /\ handle[h] = "open" /\ handle' = [handle EXCEPT ![h] = "ended"]
        /\ UNCHANGED <<opening, caller, server, started, restart, hurt, overtaken>>
    BY <1>5 DEF IdleOut, serverVars
  <2>2. \A g : handle[g] = "opening" => handle'[g] = "opening"  BY <2>1, <1>1 DEF TypeOK
  <2> QED  BY <2>1, <2>2, TripGoesOn DEF WillSee
<1> QED  BY <1>2, <1>3, <1>4, <1>5 DEF Opens

\* A close lets go of the field, and ends what was open.
LEMMA TripCloses ==
  ASSUME IInv, RoundTrip, NEW k \in Closers, Shutdown(k) \/ CloseGoesOn(k)
  PROVE  RoundTrip'
<1>1. /\ UNCHANGED <<caller, server, started, restart, hurt, overtaken>>
      /\ opening' = opening \/ opening' = None
  BY DEF Shutdown, CloseGoesOn, Close, End, Ended, serverVars
<1>2. \A g : handle[g] = "opening" => handle'[g] = "opening"
  <2>1. CASE Close(k) \/ End(k)  BY <2>1 DEF Close, End
  <2>2. CASE Ended(k)
    <3>1. handle[closer[k].on] = "open"  BY <2>2 DEF Ended, IInv, EndingIsQuiet
    <3> QED  BY <2>2, <3>1 DEF Ended, IInv, TypeOK
  <2> QED  BY <2>1, <2>2 DEF Shutdown, CloseGoesOn
<1> QED  BY <1>1, <1>2, TripGoesOn DEF WillSee

\* restartDatabase itself, but for its query.
LEMMA TripRestarts ==
  ASSUME IInv, ServerOK, RoundTrip, NEW k \in Restarters,
         BeginRestart(k) \/ Stopping(k) \/ ProbeTimesOut(k)
  PROVE  RoundTrip'
<1>1. k \in Callers  BY RestartAssumption
<1>2. CASE BeginRestart(k)
  <2>1. /\ restart' = [restart EXCEPT ![k] = "closing"] /\ caller[k] = Idle /\ opening' = None
        /\ UNCHANGED <<caller, handle, server, started, hurt, overtaken>>
    BY <1>2 DEF BeginRestart, Close, vars
  <2>2. restart'[k] = "closing" /\ \A l \in Restarters \ {k} : restart'[l] = restart[l]
    BY <2>1 DEF ServerOK
  <2>3. QueryIsLast'  BY <2>1, <2>2 DEF RoundTrip, QueryIsLast
  <2>4. ClosedFirst' /\ Stopped'  BY <2>1 DEF ClosedFirst, Stopped
  <2>5. Queried'  BY <2>1, <2>2 DEF RoundTrip, Queried, Untouched, WillSee
  <2> QED  BY <2>3, <2>4, <2>5 DEF RoundTrip
<1>3. CASE StopForRestart(k)
  <2>1. /\ restart[k] = "closing" /\ restart' = [restart EXCEPT ![k] = "stopped"]
        /\ hurt' = hurt \union (Underway \ {k})
        /\ UNCHANGED <<opening, caller, handle, overtaken>>
    BY <1>3 DEF StopForRestart, vars
  <2>2. restart'[k] = "stopped" /\ \A l \in Restarters \ {k} : restart'[l] = restart[l]
    BY <2>1 DEF ServerOK
  <2>3. caller[k] = Idle  BY <2>1 DEF RoundTrip, QueryIsLast
  <2>4. QueryIsLast' /\ ClosedFirst'
    BY <2>1, <2>2, <2>3 DEF RoundTrip, QueryIsLast, ClosedFirst
  <2>5. \A l \in Restarters \ {k} : restart[l] \in {"stopped", "probing"} => ~ Untouched(l)'
    BY <2>1 DEF Underway, Untouched
  <2>6. k \notin overtaken => opening = None  BY <2>1 DEF RoundTrip, ClosedFirst
  <2>7. Stopped'  BY <2>1, <2>2, <2>5, <2>6 DEF Stopped, Untouched
  <2>8. Queried'  BY <2>2, <2>5 DEF Queried
  <2> QED  BY <2>4, <2>7, <2>8 DEF RoundTrip
<1>4. CASE Back(k) /\ UNCHANGED <<vars, server, started, client>>
  BY <1>1, <1>4, TripBack DEF vars
<1> QED  BY <1>2, <1>3, <1>4 DEF Stopping, StopThrows, ProbeTimesOut

LEMMA TripElsewhere ==
  ASSUME RoundTrip, StopElsewhere \/ StartElsewhere \/ Hang \/ Recover
  PROVE  RoundTrip'
<1>1. CASE StopElsewhere \/ Hang  BY <1>1, TripBroken DEF StopElsewhere, Hang
<1>2. CASE StartElsewhere \/ Recover
  <2>1. server' = "up" /\ UNCHANGED <<vars, restart, hurt, overtaken>>
    BY <1>2 DEF StartElsewhere, Recover
  <2> QED  BY <2>1, TripGoesOn DEF vars
<1> QED  BY <1>1, <1>2

-------------------------------------------------------------------------------
LEMMA RestartStart == RestartInit => RInv
<1> SUFFICES ASSUME RestartInit  PROVE RInv
  OBVIOUS
<1>1. IInv  BY Start DEF RestartInit
<1>2. ServerOK  BY DEF RestartInit, ServerOK
<1>3. RoundTrip
  BY RestartAssumption DEF RestartInit, Init, RoundTrip, QueryIsLast, ClosedFirst, Stopped, Queried
<1> QED  BY <1>1, <1>2, <1>3 DEF RInv

LEMMA RestartStep == ASSUME RInv, [RestartNext]_allVars  PROVE RInv'
<1>1. IInv /\ ServerOK /\ RoundTrip  BY DEF RInv
<1>2. IInv'  BY <1>1, PoolStep, Step
<1>3. ASSUME NEW c \in Callers, (c \notin Restarters /\ Query(c) /\ UNCHANGED restart) \/ Resumed(c) \/ Served(c)
      PROVE  ServerOK' /\ RoundTrip'
  <2>1. CASE c \notin Restarters /\ Query(c) /\ UNCHANGED restart
    <3>1. restart' \in [Restarters -> {"idle", "closing", "stopped", "probing"}]
      BY <1>1, <2>1 DEF ServerOK
    <3> QED  BY <1>1, <2>1, <3>1, CallTypes, TripAsks
  <2>2. CASE Resumed(c) \/ Served(c)  BY <1>1, <2>2, CallTypes, TripCalls
  <2> QED  BY <1>3, <2>1, <2>2
<1>4. ASSUME NEW k \in Restarters, BeginRestart(k) \/ Stopping(k) \/ Probe(k) \/ ProbeTimesOut(k)
      PROVE  ServerOK' /\ RoundTrip'
  <2>1. CASE Probe(k)
    <3>1. /\ Query(k) /\ k \in Callers /\ restart[k] = "stopped"
          /\ restart' = [restart EXCEPT ![k] = "probing"]
      BY <2>1, RestartAssumption DEF Probe
    <3>2. restart' \in [Restarters -> {"idle", "closing", "stopped", "probing"}]
      BY <1>1, <3>1 DEF ServerOK
    <3> QED  BY <1>1, <3>1, <3>2, CallTypes, TripAsks
  <2>2. CASE BeginRestart(k) \/ Stopping(k) \/ ProbeTimesOut(k)
    BY <1>1, <2>2, RestartTypes, TripRestarts
  <2> QED  BY <1>4, <2>1, <2>2
<1>5. ASSUME NEW h \in Handles, Opens(h)  PROVE ServerOK' /\ RoundTrip'
  BY <1>1, <1>5, OpenTypes, TripOpens
<1>6. ASSUME NEW k \in Closers, Shutdown(k) \/ CloseGoesOn(k)  PROVE ServerOK' /\ RoundTrip'
  BY <1>1, <1>6, CloseTypes, TripCloses
<1>7. CASE StopElsewhere \/ StartElsewhere \/ Hang \/ Recover
  BY <1>1, <1>2, <1>7, ElsewhereTypes, TripElsewhere DEF RInv
<1>8. CASE UNCHANGED allVars
  <2>1. UNCHANGED <<vars, server, started, client, restart, hurt, overtaken>>
    BY <1>8 DEF allVars, serverVars
  <2>2. ServerOK'  BY <1>1, <2>1 DEF ServerOK, vars
  <2>3. RoundTrip'  BY <1>1, <2>1, TripGoesOn DEF vars, WillSee
  <2> QED  BY <1>2, <2>2, <2>3 DEF RInv
<1> QED  BY <1>2, <1>3, <1>4, <1>5, <1>6, <1>7, <1>8 DEF RestartNext, RInv

(***************************************************************************)
(* The invariant of the pool under restartDatabase holds of every run, for *)
(* any number of restarts, calls and closes.                               *)
(***************************************************************************)
THEOREM RestartInvariance == RestartSpec => []RInv
BY RestartStart, RestartStep, PTL DEF RestartSpec

(***************************************************************************)
(* The types of Restart: what is connected is in use, and what has seen    *)
(* the server answer is still being opened.                                *)
(***************************************************************************)
THEOREM RestartTypeCorrect == RestartSpec => []RestartTypeOK
<1>1. RInv => RestartTypeOK  BY TypesInParts DEF RInv, IInv
<1> QED  BY <1>1, RestartInvariance, PTL

(***************************************************************************)
(* restartDatabase is a round trip, for any number of restarts, calls and  *)
(* closes at once: when its query is answered or fails the server is up,   *)
(* unless the server went away or hung after the stop, no start worked, or *)
(* a call opened a pool between the close and the stop.                    *)
(***************************************************************************)
THEOREM RestartIsRoundTrip == RestartSpec => RestartBringsBackUnlessOvertaken
<1> DEFINE Comes == \A k \in Restarters : k \in overtaken \/ ComesBack(k)
<1>1. RInv /\ [RestartNext]_allVars => [Comes]_allVars
  <2> SUFFICES ASSUME RInv, RestartNext, NEW k \in Restarters, k \notin overtaken, k \notin hurt,
                      restart[k] = "probing", caller[k] # Idle, caller'[k] = Idle
               PROVE  server' = "up"
    BY DEF ComesBack
  <2>1. TypeOK /\ NoUseAfterEnd /\ k \in Callers
    BY RestartAssumption DEF RInv, IInv
  <2>2. WillSee(caller[k].on) \/ server = "up"
    BY DEF RInv, RoundTrip, Queried, Untouched
  <2>3. ASSUME NEW c \in Callers, Query(c) \/ Resumed(c) \/ Served(c)
        PROVE  server' = "up"
    <3>1. \A d \in Callers \ {c} : caller'[d] = caller[d]
      BY <2>1, <2>3 DEF Query, Ask, Resumed, Resume, Served, Connect, Answered, Failed,
         Returns, Release, TypeOK, vars
    <3>2. c = k  BY <2>1, <3>1
    <3>3. CASE Query(c)  BY <3>2, <3>3 DEF Query, Ask
    <3>4. CASE Resumed(c)  BY <2>2, <3>2, <3>4 DEF Resumed, Resume, WillSee
    <3>5. CASE Connect(c)  BY <3>2, <3>5 DEF Connect, vars
    <3>6. CASE Returns(c)
      BY <2>1, <2>2, <3>2, <3>6 DEF Returns, Release, WillSee, NoUseAfterEnd
    <3> QED  BY <2>3, <3>3, <3>4, <3>5, <3>6 DEF Served, Answered, Failed
  <2>4. ASSUME NEW h \in Handles, Opens(h)  PROVE FALSE
    BY <2>4 DEF Opens, StartServer, Opened, OpenSucceeds, NotOpened, OpenFails, IdleOut, vars
  <2>5. ASSUME NEW l \in Closers, Shutdown(l) \/ CloseGoesOn(l)  PROVE FALSE
    BY <2>5 DEF Shutdown, CloseGoesOn, Close, End, Ended
  <2>6. ASSUME NEW l \in Restarters, BeginRestart(l) \/ Stopping(l) \/ ProbeTimesOut(l)
        PROVE  FALSE
    BY <2>6 DEF BeginRestart, Close, Stopping, StopForRestart, StopThrows, ProbeTimesOut, vars
  <2>7. ASSUME NEW l \in Restarters, Probe(l)  PROVE server' = "up"
    BY <2>3, <2>7, RestartAssumption DEF Probe
  <2>8. CASE StopElsewhere \/ StartElsewhere \/ Hang \/ Recover
    BY <2>8 DEF StopElsewhere, StartElsewhere, Hang, Recover, vars
  <2> QED  BY <2>3, <2>4, <2>5, <2>6, <2>7, <2>8 DEF RestartNext
<1> QED  BY <1>1, RestartInvariance, PTL DEF RestartSpec, RestartBringsBackUnlessOvertaken
===============================================================================
