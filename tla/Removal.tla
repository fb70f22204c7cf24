-------------------------------- MODULE Removal --------------------------------
(***************************************************************************)
(* Everything that removes a bank or the whole profile: the tools          *)
(* unlink_bank and uninstall_costingly with their confirmation tokens, and *)
(* the commands unlink, reset and uninstall, while a browser may be        *)
(* linking another bank and another process may start the server.          *)
(*                                                                         *)
(* A bank costs money as long as its Item lives at Plaid; once the access  *)
(* token is gone here nothing can end that from here any more.             *)
(*                                                                         *)
(* One action per statement, request to Plaid or pg_ctl call.              *)
(***************************************************************************)
EXTENDS Naturals, Sequences, FiniteSets

CONSTANTS
  Banks,      \* Items there can be; a bank linked again is another one
  Procs,      \* removals that can be under way
  Tokens,     \* bound on the confirmation tokens minted
  None,       \* no token, no bank
  Profile,    \* the subject of uninstall_costingly
  Troubles    \* what may happen besides: see Kinds

Kinds == {"statement",   \* a statement fails
          "key",         \* stored tokens do not decrypt
          "pidfile",     \* pg_ctl does not stop the server, or does not find it
          "slow",        \* a server does not answer within a second
          "rm",          \* the files cannot be removed, or not all of them
          "link",        \* a browser links banks meanwhile
          "crash"}       \* a process dies

ASSUME RemovalAssumption ==
  /\ None \notin Tokens \union Banks \union {Profile}
  /\ Profile \notin Banks
  /\ Troubles \subseteq Kinds

VARIABLES
  plaid,      \* every Item at Plaid: "new", "alive" or "removed"
  rows,       \* items
  readable,   \* whose access token decrypts
  profile,    \* its files: "whole", "damaged" when some are gone, or "gone"
  server,     \* is there a postmaster?
  linking,    \* whose token was exchanged but is not stored yet
  call,       \* the removals under way
  preview,    \* what the user was shown for each token
  pending,    \* ConfirmationStore: tokens that can be spent
  deeds,      \* what each token was spent on
  told,       \* banks the user was told may live on at Plaid
  unsaid      \* banks nobody could tell of: the one who knew died or threw

vars == <<plaid, rows, readable, profile, server, linking, call,
          preview, pending, deeds, told, unsaid>>

-------------------------------------------------------------------------------
Subjects == Banks \union {Profile}
Deed     == [subject : Subjects, revoke : BOOLEAN]
NoDeed   == [subject |-> None, revoke |-> FALSE]

\* left: Items still to remove, of which `at` is revoked but not deleted yet;
\* revoked, failed: the outcomes; error: UninstallResult.revokeError is set; late:
\* history, banks linked since the call began.
Call == [pc      : {"idle", "list", "item", "delete", "wipe", "stop", "prove", "rm", "report"},
         kind    : {"unlink_bank", "unlink", "reset", "uninstall"},
         revoke  : BOOLEAN,
         token   : Tokens \union {None},
         left    : SUBSET Banks,
         at      : Banks \union {None},
         revoked : SUBSET Banks,
         failed  : SUBSET Banks,
         error   : BOOLEAN,
         late    : SUBSET Banks]

Started(pc, kind, revoke, token, left) ==
  [pc |-> pc, kind |-> kind, revoke |-> revoke, token |-> token, left |-> left,
   at |-> None, revoked |-> {}, failed |-> {}, error |-> FALSE,
   late |-> {}]

Idle == Started("idle", "reset", FALSE, None, {})

TypeOK ==
  /\ plaid    \in [Banks -> {"new", "alive", "removed"}]
  /\ rows     \subseteq Banks
  /\ readable \subseteq Banks
  /\ profile  \in {"whole", "damaged", "gone"}
  /\ server   \in BOOLEAN
  /\ linking  \subseteq Banks
  /\ call     \in [Procs -> Call]
  /\ preview  \in [Tokens -> Deed \union {NoDeed}]
  /\ pending  \subseteq Tokens
  /\ \A t \in Tokens : Len(deeds[t]) <= 2 /\ \A i \in DOMAIN deeds[t] : deeds[t][i] \in Deed
  /\ \A p \in Procs : /\ call[p].at # None => call[p].at \in call[p].left
                      /\ ~ call[p].revoke => call[p].revoked \union call[p].failed = {}
  /\ told     \subseteq Banks
  /\ unsaid   \subseteq Banks

\* A profile with some banks in it; "key" may have been lost since they were linked.
Init ==
  /\ rows \in SUBSET Banks
  /\ plaid = [b \in Banks |-> IF b \in rows THEN "alive" ELSE "new"]
  /\ IF "key" \in Troubles THEN readable \in SUBSET rows ELSE readable = rows
  /\ profile = "whole" /\ server = TRUE
  /\ linking = {}
  /\ call = [p \in Procs |-> Idle]
  /\ preview = [t \in Tokens |-> NoDeed]
  /\ pending = {}
  /\ deeds = [t \in Tokens |-> <<>>]
  /\ told = {} /\ unsaid = {}

Alive    == {b \in Banks : plaid[b] = "alive"}
Stranded == (Alive \ rows) \ linking
Calling  == {p \in Procs : call[p].pc # "idle"}

\* The part of a call that changes most.
Goes(p, pc) == call' = [call EXCEPT ![p].pc = pc]

\* Does a statement get an answer?
Answers == profile = "whole" /\ server

\* A pool that opens starts the server, whoever is about to remove its files.
MayStart == profile = "whole"

env     == <<plaid, readable, linking>>
consent == <<preview, pending, deeds>>
data    == <<plaid, rows, readable, profile, server, linking>>

-------------------------------------------------------------------------------
(* Linking a bank *)

Exchange(b) ==
  /\ "link" \in Troubles
  /\ plaid[b] = "new"
  /\ plaid' = [plaid EXCEPT ![b] = "alive"]
  /\ linking' = linking \union {b}
  /\ UNCHANGED <<rows, readable, profile, server, call, consent, told, unsaid>>

SaveItem(b) ==
  /\ b \in linking /\ (Answers \/ MayStart)
  /\ linking' = linking \ {b}
  /\ rows' = rows \union {b}
  /\ readable' = readable \union {b}
  /\ server' = TRUE
  /\ call' = [p \in Procs |-> IF p \in Calling
                                THEN [call[p] EXCEPT !.late = call[p].late \union {b}]
                                ELSE call[p]]
  /\ UNCHANGED <<plaid, profile, consent, told, unsaid>>

\* The page says the exchange failed; the token is lost.
SaveFails(b) ==
  /\ b \in linking
  /\ ~ Answers \/ "statement" \in Troubles \/ "crash" \in Troubles
  /\ linking' = linking \ {b}
  /\ unsaid' = unsaid \union {b}
  /\ UNCHANGED <<plaid, rows, readable, profile, server, call, consent, told>>

-------------------------------------------------------------------------------
(* Confirmation *)

\* Phase one of unlink_bank and of uninstall_costingly.
Preview(t, s, r) ==
  /\ preview[t] = NoDeed
  /\ s \in Banks => s \in rows /\ r
  /\ preview' = [preview EXCEPT ![t] = [subject |-> s, revoke |-> r]]
  /\ pending' = pending \union {t}
  /\ UNCHANGED <<data, call, deeds, told, unsaid>>

\* Five minutes are over, or the process that minted it is.
Expire(t) ==
  /\ t \in pending
  /\ pending' = pending \ {t}
  /\ UNCHANGED <<data, call, preview, deeds, told, unsaid>>

\* Faulty variant of Entry: uninstall leaves the banks for later.
EntryFilesFirst(kind, r, t, left) ==
  Started(CASE kind = "uninstall" -> "stop"
            [] kind = "reset"     -> IF r THEN "list" ELSE "wipe"
            [] OTHER              -> "item", kind, r, t, left)

\* What a confirmed call begins with.
Entry(kind, r, t, left) ==
  Started(CASE kind = "uninstall" -> IF r THEN "list" ELSE "stop"
            [] kind = "reset"     -> IF r THEN "list" ELSE "wipe"
            [] OTHER              -> "item", kind, r, t, left)

\* Faulty variant of Spent: it goes when the deed is done, not before.
SpentLater(t) == pending

Spendable(t, s) == t \in pending /\ preview[t].subject = s
Spent(t) == pending \ {t}

\* Phase two.  unlink_bank always revokes; uninstall_costingly does as it is told
\* now, whatever the preview said.
Spend(p, t, s, r) ==
  /\ call[p] = Idle
  /\ Spendable(t, s)
  /\ s \in Banks => s \in rows /\ r
  /\ Len(deeds[t]) < 2
  /\ pending' = Spent(t)
  /\ deeds' = [deeds EXCEPT ![t] = Append(@, [subject |-> s, revoke |-> r])]
  /\ call' = [call EXCEPT ![p] =
       IF s = Profile THEN Entry("uninstall", r, t, {}) ELSE Entry("unlink_bank", r, t, {s})]
  /\ UNCHANGED <<data, preview, told, unsaid>>

\* The commands ask on the terminal and begin.  unlink has decrypted all tokens
\* by then to find the bank it is to remove.
Command(p, kind, r, left) ==
  /\ call[p] = Idle
  /\ \/ kind = "unlink" /\ rows \subseteq readable
          /\ \E b \in rows : left = {b}
     \/ kind = "reset" /\ profile = "whole" /\ left = {}
     \/ kind = "uninstall" /\ left = {}
  /\ call' = [call EXCEPT ![p] = Entry(kind, r, None, left)]
  /\ UNCHANGED <<data, consent, told, unsaid>>

-------------------------------------------------------------------------------
(* Removing banks *)

\* listAllItems decrypts every token before the first is used.
Undecryptable(p) == call[p].pc = "list" /\ ~ (rows \subseteq readable)

\* removeAllItems
List(p) ==
  /\ call[p].pc = "list" /\ Answers
  /\ ~ Undecryptable(p)
  /\ call' = [call EXCEPT ![p].pc = "item", ![p].left = rows]
  /\ UNCHANGED <<data, consent, told, unsaid>>

\* Is there a token to send?  unlink_bank reads the row again.
Attempts(p, b) == call[p].revoke /\ (call[p].kind = "unlink_bank" => b \in rows)

\* One Item, at Plaid.
RevokeItem(p, b) ==
  /\ call[p].pc = "item" /\ b \in call[p].left
  /\ \/ /\ ~ Attempts(p, b)
        /\ call' = [call EXCEPT ![p].pc = "delete", ![p].at = b]
        /\ UNCHANGED plaid
     \/ /\ Attempts(p, b) /\ plaid[b] = "alive"
        /\ call[p].kind = "unlink_bank" => b \in readable
        /\ plaid' = [plaid EXCEPT ![b] = "removed"]
        /\ call' = [call EXCEPT ![p].pc = "delete", ![p].at = b,
                                ![p].revoked = call[p].revoked \union {b}]
     \/ /\ Attempts(p, b)
        /\ call' = [call EXCEPT ![p].pc = "delete", ![p].at = b,
                                ![p].failed = call[p].failed \union {b}]
        /\ UNCHANGED plaid
  /\ UNCHANGED <<rows, readable, profile, server, linking, consent, told, unsaid>>

\* ... and here.  The command told of an Item it does not revoke when it asked.
DeleteItem(p) ==
  LET b == call[p].at
  IN  /\ call[p].pc = "delete" /\ Answers
      /\ rows' = rows \ {b}
      /\ call' = [call EXCEPT ![p].pc = "item", ![p].at = None, ![p].left = call[p].left \ {b}]
      /\ told' = IF call[p].revoke THEN told ELSE told \union {b}
      /\ UNCHANGED <<env, profile, server, consent, unsaid>>

ItemsDone(p) ==
  /\ call[p].pc = "item" /\ call[p].left = {}
  /\ Goes(p, IF call[p].kind = "uninstall" THEN "stop" ELSE "report")
  /\ UNCHANGED <<data, consent, told, unsaid>>

\* removeAllItems without revoking; the command told what that means.
DeleteAll(p) ==
  /\ call[p].pc = "wipe" /\ Answers
  /\ rows' = {}
  /\ told' = told \union Alive
  /\ Goes(p, "report")
  /\ UNCHANGED <<env, profile, server, consent, unsaid>>

\* What only the call knew.
Lost(p) ==
  call[p].failed \union
    (IF call[p].error \/ (call[p].revoke = FALSE /\ call[p].token # None) THEN Stranded ELSE {})

\* The call ends before it can report.
Broken(p) ==
  /\ unsaid' = unsaid \union Lost(p)
  /\ call' = [call EXCEPT ![p] = Idle]

\* A statement of removeAllItems or removeBankById throws: no database, a token
\* that does not decrypt, or any other reason.  revokeAll carries on without the
\* outcomes so far.
ItemsThrow(p) ==
  /\ call[p].pc \in {"list", "item", "delete", "wipe"}
  /\ ~ Answers \/ "statement" \in Troubles \/ Undecryptable(p)
  /\ IF call[p].kind = "uninstall"
     THEN /\ call' = [call EXCEPT ![p].pc = "stop", ![p].error = TRUE,
                                  ![p].left = {}, ![p].at = None, ![p].failed = {}]
          /\ UNCHANGED unsaid
     ELSE Broken(p)
  /\ UNCHANGED <<data, consent, told>>

-------------------------------------------------------------------------------
(* removeProfile *)

NothingThere(p) ==
  /\ call[p].pc = "stop" /\ profile = "gone"
  /\ Goes(p, "report")
  /\ UNCHANGED <<data, consent, told, unsaid>>

Stop(p) ==
  /\ call[p].pc = "stop" /\ profile # "gone"
  /\ server' \in (IF "pidfile" \in Troubles THEN {FALSE, server} ELSE {FALSE})
  /\ Goes(p, "prove")
  /\ UNCHANGED <<env, rows, profile, consent, told, unsaid>>

\* isServing: nothing opened a connection within a second.
Prove(p) ==
  /\ call[p].pc = "prove"
  /\ ~ server \/ "slow" \in Troubles
  /\ Goes(p, "rm")
  /\ UNCHANGED <<data, consent, told, unsaid>>

\* The call throws: something answers, pg_ctl fails outright, or too much is gone for
\* what is left to look like a profile.
Refuse(p) ==
  /\ \/ call[p].pc = "prove" /\ server
     \/ call[p].pc = "stop" /\ profile = "damaged"
  /\ Broken(p)
  /\ UNCHANGED <<data, consent, told>>

\* The command that is not to revoke told what that means when it asked.
Forewarned(p) == ~ call[p].revoke /\ call[p].token = None

\* rm: config.json with the key, and the cluster with the rows.
Remove(p) ==
  /\ call[p].pc = "rm"
  /\ profile' = "gone"
  /\ rows' = {}
  /\ unsaid' = IF call[p].revoke /\ ~ call[p].error THEN unsaid \union rows ELSE unsaid
  /\ told' = IF Forewarned(p) THEN told \union Alive ELSE told
  /\ Goes(p, "report")
  /\ UNCHANGED <<env, server, consent>>

\* rm throws, or its process dies in it, before it took anything or with some of the
\* files gone: the rows cannot be read any more, and what they were nobody tells.
RemoveFails(p) ==
  /\ call[p].pc = "rm" /\ {"rm", "crash"} \intersect Troubles # {}
  /\ \/ Broken(p) /\ UNCHANGED <<profile, rows, told>>
     \/ /\ profile' = IF profile = "gone" THEN "gone" ELSE "damaged"
        /\ rows' = {}
        /\ unsaid' = unsaid \union Lost(p) \union (IF Forewarned(p) THEN {} ELSE rows)
        /\ told' = IF Forewarned(p) THEN told \union Alive ELSE told
        /\ call' = [call EXCEPT ![p] = Idle]
  /\ UNCHANGED <<env, server, consent>>

\* Faulty variant of Warned: a failure the whole step had is not passed on.
WarnedOutcomesOnly(p) == call[p].failed \union (IF call[p].revoke THEN {} ELSE Alive)

\* Whom the result names: the failed ones, or any bank that is still at Plaid.
Warned(p) == call[p].failed \union (IF call[p].revoke /\ ~ call[p].error THEN {} ELSE Alive)

Report(p) ==
  /\ call[p].pc = "report"
  /\ told' = told \union
       (IF call[p].kind = "uninstall" THEN Warned(p) ELSE call[p].failed)
  /\ call' = [call EXCEPT ![p] = Idle]
  /\ UNCHANGED <<data, consent, unsaid>>

-------------------------------------------------------------------------------
(* The rest of the world *)

\* Another process opens its pool, which starts a server that is down.
ServerStarts ==
  /\ ~ server /\ MayStart
  /\ server' = TRUE
  /\ UNCHANGED <<env, rows, profile, call, consent, told, unsaid>>

\* The process of a command dies.
Crash(p) ==
  /\ "crash" \in Troubles
  /\ p \in Calling
  /\ Broken(p)
  /\ UNCHANGED <<data, consent, told>>

Removing(p) ==
  \/ List(p) \/ ItemsDone(p) \/ DeleteItem(p) \/ DeleteAll(p) \/ ItemsThrow(p)
  \/ \E b \in Banks : RevokeItem(p, b)
  \/ NothingThere(p) \/ Stop(p) \/ Prove(p) \/ Refuse(p) \/ Remove(p)
  \/ RemoveFails(p) \/ Report(p)

Next ==
  \/ \E b \in Banks : Exchange(b) \/ SaveItem(b) \/ SaveFails(b)
  \/ \E t \in Tokens :
       \/ Expire(t)
       \/ \E s \in Subjects, r \in BOOLEAN :
            Preview(t, s, r) \/ \E p \in Procs : Spend(p, t, s, r)
  \/ \E p \in Procs :
       \/ \E kind \in {"unlink", "reset", "uninstall"}, r \in BOOLEAN, left \in SUBSET Banks :
            Command(p, kind, r, left)
       \/ Removing(p)
       \/ Crash(p)
  \/ ServerStarts

Spec == Init /\ [][Next]_vars

-------------------------------------------------------------------------------
(***************************************************************************)
(* What the user was asked about once is done at most once, and only to    *)
(* what was asked about, even when two calls race with the same token: a   *)
(* token for one bank cannot delete another.                               *)
(***************************************************************************)
OnePreviewOneDeed ==
  \A t \in Tokens :
    /\ Len(deeds[t]) <= 1
    /\ \A i \in DOMAIN deeds[t] : deeds[t][i].subject = preview[t].subject

(***************************************************************************)
(* ... and it is done the way the user was told: banks removed at Plaid, or *)
(* left there.                                                             *)
(***************************************************************************)
DoneAsPreviewed == \A t \in Tokens : \A i \in DOMAIN deeds[t] : deeds[t][i] = preview[t]

(***************************************************************************)
(* Once everybody is done, a bank that lives on at Plaid without a token   *)
(* here was reported to the user, unless whoever knew died, threw or never *)
(* saw it (Lost, SaveFails and Remove say when).                           *)
(***************************************************************************)
StrandedIsTold == Calling = {} => Stranded \subseteq told \union unsaid

(***************************************************************************)
(* The same without excuse: failures come back in the result for the       *)
(* caller to report, they are never thrown.                                *)
(***************************************************************************)
StrandedIsHeard == Calling = {} => Stranded \subseteq told

(***************************************************************************)
(* An uninstall that is to remove the banks at Plaid, and whose revoking   *)
(* step as a whole did not fail, destroys no token it could still have     *)
(* removed one with: it revokes first, while the credentials exist.  Only  *)
(* of a bank linked after it began it cannot know.                         *)
(***************************************************************************)
NoTokenWasted ==
  [][\A p \in Procs :
       call[p].kind = "uninstall" /\ call[p].revoke /\ ~ call[p].error /\ profile = "whole"
       /\ (Remove(p) \/ RemoveFails(p))
         => rows \intersect readable \intersect Alive \subseteq call[p].late]_vars

(***************************************************************************)
(* "No bank was removed at Plaid", which is what uninstall_costingly says   *)
(* of an error of the whole revoking step, is true.                        *)
(***************************************************************************)
NoneRemovedIsTrue ==
  \A p \in Procs : call[p].error /\ call[p].token # None => call[p].revoked = {}

(***************************************************************************)
(* The files go only while no server runs on them: it would neither fail   *)
(* nor stop, and nothing could stop it any more.  The proof comes too      *)
(* early for it, and is no proof where the server is slow.                 *)
(***************************************************************************)
FilesGoUnderNobody == [][profile # "gone" /\ profile' = "gone" => ~ server]_vars
===============================================================================
