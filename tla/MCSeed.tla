--------------------------------- MODULE MCSeed ---------------------------------
EXTENDS SeedCommand, TLC

\* A calendar of four-day months around a New Year; two cards, one of them also the
\* trips'; two sample banks.
Calendar == [m \in {<<2025, 11>>, <<2025, 12>>, <<2026, 1>>, <<2026, 2>>} |->
               IF m[1] = 2025 THEN 4 * (m[2] - 11) ELSE 4 * (m[2] + 1)]
Cards    == {[card |-> "cash", dom |-> 3], [card |-> "travel", dom |-> 4]}
Fixture(account, dom, amount, kind) ==
  [account |-> account, dom |-> dom, amount |-> amount, kind |-> kind]
Fixtures == {Fixture("checking", 1, 5, "SPEND"), Fixture("cash", 2, 2, "SPEND"),
             Fixture("checking", 3, 4, "TRANSFER_OUT"), Fixture("savings", 3, -4, "TRANSFER_IN"),
             Fixture("savings", 4, -1, "INCOME")}
Banks    == <<"northlake", "cardinal">>
Bank     == [a \in {"checking", "savings", "cash", "travel"} |->
               IF a \in {"checking", "savings"} THEN "northlake" ELSE "cardinal"]
Bookings == <<3, 2, 1>>

\* The windows - one of them that of a date that is none.  A seed stands for what
\* the generator answers: purchases with each card on some days, and how many days
\* after a booking the hotel and the car are.
Windows == {<<5, 13>>, <<7, 11>>, <<9, 9>>, <<9, 8>>}
Seeds   == (SUBSET {6, 7, 10}) \X (SUBSET {8, 13}) \X {1, 3, 5}
Answers == [s \in Seeds |->
              [purchases |-> {[account |-> "cash", day |-> d, amount |-> 1] : d \in s[1]} \union
                             {[account |-> "travel", day |-> d, amount |-> 1] : d \in s[2]},
               trips     |-> <<[gap |-> 4, hops |-> <<s[3]>>], [gap |-> 5, hops |-> <<1, s[3]>>]>>]]
Given   == {[first |-> w[1], last |-> w[2], seed |-> s] : w \in Windows, s \in Seeds}

\* All are generated; these are stored.
Stored     == {o \in Given : o.last \in {9, 11} /\ o.seed = <<{}, {}, 3>>}
Looked(c)  == cmd[c].pc \in {"given", "made"} /\ cmd[c].opt \notin Stored
MayMake(c) == cmd[c].pc # "given" /\ cmd'[c].pc = "given" =>
                cmd'[c].opt \in Stored \/ (banks = {} /\ items = {} /\ faults = 0)
MCSpec ==
  Init /\ [][Next /\ \A c \in Commands :
                      MayMake(c) /\ (Looked(c) => cmd'[c].pc \in {"made", "idle"} \ {cmd[c].pc})]_vars

Symmetry == Permutations(Commands)
================================================================================
