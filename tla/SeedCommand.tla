------------------------------ MODULE SeedCommand ------------------------------
(***************************************************************************)
(* `costingly seed`: the generator's dataset is what the command stores.   *)
(***************************************************************************)
EXTENDS SampleData, SeedGenerator

\* The calendar covers what a user may ask for.
ASSUME SeedAssumption ==
  \A o \in Options :
    /\ o.first \in Int /\ o.last \in Int /\ o.seed \in DOMAIN Rng
    /\ \E m \in DOMAIN MonthStart : MonthStart[m] <= o.first
    /\ Dataset(o) = Generated(o)

\* A card's rows up to the end of a day add up to this month's charges and, before
\* it is paid, last month's; its reported balance is part of what all rows add up to.
PaidInFull(o, txns) ==
  \A c \in CARDS :
    LET mine    == {r \in txns : r.account = c.card}
        charges == {r \in mine : r.amount > 0}
        Charged(day, month) == Sum({r \in charges : r.day <= day /\ monthKey(r.day) = month})
    IN /\ \A day \in o.first .. o.last :
            LET month == monthKey(day) IN
            Sum({r \in mine : r.day <= day}) =
              Charged(day, month) + (IF day < toDayNumber(month, c.dom)
                                       THEN Charged(day, previousMonth(month)) ELSE 0)
       /\ Balance(txns, c.card) \in 0 .. Sum(mine)

\* "The way someone paying their statement in full would": on every day of the
\* window a card owes what it was charged this month, and until it is paid last
\* month's charges, so what is owed never drifts; and the balance reported counts
\* nothing that was paid.
CardsArePaidInFull ==
  \A c \in Commands : cmd[c].pc = "made" => PaidInFull(cmd[c].opt, cmd[c].data)

\* "Nothing is dated after the requested end date": does not hold of this code,
\* whose trips are dated weeks after they are booked (README, section 4).
NothingAfterTheEnd ==
  \A c \in Commands : cmd[c].pc = "made" =>
    \A r \in cmd[c].data : r.day <= cmd[c].opt.last
================================================================================
