----------------------------- MODULE SeedGenerator -----------------------------
(***************************************************************************)
(* generateSeedDataset(): a pure function from the options of              *)
(* `costingly seed` to an invented history.  An option record o holds the  *)
(* window o.first .. o.last and the seed.  Days are numbers since the      *)
(* epoch; an --end-date that is no date gives NaN bounds in the code and   *)
(* the empty window here.  Amounts are whole dollars, positive for money   *)
(* out; names, merchants and the pending flag are left out, and so is the  *)
(* category except where a property reads it.                              *)
(***************************************************************************)
EXTENDS Integers, Sequences, FiniteSetsExt

CONSTANTS
  Rng,         \* what makeRng answers to each seed: purchases, trips
  MonthStart,  \* the calendar: <<year, month>> to its first day
  CHECKING,
  CARDS,       \* each card and the day of the month it is paid on
  FIXTURES,    \* what recurs monthly; a transfer is two of them
  PAYCHECK_NET, PaydayGap,
  BONUS, BonusDay,
  TRAVEL,      \* what each booking of a trip costs
  TRAVEL_CARD,
  TripLead,    \* days from the start of the window to the first trip
  TripTail     \* no trip is booked in the last days

-------------------------------------------------------------------------------
(* Dates. *)

monthKey(day) ==
  CHOOSE m \in DOMAIN MonthStart :
    /\ MonthStart[m] <= day
    /\ \A n \in DOMAIN MonthStart :
         MonthStart[n] <= day => MonthStart[n] <= MonthStart[m]

toDayNumber(month, dom) == MonthStart[month] + dom - 1

\* Faulty variant of previousMonth: there is a month before January.
monthBefore(m) == <<m[1], m[2] - 1>>

previousMonth(m) == IF m[2] = 1 THEN <<m[1] - 1, 12>> ELSE <<m[1], m[2] - 1>>

\* The calendar's months follow one another, and none is left out.
Ordinal(m) == 12 * m[1] + m[2]

ASSUME CalendarAssumption ==
  /\ DOMAIN MonthStart \subseteq Int \X (1 .. 12)
  /\ \A m \in DOMAIN MonthStart : MonthStart[m] \in Int
  /\ \A m, n \in DOMAIN MonthStart :
       Ordinal(n) < Ordinal(m) =>
         /\ MonthStart[n] < MonthStart[m]
         /\ \E k \in DOMAIN MonthStart : Ordinal(k) = Ordinal(m) - 1

\* A card has one pay day, on which every month has a day; it is a card, and what
\* is bought with it costs something.
IsCard(account) == \E c \in CARDS : c.card = account

ASSUME CardsAssumption ==
  /\ ~ IsCard(CHECKING)
  /\ \A c, d \in CARDS : c.card = d.card => c = d
  /\ \A c \in CARDS :
       /\ c.dom \in Nat \ {0}
       /\ \A m, n \in DOMAIN MonthStart :
            MonthStart[n] < MonthStart[m] => toDayNumber(n, c.dom) < MonthStart[m]
  /\ IsFiniteSet(FIXTURES)
  /\ \A f \in FIXTURES : IsCard(f.account) => f.amount \in Nat \ {0} /\ f.kind # "TRANSFER_IN"
  /\ TRAVEL \in Seq(Nat \ {0}) /\ TripLead \in Nat /\ TripTail \in Int

ASSUME RngAssumption ==
  \A s \in DOMAIN Rng :
    /\ IsFiniteSet(Rng[s].purchases)
    /\ \A p \in Rng[s].purchases : p.amount \in Nat \ {0}
    /\ Rng[s].trips \in Seq([gap : Nat, hops : Seq(Nat)])
    /\ \A k \in DOMAIN Rng[s].trips : Len(Rng[s].trips[k].hops) < Len(TRAVEL)

Days(o) == o.first .. o.last

Months(o) == {monthKey(day) : day \in Days(o)}

-------------------------------------------------------------------------------
(* The rows, phase by phase. *)

\* The id is the code's counter; here it says which of the dataset's rows it is.
Row(id, account, day, amount, kind) ==
  [id |-> id, account |-> account, day |-> day, amount |-> amount, kind |-> kind]

\* Every other payday, walking back from the last day.
Income(o) ==
  {Row(<<"income", k>>, CHECKING, o.last - PaydayGap * k, - PAYCHECK_NET, "INCOME") :
   k \in 0 .. (o.last - o.first) \div PaydayGap}

Bonus(o) ==
  {Row(<<"bonus", day>>, CHECKING, day, - BONUS, "INCOME") :
   day \in {d \in Days(o) : /\ monthKey(d)[2] = 2
                            /\ d = toDayNumber(monthKey(d), BonusDay)}}

\* Rent, bills, subscriptions, the savings transfer and interest, each month they
\* fall into the window.
Monthly(o) ==
  {Row(<<"monthly", x>>, x[2].account, toDayNumber(x[1], x[2].dom), x[2].amount, x[2].kind) :
   x \in {y \in Months(o) \X FIXTURES : toDayNumber(y[1], y[2].dom) \in Days(o)}}

Everyday(o) ==
  {Row(<<"everyday", p>>, p.account, p.day, p.amount, "SPEND") :
   p \in {q \in Rng[o.seed].purchases : q.day \in Days(o)}}

\* A booking, and its hotel and perhaps its car some days later - later than the
\* last day too, for only the day of the booking is compared with it.
Travel(o) ==
  LET trips == Rng[o.seed].trips
      booked[k \in DOMAIN trips] ==
        IF k = 1 THEN o.first + TripLead ELSE booked[k - 1] + trips[k - 1].gap
      day(k, j) == IF j = 1 THEN booked[k] ELSE booked[k] + trips[k].hops[j - 1]
  IN UNION {{Row(<<"travel", k, j>>, TRAVEL_CARD, day(k, j), TRAVEL[j], "SPEND") :
             j \in 1 .. Len(trips[k].hops) + 1} :
            k \in {i \in DOMAIN trips : booked[i] <= o.last - TripTail}}

Sum(rows) == MapThenSumSet(LAMBDA r : r.amount, rows)

ChargedIn(rows, card, month) ==
  Sum({r \in rows : r.account = card /\ r.amount > 0 /\ monthKey(r.day) = month})

\* Each card is paid what it was charged the month before.
Payments(o, rows) ==
  UNION {LET card == x[1].card
             day  == toDayNumber(x[2], x[1].dom)
             owed == ChargedIn(rows, card, previousMonth(x[2]))
         IN IF owed < 1 THEN {}
            ELSE {Row(<<"payment", x, 1>>, CHECKING, day, owed, "TRANSFER_OUT"),
                  Row(<<"payment", x, 2>>, card, day, - owed, "TRANSFER_IN")} :
         x \in {y \in CARDS \X Months(o) : toDayNumber(y[2], y[1].dom) \in Days(o)}}

Generated(o) ==
  LET spent == UNION {Income(o), Bonus(o), Monthly(o), Everyday(o), Travel(o)}
  IN spent \union Payments(o, spent)

\* What a card owes: its rows after its last payment.  A payment is made after the
\* day's other rows and the sort by date is stable, so those come before it.
Balance(rows, card) ==
  LET mine == {r \in rows : r.account = card}
  IN Sum({r \in mine : \A p \in mine : p.kind = "TRANSFER_IN" => p.day < r.day})
================================================================================
