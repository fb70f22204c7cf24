\* Two commands at once, again and again, over a linked bank and its unlinking.
SPECIFICATION MCSpec
CONSTANTS
  Commands = {c1, c2}
  Options <- Given
  Dataset <- Generated
  ITEMS <- Banks
  BankOf <- Bank
  RealBanks = {chase}
  MaxFaults = 1
  Rng <- Answers
  MonthStart <- Calendar
  CHECKING = "checking"
  CARDS <- Cards
  FIXTURES <- Fixtures
  PAYCHECK_NET = 9
  PaydayGap = 4
  BONUS = 7
  BonusDay = 1
  TRAVEL <- Bookings
  TRAVEL_CARD = "travel"
  TripLead = 2
  TripTail = 1
SYMMETRY Symmetry
INVARIANTS OneSample CardsArePaidInFull
PROPERTIES LoneSeedIsExact OnlyLateBanksAreMixed
