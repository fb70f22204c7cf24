\* One command at a time, two banks.
SPECIFICATION SerialFairSpec
CONSTANTS
  Items = {chase, amex}
  Txns = {t1}
  Procs = {cli}
  Resets = {wipe}
  NoItem = NoItem
  NetChanges = TRUE
  MaxVer = 2
  MaxRestarts = 1
  MaxPages = 2
INVARIANT CursorClaim
PROPERTIES ImplementsReplica CatchesUp RunsEnd RepairsLast
