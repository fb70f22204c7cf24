\* Two processes sync the same bank; Plaid tells everything that happened.
SPECIFICATION OverlapSpec
CONSTANTS
  Items = {bank}
  Txns = {t1}
  Procs = {cli, mcp}
  Resets = {}
  NoItem = NoItem
  NetChanges = FALSE
  MaxVer = 3
  MaxRestarts = 0
  MaxPages = 1
INVARIANT CursorClaim
