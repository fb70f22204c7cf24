\* Two syncs, a reset and an unlink of one bank at once, statement by statement.
SPECIFICATION Spec
CONSTANTS
  Txns = {t1, t2}
  MaxVer = 2
  Syncs = {s1, s2}
  Resets = {r}
  Unlinks = {u}
  Account = account
SYMMETRY Symmetry
INVARIANTS HistoryHeld
PROPERTIES SyncIsOneStep ResetLeavesOnlyLater
