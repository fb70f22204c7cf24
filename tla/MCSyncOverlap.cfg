\* Two processes, one bank, every user command at any moment.
SPECIFICATION MCSpec
CONSTANTS
  Items = {bank}
  Txns = {t1, t2}
  Procs = {cli, mcp}
  Resets = {wipe}
  NoItem = NoItem
  NetChanges = TRUE
  MaxVer = 3
  MaxRestarts = 1
  MaxPages = 2
VIEW Told
SYMMETRY Symmetry
INVARIANTS ExactUnlessRaced NoPhantomRows BatchComplete UnlinkedLeavesNothing
