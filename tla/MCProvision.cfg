\* From nothing, failing anywhere, again and again; then upgraded by two at once.
SPECIFICATION GrowSpec
CONSTANTS
  Procs = {cli, mcp, old}
  Old = {old}
  Secrets = {s1, s2, s3, s4}
  None = None
  Newest = 2
  MaxFaults = 3
  CleanKill = TRUE
INVARIANTS TokensReadable RaceIsHarmless
PROPERTIES SuccessMeansUsable CommandsEnd RetrySucceeds
