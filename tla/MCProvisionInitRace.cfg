\* init and setup_costingly at once on a new profile.
SPECIFICATION Spec
CONSTANTS
  Procs = {cli, mcp}
  Old = {}
  Secrets = {s1, s2, s3, s4, s5, s6}
  None = None
  Newest = 1
  MaxFaults = 0
  CleanKill = TRUE
INVARIANT TokensReadable
