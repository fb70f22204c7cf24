\* Two commands, one at a time until the logins are stored, killed and failing, and
\* a report under way.
SPECIFICATION StatusSpec
CONSTANTS
  Procs = {cli, mcp}
  Old = {}
  Secrets = {s1, s2, s3, s4}
  None = None
  Newest = 1
  MaxFaults = 1
  CleanKill = FALSE
SYMMETRY Symmetry
INVARIANTS PasswordHeld SteadyIsTold
PROPERTY SkipsForSomebody
