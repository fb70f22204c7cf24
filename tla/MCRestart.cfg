\* A restart and another call and close of the same process, and a server others
\* stop too.
SPECIFICATION RestartSpec
CONSTANTS
  Callers = {c1, r}
  Closers = {r, k1}
  Restarters = {r}
  Handles = {h1, h2, h3}
  None = None
INVARIANTS NoUseAfterEnd NoOrphan
PROPERTIES RestartBringsBackUnlessOvertaken RestartsEnd
