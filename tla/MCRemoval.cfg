\* One removal of two banks, or a tool and a command at once on the same one.
SPECIFICATION MCSpec
CONSTANTS
  Banks = {b1, b2}
  Procs = {p, q}
  Tokens = {t1}
  None = None
  Profile = Profile
  Troubles = {"statement", "key", "pidfile", "slow", "rm", "link", "crash"}
SYMMETRY Symmetry
INVARIANTS StrandedIsTold OnePreviewOneDeed
PROPERTIES NoTokenWasted
