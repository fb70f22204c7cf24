\* One call at a time.
SPECIFICATION SerialSpec
CONSTANTS
  Calls = {c1, c2}
  Items = {b1}
  Servers = {s1, s2, s3}
  None = None
  IdleTicks = 2
  MaxRequests = 3
CHECK_DEADLOCK FALSE
INVARIANTS TypeOK LinkIsTold NothingListensAfterwards
PROPERTIES PageStays PageGoesAway
