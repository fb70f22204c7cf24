\* Two calls and a pool of one client, which the server ends once.
SPECIFICATION FairSpec
CONSTANTS
  Calls = {c1, c2}
  Clients = {k1}
  NoClient = NoClient
  RowCap = 1
  MaxRows = 3
  MaxCuts = 1
INVARIANTS CleanWhenFree TruncationIsHonest
PROPERTIES GuardsAreForQueries 
