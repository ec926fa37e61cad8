SPECIFICATION FairSpec
CONSTANTS
  Clients = {c1}
  Addr = {n1, n2, n3}
  NULL = NULL
  MaxStarts = 3
INVARIANTS
  ListIsStarted
PROPERTIES
  Fires
