SPECIFICATION Spec
CONSTANTS
  Clients = {c1, c2}
  Addr = {n1, n2, n3}
  NULL = NULL
  MaxStarts = 2
INVARIANTS
  StartedIsListed
