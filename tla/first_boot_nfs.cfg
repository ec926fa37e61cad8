CONSTANTS
  MountParts = {"boot", "user"}
  Boards <- MCBoards
  MaxBoots = 1
  MaxCuts = 0
  MaxFails = 0
SPECIFICATION Spec
INVARIANT NfsUntouched
CHECK_DEADLOCK FALSE
