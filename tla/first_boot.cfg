CONSTANTS
  MountParts = {"boot", "user", "data"}
  Boards <- MCBoards
  MaxBoots = 3
  MaxCuts = 2
  MaxFails = 1
SPECIFICATION Spec
INVARIANTS
  TypeOK
  ExecutedOnce
  OfflineOnly
  MarkAfterWork
  GrownIfLeftAlone
  MountedUnlessHelper
  PurgedIfAbsent
PROPERTIES
  CutsOnlyDelay
  CleanedInTheEnd
CHECK_DEADLOCK FALSE
