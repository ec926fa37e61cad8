SPECIFICATION FairSpec
CONSTANTS
  LetterA = LetterA
  LetterQ = LetterQ
  Letters = {LetterQ}
  QuitLetter = LetterQ
  NoLetter = NoLetter
  NULL = NULL
  Addr = {n1, n2}
  Depth = 2
  UartRxSize = 10
  LenRange = 256
  Faults = {"late", "nack"}
  MaxFaults = 1
  Overlap = TRUE
  EarlySignal = FALSE
  ThreadFails = TRUE
  ShortReads = TRUE
  MaxEvents = 3
  Signals = TRUE
INVARIANTS
  TypeOK
  StartNeedsAck
PROPERTIES
  PauseIsServed
  QuitTerminates
CHECK_DEADLOCK FALSE
