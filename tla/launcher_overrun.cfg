SPECIFICATION FairSpec
CONSTANTS
  LetterA = LetterA
  LetterQ = LetterQ
  Letters <- MCLetters
  QuitLetter = LetterQ
  NoLetter = NoLetter
  NULL = NULL
  Addr = {n1, n2, n3}
  Depth = 3
  UartRxSize = 10
  LenRange = 256
  Faults = {"drop"}
  MaxFaults = 1
  Overlap = FALSE
  EarlySignal = FALSE
  ThreadFails = FALSE
  ShortReads = FALSE
  MaxEvents = 6
  Signals = FALSE
INVARIANTS
  TouchInBounds
CHECK_DEADLOCK FALSE
