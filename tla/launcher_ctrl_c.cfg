SPECIFICATION FairSpec
CONSTANTS
  LetterA = LetterA
  LetterQ = LetterQ
  Letters <- MCLetters
  QuitLetter = LetterQ
  NoLetter = NoLetter
  NULL = NULL
  Addr = {n1, n2}
  Depth = 2
  UartRxSize = 10
  LenRange = 256
  Faults = {}
  MaxFaults = 1
  Overlap = TRUE
  EarlySignal = TRUE
  ThreadFails = FALSE
  ShortReads = FALSE
  MaxEvents = 0
  Signals = TRUE
PROPERTIES
  QuitTerminates
CHECK_DEADLOCK FALSE
