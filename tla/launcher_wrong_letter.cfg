SPECIFICATION FairSpec
CONSTANTS
  LetterA = LetterA
  LetterQ = LetterQ
  Letters <- MCLetters
  QuitLetter = LetterQ
  NoLetter = NoLetter
  NULL = NULL
  Addr = {n1, n2}
  Depth = 3
  UartRxSize = 10
  LenRange = 256
  Faults = {}
  MaxFaults = 1
  Overlap = TRUE
  EarlySignal = FALSE
  ThreadFails = FALSE
  ShortReads = FALSE
  MaxEvents = 3
  Signals = FALSE
INVARIANTS
  LaunchedIsRecognised
CHECK_DEADLOCK FALSE
