\* Root's script and the weston user's, one signal, perhaps no screen.  The
\* system may stop: a splash waits for a QUIT nobody has to send.
SPECIFICATION Spec
CONSTANTS
  Scripts = {s1, s2}
  Root = {s1}
  NoScreen = TRUE
  FifoFails = TRUE
  MaxSignals = 1
INVARIANTS
  TypeOK
  StaysUntilQuit
  LeavesNothing
PROPERTIES
  QuitEnds
  SignalEnds
  ScriptServed
CHECK_DEADLOCK FALSE
