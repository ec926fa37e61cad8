\* Two scripts that may not kill the splash.  The system may stop: a splash
\* waits for a QUIT nobody has to send.
SPECIFICATION Spec
CONSTANTS
  Scripts = {s1, s2}
  Root = {}
  NoScreen = FALSE
  FifoFails = FALSE
  MaxSignals = 0
PROPERTIES
  StoppedByQuit
CHECK_DEADLOCK FALSE
