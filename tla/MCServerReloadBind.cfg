\* handleSignals: "handles SIGHUP for configuration reload while keeping the
\* server running".  One port, no other program on it.
SPECIFICATION Spec
CONSTANTS
  MaxGens = 2
  Ports = {p22}
  InitPort = p22
  Conns = {c1}
CHECK_DEADLOCK FALSE
INVARIANT ReloadKeepsServerRunning
