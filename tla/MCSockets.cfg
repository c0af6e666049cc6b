SPECIFICATION Spec
CONSTANTS
  t1 = t1
  t2 = t2
  t3 = t3
  NULL = NULL
  Threads <- ThreeThreads
  MaxSockets = 4
  MAX_PORT = 1
  MaxPipes = 4
  Modes = {"SHUTDOWN_READ", "SHUTDOWN_WRITE", "SHUTDOWN_BOTH"}
  Orderly = TRUE
SYMMETRY ThreadSymmetry
INVARIANTS
  SocketInvariant
  NoStaleRequest
  NobodyForgotten
CHECK_DEADLOCK FALSE
