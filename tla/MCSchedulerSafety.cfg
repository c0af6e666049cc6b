SPECIFICATION Spec
CONSTANTS
  t1 = t1
  t2 = t2
  t3 = t3
  c0 = c0
  c1 = c1
  NULL = NULL
  Threads <- TwoThreads
  Cores <- TwoCores
  Core0 = c0
  HasTerminal = TRUE
  SlowHalt = TRUE
  QUEUES = 3
  BOOST_THRESHOLD = 2
  Timeouts = {1}
SYMMETRY ThreadSymmetry
INVARIANTS
  TypeOK
  QueueInvariant
  QueuedOnce
  StackExclusive
  TimeoutListInvariant
  NoThreadLeftBehind
PROPERTIES
  LegalTransitions
CHECK_DEADLOCK FALSE
