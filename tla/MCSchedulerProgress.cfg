SPECIFICATION ProgressSpec
CONSTANTS
  t1 = t1
  t2 = t2
  t3 = t3
  c0 = c0
  c1 = c1
  NULL = NULL
  Threads <- ThreeThreads
  Cores <- TwoCores
  Core0 = c0
  HasTerminal = FALSE
  SlowHalt = FALSE
  QUEUES = 2
  BOOST_THRESHOLD = 2
  Timeouts = {1}
PROPERTIES
  ReadyRuns
  TimedSleepEnds
  MachineStops
