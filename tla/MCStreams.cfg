SPECIFICATION Spec
CONSTANTS
  p1 = p1
  p2 = p2
  t1 = t1
  t2 = t2
  t3 = t3
  o1 = o1
  o2 = o2
  o3 = o3
  o4 = o4
  NULL = NULL
  Pids <- TwoPids
  Tids <- ThreeTids
  Objects <- FourObjects
  InitPid = p1
  InitTid = t1
  MAX_FILEID = 2
  MAX_FILES = 3
SYMMETRY Symmetry
INVARIANTS
  StreamInvariant
CHECK_DEADLOCK FALSE
