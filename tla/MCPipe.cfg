SPECIFICATION FairSpec
CONSTANTS
  t1 = t1
  t2 = t2
  t3 = t3
  NULL = NULL
  Threads <- ThreeThreads
  Data = {0, 1}
  PIPE_BUFFER_SIZE = 4
  Sizes = {1, 3}
  MaxWriters = 1
INVARIANTS
  PipeInvariant
PROPERTIES
  OverwritingStream
  CloseEndsReads
CHECK_DEADLOCK FALSE
