SPECIFICATION Spec
CONSTANTS
  t1 = t1
  t2 = t2
  t3 = t3
  NULL = NULL
  Threads <- TwoThreads
  Data = {0, 1}
  PIPE_BUFFER_SIZE = 3
  Sizes = {1, 3}
  MaxWriters = 1
PROPERTIES
  StreamSpec
CHECK_DEADLOCK FALSE
