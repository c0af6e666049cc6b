SPECIFICATION Spec
CONSTANTS
  t1 = t1
  t2 = t2
  t3 = t3
  t4 = t4
  NULL = NULL
  MAX_PROC = 4
  Tids <- FourTids
  OneReaperPerChild = FALSE
  LastInitThreadCallsExit = TRUE
  Listing = FALSE
SYMMETRY TidSymmetry
PROPERTIES
  ReapsExitedChild
CHECK_DEADLOCK FALSE
