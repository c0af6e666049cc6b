SPECIFICATION FairSpec
CONSTANTS
  t1 = t1
  t2 = t2
  t3 = t3
  t4 = t4
  NULL = NULL
  MAX_PROC = 5
  Tids <- ThreeTids
  OneReaperPerChild = TRUE
  LastInitThreadCallsExit = TRUE
  Listing = TRUE
INVARIANTS
  TreeInvariant
  NoMissedWakeup
  ListingComplete
PROPERTIES
  ReapsExitedChild
  InitEnds
CHECK_DEADLOCK FALSE
