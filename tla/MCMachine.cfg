SPECIFICATION Spec
CONSTANTS
  c1 = c1
  c2 = c2
  m1 = m1
  m2 = m2
  m3 = m3
  N = 4
  Bites = 2
  MaxChildren = 3
  Members <- ThreeMembers
  Rounds = 3
  EPOCHS = 2
  Clients <- TwoClients
  MaxSockets = 2
  EagerConsole = FALSE
  MAX_FILEID = 9
  MaxFragments = 3
  MaxBytes = 1
  PipeSize = 1
  PatientReaders = TRUE
  MaxTerms = 2
  Tests = 2
  Configs = 2
  LateAlarm = FALSE
  NCORES = 2
  ConSize = 1
  KbdSize = 1
  K = 2
  SlowDaemon = FALSE
  Heads <- TwoHeads
  Items <- ThreeItems
  Chosen <- SomeItems
  MaxFrames = 3
  MaxHandlers = 2
INVARIANTS
  TableInvariant
  BarrierInvariant
  ServerInvariant
  PipelineInvariant
  InitTaskInvariant
  VerdictSound
  VMInvariant
  ExpectsMet
  ListInvariant
  ExceptionInvariant
CHECK_DEADLOCK FALSE
PROPERTIES
  ProgramsEnd
  
