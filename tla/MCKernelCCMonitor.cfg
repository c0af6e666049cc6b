SPECIFICATION Spec
CONSTANTS
  t1 = t1
  t2 = t2
  t3 = t3
  kcv = kcv
  ucv = ucv
  NULL = NULL
  SemCV = kernel_sem_cv
  Threads <- ThreeThreads
  KernelCVs <- OneKernelCV
  UserCVs <- NoCV
SYMMETRY ThreadSymmetry
INVARIANTS
  CCInvariant
PROPERTIES
  SignalReachesSleeper
  MonitorSpec
CHECK_DEADLOCK FALSE
