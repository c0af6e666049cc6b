SPECIFICATION FairSpec
CONSTANTS
  t1 = t1
  t2 = t2
  t3 = t3
  kcv = kcv
  ucv = ucv
  NULL = NULL
  SemCV = kernel_sem_cv
  Threads <- TwoThreads
  KernelCVs <- OneKernelCV
  UserCVs <- OneUserCV
PROPERTIES
  SignalReachesSleeper
  KernelEntered
CHECK_DEADLOCK FALSE
