--------------------------- MODULE KernelCCProofs ---------------------------
(***************************************************************************)
(* Proofs about concurrency control, for any number of threads and of      *)
(* condition variables of the kernel and of user programs.                 *)
(***************************************************************************)
EXTENDS KernelCC, ListLemmas, TLAPS

-----------------------------------------------------------------------------
(* The inductive invariant.                                                *)

Signalling(t) == pc[t] \in {"siglock", "siglocked"}

(* t is between the Mutex_Lock and the Mutex_Unlock of m.                  *)
HoldsMutex(t, m) ==
  IF m = "kernel_mutex"
  THEN \/ pc[t] \in {"sem", "kreleased"}
       \/ Signalling(t) /\ sig[t].then = "kreleased"
       \/ pc[t] \in {"cvlock", "cvqueued"} /\ wait[t].cv \notin UserCVs
  ELSE \/ pc[t] = "umon"
       \/ Signalling(t) /\ sig[t].then = "umon"
       \/ pc[t] \in {"cvlock", "cvqueued"} /\ wait[t].cv \in UserCVs

(* Mutual exclusion of the critical sections of both mutexes.              *)
MutexesHeld == \A t \in Threads, m \in Mutexes : HoldsMutex(t, m) => mutex[m] = t

HoldsRing(t, cv) ==
  \/ pc[t] \in {"cvqueued", "cvsleep"} /\ wait[t].cv = cv
  \/ pc[t] = "siglocked" /\ sig[t].cv = cv

RingsHeld == \A t \in Threads, cv \in CVs : HoldsRing(t, cv) => waitset_lock[cv] = t

StatesPlaced == \A t \in Threads : state[t] = "STOPPED" => pc[t] = "cvslept"

Ring(cv) == ToSet(waitset[cv])

(* The first two parts of RingInvariant.                                   *)
RingsSound ==
  \A cv \in CVs :
    /\ IsInjective(waitset[cv])
    /\ \A w \in Ring(cv) :
         /\ wait[w].cv = cv /\ pc[w] \in {"cvqueued", "cvsleep", "cvslept"}
         /\ ~ removed[w]

(* Its third part, from the moment the waiter enters the ring.             *)
InCvWait(t) ==
  \/ pc[t] \in {"cvqueued", "cvsleep"}
  \/ pc[t] = "cvslept" /\ state[t] = "STOPPED"

SleepersInRing == \A t \in Threads : InCvWait(t) => t \in Ring(wait[t].cv)

(* Who goes to sleep on kernel_sem_cv saw the semaphore taken, and it      *)
(* stays so until the mutex is released.                                   *)
SemSeenTaken ==
  \A t \in Threads : pc[t] \in {"cvlock", "cvqueued"} /\ wait[t].cv = SemCV => kernel_sem = 0

(* kernel_wait keeps its arguments while it gives up the semaphore.        *)
WaitArguments ==
  \A t \in Threads :
    /\ op[t] = "wait"
    /\ pc[t] \in {"krelease", "kreleased"} \/ (Signalling(t) /\ sig[t].then = "kreleased")
    => wait[t].cv \in KernelCVs

IInv ==
  /\ TypeOK /\ MutexesHeld /\ RingsHeld /\ StatesPlaced /\ RingsSound /\ SleepersInRing
  /\ SemSeenTaken /\ WaitArguments /\ KernelExclusion /\ SemaphoreNotLost

(* The waiters of a condition variable are threads.                        *)
LEMMA RingType == TypeOK => \A cv \in CVs : Ring(cv) \subseteq Threads
  BY LenProperties DEF TypeOK, Ring, ToSet

(* The inductive invariant implies the property the run checks.            *)
LEMMA IInvSound == IInv => CCInvariant
<1> SUFFICES ASSUME IInv PROVE RingInvariant
  BY DEF IInv, CCInvariant, SemaphoreInvariant
<1>1. ASSUME NEW cv \in CVs, NEW t \in Threads, Sleeping(t, cv) PROVE Contains(waitset[cv], t)
  <2>1. waitset[cv] \in Seq(Threads) /\ t \in Ring(cv)
    BY <1>1 DEF IInv, TypeOK, SleepersInRing, InCvWait, Sleeping
  <2> QED BY <2>1, ContainsElement DEF Ring
<1> QED BY <1>1 DEF IInv, RingsSound, RingInvariant, Ring

(* The inductive invariant holds initially.                                *)
LEMMA InitIInv == Init => IInv
<1> SUFFICES ASSUME Init PROVE IInv
  OBVIOUS
<1> USE DEF Init
<1>1. TypeOK
  BY DEF TypeOK, WaitArgs, SigArgs, Places, CVs
<1>2. MutexesHeld /\ RingsHeld /\ StatesPlaced
  BY DEF MutexesHeld, HoldsMutex, Signalling, RingsHeld, HoldsRing, StatesPlaced
<1>3. RingsSound /\ SleepersInRing
  BY DEF RingsSound, SleepersInRing, InCvWait, Ring, ToSet, IsInjective
<1>4. SemSeenTaken /\ WaitArguments
  BY DEF SemSeenTaken, WaitArguments, Signalling
<1>5. KernelExclusion /\ SemaphoreNotLost
  BY DEF KernelExclusion, SemaphoreNotLost, Inside, Sleeping
<1> QED BY <1>1, <1>2, <1>3, <1>4, <1>5 DEF IInv

-----------------------------------------------------------------------------
(* One lemma per action: first the calls, which leave the locks and the    *)
(* rings alone.                                                            *)

(* The step KernelLock keeps the inductive invariant.                      *)
LEMMA KernelLockInv ==
  ASSUME IInv, NEW t \in Threads, KernelLock(t)
  PROVE  IInv'
<1> USE DEF IInv, KernelLock, Goto, ringVars
<1>1. TypeOK'
  BY DEF TypeOK, WaitArgs, SigArgs, Places, CVs, Mutexes
<1>2. MutexesHeld'
  BY CCAssumption DEF TypeOK, MutexesHeld, HoldsMutex, Signalling, WaitArgs, SigArgs
<1>3. RingsHeld' /\ StatesPlaced'
  BY CCAssumption DEF TypeOK, RingsHeld, HoldsRing, StatesPlaced, WaitArgs, SigArgs
<1>4. RingsSound'
  BY DEF TypeOK, RingsSound, Ring, WaitArgs, SigArgs
<1>5. SleepersInRing'
  BY DEF TypeOK, SleepersInRing, InCvWait, Ring, WaitArgs, SigArgs
<1>6. SemSeenTaken' /\ WaitArguments'
  BY CCAssumption DEF TypeOK, SemSeenTaken, WaitArguments, Signalling, WaitArgs, SigArgs
<1>7. KernelExclusion'
  <2>1. kernel_sem' = kernel_sem /\ \A u \in Threads : Inside(u)' <=> Inside(u)
    BY CCAssumption DEF TypeOK, Inside, WaitArgs, SigArgs
  <2> QED BY <2>1 DEF KernelExclusion
<1>8. SemaphoreNotLost'
  BY CCAssumption DEF TypeOK, SemaphoreNotLost, Coming, Sleeping, WaitArgs, SigArgs
<1> QED BY <1>1, <1>2, <1>3, <1>4, <1>5, <1>6, <1>7, <1>8

(* The step KernelSignal keeps the inductive invariant.                    *)
LEMMA KernelSignalInv ==
  ASSUME IInv, NEW t \in Threads, NEW cv \in KernelCVs, NEW b \in BOOLEAN, KernelSignal(t, cv, b)
  PROVE  IInv'
<1> USE DEF IInv, KernelSignal, CallSignal, Goto, ringVars
<1>1. TypeOK'
  BY DEF TypeOK, WaitArgs, SigArgs, Places, CVs, Mutexes
<1>2. MutexesHeld'
  BY CCAssumption DEF TypeOK, MutexesHeld, HoldsMutex, Signalling, WaitArgs, SigArgs
<1>3. RingsHeld' /\ StatesPlaced'
  BY CCAssumption DEF TypeOK, RingsHeld, HoldsRing, StatesPlaced, WaitArgs, SigArgs
<1>4. RingsSound'
  BY DEF TypeOK, RingsSound, Ring, WaitArgs, SigArgs
<1>5. SleepersInRing'
  BY DEF TypeOK, SleepersInRing, InCvWait, Ring, WaitArgs, SigArgs
<1>6. SemSeenTaken' /\ WaitArguments'
  BY CCAssumption DEF TypeOK, SemSeenTaken, WaitArguments, Signalling, WaitArgs, SigArgs
<1>7. KernelExclusion'
  <2>1. kernel_sem' = kernel_sem /\ \A u \in Threads : Inside(u)' <=> Inside(u)
    BY CCAssumption DEF TypeOK, Inside, WaitArgs, SigArgs
  <2> QED BY <2>1 DEF KernelExclusion
<1>8. SemaphoreNotLost'
  BY CCAssumption DEF TypeOK, SemaphoreNotLost, Coming, Sleeping, WaitArgs, SigArgs
<1> QED BY <1>1, <1>2, <1>3, <1>4, <1>5, <1>6, <1>7, <1>8

(* The step KernelRelease keeps the inductive invariant.                   *)
LEMMA KernelReleaseInv ==
  ASSUME IInv, NEW t \in Threads, NEW operation \in {"wait", "unlock", "sleep"}, NEW cv \in CVs, NEW b \in BOOLEAN,
         operation = "wait" => cv \in KernelCVs, KernelRelease(t, operation, cv, b)
  PROVE  IInv'
<1> USE DEF IInv, KernelRelease, Goto, ringVars
<1>1. TypeOK'
  BY DEF TypeOK, WaitArgs, SigArgs, Places, CVs, Mutexes
<1>2. MutexesHeld'
  BY CCAssumption DEF TypeOK, MutexesHeld, HoldsMutex, Signalling, WaitArgs, SigArgs
<1>3. RingsHeld' /\ StatesPlaced'
  BY CCAssumption DEF TypeOK, RingsHeld, HoldsRing, StatesPlaced, WaitArgs, SigArgs
<1>4. RingsSound'
  BY DEF TypeOK, RingsSound, Ring, WaitArgs, SigArgs
<1>5. SleepersInRing'
  BY DEF TypeOK, SleepersInRing, InCvWait, Ring, WaitArgs, SigArgs
<1>6. SemSeenTaken' /\ WaitArguments'
  BY CCAssumption DEF TypeOK, SemSeenTaken, WaitArguments, Signalling, WaitArgs, SigArgs
<1>7. KernelExclusion'
  <2>1. kernel_sem' = kernel_sem /\ \A u \in Threads : Inside(u)' <=> Inside(u)
    BY CCAssumption DEF TypeOK, Inside, WaitArgs, SigArgs
  <2> QED BY <2>1 DEF KernelExclusion
<1>8. SemaphoreNotLost'
  BY CCAssumption DEF TypeOK, SemaphoreNotLost, Coming, Sleeping, WaitArgs, SigArgs
<1> QED BY <1>1, <1>2, <1>3, <1>4, <1>5, <1>6, <1>7, <1>8

(* The step SemWait keeps the inductive invariant.                         *)
LEMMA SemWaitInv ==
  ASSUME IInv, NEW t \in Threads, SemWait(t)
  PROVE  IInv'
<1> USE DEF IInv, SemWait, SemFree, CallWait, Goto, ringVars
<1>1. TypeOK'
  BY DEF TypeOK, WaitArgs, SigArgs, Places, CVs, Mutexes
<1>2. MutexesHeld'
  BY CCAssumption DEF TypeOK, MutexesHeld, HoldsMutex, Signalling, WaitArgs, SigArgs
<1>3. RingsHeld' /\ StatesPlaced'
  BY CCAssumption DEF TypeOK, RingsHeld, HoldsRing, StatesPlaced, WaitArgs, SigArgs
<1>4. RingsSound'
  BY DEF TypeOK, RingsSound, Ring, WaitArgs, SigArgs
<1>5. SleepersInRing'
  BY DEF TypeOK, SleepersInRing, InCvWait, Ring, WaitArgs, SigArgs
<1>6. SemSeenTaken' /\ WaitArguments'
  BY CCAssumption DEF TypeOK, SemSeenTaken, WaitArguments, Signalling, WaitArgs, SigArgs
<1>7. KernelExclusion'
  <2>1. kernel_sem' = kernel_sem /\ \A u \in Threads : Inside(u)' <=> Inside(u)
    BY CCAssumption DEF TypeOK, Inside, WaitArgs, SigArgs
  <2> QED BY <2>1 DEF KernelExclusion
<1>8. SemaphoreNotLost'
  BY CCAssumption DEF TypeOK, SemaphoreNotLost, Coming, Sleeping, WaitArgs, SigArgs
<1> QED BY <1>1, <1>2, <1>3, <1>4, <1>5, <1>6, <1>7, <1>8

(* The step UserWait keeps the inductive invariant.                        *)
LEMMA UserWaitInv ==
  ASSUME IInv, NEW t \in Threads, NEW cv \in UserCVs, NEW b \in BOOLEAN, UserWait(t, cv, b)
  PROVE  IInv'
<1> USE DEF IInv, UserWait, CallWait, Goto, ringVars
<1>1. TypeOK'
  BY DEF TypeOK, WaitArgs, SigArgs, Places, CVs, Mutexes
<1>2. MutexesHeld'
  BY CCAssumption DEF TypeOK, MutexesHeld, HoldsMutex, Signalling, WaitArgs, SigArgs
<1>3. RingsHeld' /\ StatesPlaced'
  BY CCAssumption DEF TypeOK, RingsHeld, HoldsRing, StatesPlaced, WaitArgs, SigArgs
<1>4. RingsSound'
  BY DEF TypeOK, RingsSound, Ring, WaitArgs, SigArgs
<1>5. SleepersInRing'
  BY DEF TypeOK, SleepersInRing, InCvWait, Ring, WaitArgs, SigArgs
<1>6. SemSeenTaken' /\ WaitArguments'
  BY CCAssumption DEF TypeOK, SemSeenTaken, WaitArguments, Signalling, WaitArgs, SigArgs
<1>7. KernelExclusion'
  <2>1. kernel_sem' = kernel_sem /\ \A u \in Threads : Inside(u)' <=> Inside(u)
    BY CCAssumption DEF TypeOK, Inside, WaitArgs, SigArgs
  <2> QED BY <2>1 DEF KernelExclusion
<1>8. SemaphoreNotLost'
  BY CCAssumption DEF TypeOK, SemaphoreNotLost, Coming, Sleeping, WaitArgs, SigArgs
<1> QED BY <1>1, <1>2, <1>3, <1>4, <1>5, <1>6, <1>7, <1>8

(* The step UserSignal keeps the inductive invariant.                      *)
LEMMA UserSignalInv ==
  ASSUME IInv, NEW t \in Threads, NEW cv \in UserCVs, NEW b \in BOOLEAN, UserSignal(t, cv, b)
  PROVE  IInv'
<1> USE DEF IInv, UserSignal, CallSignal, Goto, ringVars
<1>1. TypeOK'
  BY DEF TypeOK, WaitArgs, SigArgs, Places, CVs, Mutexes
<1>2. MutexesHeld'
  BY CCAssumption DEF TypeOK, MutexesHeld, HoldsMutex, Signalling, WaitArgs, SigArgs
<1>3. RingsHeld' /\ StatesPlaced'
  BY CCAssumption DEF TypeOK, RingsHeld, HoldsRing, StatesPlaced, WaitArgs, SigArgs
<1>4. RingsSound'
  BY DEF TypeOK, RingsSound, Ring, WaitArgs, SigArgs
<1>5. SleepersInRing'
  BY DEF TypeOK, SleepersInRing, InCvWait, Ring, WaitArgs, SigArgs
<1>6. SemSeenTaken' /\ WaitArguments'
  BY CCAssumption DEF TypeOK, SemSeenTaken, WaitArguments, Signalling, WaitArgs, SigArgs
<1>7. KernelExclusion'
  <2>1. kernel_sem' = kernel_sem /\ \A u \in Threads : Inside(u)' <=> Inside(u)
    BY CCAssumption DEF TypeOK, Inside, WaitArgs, SigArgs
  <2> QED BY <2>1 DEF KernelExclusion
<1>8. SemaphoreNotLost'
  BY CCAssumption DEF TypeOK, SemaphoreNotLost, Coming, Sleeping, WaitArgs, SigArgs
<1> QED BY <1>1, <1>2, <1>3, <1>4, <1>5, <1>6, <1>7, <1>8

-----------------------------------------------------------------------------
(* Locking and unlocking the mutexes.                                      *)

(* The step KLock keeps the inductive invariant.                           *)
LEMMA KLockInv ==
  ASSUME IInv, NEW t \in Threads, KLock(t)
  PROVE  IInv'
<1> USE DEF IInv, KLock, Mutex_Lock, Goto, ringVars
<1>1. TypeOK'
  BY DEF TypeOK, WaitArgs, SigArgs, Places, CVs, Mutexes
<1>2. MutexesHeld'
  BY CCAssumption DEF TypeOK, MutexesHeld, HoldsMutex, Signalling, WaitArgs, SigArgs
<1>3. RingsHeld' /\ StatesPlaced'
  BY CCAssumption DEF TypeOK, RingsHeld, HoldsRing, StatesPlaced, WaitArgs, SigArgs
<1>4. RingsSound'
  BY DEF TypeOK, RingsSound, Ring, WaitArgs, SigArgs
<1>5. SleepersInRing'
  BY DEF TypeOK, SleepersInRing, InCvWait, Ring, WaitArgs, SigArgs
<1>6. SemSeenTaken' /\ WaitArguments'
  BY CCAssumption DEF TypeOK, SemSeenTaken, WaitArguments, Signalling, WaitArgs, SigArgs
<1>7. KernelExclusion'
  <2>1. kernel_sem' = kernel_sem /\ \A u \in Threads : Inside(u)' <=> Inside(u)
    BY CCAssumption DEF TypeOK, Inside, WaitArgs, SigArgs
  <2> QED BY <2>1 DEF KernelExclusion
<1>8. SemaphoreNotLost'
  BY CCAssumption DEF TypeOK, SemaphoreNotLost, Coming, Sleeping, WaitArgs, SigArgs
<1> QED BY <1>1, <1>2, <1>3, <1>4, <1>5, <1>6, <1>7, <1>8

(* The step UserLock keeps the inductive invariant.                        *)
LEMMA UserLockInv ==
  ASSUME IInv, NEW t \in Threads, UserLock(t)
  PROVE  IInv'
<1> USE DEF IInv, UserLock, Mutex_Lock, Goto, ringVars
<1>1. TypeOK'
  BY DEF TypeOK, WaitArgs, SigArgs, Places, CVs, Mutexes
<1>2. MutexesHeld'
  <2>1. \A u \in Threads, m \in Mutexes : u # t => (HoldsMutex(u, m)' <=> HoldsMutex(u, m))
    BY DEF TypeOK, HoldsMutex, Signalling
  <2>2. \A m \in Mutexes : HoldsMutex(t, m)' => mutex'[m] = t
    BY DEF TypeOK, HoldsMutex, Signalling, MutexesHeld, Mutexes
  <2>3. \A u \in Threads, m \in Mutexes : u # t /\ mutex[m] = u => mutex'[m] = u
    BY CCAssumption DEF TypeOK, Mutexes, MutexesHeld, HoldsMutex
  <2> QED BY <2>1, <2>2, <2>3 DEF MutexesHeld
<1>3. RingsHeld' /\ StatesPlaced'
  BY CCAssumption DEF TypeOK, RingsHeld, HoldsRing, StatesPlaced, WaitArgs, SigArgs
<1>4. RingsSound'
  BY DEF TypeOK, RingsSound, Ring, WaitArgs, SigArgs
<1>5. SleepersInRing'
  BY DEF TypeOK, SleepersInRing, InCvWait, Ring, WaitArgs, SigArgs
<1>6. SemSeenTaken' /\ WaitArguments'
  BY CCAssumption DEF TypeOK, SemSeenTaken, WaitArguments, Signalling, WaitArgs, SigArgs
<1>7. KernelExclusion'
  <2>1. kernel_sem' = kernel_sem /\ \A u \in Threads : Inside(u)' <=> Inside(u)
    BY CCAssumption DEF TypeOK, Inside, WaitArgs, SigArgs
  <2> QED BY <2>1 DEF KernelExclusion
<1>8. SemaphoreNotLost'
  BY CCAssumption DEF TypeOK, SemaphoreNotLost, Coming, Sleeping, WaitArgs, SigArgs
<1> QED BY <1>1, <1>2, <1>3, <1>4, <1>5, <1>6, <1>7, <1>8

(* The step UserUnlock keeps the inductive invariant.                      *)
LEMMA UserUnlockInv ==
  ASSUME IInv, NEW t \in Threads, UserUnlock(t)
  PROVE  IInv'
<1> USE DEF IInv, UserUnlock, Mutex_Unlock, Goto, ringVars
<1>1. TypeOK'
  BY DEF TypeOK, WaitArgs, SigArgs, Places, CVs, Mutexes
<1>2. MutexesHeld'
  BY CCAssumption DEF TypeOK, MutexesHeld, HoldsMutex, Signalling, WaitArgs, SigArgs
<1>3. RingsHeld' /\ StatesPlaced'
  BY CCAssumption DEF TypeOK, RingsHeld, HoldsRing, StatesPlaced, WaitArgs, SigArgs
<1>4. RingsSound'
  BY DEF TypeOK, RingsSound, Ring, WaitArgs, SigArgs
<1>5. SleepersInRing'
  BY DEF TypeOK, SleepersInRing, InCvWait, Ring, WaitArgs, SigArgs
<1>6. SemSeenTaken' /\ WaitArguments'
  BY CCAssumption DEF TypeOK, SemSeenTaken, WaitArguments, Signalling, WaitArgs, SigArgs
<1>7. KernelExclusion'
  <2>1. kernel_sem' = kernel_sem /\ \A u \in Threads : Inside(u)' <=> Inside(u)
    BY CCAssumption DEF TypeOK, Inside, WaitArgs, SigArgs
  <2> QED BY <2>1 DEF KernelExclusion
<1>8. SemaphoreNotLost'
  BY CCAssumption DEF TypeOK, SemaphoreNotLost, Coming, Sleeping, WaitArgs, SigArgs
<1> QED BY <1>1, <1>2, <1>3, <1>4, <1>5, <1>6, <1>7, <1>8

(* The step CvRelock keeps the inductive invariant.                        *)
LEMMA CvRelockInv ==
  ASSUME IInv, NEW t \in Threads, CvRelock(t)
  PROVE  IInv'
<1> USE DEF IInv, CvRelock, Mutex_Lock, Goto, ringVars, MutexOf
<1>1. TypeOK'
  BY DEF TypeOK, WaitArgs, SigArgs, Places, CVs, Mutexes
<1>2. MutexesHeld'
  <2>1. \A u \in Threads, m \in Mutexes : u # t => (HoldsMutex(u, m)' <=> HoldsMutex(u, m))
    BY DEF TypeOK, HoldsMutex, Signalling
  <2>2. \A m \in Mutexes : HoldsMutex(t, m)' => mutex'[m] = t
    BY DEF TypeOK, HoldsMutex, Signalling, MutexesHeld, Mutexes
  <2>3. \A u \in Threads, m \in Mutexes : u # t /\ mutex[m] = u => mutex'[m] = u
    BY CCAssumption DEF TypeOK, Mutexes, MutexesHeld, HoldsMutex
  <2> QED BY <2>1, <2>2, <2>3 DEF MutexesHeld
<1>3. RingsHeld' /\ StatesPlaced'
  BY CCAssumption DEF TypeOK, RingsHeld, HoldsRing, StatesPlaced, WaitArgs, SigArgs
<1>4. RingsSound'
  BY DEF TypeOK, RingsSound, Ring, WaitArgs, SigArgs
<1>5. SleepersInRing'
  BY DEF TypeOK, SleepersInRing, InCvWait, Ring, WaitArgs, SigArgs
<1>6. SemSeenTaken' /\ WaitArguments'
  BY CCAssumption DEF TypeOK, SemSeenTaken, WaitArguments, Signalling, WaitArgs, SigArgs
<1>7. KernelExclusion'
  <2>1. kernel_sem' = kernel_sem /\ \A u \in Threads : Inside(u)' <=> Inside(u)
    BY CCAssumption DEF TypeOK, Inside, WaitArgs, SigArgs
  <2> QED BY <2>1 DEF KernelExclusion
<1>8. SemaphoreNotLost'
  BY CCAssumption DEF TypeOK, SemaphoreNotLost, Coming, Sleeping, WaitArgs, SigArgs
<1> QED BY <1>1, <1>2, <1>3, <1>4, <1>5, <1>6, <1>7, <1>8

(* The semaphore is taken: it was 1, so nobody was inside.                 *)
LEMMA SemTakeInv ==
  ASSUME IInv, NEW t \in Threads, SemTake(t)
  PROVE  IInv'
<1> USE DEF IInv, SemTake, SemFree, Mutex_Unlock, Goto, ringVars
<1>1. TypeOK'
  <2>1. kernel_sem' \in {0, 1}
    BY DEF TypeOK
  <2> QED BY <2>1 DEF TypeOK, Places, Mutexes
<1>2. MutexesHeld'
  BY CCAssumption DEF TypeOK, MutexesHeld, HoldsMutex, Signalling, WaitArgs, SigArgs
<1>3. RingsHeld' /\ StatesPlaced'
  BY CCAssumption DEF TypeOK, RingsHeld, HoldsRing, StatesPlaced, WaitArgs, SigArgs
<1>4. RingsSound'
  BY DEF TypeOK, RingsSound, Ring, WaitArgs, SigArgs
<1>5. SleepersInRing'
  BY DEF TypeOK, SleepersInRing, InCvWait, Ring, WaitArgs, SigArgs
<1>6. SemSeenTaken' /\ WaitArguments'
  BY CCAssumption DEF TypeOK, SemSeenTaken, WaitArguments, Signalling, WaitArgs, SigArgs
<1>7. KernelExclusion'
  <2>1. kernel_sem = 1 /\ kernel_sem' = 0 /\ \A u \in Threads : ~ Inside(u)
    BY DEF TypeOK, KernelExclusion
  <2>2. \A u \in Threads : Inside(u)' <=> u = t
    BY <2>1 DEF TypeOK, Inside, SigArgs
  <2> QED BY <2>2, <2>1 DEF KernelExclusion
<1>8. SemaphoreNotLost'
  BY CCAssumption DEF TypeOK, SemaphoreNotLost, Coming, Sleeping, WaitArgs, SigArgs
<1> QED BY <1>1, <1>2, <1>3, <1>4, <1>5, <1>6, <1>7, <1>8

(* The semaphore is given back: t was inside, and whoever saw it taken sleeps. *)
LEMMA KReleaseInv ==
  ASSUME IInv, NEW t \in Threads, KRelease(t)
  PROVE  IInv'
<1> USE DEF IInv, KRelease, SignalSem, CallSignal, Mutex_Lock, Goto, ringVars
<1>0. kernel_sem = 0 /\ \A u \in Threads : Inside(u) <=> u = t
  BY DEF TypeOK, KernelExclusion, Inside
<1>1. TypeOK'
  BY <1>0 DEF TypeOK, SigArgs, Places, CVs, Mutexes
<1>2. MutexesHeld'
  BY CCAssumption DEF TypeOK, MutexesHeld, HoldsMutex, Signalling, WaitArgs, SigArgs
<1>3. RingsHeld' /\ StatesPlaced'
  BY CCAssumption DEF TypeOK, RingsHeld, HoldsRing, StatesPlaced, WaitArgs, SigArgs
<1>4. RingsSound'
  BY DEF TypeOK, RingsSound, Ring, WaitArgs, SigArgs
<1>5. SleepersInRing'
  BY DEF TypeOK, SleepersInRing, InCvWait, Ring, WaitArgs, SigArgs
<1>6. SemSeenTaken' /\ WaitArguments'
  <2>1. \A u \in Threads : pc[u] \in {"cvlock", "cvqueued"} => wait[u].cv # SemCV
    BY CCAssumption DEF MutexesHeld, HoldsMutex, Mutexes
  <2>2. SemSeenTaken'
    BY <2>1 DEF TypeOK, SemSeenTaken
  <2>3. WaitArguments'
    BY DEF TypeOK, WaitArguments, Signalling, SigArgs
  <2> QED BY <2>2, <2>3
<1>7. KernelExclusion'
  <2>1. kernel_sem' = 1 /\ \A u \in Threads : ~ Inside(u)'
    BY <1>0 DEF TypeOK, Inside, SigArgs
  <2> QED BY <2>1 DEF KernelExclusion
<1>8. SemaphoreNotLost'
  BY CCAssumption DEF TypeOK, SemaphoreNotLost, Coming, Sleeping, WaitArgs, SigArgs
<1> QED BY <1>1, <1>2, <1>3, <1>4, <1>5, <1>6, <1>7, <1>8

(* The step KReleased keeps the inductive invariant.                       *)
LEMMA KReleasedInv ==
  ASSUME IInv, NEW t \in Threads, KReleased(t)
  PROVE  IInv'
<1> USE DEF IInv, KReleased, WaitReleased, UnlockReleased, SleepReleased, Mutex_Unlock, Goto
<1>1. TypeOK'
  <2>1. mutex' \in [Mutexes -> Threads \cup {NULL}]
    BY DEF TypeOK, Mutexes
  <2>2. pc' \in [Threads -> Places]
    <3>1. PICK place \in {"cvlock", "user", "gone"} : pc' = [pc EXCEPT ![t] = place]
      OBVIOUS
    <3> QED BY <3>1 DEF TypeOK, Places
  <2>3. state' \in [Threads -> {"awake", "STOPPED", "EXITED"}]
    BY DEF TypeOK
  <2> QED BY <2>1, <2>2, <2>3 DEF TypeOK
<1>2. MutexesHeld'
  <2>1. \A u \in Threads, m \in Mutexes : u # t => (HoldsMutex(u, m)' <=> HoldsMutex(u, m))
    BY DEF TypeOK, HoldsMutex, Signalling
  <2>2. \A m \in Mutexes : HoldsMutex(t, m)' => mutex'[m] = t
    <3>1. mutex["kernel_mutex"] = t
      BY DEF MutexesHeld, HoldsMutex, Mutexes
    <3>2. CASE op[t] = "wait"
      BY <3>1, <3>2, CCAssumption DEF TypeOK, HoldsMutex, Signalling, Mutexes, WaitArguments
    <3>3. CASE op[t] # "wait"
      BY <3>3 DEF TypeOK, HoldsMutex, Signalling
    <3> QED BY <3>2, <3>3
  <2>3. \A u \in Threads, m \in Mutexes : u # t /\ mutex[m] = u => mutex'[m] = u
    BY CCAssumption DEF TypeOK, Mutexes, MutexesHeld, HoldsMutex
  <2> QED BY <2>1, <2>2, <2>3 DEF MutexesHeld
<1>3. RingsHeld' /\ StatesPlaced'
  BY CCAssumption DEF TypeOK, RingsHeld, HoldsRing, StatesPlaced, WaitArgs, SigArgs
<1>4. RingsSound'
  <2>1. \A u \in Threads : u # t => pc'[u] = pc[u]
    BY DEF TypeOK
  <2>2. \A cv \in CVs : t \notin Ring(cv) /\ Ring(cv) \subseteq Threads
    BY RingType DEF RingsSound
  <2> QED BY <2>1, <2>2 DEF RingsSound, Ring
<1>5. SleepersInRing'
  BY DEF TypeOK, SleepersInRing, InCvWait, Ring, WaitArgs, SigArgs
<1>6. SemSeenTaken' /\ WaitArguments'
  BY CCAssumption DEF TypeOK, SemSeenTaken, WaitArguments, Signalling, WaitArgs, SigArgs
<1>7. KernelExclusion'
  <2>1. kernel_sem' = kernel_sem /\ \A u \in Threads : Inside(u)' <=> Inside(u)
    BY CCAssumption DEF TypeOK, Inside, WaitArgs, SigArgs
  <2> QED BY <2>1 DEF KernelExclusion
<1>8. SemaphoreNotLost'
  BY CCAssumption DEF TypeOK, SemaphoreNotLost, Coming, Sleeping, WaitArgs, SigArgs
<1> QED BY <1>1, <1>2, <1>3, <1>4, <1>5, <1>6, <1>7, <1>8

-----------------------------------------------------------------------------
(* The rings of waiters.                                                   *)

(* The waiter enters the ring: it was in none.                             *)
LEMMA CvLockInv ==
  ASSUME IInv, NEW t \in Threads, CvLock(t)
  PROVE  IInv'
<1> USE DEF IInv, CvLock, Goto
<1>0. /\ waitset' \in [CVs -> Seq(Threads)]
      /\ \A c \in CVs : /\ IsInjective(waitset'[c])
                        /\ Ring(c)' = IF c = wait[t].cv THEN Ring(c) \cup {t} ELSE Ring(c)
  <2>1. wait[t].cv \in CVs /\ waitset[wait[t].cv] \in Seq(Threads)
    BY DEF TypeOK, WaitArgs
  <2>2. t \notin Ring(wait[t].cv) /\ \A c \in CVs : IsInjective(waitset[c])
    BY <2>1 DEF RingsSound
  <2>3. waitset \in [CVs -> Seq(Threads)] /\ waitset' = [waitset EXCEPT ![wait[t].cv] = Append(@, t)]
    BY DEF TypeOK
  <2> HIDE DEF IInv, CvLock
  <2>4. LET a == Append(waitset[wait[t].cv], t)
        IN a \in Seq(Threads) /\ IsInjective(a) /\ ToSet(a) = Ring(wait[t].cv) \cup {t}
    BY <2>1, <2>2, AppendOnce DEF Ring
  <2> QED BY <2>1, <2>2, <2>3, <2>4 DEF Ring
<1>1. TypeOK'
  BY <1>0 DEF TypeOK, Places
<1>2. MutexesHeld'
  BY CCAssumption DEF TypeOK, MutexesHeld, HoldsMutex, Signalling, WaitArgs, SigArgs
<1>3. RingsHeld' /\ StatesPlaced'
  BY CCAssumption DEF TypeOK, RingsHeld, HoldsRing, StatesPlaced, WaitArgs, SigArgs
<1>4. RingsSound'
  BY <1>0 DEF TypeOK, RingsSound
<1>5. SleepersInRing'
  BY <1>0, ZenonT(40) DEF TypeOK, SleepersInRing, InCvWait, WaitArgs
<1>6. SemSeenTaken' /\ WaitArguments'
  BY CCAssumption DEF TypeOK, SemSeenTaken, WaitArguments, Signalling, WaitArgs, SigArgs
<1>7. KernelExclusion'
  <2>1. kernel_sem' = kernel_sem /\ \A u \in Threads : Inside(u)' <=> Inside(u)
    BY CCAssumption DEF TypeOK, Inside, WaitArgs, SigArgs
  <2> QED BY <2>1 DEF KernelExclusion
<1>8. SemaphoreNotLost'
  BY CCAssumption DEF TypeOK, SemaphoreNotLost, Coming, Sleeping, WaitArgs, SigArgs
<1> QED BY <1>1, <1>2, <1>3, <1>4, <1>5, <1>6, <1>7, <1>8

(* The step CvUnlock keeps the inductive invariant.                        *)
LEMMA CvUnlockInv ==
  ASSUME IInv, NEW t \in Threads, CvUnlock(t)
  PROVE  IInv'
<1> USE DEF IInv, CvUnlock, UnlockMutex, Mutex_Unlock, MutexOf, Goto
<1>1. TypeOK'
  BY DEF TypeOK, WaitArgs, SigArgs, Places, CVs, Mutexes
<1>2. MutexesHeld'
  BY CCAssumption DEF TypeOK, MutexesHeld, HoldsMutex, Signalling, WaitArgs, SigArgs
<1>3. RingsHeld' /\ StatesPlaced'
  BY CCAssumption DEF TypeOK, RingsHeld, HoldsRing, StatesPlaced, WaitArgs, SigArgs
<1>4. RingsSound'
  BY DEF TypeOK, RingsSound, Ring, WaitArgs, SigArgs
<1>5. SleepersInRing'
  BY DEF TypeOK, SleepersInRing, InCvWait, Ring, WaitArgs, SigArgs
<1>6. SemSeenTaken' /\ WaitArguments'
  BY CCAssumption DEF TypeOK, SemSeenTaken, WaitArguments, Signalling, WaitArgs, SigArgs
<1>7. KernelExclusion'
  <2>1. kernel_sem' = kernel_sem /\ \A u \in Threads : Inside(u)' <=> Inside(u)
    BY CCAssumption DEF TypeOK, Inside, WaitArgs, SigArgs
  <2> QED BY <2>1 DEF KernelExclusion
<1>8. SemaphoreNotLost'
  BY CCAssumption DEF TypeOK, SemaphoreNotLost, Coming, Sleeping, SemSeenTaken
<1> QED BY <1>1, <1>2, <1>3, <1>4, <1>5, <1>6, <1>7, <1>8

(* The step CvSleep keeps the inductive invariant.                         *)
LEMMA CvSleepInv ==
  ASSUME IInv, NEW t \in Threads, CvSleep(t)
  PROVE  IInv'
<1> USE DEF IInv, CvSleep, Goto
<1>1. TypeOK'
  BY DEF TypeOK, WaitArgs, SigArgs, Places, CVs, Mutexes
<1>2. MutexesHeld'
  BY CCAssumption DEF TypeOK, MutexesHeld, HoldsMutex, Signalling, WaitArgs, SigArgs
<1>3. RingsHeld' /\ StatesPlaced'
  BY CCAssumption DEF TypeOK, RingsHeld, HoldsRing, StatesPlaced, WaitArgs, SigArgs
<1>4. RingsSound'
  BY DEF TypeOK, RingsSound, Ring, WaitArgs, SigArgs
<1>5. SleepersInRing'
  BY DEF TypeOK, SleepersInRing, InCvWait, Ring, WaitArgs, SigArgs
<1>6. SemSeenTaken' /\ WaitArguments'
  BY CCAssumption DEF TypeOK, SemSeenTaken, WaitArguments, Signalling, WaitArgs, SigArgs
<1>7. KernelExclusion'
  <2>1. kernel_sem' = kernel_sem /\ \A u \in Threads : Inside(u)' <=> Inside(u)
    BY CCAssumption DEF TypeOK, Inside, WaitArgs, SigArgs
  <2> QED BY <2>1 DEF KernelExclusion
<1>8. SemaphoreNotLost'
  BY CCAssumption DEF TypeOK, SemaphoreNotLost, Coming, Sleeping, WaitArgs, SigArgs
<1> QED BY <1>1, <1>2, <1>3, <1>4, <1>5, <1>6, <1>7, <1>8

(* The step TimeoutExpires keeps the inductive invariant.                  *)
LEMMA TimeoutExpiresInv ==
  ASSUME IInv, NEW t \in Threads, TimeoutExpires(t)
  PROVE  IInv'
<1> USE DEF IInv, TimeoutExpires
<1>1. TypeOK'
  BY DEF TypeOK, WaitArgs, SigArgs, Places, CVs, Mutexes
<1>2. MutexesHeld'
  BY CCAssumption DEF TypeOK, MutexesHeld, HoldsMutex, Signalling, WaitArgs, SigArgs
<1>3. RingsHeld' /\ StatesPlaced'
  BY CCAssumption DEF TypeOK, RingsHeld, HoldsRing, StatesPlaced, WaitArgs, SigArgs
<1>4. RingsSound'
  BY DEF TypeOK, RingsSound, Ring, WaitArgs, SigArgs
<1>5. SleepersInRing'
  BY DEF TypeOK, SleepersInRing, InCvWait, Ring, WaitArgs, SigArgs
<1>6. SemSeenTaken' /\ WaitArguments'
  BY CCAssumption DEF TypeOK, SemSeenTaken, WaitArguments, Signalling, WaitArgs, SigArgs
<1>7. KernelExclusion'
  <2>1. kernel_sem' = kernel_sem /\ \A u \in Threads : Inside(u)' <=> Inside(u)
    BY CCAssumption DEF TypeOK, Inside, WaitArgs, SigArgs
  <2> QED BY <2>1 DEF KernelExclusion
<1>8. SemaphoreNotLost'
  BY CCAssumption DEF TypeOK, SemaphoreNotLost, Coming, Sleeping, WaitArgs, SigArgs
<1> QED BY <1>1, <1>2, <1>3, <1>4, <1>5, <1>6, <1>7, <1>8

(* The waiter leaves the ring, unless a signaller has taken it out.        *)
LEMMA CvWokenInv ==
  ASSUME IInv, NEW t \in Threads, CvWoken(t)
  PROVE  IInv'
<1> USE DEF IInv, CvWoken, Goto
<1>0. /\ waitset' \in [CVs -> Seq(Threads)]
      /\ \A c \in CVs : /\ IsInjective(waitset'[c])
                        /\ Ring(c)' = IF c = wait[t].cv THEN Ring(c) \ {t} ELSE Ring(c)
  <2>1. wait[t].cv \in CVs /\ waitset[wait[t].cv] \in Seq(Threads)
    BY DEF TypeOK, WaitArgs
  <2>2. \A c \in CVs : IsInjective(waitset[c])
    BY DEF RingsSound
  <2>3. CASE removed[t] /\ UNCHANGED waitset
    <3>1. t \notin Ring(wait[t].cv)
      BY <2>1, <2>3 DEF RingsSound
    <3> QED BY <2>2, <2>3, <3>1 DEF TypeOK, Ring
  <2>4. CASE waitset' = [waitset EXCEPT ![wait[t].cv] = RemoveFirst(@, t)]
    <3>1. waitset \in [CVs -> Seq(Threads)]
      BY DEF TypeOK
    <3> HIDE DEF IInv, CvWoken
    <3> QED BY <2>1, <2>2, <2>4, <3>1, RemoveFirstOnce DEF Ring
  <2> QED BY <2>3, <2>4 DEF TidyUp
<1>a. \A c \in CVs : t \notin Ring(c)'
  BY <1>0 DEF RingsSound
<1>1. TypeOK'
  BY <1>0 DEF TypeOK, Places
<1>2. MutexesHeld'
  BY CCAssumption DEF TypeOK, MutexesHeld, HoldsMutex, Signalling, WaitArgs, SigArgs
<1>3. RingsHeld' /\ StatesPlaced'
  BY CCAssumption DEF TypeOK, RingsHeld, HoldsRing, StatesPlaced, WaitArgs, SigArgs
<1>4. RingsSound'
  <2>1. \A w \in Threads : w # t => pc'[w] = pc[w]
    BY DEF TypeOK
  <2> QED BY <2>1, <1>0, <1>a, RingType DEF RingsSound
<1>5. SleepersInRing'
  BY <1>0, <1>a, ZenonT(30) DEF TypeOK, SleepersInRing, InCvWait, WaitArgs
<1>6. SemSeenTaken' /\ WaitArguments'
  BY CCAssumption DEF TypeOK, SemSeenTaken, WaitArguments, Signalling, WaitArgs, SigArgs
<1>7. KernelExclusion'
  <2>1. kernel_sem' = kernel_sem /\ \A u \in Threads : Inside(u)' <=> Inside(u)
    BY CCAssumption DEF TypeOK, Inside, WaitArgs, SigArgs
  <2> QED BY <2>1 DEF KernelExclusion
<1>8. SemaphoreNotLost'
  BY CCAssumption DEF TypeOK, SemaphoreNotLost, Coming, Sleeping, WaitArgs, SigArgs
<1> QED BY <1>1, <1>2, <1>3, <1>4, <1>5, <1>6, <1>7, <1>8

(* The step SigLock keeps the inductive invariant.                         *)
LEMMA SigLockInv ==
  ASSUME IInv, NEW t \in Threads, SigLock(t)
  PROVE  IInv'
<1> USE DEF IInv, SigLock, Goto
<1>1. TypeOK'
  BY DEF TypeOK, WaitArgs, SigArgs, Places, CVs, Mutexes
<1>2. MutexesHeld'
  BY CCAssumption DEF TypeOK, MutexesHeld, HoldsMutex, Signalling, WaitArgs, SigArgs
<1>3. RingsHeld' /\ StatesPlaced'
  BY CCAssumption DEF TypeOK, RingsHeld, HoldsRing, StatesPlaced, WaitArgs, SigArgs
<1>4. RingsSound'
  BY DEF TypeOK, RingsSound, Ring, WaitArgs, SigArgs
<1>5. SleepersInRing'
  BY DEF TypeOK, SleepersInRing, InCvWait, Ring, WaitArgs, SigArgs
<1>6. SemSeenTaken' /\ WaitArguments'
  BY CCAssumption DEF TypeOK, SemSeenTaken, WaitArguments, Signalling, WaitArgs, SigArgs
<1>7. KernelExclusion'
  <2>1. kernel_sem' = kernel_sem /\ \A u \in Threads : Inside(u)' <=> Inside(u)
    BY CCAssumption DEF TypeOK, Inside, WaitArgs, SigArgs
  <2> QED BY <2>1 DEF KernelExclusion
<1>8. SemaphoreNotLost'
  BY CCAssumption DEF TypeOK, SemaphoreNotLost, Coming, Sleeping, WaitArgs, SigArgs
<1> QED BY <1>1, <1>2, <1>3, <1>4, <1>5, <1>6, <1>7, <1>8

(* The first waiter leaves the ring.  It is not between cvqueued and        *)
(* cvsleep, where it would hold the ring's lock, so it is asleep or has    *)
(* timed out.                                                              *)
LEMMA SignalOneInv ==
  ASSUME IInv, NEW t \in Threads, SignalOne(t)
  PROVE  IInv'
<1> USE DEF IInv
<1>0. sig[t].cv \in CVs
  BY DEF TypeOK, SigArgs
<1>1. PICK cv \in CVs : cv = sig[t].cv
  BY <1>0
<1>a. waitset[cv] \in Seq(Threads) /\ waitset[cv] # << >> /\ pc[t] = "siglocked"
  BY <1>1 DEF TypeOK, SignalOne
<1>2. Head(waitset[cv]) \in Threads
  BY <1>a, HeadTailProperties
<1>3. PICK w \in Threads : w = Head(waitset[cv])
  BY <1>2
<1>b. /\ w \in Ring(cv)
      /\ waitset' \in [CVs -> Seq(Threads)]
      /\ \A c \in CVs : /\ IsInjective(waitset'[c])
                        /\ Ring(c)' = IF c = cv THEN Ring(c) \ {w} ELSE Ring(c)
  <2>1. \A c \in CVs : IsInjective(waitset[c])
    BY DEF RingsSound
  <2>2. waitset' = [waitset EXCEPT ![cv] = Tail(@)]
    BY <1>1 DEF SignalOne
  <2> HIDE DEF IInv
  <2>3. waitset \in [CVs -> Seq(Threads)]
    BY DEF IInv, TypeOK
  <2> QED BY <1>a, <2>1, <2>2, <2>3, <1>3, TailOnce DEF Ring
<1>c. wait[w].cv = cv /\ pc[w] = "cvslept" /\ w # t
  BY <1>1, <1>a, <1>b DEF RingsSound, RingsHeld, HoldsRing
<1>d. /\ state' = [state EXCEPT ![w] = IF state[w] = "STOPPED" THEN "awake" ELSE @]
      /\ removed' = [removed EXCEPT ![w] = TRUE]
      /\ signalled' = [signalled EXCEPT ![w] = state[w] = "STOPPED"]
      /\ UNCHANGED <<mutex, kernel_sem, wait, sig, op, ret>>
  BY <1>1, <1>3 DEF SignalOne, SignalRecord
<1>e. \/ /\ state[w] = "STOPPED"
         /\ waitset_lock' = [waitset_lock EXCEPT ![cv] = NULL]
         /\ pc' = [pc EXCEPT ![t] = sig[t].then]
      \/ UNCHANGED <<waitset_lock, pc>>
  BY <1>1, <1>3 DEF SignalOne, SignalEnds, SigReturn, Goto
<1>f. \A u \in Threads : u # t => pc'[u] = pc[u]
  BY <1>e DEF TypeOK
<1>g. pc'[t] \in {"siglocked", sig[t].then} /\ sig[t].then \in {"user", "umon", "kernel", "kreleased"}
  BY <1>a, <1>e DEF TypeOK, SigArgs
<1>4. TypeOK'
  <2>1. pc' \in [Threads -> Places] /\ waitset_lock' \in [CVs -> Threads \cup {NULL}]
    <3>1. sig[t].then \in Places
      BY <1>g DEF Places
    <3> QED BY <3>1, <1>e DEF TypeOK
  <2> QED BY <2>1, <1>b, <1>d DEF TypeOK
<1>5. MutexesHeld'
  BY <1>a, <1>d, <1>f, <1>g DEF MutexesHeld, HoldsMutex, Signalling
<1>6. RingsHeld' /\ StatesPlaced'
  <2>1. \A u \in Threads, c \in CVs : HoldsRing(u, c)' => HoldsRing(u, c) /\ (u = t => UNCHANGED waitset_lock)
    BY <1>1, <1>a, <1>d, <1>e, <1>f, <1>g DEF HoldsRing, TypeOK
  <2>2. RingsHeld'
    BY <1>1, <1>a, <1>e, <2>1 DEF TypeOK, RingsHeld, HoldsRing
  <2>3. StatesPlaced'
    BY <1>a, <1>c, <1>d, <1>f DEF TypeOK, StatesPlaced
  <2> QED BY <2>2, <2>3
<1>7. RingsSound'
  <2>1. \A c \in CVs : \A x \in Ring(c)' : x \in Threads /\ x \in Ring(c) /\ x # w /\ x # t
    BY <1>a, <1>b, <1>c, RingType, SMTT(30) DEF RingsSound
  <2>2. \A x \in Threads : x # w => removed'[x] = removed[x]
    BY <1>d DEF TypeOK
  <2> QED BY <2>1, <2>2, <1>b, <1>d, <1>f DEF RingsSound
<1>8. SleepersInRing'
  <2>1. \A u \in Threads : InCvWait(u)' => u # w /\ u # t /\ InCvWait(u)
    BY <1>a, <1>c, <1>d, <1>f, <1>g DEF TypeOK, InCvWait
  <2>2. \A u \in Threads : wait[u].cv \in CVs
    BY DEF TypeOK, WaitArgs
  <2> QED BY <2>1, <2>2, <1>b, <1>d DEF SleepersInRing
<1>9. SemSeenTaken' /\ WaitArguments'
  BY <1>a, <1>d, <1>f, <1>g DEF SemSeenTaken, WaitArguments, Signalling
<1>10. KernelExclusion'
  <2>1. kernel_sem' = kernel_sem /\ \A u \in Threads : Inside(u)' <=> Inside(u)
    BY <1>a, <1>d, <1>f, <1>g DEF Inside
  <2> QED BY <2>1 DEF KernelExclusion
<1>11. SemaphoreNotLost'
  <2>1. CASE UNCHANGED pc
    BY <2>1, <1>c, <1>d DEF TypeOK, SemaphoreNotLost, Coming, Sleeping
  <2>2. CASE pc' # pc /\ cv = SemCV
    <3>1. Coming(w)'
      BY <2>2, <1>c, <1>d, <1>e, <1>f, CCAssumption DEF TypeOK, Coming
    <3> QED BY <3>1, <1>b DEF SemaphoreNotLost
  <2>3. CASE cv # SemCV
    <3>1. \A u \in Threads : Sleeping(u, SemCV)' => Sleeping(u, SemCV)
      BY <1>a, <1>c, <1>d, <1>f, <1>g DEF TypeOK, Sleeping
    <3>2. \A u \in Threads : Coming(u) => Coming(u)'
      BY <1>a, <1>c, <1>d, <1>f DEF TypeOK, Coming
    <3> QED BY <2>3, <3>1, <3>2, <1>1, <1>a, <1>d, <1>f DEF SemaphoreNotLost
  <2> QED BY <2>1, <2>2, <2>3
<1> QED BY <1>4, <1>5, <1>6, <1>7, <1>8, <1>9, <1>10, <1>11
(* The signaller found the ring empty: nobody sleeps on it.                *)
LEMMA SignalNoneInv ==
  ASSUME IInv, NEW t \in Threads, SignalNone(t)
  PROVE  IInv'
<1> USE DEF IInv, SignalNone, SigReturn, Goto
<1>0. sig[t].cv \in CVs /\ Ring(sig[t].cv) = {} /\ \A u \in Threads : ~ Sleeping(u, sig[t].cv)
  <2>1. sig[t].cv \in CVs /\ Ring(sig[t].cv) = {}
    BY DEF TypeOK, SigArgs, Ring, ToSet
  <2> QED BY <2>1 DEF SleepersInRing, InCvWait, Sleeping
<1>1. TypeOK'
  BY DEF TypeOK, WaitArgs, SigArgs, Places, CVs, Mutexes
<1>2. MutexesHeld'
  BY CCAssumption, ZenonT(30) DEF TypeOK, MutexesHeld, HoldsMutex, Signalling, WaitArgs, SigArgs
<1>3. RingsHeld' /\ StatesPlaced'
  <2>1. \A u \in Threads, cv \in CVs : HoldsRing(u, cv)' => u # t /\ HoldsRing(u, cv)
    BY DEF TypeOK, HoldsRing, SigArgs
  <2>2. RingsHeld'
    BY <2>1, <1>0 DEF TypeOK, RingsHeld, HoldsRing
  <2> QED BY <2>2 DEF TypeOK, StatesPlaced
<1>4. RingsSound'
  BY DEF TypeOK, RingsSound, Ring, WaitArgs, SigArgs
<1>5. SleepersInRing'
  BY DEF TypeOK, SleepersInRing, InCvWait, Ring, WaitArgs, SigArgs
<1>6. SemSeenTaken' /\ WaitArguments'
  BY CCAssumption DEF TypeOK, SemSeenTaken, WaitArguments, Signalling, WaitArgs, SigArgs
<1>7. KernelExclusion'
  <2>1. kernel_sem' = kernel_sem /\ \A u \in Threads : Inside(u)' <=> Inside(u)
    BY CCAssumption DEF TypeOK, Inside, WaitArgs, SigArgs
  <2> QED BY <2>1 DEF KernelExclusion
<1>8. SemaphoreNotLost'
  <2>1. \A u \in Threads, cv \in CVs : Sleeping(u, cv)' => Sleeping(u, cv)
    BY DEF TypeOK, Sleeping, SigArgs
  <2>2. \A u \in Threads : Coming(u) => Coming(u)'
    BY DEF TypeOK, Coming
  <2>3. \A u \in Threads : u # t => pc'[u] = pc[u]
    BY DEF TypeOK
  <2> QED BY <1>0, <2>1, <2>2, <2>3 DEF SemaphoreNotLost, CVs
<1> QED BY <1>1, <1>2, <1>3, <1>4, <1>5, <1>6, <1>7, <1>8

-----------------------------------------------------------------------------
(* Every step keeps the inductive invariant.                               *)
LEMMA InvStep == IInv /\ [Next]_vars => IInv'
<1> SUFFICES ASSUME IInv, [Next]_vars PROVE IInv'
  OBVIOUS
<1>1. CASE UNCHANGED vars
  BY <1>1 DEF vars, IInv, TypeOK, MutexesHeld, HoldsMutex, Signalling, RingsHeld, HoldsRing,
              StatesPlaced, RingsSound, Ring, SleepersInRing, InCvWait, SemSeenTaken, WaitArguments,
              KernelExclusion, Inside, SemaphoreNotLost, Sleeping, Coming
<1>2. ASSUME NEW t \in Threads, Call(t) PROVE IInv'
  <2>1. ASSUME NEW cv \in KernelCVs, NEW timed \in BOOLEAN, KernelRelease(t, "wait", cv, timed)
        PROVE  IInv'
    BY <2>1, KernelReleaseInv DEF CVs
  <2>2. ASSUME NEW operation \in {"unlock", "sleep"}, KernelRelease(t, operation, SemCV, FALSE)
        PROVE  IInv'
    BY <2>2, KernelReleaseInv DEF CVs
  <2> QED BY <1>2, <2>1, <2>2, KernelLockInv, KernelSignalInv, UserLockInv, UserUnlockInv,
             UserWaitInv, UserSignalInv DEF Call
<1>3. ASSUME NEW t \in Threads, Proceed(t) PROVE IInv'
  BY <1>3, CvLockInv, CvUnlockInv, CvSleepInv, CvWokenInv, CvRelockInv, SigLockInv, SignalOneInv,
     SignalNoneInv, KLockInv, SemTakeInv, SemWaitInv, KReleaseInv, KReleasedInv DEF Proceed
<1> QED BY <1>1, <1>2, <1>3, TimeoutExpiresInv DEF Next

(* The inductive invariant: who is inside a critical section holds its     *)
(* mutex or its ring's spinlock, and every waiter can be found.            *)
THEOREM Invariance == Spec => []IInv
<1>1. Init => IInv
  BY InitIInv
<1>2. IInv /\ [Next]_vars => IInv'
  BY InvStep
<1> QED BY <1>1, <1>2, PTL DEF Spec

(* kernel_cc.c builds a sound monitor, for any number of threads: the      *)
(* rings hold exactly the waiters, one thread is in the kernel, and the    *)
(* semaphore is never given back unnoticed.                                *)
THEOREM MonitorSafe == Spec => []CCInvariant
<1>1. IInv => CCInvariant
  BY IInvSound
<1> QED BY <1>1, Invariance, PTL

(* Mutex_Lock and cv_wait: no two threads are inside the critical section  *)
(* of one mutex, also when cv_wait releases it in the middle and locks it  *)
(* again.                                                                  *)
MutualExclusion ==
  \A m \in Mutexes, t, u \in Threads : HoldsMutex(t, m) /\ HoldsMutex(u, m) => t = u

(* The theorem: mutual exclusion, for every number of threads, mutexes and *)
(* condition variables.                                                    *)
THEOREM CriticalSections == Spec => []MutualExclusion
<1>1. IInv => MutualExclusion
  BY DEF IInv, MutexesHeld, MutualExclusion
<1> QED BY <1>1, Invariance, PTL

(* cv_signal and Cond_Broadcast: a call that wakes nobody up in its last   *)
(* step leaves nobody asleep on its condition variable.                    *)
THEOREM SignalNotLost == Spec => SignalReachesSleeper
<1> DEFINE Reaches == \A t \in Threads :
              pc[t] = "siglocked" /\ pc'[t] # "siglocked" /\ state' = state
                => \A u \in Threads : ~ Sleeping(u, sig[t].cv)
<1>1. IInv /\ [Next]_vars => [Reaches]_vars
  <2> SUFFICES ASSUME IInv, Next, NEW t \in Threads, NEW u \in Threads,
                      pc[t] = "siglocked", pc'[t] # "siglocked", state' = state
               PROVE  ~ Sleeping(u, sig[t].cv)
    OBVIOUS
  <2>1. SignalOne(t) \/ SignalNone(t)
    <3>1. PICK x \in Threads : Call(x) \/ Proceed(x) \/ TimeoutExpires(x)
      BY DEF Next
    <3>2. CASE x # t
      <4>1. CASE SignalOne(x)
        BY <4>1, <3>2 DEF SignalOne, SigReturn, Goto, IInv, TypeOK
      <4> QED BY <3>1, <3>2, <4>1
              DEF IInv, TypeOK, Call, Proceed, TimeoutExpires, KernelLock, KernelSignal, KernelRelease,
                  UserLock, UserUnlock, UserWait, UserSignal, CvLock, CvUnlock, CvSleep, CvWoken,
                  CvRelock, SigLock, SignalNone, SigReturn, KLock, SemTake, SemWait, KRelease,
                  KReleased, WaitReleased, UnlockReleased, SleepReleased,
                  CallWait, CallSignal, SignalSem, Goto
    <3>3. CASE x = t
      BY <3>1, <3>3
         DEF IInv, TypeOK, Call, Proceed, TimeoutExpires, KernelLock, KernelSignal, KernelRelease,
             UserLock, UserUnlock, UserWait, UserSignal, CvLock, CvUnlock, CvSleep, CvWoken,
             CvRelock, SigLock, KLock, SemTake, SemWait, KRelease,
             KReleased, WaitReleased, UnlockReleased, SleepReleased
    <3> QED BY <3>2, <3>3
  <2>2. CASE SignalOne(t)
    <3>1. SignalEnds(t, state[Head(waitset[sig[t].cv])] = "STOPPED")
      BY <2>2 DEF SignalOne
    <3>2. Head(waitset[sig[t].cv]) \in Threads
      BY <2>2, HeadTailProperties DEF SignalOne, IInv, TypeOK, SigArgs
    <3>3. state'[Head(waitset[sig[t].cv])] = "awake"
      BY <2>2, <3>1, <3>2 DEF SignalOne, SignalEnds, IInv, TypeOK
    <3> QED BY <3>1, <3>3 DEF SignalEnds
  <2>3. CASE SignalNone(t)
    <3>1. sig[t].cv \in CVs /\ Ring(sig[t].cv) = {}
      BY <2>3 DEF SignalNone, IInv, TypeOK, SigArgs, Ring, ToSet
    <3> QED BY <3>1 DEF IInv, SleepersInRing, InCvWait, Sleeping
  <2> QED BY <2>1, <2>2, <2>3
<1>2. Spec => []IInv /\ [][Next]_vars
  BY Invariance DEF Spec
<1> QED BY <1>1, <1>2, PTL DEF SignalReachesSleeper

-----------------------------------------------------------------------------
(* The kernel lock implements the monitor of KernelMonitor.                *)

InCv(t) == pc[t] \in {"cvlock", "cvqueued", "cvsleep", "cvslept", "cvrelock"}

(* Which operation a thread executes, by its place.                        *)
PlaceOK(t) ==
  /\ pc[t] \in {"user", "umon"} => op[t] \in {"lock", "unlock"}
  /\ pc[t] = "klock" => op[t] = "lock"
  /\ pc[t] = "sem" => op[t] \in {"lock", "wait"}
  /\ pc[t] \in {"krelease", "kreleased"} => op[t] # "lock"
  /\ pc[t] = "gone" => op[t] = "sleep"
  /\ InCv(t) =>
       \/ wait[t].cv \in KernelCVs /\ op[t] = "wait"
       \/ wait[t].cv = SemCV /\ op[t] \in {"lock", "wait"}
       \/ wait[t].cv \in UserCVs /\ op[t] \in {"lock", "unlock"}
  /\ Signalling(t) =>
       \/ sig[t].cv \in KernelCVs /\ sig[t].then = "kernel"
       \/ sig[t].cv \in UserCVs /\ sig[t].then \in {"user", "umon"} /\ op[t] \in {"lock", "unlock"}
       \/ sig[t].cv = SemCV /\ sig[t].then = "kreleased" /\ op[t] # "lock"
  /\ state[t] = "EXITED" => pc[t] = "gone"

(* A waiter in a ring has not been signalled.                              *)
PlacesInv ==
  /\ \A t \in Threads : PlaceOK(t)
  /\ \A cv \in CVs : \A t \in Ring(cv) : ~ signalled[t]

(* All that the monitor shows of a thread.                                 *)
SameThread(u) ==
  /\ pc'[u] = pc[u] /\ op'[u] = op[u] /\ sig'[u] = sig[u] /\ wait'[u] = wait[u]
  /\ state'[u] = state[u] /\ signalled'[u] = signalled[u] /\ ret'[u] = ret[u]

(* Only a signal changes anything of another thread.                       *)
LEMMA Others ==
  ASSUME IInv, NEW t \in Threads, Call(t) \/ Proceed(t) \/ TimeoutExpires(t), ~ SignalOne(t),
         NEW u \in Threads, u # t
  PROVE  SameThread(u)
<1> USE DEF IInv, TypeOK, Goto, ringVars, SameThread
<1>1. ASSUME Call(t) PROVE SameThread(u)
  <2>1. ASSUME KernelLock(t) PROVE SameThread(u)
    BY <2>1 DEF KernelLock
  <2>2. ASSUME NEW cv \in KernelCVs, NEW b \in BOOLEAN, KernelSignal(t, cv, b) PROVE SameThread(u)
    BY <2>2 DEF KernelSignal, CallSignal
  <2>3. ASSUME NEW operation, NEW cv, NEW b, KernelRelease(t, operation, cv, b) PROVE SameThread(u)
    BY <2>3 DEF KernelRelease
  <2>4. ASSUME UserLock(t) \/ UserUnlock(t) PROVE SameThread(u)
    BY <2>4 DEF UserLock, UserUnlock
  <2>5. ASSUME NEW cv \in UserCVs, NEW b \in BOOLEAN, UserWait(t, cv, b) \/ UserSignal(t, cv, b) PROVE SameThread(u)
    BY <2>5 DEF UserWait, UserSignal, CallWait, CallSignal
  <2> HIDE DEF IInv, TypeOK, Goto, ringVars, SameThread
  <2> QED BY <1>1, <2>1, <2>2, <2>3, <2>4, <2>5, Zenon DEF Call
<1>2. ASSUME TimeoutExpires(t) PROVE SameThread(u)
  BY <1>2 DEF TimeoutExpires
<1>3. ASSUME Proceed(t) PROVE SameThread(u)
  <2>1. ASSUME CvLock(t) \/ CvUnlock(t) \/ CvSleep(t) PROVE SameThread(u)
    BY <2>1 DEF CvLock, CvUnlock, CvSleep
  <2>2. ASSUME CvWoken(t) \/ CvRelock(t) PROVE SameThread(u)
    BY <2>2 DEF CvWoken, CvRelock
  <2>3. ASSUME SigLock(t) \/ SignalNone(t) PROVE SameThread(u)
    BY <2>3 DEF SigLock, SignalNone, SigReturn
  <2>4. ASSUME KLock(t) \/ SemTake(t) \/ SemWait(t) PROVE SameThread(u)
    BY <2>4 DEF KLock, SemTake, SemWait, CallWait
  <2>5. ASSUME KRelease(t) \/ KReleased(t) PROVE SameThread(u)
    BY <2>5 DEF KRelease, KReleased, WaitReleased, UnlockReleased, SleepReleased, SignalSem, CallSignal
  <2> HIDE DEF IInv, TypeOK, Goto, ringVars, SameThread
  <2> QED BY <1>3, <2>1, <2>2, <2>3, <2>4, <2>5, Zenon DEF Proceed
<1> HIDE DEF IInv, TypeOK, Goto, ringVars, SameThread
<1> QED BY <1>1, <1>2, <1>3, Zenon

(* Its place is the same then.                                             *)
LEMMA SamePlace ==
  ASSUME NEW u, SameThread(u)
  PROVE  /\ PlaceOK(u)' <=> PlaceOK(u)
         /\ MonitorPlace(u)' = MonitorPlace(u)
         /\ IsWaiting(u)' <=> IsWaiting(u)
<1> USE DEF SameThread
<1>1. PlaceOK(u)' <=> PlaceOK(u)
  BY DEF PlaceOK, InCv, Signalling
<1>2. (Inside(u)' <=> Inside(u)) /\ (InWait(u)' <=> InWait(u)) /\ (Returning(u)' <=> Returning(u))
  BY DEF Inside, InWait, Returning
<1>3. (IsWaiting(u)' <=> IsWaiting(u)) /\ WaitResult(u)' = WaitResult(u)
  BY <1>2 DEF IsWaiting, WaitResult
<1>4. MonitorPlace(u)' = MonitorPlace(u)
  BY <1>2, <1>3, SMT DEF MonitorPlace
<1> QED BY <1>1, <1>3, <1>4

(* The monitor shows no change of t's wait; nor of t at all.               *)
QuietWait(t) == (IsWaiting(t)' <=> IsWaiting(t)) /\ (IsWaiting(t) => wait'[t] = wait[t])
Quiet(t)     == MonitorPlace(t)' = MonitorPlace(t) /\ QuietWait(t)

(* The calls of t that the monitor does not show.                          *)
LEMMA QuietCalls ==
  ASSUME IInv, NEW t \in Threads, PlaceOK(t), Call(t)
  PROVE  PlaceOK(t)' /\ Quiet(t)
<1> USE DEF Goto, ringVars
<1>0. /\ pc \in [Threads -> Places] /\ op \in [Threads -> {"lock", "unlock", "wait", "sleep"}]
      /\ wait \in [Threads -> WaitArgs] /\ sig \in [Threads -> SigArgs]
      /\ state \in [Threads -> {"awake", "STOPPED", "EXITED"}]
      /\ state[t] = "STOPPED" => pc[t] = "cvslept"
  BY DEF IInv, TypeOK, StatesPlaced
<1> USE <1>0, CCAssumption
    DEF PlaceOK, InCv, Signalling, Quiet, QuietWait, MonitorPlace, IsWaiting, InWait, Inside, Returning,
        WaitResult
<1>1. ASSUME KernelLock(t) PROVE PlaceOK(t)' /\ Quiet(t)
  BY <1>1 DEF KernelLock
<1>2. ASSUME NEW cv \in KernelCVs, NEW b \in BOOLEAN, KernelSignal(t, cv, b) PROVE PlaceOK(t)' /\ Quiet(t)
  BY <1>2 DEF KernelSignal, CallSignal
<1>3. ASSUME NEW operation \in {"wait", "unlock", "sleep"}, NEW cv, NEW b, KernelRelease(t, operation, cv, b)
      PROVE PlaceOK(t)' /\ Quiet(t)
  BY <1>3 DEF KernelRelease
<1>4. ASSUME UserLock(t) \/ UserUnlock(t) PROVE PlaceOK(t)' /\ Quiet(t)
  BY <1>4 DEF UserLock, UserUnlock
<1>5. ASSUME NEW cv \in UserCVs, NEW b \in BOOLEAN, UserWait(t, cv, b) PROVE PlaceOK(t)' /\ Quiet(t)
  BY <1>5 DEF UserWait, CallWait
<1>6. ASSUME NEW cv \in UserCVs, NEW b \in BOOLEAN, UserSignal(t, cv, b) PROVE PlaceOK(t)' /\ Quiet(t)
  BY <1>6 DEF UserSignal, CallSignal
<1> HIDE DEF Goto, ringVars, PlaceOK, InCv, Signalling, Quiet, QuietWait, MonitorPlace, IsWaiting,
             InWait, Inside, Returning, WaitResult
<1>7. ASSUME NEW cv \in KernelCVs, NEW b \in BOOLEAN, KernelRelease(t, "wait", cv, b)
      PROVE PlaceOK(t)' /\ Quiet(t)
  BY <1>3, <1>7
<1>8. ASSUME NEW operation \in {"unlock", "sleep"}, KernelRelease(t, operation, SemCV, FALSE)
      PROVE PlaceOK(t)' /\ Quiet(t)
  <2>1. operation \in {"wait", "unlock", "sleep"}
    OBVIOUS
  <2> QED BY <1>3, <1>8, <2>1, Zenon
<1> HIDE <1>0, CCAssumption
<1> QED BY <1>1, <1>2, <1>4, <1>5, <1>6, <1>7, <1>8, Zenon DEF Call

(* The steps of t in the middle of an operation that it does not show.     *)
LEMMA QuietSteps ==
  ASSUME IInv, NEW t \in Threads, PlaceOK(t), Proceed(t), ~ SignalOne(t), ~ SemTake(t), ~ KRelease(t)
  PROVE  PlaceOK(t)' /\ Quiet(t)
<1> USE DEF Goto, ringVars
<1>0. /\ pc \in [Threads -> Places] /\ op \in [Threads -> {"lock", "unlock", "wait", "sleep"}]
      /\ wait \in [Threads -> WaitArgs] /\ sig \in [Threads -> SigArgs]
      /\ state \in [Threads -> {"awake", "STOPPED", "EXITED"}]
      /\ signalled \in [Threads -> BOOLEAN] /\ ret \in [Threads -> BOOLEAN]
      /\ state[t] = "STOPPED" => pc[t] = "cvslept"
      /\ pc[t] = "kreleased" /\ op[t] = "wait" => wait[t].cv \in KernelCVs
      /\ Signalling(t) /\ sig[t].then = "kreleased" /\ op[t] = "wait" => wait[t].cv \in KernelCVs
  BY DEF IInv, TypeOK, StatesPlaced, WaitArguments
<1> USE <1>0, CCAssumption
    DEF PlaceOK, InCv, Signalling, Quiet, QuietWait, MonitorPlace, IsWaiting, InWait, Inside, Returning,
        WaitResult
<1>1. ASSUME CvLock(t) PROVE PlaceOK(t)' /\ Quiet(t)
  BY <1>1 DEF CvLock
<1>2. ASSUME CvUnlock(t) PROVE PlaceOK(t)' /\ Quiet(t)
  BY <1>2 DEF CvUnlock
<1>3. ASSUME CvSleep(t) PROVE PlaceOK(t)' /\ Quiet(t)
  BY <1>3 DEF CvSleep
<1>4. ASSUME CvWoken(t) PROVE PlaceOK(t)' /\ Quiet(t)
  BY <1>4 DEF CvWoken
<1>5. ASSUME CvRelock(t) PROVE PlaceOK(t)' /\ Quiet(t)
  BY <1>5 DEF CvRelock
<1>6. ASSUME SigLock(t) PROVE PlaceOK(t)' /\ Quiet(t)
  BY <1>6 DEF SigLock
<1>7. ASSUME SignalNone(t) PROVE PlaceOK(t)' /\ Quiet(t)
  BY <1>7 DEF SignalNone, SigReturn
<1>8. ASSUME KLock(t) PROVE PlaceOK(t)' /\ Quiet(t)
  BY <1>8 DEF KLock
<1>9. ASSUME SemWait(t) PROVE PlaceOK(t)' /\ Quiet(t)
  BY <1>9 DEF SemWait, CallWait
<1>10. ASSUME KReleased(t) PROVE PlaceOK(t)' /\ Quiet(t)
  BY <1>10 DEF KReleased, WaitReleased, UnlockReleased, SleepReleased
<1> HIDE DEF Goto, ringVars, PlaceOK, InCv, Signalling, Quiet, QuietWait, MonitorPlace, IsWaiting,
             InWait, Inside, Returning, WaitResult
<1> QED BY <1>1, <1>2, <1>3, <1>4, <1>5, <1>6, <1>7, <1>8, <1>9, <1>10 DEF Proceed

(* The steps that the monitor shows: t gets the semaphore.                 *)
LEMMA PlaceSemTake ==
  ASSUME IInv, NEW t \in Threads, PlaceOK(t), SemTake(t)
  PROVE  /\ PlaceOK(t)' /\ ~ IsWaiting(t) /\ ~ IsWaiting(t)'
         /\ MonitorPlace(t) \in {"outside", "signalled", "expired"}
         /\ MonitorPlace(t)' = "inside"
<1>0. /\ pc \in [Threads -> Places] /\ op \in [Threads -> {"lock", "unlock", "wait", "sleep"}]
      /\ state \in [Threads -> {"awake", "STOPPED", "EXITED"}]
      /\ state[t] = "STOPPED" => pc[t] = "cvslept"
  BY DEF IInv, TypeOK, StatesPlaced
<1> QED BY <1>0, CCAssumption DEF SemTake, Goto, ringVars, PlaceOK, InCv, Signalling, MonitorPlace, IsWaiting,
                             InWait, Inside, Returning, WaitResult

(* It gives the semaphore back.                                            *)
LEMMA PlaceKRelease ==
  ASSUME IInv, NEW t \in Threads, PlaceOK(t), KRelease(t)
  PROVE  /\ PlaceOK(t)' /\ MonitorPlace(t) = "inside" /\ ~ IsWaiting(t) /\ wait' = wait
         /\ \/ /\ wait[t].cv \in KernelCVs /\ IsWaiting(t)' /\ MonitorPlace(t)' = "waiting"
            \/ ~ IsWaiting(t)' /\ MonitorPlace(t)' \in {"outside", "gone"}
<1>0. /\ pc \in [Threads -> Places] /\ op \in [Threads -> {"lock", "unlock", "wait", "sleep"}]
      /\ wait \in [Threads -> WaitArgs] /\ sig \in [Threads -> SigArgs]
      /\ state \in [Threads -> {"awake", "STOPPED", "EXITED"}]
      /\ state[t] = "STOPPED" => pc[t] = "cvslept"
      /\ pc[t] = "krelease" /\ op[t] = "wait" => wait[t].cv \in KernelCVs
  BY DEF IInv, TypeOK, StatesPlaced, WaitArguments
<1> QED BY <1>0, CCAssumption DEF KRelease, SignalSem, CallSignal, Goto, ringVars, PlaceOK, InCv, Signalling, MonitorPlace,
                             IsWaiting, InWait, Inside, Returning, WaitResult

(* Its timeout ends its sleep.                                             *)
LEMMA PlaceTimeout ==
  ASSUME IInv, PlacesInv, NEW t \in Threads, TimeoutExpires(t)
  PROVE  /\ PlaceOK(t)' /\ wait' = wait
         /\ \/ /\ wait[t].cv \in KernelCVs /\ IsWaiting(t) /\ wait[t].timed
               /\ ~ IsWaiting(t)' /\ MonitorPlace(t)' = "expired"
            \/ Quiet(t)
<1>0. /\ pc \in [Threads -> Places] /\ op \in [Threads -> {"lock", "unlock", "wait", "sleep"}]
      /\ wait \in [Threads -> WaitArgs] /\ sig \in [Threads -> SigArgs]
      /\ state \in [Threads -> {"awake", "STOPPED", "EXITED"}]
      /\ state[t] = "STOPPED" => pc[t] = "cvslept"
  BY DEF IInv, TypeOK, StatesPlaced
<1>1. ~ signalled[t]
  <2>1. wait[t].cv \in CVs
    BY <1>0 DEF WaitArgs
  <2>2. InCvWait(t)
    BY <1>0 DEF TimeoutExpires, InCvWait
  <2> QED BY <2>1, <2>2 DEF PlacesInv, IInv, SleepersInRing
<1>2. PlaceOK(t)
  BY DEF PlacesInv
<1> QED BY <1>0, <1>1, <1>2, CCAssumption DEF TimeoutExpires, PlaceOK, InCv, Signalling, MonitorPlace, Quiet, QuietWait,
                             IsWaiting, InWait, Inside, Returning, WaitResult

(* One round of cv_signal: the head of the ring is asleep or has timed     *)
(* out, and nobody else changes.                                           *)
LEMMA SignalFacts ==
  ASSUME IInv, NEW t \in Threads, SignalOne(t), NEW w, w = Head(waitset[sig[t].cv])
  PROVE  /\ w \in Threads /\ w # t /\ w \in Ring(sig[t].cv) /\ sig[t].cv \in CVs
         /\ pc[t] = "siglocked" /\ pc'[t] \in {"siglocked", sig[t].then}
         /\ pc[w] = "cvslept" /\ pc'[w] = pc[w] /\ wait[w].cv = sig[t].cv
         /\ state'[w] = (IF state[w] = "STOPPED" THEN "awake" ELSE state[w])
         /\ signalled'[w] = (state[w] = "STOPPED")
         /\ state'[t] = state[t] /\ signalled'[t] = signalled[t]
         /\ UNCHANGED <<wait, sig, op, ret>>
         /\ \A u \in Threads : u # t /\ u # w => SameThread(u)
         /\ waitset' = [waitset EXCEPT ![sig[t].cv] = Tail(@)]
<1> USE DEF IInv
<1>0. sig[t].cv \in CVs
  BY DEF TypeOK, SigArgs
<1>1. PICK cv \in CVs : cv = sig[t].cv
  BY <1>0
<1>2. waitset[cv] \in Seq(Threads) /\ waitset[cv] # << >> /\ pc[t] = "siglocked"
  BY <1>1 DEF TypeOK, SignalOne
<1>3. w \in Threads /\ w \in Ring(cv)
  <2>1. IsInjective(waitset[cv])
    BY DEF RingsSound
  <2> HIDE DEF IInv
  <2> QED BY <1>1, <1>2, <2>1, TailOnce DEF Ring
<1>4. wait[w].cv = cv /\ pc[w] = "cvslept" /\ w # t
  BY <1>1, <1>2, <1>3 DEF RingsSound, RingsHeld, HoldsRing
<1>5. /\ state' = [state EXCEPT ![w] = IF state[w] = "STOPPED" THEN "awake" ELSE @]
      /\ signalled' = [signalled EXCEPT ![w] = state[w] = "STOPPED"]
      /\ UNCHANGED <<wait, sig, op, ret>>
      /\ waitset' = [waitset EXCEPT ![sig[t].cv] = Tail(@)]
  BY <1>1, <1>3 DEF SignalOne, SignalRecord
<1>6. \/ pc' = [pc EXCEPT ![t] = sig[t].then]
      \/ pc' = pc
  BY DEF SignalOne, SigReturn, Goto
<1>7. /\ state \in [Threads -> {"awake", "STOPPED", "EXITED"}] /\ signalled \in [Threads -> BOOLEAN]
      /\ pc \in [Threads -> Places]
  BY DEF TypeOK
<1> HIDE DEF IInv
<1>8. /\ pc'[t] \in {"siglocked", sig[t].then} /\ pc'[w] = pc[w]
      /\ state'[w] = (IF state[w] = "STOPPED" THEN "awake" ELSE state[w])
      /\ signalled'[w] = (state[w] = "STOPPED")
      /\ state'[t] = state[t] /\ signalled'[t] = signalled[t]
  BY <1>2, <1>3, <1>4, <1>5, <1>6, <1>7
<1>9. ASSUME NEW u \in Threads, u # t, u # w PROVE SameThread(u)
  BY <1>3, <1>5, <1>6, <1>7, <1>9 DEF SameThread
<1> QED BY <1>1, <1>2, <1>3, <1>4, <1>5, <1>8, <1>9

(* A signal on a condition of the kernel to a sleeper shows, no other.     *)
LEMMA PlaceSignal ==
  ASSUME IInv, PlacesInv, NEW t \in Threads, SignalOne(t), NEW w, w = Head(waitset[sig[t].cv])
  PROVE  /\ PlaceOK(t)' /\ PlaceOK(w)' /\ Quiet(t)
         /\ \/ /\ sig[t].cv \in KernelCVs /\ MonitorPlace(t) = "inside" /\ IsWaiting(w)
               /\ ~ IsWaiting(w)' /\ MonitorPlace(w)' = "signalled"
            \/ Quiet(w)
<1>0. /\ w \in Threads /\ w # t /\ w \in Ring(sig[t].cv) /\ sig[t].cv \in CVs
      /\ pc[t] = "siglocked" /\ pc'[t] \in {"siglocked", sig[t].then}
      /\ pc[w] = "cvslept" /\ pc'[w] = pc[w] /\ wait[w].cv = sig[t].cv
      /\ state'[w] = (IF state[w] = "STOPPED" THEN "awake" ELSE state[w])
      /\ signalled'[w] = (state[w] = "STOPPED")
      /\ state'[t] = state[t] /\ signalled'[t] = signalled[t]
      /\ UNCHANGED <<wait, sig, op, ret>>
  BY SignalFacts
<1>1. /\ op \in [Threads -> {"lock", "unlock", "wait", "sleep"}]
      /\ state \in [Threads -> {"awake", "STOPPED", "EXITED"}]
      /\ state[t] # "STOPPED"
      /\ op[t] = "wait" /\ Signalling(t) /\ sig[t].then = "kreleased" => wait[t].cv \in KernelCVs
  BY <1>0 DEF IInv, TypeOK, StatesPlaced, WaitArguments
<1>2. PlaceOK(t) /\ PlaceOK(w) /\ ~ signalled[w]
  BY <1>0 DEF PlacesInv
<1> USE DEF PlaceOK, InCv, Signalling, MonitorPlace, Quiet, QuietWait, IsWaiting, InWait, Inside, Returning,
            WaitResult
<1>3. PlaceOK(t)' /\ PlaceOK(w)'
  BY <1>0, <1>1, <1>2, CCAssumption
<1>4. Quiet(t)
  BY <1>0, <1>1, <1>2, CCAssumption
<1>5. \/ /\ sig[t].cv \in KernelCVs /\ MonitorPlace(t) = "inside" /\ IsWaiting(w)
         /\ ~ IsWaiting(w)' /\ MonitorPlace(w)' = "signalled"
      \/ Quiet(w)
  <2> HIDE DEF PlaceOK, MonitorPlace, Quiet, QuietWait, IsWaiting, InWait, Inside, Returning, WaitResult
  <2>1. ~ Inside(w) /\ ~ Inside(w)' /\ (InWait(w) <=> op[w] = "wait") /\ (InWait(w)' <=> op[w] = "wait")
    BY <1>0 DEF Inside, InWait
  <2>2. (Returning(w) <=> state[w] = "awake") /\ (Returning(w)' <=> state'[w] = "awake")
    BY <1>0 DEF Returning
  <2>3. state[w] \in {"awake", "STOPPED"} /\ state'[w] = "awake"
    BY <1>0, <1>1, <1>2 DEF PlaceOK
  <2>4. CASE sig[t].cv \in KernelCVs /\ state[w] = "STOPPED"
    <3>1. op[w] = "wait" /\ wait[w].cv # SemCV /\ wait'[w].cv # SemCV
      BY <1>0, <1>2, <2>4, CCAssumption DEF PlaceOK, InCv
    <3>2. MonitorPlace(t) = "inside"
      <4>1. Inside(t)
        BY <1>0, <1>2, <2>4, CCAssumption DEF PlaceOK, Signalling, Inside
      <4> QED BY <4>1 DEF MonitorPlace, IsWaiting, InWait
    <3>3. IsWaiting(w) /\ ~ IsWaiting(w)'
      BY <2>1, <2>2, <2>3, <2>4, <3>1 DEF IsWaiting
    <3>4. WaitResult(w)' = "signalled"
      BY <1>0, <2>4, <3>1 DEF WaitResult
    <3>5. MonitorPlace(w)' = "signalled"
      <4>1. op'[w] = "wait"
        BY <1>0, <3>1
      <4> QED BY <2>1, <3>1, <3>3, <3>4, <4>1 DEF MonitorPlace
    <3> QED BY <2>4, <3>2, <3>3, <3>5
  <2>5. CASE ~ (sig[t].cv \in KernelCVs /\ state[w] = "STOPPED")
    <3>1. ~ IsWaiting(w) /\ ~ IsWaiting(w)'
      <4>1. op[w] = "wait" /\ state[w] = "STOPPED" => wait[w].cv = SemCV
        BY <1>0, <1>2, <2>5, CCAssumption DEF PlaceOK, InCv
      <4> QED BY <2>1, <2>2, <2>3, <4>1 DEF IsWaiting
    <3>2. op[w] = "wait" => WaitResult(w)' = WaitResult(w)
      <4>1. op[w] = "wait" => wait[w].cv = SemCV \/ (~ signalled'[w] /\ ~ signalled[w])
        BY <1>0, <1>2, <2>5, CCAssumption DEF PlaceOK, InCv
      <4> QED BY <1>0, <4>1 DEF WaitResult
    <3>3. op'[w] = op[w]
      BY <1>0
    <3>4. MonitorPlace(w)' = MonitorPlace(w)
      BY <2>1, <3>1, <3>2, <3>3 DEF MonitorPlace
    <3> QED BY <3>1, <3>4 DEF Quiet, QuietWait
  <2> QED BY <2>4, <2>5
<1> QED BY <1>3, <1>4, <1>5, Zenon

(* The step of t that is no signal keeps what is known of places.          *)
LEMMA PlacesOwn ==
  ASSUME IInv, PlacesInv, NEW t \in Threads, Call(t) \/ Proceed(t) \/ TimeoutExpires(t), ~ SignalOne(t)
  PROVE  \A u \in Threads : PlaceOK(u)'
<1>1. PlaceOK(t)
  BY DEF PlacesInv
<1>2. PlaceOK(t)'
  BY <1>1, QuietCalls, QuietSteps, PlaceSemTake, PlaceKRelease, PlaceTimeout, Zenon
<1>3. ASSUME NEW u \in Threads, u # t PROVE PlaceOK(u)'
  <2>1. SameThread(u)
    BY <1>3, Others
  <2>2. PlaceOK(u)
    BY DEF PlacesInv
  <2> QED BY <2>1, <2>2, SamePlace
<1> QED BY <1>2, <1>3, Zenon

(* Only three steps touch the rings.                                       *)
LEMMA RingsAlone ==
  ASSUME NEW t, Call(t) \/ Proceed(t) \/ TimeoutExpires(t), ~ CvLock(t), ~ CvWoken(t), ~ SignalOne(t)
  PROVE  UNCHANGED <<waitset, signalled>>
  BY DEF ringVars, Call, Proceed, TimeoutExpires, KernelLock, KernelSignal, KernelRelease, UserLock, UserUnlock, UserWait,
         UserSignal, CvUnlock, CvSleep, CvRelock, SigLock, SignalNone, KLock, SemTake, SemWait, KRelease,
         KReleased, WaitReleased, UnlockReleased, SleepReleased

(* Nobody in a ring has been signalled, after any step.                    *)
LEMMA RingsUnsignalled ==
  ASSUME IInv, PlacesInv, NEW t \in Threads, Call(t) \/ Proceed(t) \/ TimeoutExpires(t)
  PROVE  \A cv \in CVs : \A u \in Ring(cv)' : ~ signalled'[u]
<1>0. /\ waitset \in [CVs -> Seq(Threads)] /\ signalled \in [Threads -> BOOLEAN]
      /\ \A u \in Threads : wait[u].cv \in CVs
      /\ \A cv \in CVs : Ring(cv) \subseteq Threads /\ IsInjective(waitset[cv])
  BY RingType DEF IInv, TypeOK, WaitArgs, RingsSound
<1>a. \A cv \in CVs : \A u \in Ring(cv) : ~ signalled[u]
  BY DEF PlacesInv
<1>1. CASE CvLock(t)
  <2>1. wait[t].cv \in CVs /\ t \notin Ring(wait[t].cv)
    BY <1>0, <1>1 DEF IInv, RingsSound, CvLock
  <2>2. /\ waitset' = [waitset EXCEPT ![wait[t].cv] = Append(@, t)]
        /\ signalled' = [signalled EXCEPT ![t] = FALSE]
    BY <1>1 DEF CvLock
  <2>3. \A cv \in CVs : Ring(cv)' \subseteq Ring(cv) \cup {t}
    BY <1>0, <2>1, <2>2, AppendOnce DEF Ring
  <2> QED BY <1>0, <1>a, <2>2, <2>3
<1>2. CASE CvWoken(t)
  <2>1. signalled' = signalled
    BY <1>2 DEF CvWoken
  <2>2. CASE UNCHANGED waitset
    BY <1>a, <2>1, <2>2 DEF Ring
  <2>3. CASE waitset' = [waitset EXCEPT ![wait[t].cv] = RemoveFirst(@, t)]
    <3>1. \A cv \in CVs : Ring(cv)' \subseteq Ring(cv)
      BY <1>0, <2>3, RemoveFirstOnce DEF Ring
    <3> QED BY <1>a, <2>1, <3>1
  <2> QED BY <1>2, <2>2, <2>3 DEF CvWoken, TidyUp
<1>3. CASE SignalOne(t)
  <2>1. PICK cv \in CVs, w \in Threads :
           /\ cv = sig[t].cv /\ w = Head(waitset[cv]) /\ wait[w].cv = cv
           /\ waitset' = [waitset EXCEPT ![cv] = Tail(@)]
           /\ \A u \in Threads : u # t /\ u # w => signalled'[u] = signalled[u]
           /\ signalled'[t] = signalled[t]
    <3>1. PICK w : w = Head(waitset[sig[t].cv])
      OBVIOUS
    <3>2. /\ w \in Threads /\ sig[t].cv \in CVs /\ wait[w].cv = sig[t].cv /\ signalled'[t] = signalled[t]
          /\ waitset' = [waitset EXCEPT ![sig[t].cv] = Tail(@)]
      BY <1>3, <3>1, SignalFacts
    <3>3. \A u \in Threads : u # t /\ u # w => SameThread(u)
      BY <1>3, <3>1, SignalFacts
    <3>4. \A u \in Threads : u # t /\ u # w => signalled'[u] = signalled[u]
      BY <3>3 DEF SameThread
    <3> QED BY <3>1, <3>2, <3>4
  <2>2. waitset[cv] # << >>
    BY <1>3, <2>1 DEF SignalOne
  <2>3. \A c \in CVs : Ring(c)' = IF c = cv THEN Ring(c) \ {w} ELSE Ring(c)
    BY <1>0, <2>1, <2>2, TailOnce DEF Ring
  <2>4. \A c \in CVs : w \in Ring(c) => c = cv
    BY <2>1 DEF IInv, RingsSound
  <2> QED BY <1>0, <1>a, <2>1, <2>3, <2>4
<1>4. CASE UNCHANGED <<waitset, signalled>>
  BY <1>4, <1>a DEF Ring
<1> QED BY <1>1, <1>2, <1>3, <1>4, RingsAlone, Zenon

(* Every step keeps what is known of places.                               *)
LEMMA PlacesStep == IInv /\ PlacesInv /\ [Next]_vars => PlacesInv'
<1> SUFFICES ASSUME IInv, PlacesInv, [Next]_vars PROVE PlacesInv'
  OBVIOUS
<1>1. CASE UNCHANGED vars
  BY <1>1 DEF vars, PlacesInv, PlaceOK, InCv, Signalling, Ring
<1>2. ASSUME NEW t \in Threads, Call(t) \/ Proceed(t) \/ TimeoutExpires(t) PROVE PlacesInv'
  <2>1. \A cv \in CVs : \A u \in Ring(cv)' : ~ signalled'[u]
    BY <1>2, RingsUnsignalled
  <2>2. CASE ~ SignalOne(t)
    <3>1. \A u \in Threads : PlaceOK(u)'
      BY <1>2, <2>2, PlacesOwn
    <3> QED BY <2>1, <3>1 DEF PlacesInv
  <2>3. CASE SignalOne(t)
    <3>1. PICK w : w = Head(waitset[sig[t].cv])
      OBVIOUS
    <3>2. PlaceOK(t)' /\ PlaceOK(w)'
      BY <2>3, <3>1, PlaceSignal
    <3>3. ASSUME NEW u \in Threads, u # t, u # w PROVE PlaceOK(u)'
      <4>1. SameThread(u)
        BY <2>3, <3>1, <3>3, SignalFacts
      <4>2. PlaceOK(u)
        BY DEF PlacesInv
      <4> QED BY <4>1, <4>2, SamePlace
    <3>4. \A u \in Threads : PlaceOK(u)'
      BY <3>2, <3>3, Zenon
    <3> QED BY <2>1, <3>4 DEF PlacesInv
  <2> QED BY <2>2, <2>3
<1> QED BY <1>1, <1>2, Zenon DEF Next

(* It holds initially.                                                     *)
LEMMA PlacesInit == Init => PlacesInv
  BY CCAssumption DEF Init, PlacesInv, PlaceOK, InCv, Signalling, Ring, ToSet

-----------------------------------------------------------------------------
(* The order of a ring.                                                    *)

(* u is in s, and w behind it or not there.                                *)
Before(s, u, w) == \E i \in 1 .. Len(s) : s[i] = u /\ \A j \in 1 .. i : s[j] # w

(* a is s without its element at p.                                        *)
Without(a, s, p) ==
  /\ p \in 1 .. Len(s) /\ Len(s) \in Nat /\ Len(a) = Len(s) - 1
  /\ \A i \in 1 .. Len(s) - 1 : a[i] = IF i < p THEN s[i] ELSE s[i + 1]

(* A waiter who leaves does not change the order of the others.            *)
LEMMA BeforeWithout ==
  ASSUME NEW s, NEW a, NEW p, Without(a, s, p), NEW u, NEW w, u # s[p], w # s[p]
  PROVE  Before(a, u, w) <=> Before(s, u, w)
<1> USE DEF Without
<1>1. ASSUME NEW i \in 1 .. Len(a), a[i] = u, \A j \in 1 .. i : a[j] # w PROVE Before(s, u, w)
  <2> DEFINE k == IF i < p THEN i ELSE i + 1
  <2>1. k \in 1 .. Len(s) /\ s[k] = u
    BY <1>1
  <2>2. ASSUME NEW j \in 1 .. k PROVE s[j] # w
    <3>1. CASE j < p
      <4>1. j \in 1 .. i /\ a[j] = s[j]
        BY <3>1, <2>1
      <4> QED BY <4>1, <1>1
    <3>2. CASE j = p
      BY <3>2
    <3>3. CASE j > p
      <4>1. j - 1 \in 1 .. i /\ a[j - 1] = s[(j - 1) + 1] /\ (j - 1) + 1 = j
        BY <3>3, <2>1
      <4> QED BY <4>1, <1>1
    <3> QED BY <3>1, <3>2, <3>3, <2>1
  <2> HIDE DEF k
  <2> QED BY <2>1, <2>2 DEF Before
<1>2. ASSUME NEW i \in 1 .. Len(s), s[i] = u, \A j \in 1 .. i : s[j] # w PROVE Before(a, u, w)
  <2> DEFINE k == IF i < p THEN i ELSE i - 1
  <2>1. k \in 1 .. Len(a) /\ a[k] = u
    <3>1. i # p
      BY <1>2
    <3>2. CASE i < p
      BY <1>2, <3>2
    <3>3. CASE i > p
      <4>1. i - 1 \in 1 .. Len(s) - 1 /\ (i - 1) + 1 = i /\ ~ (i - 1 < p)
        BY <3>3
      <4> QED BY <1>2, <3>3, <4>1
    <3> QED BY <3>1, <3>2, <3>3
  <2>2. ASSUME NEW j \in 1 .. k PROVE a[j] # w
    <3>1. CASE j < p
      <4>1. j \in 1 .. i
        <5>1. Len(s) \in Nat /\ i \in 1 .. Len(s) /\ p \in 1 .. Len(s)
          OBVIOUS
        <5>2. j \in 1 .. (IF i < p THEN i ELSE i - 1)
          OBVIOUS
        <5> HIDE DEF Without, k
        <5> QED BY <5>1, <5>2
      <4>2. j \in 1 .. Len(s) - 1
        BY <2>1
      <4>3. a[j] = s[j]
        BY <3>1, <4>2
      <4> QED BY <4>1, <4>3, <1>2
    <3>2. CASE ~ (j < p)
      <4>1. /\ i \in Nat /\ p \in Nat /\ j \in Nat /\ 1 <= j
            /\ ~ (i < p) /\ j <= i - 1
        <5>1. Len(s) \in Nat /\ i \in 1 .. Len(s) /\ p \in 1 .. Len(s)
          OBVIOUS
        <5>2. j \in 1 .. (IF i < p THEN i ELSE i - 1)
          OBVIOUS
        <5> HIDE DEF Without, k
        <5> QED BY <3>2, <5>1, <5>2
      <4>2. j \in 1 .. Len(s) - 1
        BY <2>1
      <4>3. j + 1 \in 1 .. i
        BY <4>1
      <4>4. a[j] = s[j + 1]
        BY <3>2, <4>2
      <4> QED BY <4>3, <4>4, <1>2
    <3> QED BY <3>1, <3>2
  <2> HIDE DEF k
  <2> QED BY <2>1, <2>2 DEF Before
<1> HIDE DEF Without
<1> QED BY <1>1, <1>2 DEF Before

(* cv_signal takes the first waiter out.                                   *)
LEMMA BeforeTail ==
  ASSUME NEW S, NEW s \in Seq(S), s # << >>, NEW u, NEW w, u # Head(s), w # Head(s)
  PROVE  Before(Tail(s), u, w) <=> Before(s, u, w)
<1>1. /\ Len(s) \in Nat \ {0} /\ Len(Tail(s)) = Len(s) - 1 /\ Head(s) = s[1]
      /\ \A i \in 1 .. Len(s) - 1 : Tail(s)[i] = s[i + 1]
  BY HeadTailProperties, LenProperties, EmptySeq
<1>2. Without(Tail(s), s, 1)
  BY <1>1 DEF Without
<1> QED BY <1>1, <1>2, BeforeWithout

(* The first waiter is behind nobody.                                      *)
LEMMA NobodyBefore ==
  ASSUME NEW S, NEW s \in Seq(S), s # << >>, NEW u
  PROVE  ~ Before(s, u, Head(s))
<1>1. Head(s) = s[1] /\ Len(s) \in Nat
  BY HeadTailProperties, LenProperties
<1> QED BY <1>1 DEF Before

(* cv_wait takes its own waiter out.                                       *)
LEMMA BeforeRemove ==
  ASSUME NEW S, NEW s \in Seq(S), IsInjective(s), NEW e, NEW u, NEW w, u # e, w # e
  PROVE  Before(RemoveFirst(s, e), u, w) <=> Before(s, u, w)
<1>0. DOMAIN s = 1 .. Len(s) /\ Len(s) \in Nat
  BY LenProperties
<1>1. CASE \A i \in 1 .. Len(s) : s[i] # e
  BY <1>1 DEF RemoveFirst
<1>2. CASE \E i \in 1 .. Len(s) : s[i] = e
  <2>1. PICK p \in 1 .. Len(s) : s[p] = e
    BY <1>2
  <2>2. {i \in 1 .. Len(s) : s[i] = e} = {p}
    BY <1>0, <2>1 DEF IsInjective
  <2>3. SelectInSeq(s, LAMBDA v : v = e) = p
    BY <2>2, <1>0 DEF SelectInSeq, Min
  <2>4. RemoveFirst(s, e) = RemoveAt(s, p)
    BY <2>1, <2>3 DEF RemoveFirst
  <2>5. Without(RemoveAt(s, p), s, p)
    BY <1>0, RemoveAtElements DEF Without
  <2> QED BY <2>1, <2>4, <2>5, BeforeWithout
<1> QED BY <1>1, <1>2

(* cv_wait puts its waiter behind the others.                              *)
LEMMA BeforeAppend ==
  ASSUME NEW S, NEW s \in Seq(S), NEW e \in S, e \notin ToSet(s), NEW u, NEW w, u = e => w \in ToSet(s)
  PROVE  Before(Append(s, e), u, w) <=> Before(s, u, w)
<1>1. /\ Len(s) \in Nat /\ Len(Append(s, e)) = Len(s) + 1 /\ Append(s, e)[Len(s) + 1] = e
      /\ \A i \in 1 .. Len(s) : Append(s, e)[i] = s[i]
  BY AppendProperties, LenProperties
<1>2. \A i \in 1 .. Len(s) : s[i] # e
  BY LenProperties DEF ToSet
<1>3. u = e => \E j \in 1 .. Len(s) : s[j] = w
  BY LenProperties DEF ToSet
<1> DEFINE a == Append(s, e)
<1> HIDE DEF a
<1>4. ASSUME NEW i \in 1 .. Len(a), a[i] = u, \A j \in 1 .. i : a[j] # w PROVE Before(s, u, w)
  <2>1. CASE i \in 1 .. Len(s)
    BY <1>1, <1>4, <2>1 DEF Before, a
  <2>2. CASE i = Len(s) + 1
    BY <1>1, <1>3, <1>4, <2>2 DEF a
  <2> QED BY <2>1, <2>2, <1>1 DEF a
<1>5. ASSUME NEW i \in 1 .. Len(s), s[i] = u, \A j \in 1 .. i : s[j] # w PROVE Before(a, u, w)
  BY <1>1, <1>5 DEF Before, a
<1>6. Before(a, u, w) <=> Before(s, u, w)
  BY <1>4, <1>5 DEF Before
<1> QED BY <1>6 DEF a

-----------------------------------------------------------------------------
(* The steps of the monitor.                                               *)

(* u and w wait on one condition variable, and u has come first.           *)
Order(u, w) == IsWaiting(u) /\ IsWaiting(w) /\ wait[u].cv = wait[w].cv /\ Ahead(u, w)

(* Who waits is in the ring, or on its way there with kernel_mutex held.   *)
LEMMA WaiterFound ==
  ASSUME IInv, PlacesInv, NEW w \in Threads, IsWaiting(w)
  PROVE  /\ wait[w].cv \in KernelCVs
         /\ w \in Ring(wait[w].cv) \/ HoldsMutex(w, "kernel_mutex")
<1>0. /\ pc \in [Threads -> Places]
      /\ state \in [Threads -> {"awake", "STOPPED", "EXITED"}]
      /\ state[w] = "STOPPED" => pc[w] = "cvslept"
      /\ op[w] = "wait" /\ (pc[w] = "kreleased" \/ (Signalling(w) /\ sig[w].then = "kreleased"))
           => wait[w].cv \in KernelCVs
      /\ InCvWait(w) => w \in Ring(wait[w].cv)
  BY DEF IInv, TypeOK, StatesPlaced, WaitArguments, SleepersInRing, PlacesInv, PlaceOK, IsWaiting, InWait
<1>1. PlaceOK(w)
  BY DEF PlacesInv
<1> QED BY <1>0, <1>1, CCAssumption DEF Places, PlaceOK, InCv, InCvWait, Signalling, IsWaiting, InWait, Inside, Returning,
            HoldsMutex

(* A thread that does not change is quiet.                                 *)
LEMMA SameQuiet ==
  ASSUME NEW u, SameThread(u)
  PROVE  Quiet(u)
  BY SamePlace DEF Quiet, QuietWait, SameThread

(* The order of two threads whose wait does not change.                    *)
LEMMA OrderKept ==
  ASSUME NEW u, NEW w, QuietWait(u), QuietWait(w),
         IsWaiting(u) /\ IsWaiting(w) /\ wait[u].cv = wait[w].cv
           => (Before(waitset'[wait[u].cv], u, w) <=> Before(waitset[wait[u].cv], u, w))
  PROVE  Order(u, w)' <=> Order(u, w)
<1>1. Ahead(u, w) <=> Before(waitset[wait[u].cv], u, w)
  BY DEF Ahead, Before
<1>2. Ahead(u, w)' <=> Before(waitset'[wait'[u].cv], u, w)
  BY DEF Ahead, Before
<1> QED BY <1>1, <1>2 DEF Order, QuietWait

(* Nobody's wait changes: nor does what the monitor shows of waiting.      *)
LEMMA WaitsKept ==
  ASSUME \A u \in Threads : QuietWait(u), \A u, w \in Threads : Order(u, w)' <=> Order(u, w)
  PROVE  UNCHANGED <<waitersBar, aheadBar, limitedBar>>
<1>1. waitersBar' = waitersBar
  BY DEF waitersBar, QuietWait
<1>2. limitedBar' = limitedBar
  BY DEF limitedBar, QuietWait
<1>3. aheadBar' = aheadBar
  <2>1. aheadBar = {p \in Threads \X Threads : Order(p[1], p[2])}
    BY Zenon DEF aheadBar, Order
  <2>2. aheadBar' = {p \in Threads \X Threads : Order(p[1], p[2])'}
    BY Zenon DEF aheadBar, Order
  <2>3. \A p \in Threads \X Threads : p[1] \in Threads /\ p[2] \in Threads
    OBVIOUS
  <2> QED BY <2>1, <2>2, <2>3
<1> QED BY <1>1, <1>2, <1>3

(* ... nor does its place.                                                 *)
LEMMA MonitorStutters ==
  ASSUME \A u \in Threads : Quiet(u), \A u, w \in Threads : Order(u, w)' <=> Order(u, w)
  PROVE  UNCHANGED Monitor!vars
<1>1. UNCHANGED <<waitersBar, aheadBar, limitedBar>>
  BY WaitsKept DEF Quiet
<1>2. atBar' = atBar
  BY DEF atBar, Quiet
<1> QED BY <1>1, <1>2 DEF Monitor!vars

(* x alone waits no more: the monitor forgets it.                          *)
LEMMA MonitorForgets ==
  ASSUME NEW x \in Threads, IsWaiting(x), ~ IsWaiting(x)', \A u \in Threads : u # x => Quiet(u),
         \A u, w \in Threads : Order(u, w)' <=> Order(u, w) /\ u # x /\ w # x
  PROVE  Monitor!Forget(x) /\ Monitor!Move(x, MonitorPlace(x)')
<1>1. waitersBar' = [cv \in KernelCVs |-> waitersBar[cv] \ {x}]
  <2>1. \A cv \in KernelCVs : waitersBar'[cv] = waitersBar[cv] \ {x}
    BY DEF waitersBar, Quiet, QuietWait
  <2>2. waitersBar' = [cv \in KernelCVs |-> waitersBar'[cv]]
    BY DEF waitersBar
  <2> QED BY <2>1, <2>2
<1>2. limitedBar' = limitedBar \ {x}
  BY DEF limitedBar, Quiet, QuietWait
<1>3. aheadBar' = {p \in aheadBar : p[1] # x /\ p[2] # x}
  <2>1. aheadBar = {p \in Threads \X Threads : Order(p[1], p[2])}
    BY Zenon DEF aheadBar, Order
  <2>2. aheadBar' = {p \in Threads \X Threads : Order(p[1], p[2])'}
    BY Zenon DEF aheadBar, Order
  <2>3. \A p \in Threads \X Threads : p[1] \in Threads /\ p[2] \in Threads
    OBVIOUS
  <2> QED BY <2>1, <2>2, <2>3
<1>4. atBar' = [atBar EXCEPT ![x] = MonitorPlace(x)']
  BY DEF atBar, Quiet
<1> QED BY <1>1, <1>2, <1>3, <1>4 DEF Monitor!Forget, Monitor!Move

(* A step that leaves every wait and the rings alone leaves their order.   *)
LEMMA OrderAlone ==
  ASSUME UNCHANGED waitset, \A u \in Threads : QuietWait(u)
  PROVE  \A u, w \in Threads : Order(u, w)' <=> Order(u, w)
<1> SUFFICES ASSUME NEW u \in Threads, NEW w \in Threads PROVE Order(u, w)' <=> Order(u, w)
  OBVIOUS
<1>1. Before(waitset'[wait[u].cv], u, w) <=> Before(waitset[wait[u].cv], u, w)
  OBVIOUS
<1> QED BY <1>1, OrderKept

(* t enters its ring behind everybody who waits on the condition variable. *)
LEMMA OrderCvLock ==
  ASSUME IInv, PlacesInv, NEW t \in Threads, CvLock(t), \A u \in Threads : QuietWait(u)
  PROVE  \A u, w \in Threads : Order(u, w)' <=> Order(u, w)
<1> SUFFICES ASSUME NEW u \in Threads, NEW w \in Threads PROVE Order(u, w)' <=> Order(u, w)
  OBVIOUS
<1>1. SUFFICES ASSUME IsWaiting(u), IsWaiting(w), wait[u].cv = wait[w].cv
      PROVE Before(waitset'[wait[u].cv], u, w) <=> Before(waitset[wait[u].cv], u, w)
  BY OrderKept
<1>2. /\ waitset \in [CVs -> Seq(Threads)] /\ wait[t].cv \in CVs /\ pc[t] = "cvlock"
      /\ t \notin Ring(wait[t].cv)
      /\ waitset' = [waitset EXCEPT ![wait[t].cv] = Append(@, t)]
  BY DEF IInv, TypeOK, WaitArgs, RingsSound, CvLock
<1>3. wait[u].cv \in KernelCVs /\ wait[u].cv \in CVs /\ (w \in Ring(wait[w].cv) \/ HoldsMutex(w, "kernel_mutex"))
  BY <1>1, WaiterFound DEF CVs
<1>4. CASE wait[u].cv # wait[t].cv
  <2>1. waitset'[wait[u].cv] = waitset[wait[u].cv]
    BY <1>2, <1>3, <1>4
  <2> QED BY <2>1
<1>5. CASE wait[u].cv = wait[t].cv /\ u = w
  <2>1. \A s : ~ Before(s, u, u)
    BY DEF Before
  <2> QED BY <1>5, <2>1
<1>6. CASE wait[u].cv = wait[t].cv /\ u # w
  <2>1. ASSUME u = t PROVE w \in Ring(wait[t].cv)
    <3>1. HoldsMutex(t, "kernel_mutex")
      BY <1>2, <1>3, <1>6, CCAssumption DEF HoldsMutex
    <3>2. ~ HoldsMutex(w, "kernel_mutex")
      BY <3>1, <2>1, <1>6 DEF IInv, MutexesHeld, Mutexes
    <3> QED BY <1>1, <1>3, <1>6, <3>2
  <2>2. waitset'[wait[t].cv] = Append(waitset[wait[t].cv], t) /\ waitset[wait[t].cv] \in Seq(Threads)
    BY <1>2
  <2> QED BY <1>2, <1>6, <2>1, <2>2, BeforeAppend DEF Ring
<1> QED BY <1>4, <1>5, <1>6

(* x, who is not waiting any more, leaves a ring.                          *)
LEMMA OrderLeave ==
  ASSUME IInv, NEW x \in Threads, ~ IsWaiting(x)', NEW c \in CVs,
         \A d \in CVs : d # c => waitset'[d] = waitset[d],
         \A u, w \in Threads : u # x /\ w # x => (Before(waitset'[c], u, w) <=> Before(waitset[c], u, w)),
         \A u \in Threads : u # x => QuietWait(u)
  PROVE  \A u, w \in Threads : Order(u, w)' <=> Order(u, w) /\ u # x /\ w # x
<1> SUFFICES ASSUME NEW u \in Threads, NEW w \in Threads PROVE Order(u, w)' <=> Order(u, w) /\ u # x /\ w # x
  OBVIOUS
<1>1. CASE u = x \/ w = x
  BY <1>1 DEF Order
<1>2. CASE u # x /\ w # x
  <2>1. wait[u].cv \in CVs
    BY DEF IInv, TypeOK, WaitArgs
  <2>2. Before(waitset'[wait[u].cv], u, w) <=> Before(waitset[wait[u].cv], u, w)
    BY <1>2, <2>1
  <2>3. QuietWait(u) /\ QuietWait(w)
    BY <1>2
  <2> QED BY <1>2, <2>2, <2>3, OrderKept
<1> QED BY <1>1, <1>2

(* t tidies its ring up: its own wait is over.                             *)
LEMMA OrderCvWoken ==
  ASSUME IInv, NEW t \in Threads, CvWoken(t), \A u \in Threads : QuietWait(u)
  PROVE  \A u, w \in Threads : Order(u, w)' <=> Order(u, w)
<1>1. waitset \in [CVs -> Seq(Threads)] /\ wait[t].cv \in CVs /\ \A c \in CVs : IsInjective(waitset[c])
  BY DEF IInv, TypeOK, WaitArgs, RingsSound
<1>2. CASE UNCHANGED waitset
  BY <1>2, OrderAlone
<1>3. CASE waitset' = [waitset EXCEPT ![wait[t].cv] = RemoveFirst(@, t)]
  <2>1. ~ IsWaiting(t) /\ ~ IsWaiting(t)'
    BY DEF CvWoken, IsWaiting, Returning, QuietWait
  <2>2. \A d \in CVs : d # wait[t].cv => waitset'[d] = waitset[d]
    BY <1>1, <1>3
  <2>3. waitset'[wait[t].cv] = RemoveFirst(waitset[wait[t].cv], t) /\ waitset[wait[t].cv] \in Seq(Threads)
    BY <1>1, <1>3
  <2>4. ASSUME NEW u \in Threads, NEW w \in Threads, u # t, w # t
        PROVE  Before(waitset'[wait[t].cv], u, w) <=> Before(waitset[wait[t].cv], u, w)
    BY <1>1, <2>3, <2>4, BeforeRemove
  <2>5. \A u, w \in Threads : Order(u, w)' <=> Order(u, w) /\ u # t /\ w # t
    BY <1>1, <2>1, <2>2, <2>4, OrderLeave
  <2> QED BY <2>1, <2>5 DEF Order
<1> QED BY <1>2, <1>3 DEF CvWoken, TidyUp

(* The steps of a thread that the monitor does not show.                   *)
LEMMA StepQuiet ==
  ASSUME IInv, PlacesInv, NEW t \in Threads, Call(t) \/ Proceed(t),
         ~ SignalOne(t), ~ SemTake(t), ~ KRelease(t)
  PROVE  UNCHANGED Monitor!vars
<1>1. PlaceOK(t)
  BY DEF PlacesInv
<1>2. Quiet(t)
  BY <1>1, QuietCalls, QuietSteps, Zenon
<1>3. ASSUME NEW u \in Threads PROVE Quiet(u)
  <2>1. CASE u # t
    BY <2>1, Others, SameQuiet
  <2> QED BY <1>2, <2>1
<1>4. \A u \in Threads : QuietWait(u)
  BY <1>3 DEF Quiet
<1>5. CASE CvLock(t)
  BY <1>3, <1>4, <1>5, OrderCvLock, MonitorStutters
<1>6. CASE CvWoken(t)
  BY <1>3, <1>4, <1>6, OrderCvWoken, MonitorStutters
<1>7. CASE ~ CvLock(t) /\ ~ CvWoken(t)
  <2>1. UNCHANGED waitset
    BY <1>7, RingsAlone, Zenon
  <2> QED BY <1>3, <1>4, <2>1, OrderAlone, MonitorStutters
<1> QED BY <1>5, <1>6, <1>7

(* Who has not got the semaphore is not inside.                            *)
LEMMA OutsidePlace ==
  ASSUME NEW u, ~ Inside(u)
  PROVE  MonitorPlace(u) # "inside"
  BY DEF MonitorPlace, WaitResult

(* kernel_lock, or kernel_wait, gets the semaphore: nobody was inside.     *)
LEMMA StepSemTake ==
  ASSUME IInv, PlacesInv, NEW t \in Threads, SemTake(t)
  PROVE  Monitor!Enter(t)
<1>1. /\ ~ IsWaiting(t) /\ ~ IsWaiting(t)' /\ MonitorPlace(t)' = "inside"
      /\ MonitorPlace(t) \in {"outside", "signalled", "expired"}
  BY PlaceSemTake DEF PlacesInv
<1>2. ASSUME NEW u \in Threads, u # t PROVE Quiet(u)
  <2>1. Proceed(t) /\ ~ SignalOne(t)
    BY DEF Proceed, SemTake, SignalOne
  <2> QED BY <1>2, <2>1, Others, SameQuiet
<1>3. \A u \in Threads : QuietWait(u)
  BY <1>1, <1>2 DEF Quiet, QuietWait
<1>4. UNCHANGED waitset
  BY DEF SemTake, ringVars
<1>5. UNCHANGED <<waitersBar, aheadBar, limitedBar>>
  BY <1>3, <1>4, OrderAlone, WaitsKept
<1>6. atBar' = [atBar EXCEPT ![t] = "inside"]
  BY <1>1, <1>2 DEF atBar, Quiet
<1>7. ASSUME NEW u \in Threads PROVE atBar[u] # "inside"
  <2>1. ~ Inside(u)
    BY DEF SemTake, SemFree, IInv, KernelExclusion
  <2>2. MonitorPlace(u) # "inside"
    BY <2>1, OutsidePlace
  <2> QED BY <2>2 DEF atBar
<1>8. atBar[t] \in {"outside", "signalled", "expired"}
  BY <1>1 DEF atBar
<1> QED BY <1>5, <1>6, <1>7, <1>8 DEF Monitor!Enter, Monitor!Move

(* kernel_unlock, kernel_sleep or kernel_wait gives the semaphore back.    *)
LEMMA StepKRelease ==
  ASSUME IInv, PlacesInv, NEW t \in Threads, KRelease(t)
  PROVE  Monitor!Leave(t) \/ \E cv \in KernelCVs, timed \in BOOLEAN : Monitor!Wait(t, cv, timed)
<1>1. /\ MonitorPlace(t) = "inside" /\ ~ IsWaiting(t) /\ wait' = wait
      /\ \/ /\ wait[t].cv \in KernelCVs /\ IsWaiting(t)' /\ MonitorPlace(t)' = "waiting"
         \/ ~ IsWaiting(t)' /\ MonitorPlace(t)' \in {"outside", "gone"}
  BY PlaceKRelease DEF PlacesInv
<1>2. ASSUME NEW u \in Threads, u # t PROVE Quiet(u)
  <2>1. Proceed(t) /\ ~ SignalOne(t)
    BY DEF Proceed, KRelease, SignalOne
  <2> QED BY <1>2, <2>1, Others, SameQuiet
<1>3. UNCHANGED waitset /\ mutex["kernel_mutex"] = NULL /\ pc[t] = "krelease"
  BY DEF KRelease, ringVars, Mutex_Lock
<1>4. atBar[t] = "inside" /\ atBar' = [atBar EXCEPT ![t] = MonitorPlace(t)']
  BY <1>1, <1>2 DEF atBar, Quiet
<1>5. CASE ~ IsWaiting(t)' /\ MonitorPlace(t)' \in {"outside", "gone"}
  <2>1. \A u \in Threads : QuietWait(u)
    BY <1>1, <1>2, <1>5 DEF Quiet, QuietWait
  <2>2. UNCHANGED <<waitersBar, aheadBar, limitedBar>>
    BY <1>3, <2>1, OrderAlone, WaitsKept
  <2> QED BY <1>4, <1>5, <2>2 DEF Monitor!Leave, Monitor!Move
<1>6. CASE wait[t].cv \in KernelCVs /\ IsWaiting(t)' /\ MonitorPlace(t)' = "waiting"
  <2>1. PICK cv \in KernelCVs, timed \in BOOLEAN : cv = wait[t].cv /\ timed = wait[t].timed
    BY <1>6 DEF IInv, TypeOK, WaitArgs
  <2>2. waitersBar' = [waitersBar EXCEPT ![cv] = @ \cup {t}]
    <3>1. \A c \in KernelCVs : waitersBar'[c] = IF c = cv THEN waitersBar[c] \cup {t} ELSE waitersBar[c]
      BY <1>1, <1>2, <1>6, <2>1 DEF waitersBar, Quiet, QuietWait
    <3>2. /\ waitersBar = [c \in KernelCVs |-> waitersBar[c]]
          /\ waitersBar' = [c \in KernelCVs |-> waitersBar'[c]]
      BY DEF waitersBar
    <3> HIDE DEF waitersBar
    <3> QED BY <3>1, <3>2
  <2>3. limitedBar' = IF timed THEN limitedBar \cup {t} ELSE limitedBar
    BY <1>1, <1>2, <1>6, <2>1 DEF limitedBar, Quiet, QuietWait
  <2>4. t \notin Ring(cv) /\ cv \in CVs /\ waitset[cv] \in Seq(Threads)
    BY <1>3 DEF IInv, RingsSound, CVs, TypeOK
  <2>5. ASSUME NEW u \in Threads, NEW w \in Threads
        PROVE  Order(u, w)' <=> Order(u, w) \/ (u \in waitersBar[cv] /\ w = t)
    <3>1. CASE u = t
      <4>1. ~ Before(waitset'[wait'[t].cv], t, w)
        BY <1>1, <1>3, <2>1, <2>4, LenProperties DEF Before, Ring, ToSet
      <4>2. ~ Order(u, w)'
        BY <3>1, <4>1 DEF Order, Ahead, Before
      <4> QED BY <1>1, <3>1, <4>2 DEF Order, waitersBar
    <3>2. CASE u # t /\ w = t
      <4>1. ~ Order(u, w)
        BY <1>1, <3>2 DEF Order
      <4>2. Order(u, w)' => u \in waitersBar[cv]
        BY <1>1, <1>2, <2>1, <3>2 DEF Order, waitersBar, Quiet, QuietWait
      <4>3. ASSUME u \in waitersBar[cv] PROVE Order(u, w)'
        <5>1. IsWaiting(u) /\ IsWaiting(u)' /\ wait[u].cv = cv
          BY <1>2, <3>2, <4>3 DEF waitersBar, Quiet, QuietWait
        <5>2. u \in Ring(cv)
          <6>1. ~ HoldsMutex(u, "kernel_mutex")
            BY <1>3, CCAssumption DEF IInv, MutexesHeld, Mutexes
          <6> QED BY <5>1, <6>1, WaiterFound
        <5>3. Before(waitset[cv], u, t)
          <6>1. PICK i \in 1 .. Len(waitset[cv]) : waitset[cv][i] = u
            BY <2>4, <5>2, LenProperties DEF Ring, ToSet
          <6>2. \A j \in 1 .. Len(waitset[cv]) : waitset[cv][j] # t
            BY <2>4, LenProperties DEF Ring, ToSet
          <6>3. Len(waitset[cv]) \in Nat
            BY <2>4, LenProperties
          <6> QED BY <6>1, <6>2, <6>3 DEF Before
        <5>4. Ahead(u, t)'
          BY <1>1, <1>3, <5>1, <5>3 DEF Ahead, Before
        <5> QED BY <1>1, <1>6, <2>1, <3>2, <5>1, <5>4 DEF Order
      <4> QED BY <3>2, <4>1, <4>2, <4>3
    <3>3. CASE u # t /\ w # t
      <4>1. QuietWait(u) /\ QuietWait(w)
        BY <1>2, <3>3 DEF Quiet
      <4>2. Order(u, w)' <=> Order(u, w)
        BY <1>3, <4>1, OrderKept
      <4> QED BY <3>3, <4>2
    <3> QED BY <3>1, <3>2, <3>3
  <2>6. aheadBar' = aheadBar \cup (waitersBar[cv] \X {t})
    <3>1. aheadBar = {p \in Threads \X Threads : Order(p[1], p[2])}
      BY Zenon DEF aheadBar, Order
    <3>2. aheadBar' = {p \in Threads \X Threads : Order(p[1], p[2])'}
      BY Zenon DEF aheadBar, Order
    <3>3. waitersBar[cv] \subseteq Threads
      BY DEF waitersBar
    <3> HIDE DEF waitersBar
    <3>4. \A p \in aheadBar' : p \in aheadBar \cup (waitersBar[cv] \X {t})
      BY <2>5, <3>1, <3>2
    <3>5. \A p \in aheadBar : p \in aheadBar'
      BY <2>5, <3>1, <3>2
    <3>6. \A p \in waitersBar[cv] \X {t} : p \in aheadBar'
      BY <2>5, <3>2, <3>3
    <3> QED BY <3>4, <3>5, <3>6
  <2>7. Monitor!Wait(t, cv, timed)
    BY <1>4, <1>6, <2>2, <2>3, <2>6 DEF Monitor!Wait, Monitor!Move
  <2> QED BY <2>7
<1> QED BY <1>1, <1>5, <1>6

(* A timeout in kernel_wait ends the wait; others do not show.             *)
LEMMA StepTimeout ==
  ASSUME IInv, PlacesInv, NEW t \in Threads, TimeoutExpires(t)
  PROVE  Monitor!Expire(t) \/ UNCHANGED Monitor!vars
<1>1. ASSUME NEW u \in Threads, u # t PROVE Quiet(u)
  <2>1. ~ SignalOne(t)
    BY DEF IInv, StatesPlaced, TimeoutExpires, SignalOne
  <2> QED BY <1>1, <2>1, Others, SameQuiet
<1>2. UNCHANGED waitset
  BY DEF TimeoutExpires
<1>3. CASE Quiet(t)
  <2>1. \A u \in Threads : Quiet(u)
    BY <1>1, <1>3
  <2>2. \A u \in Threads : QuietWait(u)
    BY <2>1 DEF Quiet
  <2> QED BY <1>2, <2>1, <2>2, OrderAlone, MonitorStutters
<1>4. CASE IsWaiting(t) /\ wait[t].timed /\ ~ IsWaiting(t)' /\ MonitorPlace(t)' = "expired"
  <2>1. wait[t].cv \in CVs
    BY DEF IInv, TypeOK, WaitArgs
  <2>2. \A u \in Threads : u # t => QuietWait(u)
    BY <1>1 DEF Quiet
  <2>3. \A u, w \in Threads : Order(u, w)' <=> Order(u, w) /\ u # t /\ w # t
    BY <1>2, <1>4, <2>1, <2>2, OrderLeave
  <2>4. Monitor!Forget(t) /\ Monitor!Move(t, MonitorPlace(t)')
    BY <1>1, <1>4, <2>3, MonitorForgets
  <2>5. t \in limitedBar
    BY <1>4 DEF limitedBar
  <2> QED BY <1>4, <2>4, <2>5 DEF Monitor!Expire
<1> QED BY <1>3, <1>4, PlaceTimeout

(* A round of cv_signal that finds a sleeper of kernel_wait is a signal:   *)
(* the sleeper is the one that nobody is ahead of.  No other round shows.  *)
LEMMA StepSignalOne ==
  ASSUME IInv, PlacesInv, NEW t \in Threads, SignalOne(t)
  PROVE  (\E cv \in KernelCVs : Monitor!Signal(t, cv)) \/ UNCHANGED Monitor!vars
<1>1. PICK x : x = Head(waitset[sig[t].cv])
  OBVIOUS
<1>2. /\ x \in Threads /\ x # t /\ sig[t].cv \in CVs /\ wait[x].cv = sig[t].cv /\ wait' = wait
      /\ pc'[x] = "cvslept" /\ pc[x] = "cvslept"
      /\ state'[x] = (IF state[x] = "STOPPED" THEN "awake" ELSE state[x])
      /\ waitset' = [waitset EXCEPT ![sig[t].cv] = Tail(@)]
  BY <1>1, SignalFacts
<1>3. \A u \in Threads : u # t /\ u # x => SameThread(u)
  BY <1>1, SignalFacts
<1>4. /\ Quiet(t)
      /\ \/ /\ sig[t].cv \in KernelCVs /\ MonitorPlace(t) = "inside" /\ IsWaiting(x)
            /\ ~ IsWaiting(x)' /\ MonitorPlace(x)' = "signalled"
         \/ Quiet(x)
  BY <1>1, PlaceSignal
<1>5. ASSUME NEW u \in Threads, u # x PROVE Quiet(u)
  <2>1. CASE u # t
    BY <1>3, <1>5, <2>1, SameQuiet
  <2> QED BY <1>4, <2>1
<1>6. ~ IsWaiting(x)'
  <2>1. state[x] \in {"awake", "STOPPED", "EXITED"} /\ state[x] # "EXITED"
    BY <1>2 DEF IInv, TypeOK, PlacesInv, PlaceOK
  <2> QED BY <1>2, <2>1 DEF IsWaiting, Returning
<1>7. /\ waitset \in [CVs -> Seq(Threads)] /\ waitset[sig[t].cv] \in Seq(Threads)
      /\ waitset[sig[t].cv] # << >> /\ waitset'[sig[t].cv] = Tail(waitset[sig[t].cv])
      /\ \A d \in CVs : d # sig[t].cv => waitset'[d] = waitset[d]
  BY <1>2 DEF IInv, TypeOK, SignalOne
<1>8. \A u, w \in Threads : Order(u, w)' <=> Order(u, w) /\ u # x /\ w # x
  <2>1. ASSUME NEW u \in Threads, NEW w \in Threads, u # x, w # x
        PROVE  Before(waitset'[sig[t].cv], u, w) <=> Before(waitset[sig[t].cv], u, w)
    BY <1>1, <1>7, <2>1, BeforeTail
  <2>2. \A u \in Threads : u # x => QuietWait(u)
    BY <1>5 DEF Quiet
  <2> QED BY <1>2, <1>6, <1>7, <2>1, <2>2, OrderLeave
<1>9. CASE Quiet(x)
  <2>1. \A u \in Threads : Quiet(u)
    BY <1>5, <1>9
  <2>2. ~ IsWaiting(x)
    BY <1>6, <1>9 DEF Quiet, QuietWait
  <2>3. \A u, w \in Threads : Order(u, w)' <=> Order(u, w)
    BY <1>8, <2>2 DEF Order
  <2> QED BY <2>1, <2>3, MonitorStutters
<1>10. CASE /\ sig[t].cv \in KernelCVs /\ MonitorPlace(t) = "inside" /\ IsWaiting(x)
            /\ ~ IsWaiting(x)' /\ MonitorPlace(x)' = "signalled"
  <2>1. PICK cv \in KernelCVs : cv = sig[t].cv
    BY <1>10
  <2>2. Monitor!Forget(x) /\ Monitor!Move(x, MonitorPlace(x)')
    BY <1>2, <1>5, <1>8, <1>10, MonitorForgets
  <2>3. atBar[t] = "inside"
    BY <1>10 DEF atBar
  <2>4. x \in waitersBar[cv]
    BY <1>2, <1>10, <2>1 DEF waitersBar
  <2>5. ASSUME NEW u \in waitersBar[cv] PROVE <<u, x>> \notin aheadBar
    <3>1. wait[u].cv = cv /\ u \in Threads
      BY DEF waitersBar
    <3>2. ~ Before(waitset[cv], u, x)
      BY <1>1, <1>7, <2>1, NobodyBefore
    <3>3. ~ Ahead(u, x)
      BY <3>1, <3>2 DEF Ahead, Before
    <3> QED BY <3>3 DEF aheadBar
  <2>6. Monitor!Signal(t, cv)
    BY <1>10, <2>2, <2>3, <2>4, <2>5 DEF Monitor!Signal
  <2> QED BY <2>6
<1> QED BY <1>4, <1>9, <1>10

(* Every step of kernel_cc.c is a step of the monitor or changes nothing   *)
(* that it shows.                                                          *)
LEMMA MonitorStep == IInv /\ PlacesInv /\ [Next]_vars => [Monitor!Next]_(Monitor!vars)
<1> SUFFICES ASSUME IInv, PlacesInv, [Next]_vars PROVE Monitor!Next \/ UNCHANGED Monitor!vars
  OBVIOUS
<1>1. CASE UNCHANGED vars
  <2>1. UNCHANGED waitset /\ \A u \in Threads : SameThread(u)
    BY <1>1 DEF vars, SameThread
  <2>2. \A u \in Threads : Quiet(u)
    BY <2>1, SameQuiet
  <2>3. \A u \in Threads : QuietWait(u)
    BY <2>2 DEF Quiet
  <2> QED BY <2>1, <2>2, <2>3, OrderAlone, MonitorStutters
<1>2. ASSUME NEW t \in Threads, Call(t) \/ Proceed(t) \/ TimeoutExpires(t)
      PROVE  Monitor!Next \/ UNCHANGED Monitor!vars
  <2>1. CASE SignalOne(t)
    BY <2>1, StepSignalOne DEF Monitor!Next
  <2>2. CASE SemTake(t)
    BY <2>2, StepSemTake DEF Monitor!Next
  <2>3. CASE KRelease(t)
    BY <2>3, StepKRelease DEF Monitor!Next
  <2>4. CASE TimeoutExpires(t)
    BY <2>4, StepTimeout DEF Monitor!Next
  <2>5. CASE (Call(t) \/ Proceed(t)) /\ ~ SignalOne(t) /\ ~ SemTake(t) /\ ~ KRelease(t)
    BY <2>5, StepQuiet
  <2> QED BY <1>2, <2>1, <2>2, <2>3, <2>4, <2>5
<1> QED BY <1>1, <1>2, Zenon DEF Next

(* It starts as the monitor does.                                          *)
LEMMA MonitorInit == Init => Monitor!Init
<1> SUFFICES ASSUME Init PROVE Monitor!Init
  OBVIOUS
<1>1. ASSUME NEW t \in Threads PROVE MonitorPlace(t) = "outside" /\ ~ IsWaiting(t)
  BY DEF Init, MonitorPlace, IsWaiting, InWait, Inside
<1>2. atBar = [t \in Threads |-> "outside"]
  BY <1>1 DEF atBar
<1>3. waitersBar = [cv \in KernelCVs |-> {}] /\ limitedBar = {} /\ aheadBar = {}
  BY <1>1 DEF waitersBar, limitedBar, aheadBar
<1> QED BY <1>2, <1>3 DEF Monitor!Init

(* kernel_cc.c implements the monitor that the system calls rely on, for   *)
(* any number of threads and condition variables: one thread is inside,    *)
(* waiters are woken up in the order they came, only from inside, and      *)
(* kernel_wait tells a signal from a timeout, whichever was first.         *)
THEOREM KernelIsMonitor == Spec => MonitorSpec
<1>1. Init => PlacesInv /\ Monitor!Init
  BY PlacesInit, MonitorInit
<1>2. IInv /\ PlacesInv /\ [Next]_vars => PlacesInv'
  BY PlacesStep
<1>3. IInv /\ PlacesInv /\ [Next]_vars => [Monitor!Next]_(Monitor!vars)
  BY MonitorStep
<1>4. Spec => Init /\ []IInv /\ [][Next]_vars
  BY Invariance DEF Spec
<1> QED BY <1>1, <1>2, <1>3, <1>4, PTL DEF MonitorSpec, Monitor!Spec
=============================================================================
