------------------------------ MODULE KernelCC ------------------------------
(***************************************************************************)
(* Concurrency control (kernel_cc.c): mutexes, condition variables, and    *)
(* the kernel semaphore with kernel_lock, kernel_unlock, kernel_wait,      *)
(* kernel_signal, kernel_broadcast and kernel_sleep built from them.       *)
(*                                                                         *)
(* A thread runs on some core or is preempted anywhere, so its steps       *)
(* interleave with everyone's.  One action reaches from one lock operation *)
(* to the next.  Of the scheduler only what this code uses is kept: a      *)
(* thread is awake (READY or RUNNING), STOPPED or EXITED; module Scheduler *)
(* shows that wakeup() and sleep_releasing() do what is assumed here.      *)
(***************************************************************************)
EXTENDS Integers, FiniteSets, SequencesExt

CONSTANTS
  Threads,
  KernelCVs,   \* condition variables that system calls wait on
  UserCVs,     \* condition variables of user programs, used with one user mutex
  SemCV,       \* kernel_sem_cv
  NULL

ASSUME CCAssumption ==
  /\ SemCV \notin KernelCVs \cup UserCVs
  /\ KernelCVs \cap UserCVs = {}
  /\ NULL \notin Threads

VARIABLES
  mutex,         \* the holder of each mutex, or NULL
  kernel_sem,    \* the semaphore's counter
  waitset,       \* the ring of waiters of each condition variable
  waitset_lock,  \* the holder of each condition variable's spinlock, or NULL
  state,         \* tcb->state: "awake", "STOPPED" or "EXITED"
  signalled,     \* the fields of the thread's __cv_waiter
  removed,
  pc,            \* where each thread is
  wait,          \* the arguments of its cv_wait
  sig,           \* the arguments of its Cond_Signal or Cond_Broadcast
  op,            \* which kernel operation it executes
  ret            \* the result of its last kernel_wait

vars == <<mutex, kernel_sem, waitset, waitset_lock, state, signalled, removed,
          pc, wait, sig, op, ret>>

CVs     == KernelCVs \cup UserCVs \cup {SemCV}
Mutexes == {"kernel_mutex", "user_mutex"}

(* The mutex that goes with a condition variable.                          *)
MutexOf(cv) == IF cv \in UserCVs THEN "user_mutex" ELSE "kernel_mutex"

(* Where a thread is:                                                      *)
(*   user, umon   user code, outside and inside its own monitor            *)
(*   klock        kernel_lock, before its Mutex_Lock                       *)
(*   sem          holds kernel_mutex, at the test of the semaphore loop    *)
(*   kernel       executes a system call                                   *)
(*   krelease     about to lock kernel_mutex and give up the semaphore     *)
(*   kreleased    holds kernel_mutex, has signalled kernel_sem_cv          *)
(*   siglock      Cond_Signal or Cond_Broadcast, before its Mutex_Lock     *)
(*   siglocked    inside its critical section                              *)
(*   cvlock       cv_wait, before it locks the ring                        *)
(*   cvqueued     in the ring, about to unlock the mutex                   *)
(*   cvsleep      about to call sleep_releasing                            *)
(*   cvslept      asleep, or awake and about to lock the ring again        *)
(*   cvrelock     about to lock the mutex again                            *)
(*   gone         EXITED                                                   *)
Places == {"user", "umon", "klock", "sem", "kernel", "krelease", "kreleased", "siglock",
           "siglocked", "cvlock", "cvqueued", "cvsleep", "cvslept", "cvrelock", "gone"}

WaitArgs == [cv : CVs, timed : BOOLEAN]
SigArgs  == [cv : CVs, all : BOOLEAN, then : {"user", "umon", "kernel", "kreleased"}]

TypeOK ==
  /\ mutex \in [Mutexes -> Threads \cup {NULL}]
  /\ kernel_sem \in {0, 1}
  /\ waitset \in [CVs -> Seq(Threads)]
  /\ waitset_lock \in [CVs -> Threads \cup {NULL}]
  /\ state \in [Threads -> {"awake", "STOPPED", "EXITED"}]
  /\ signalled \in [Threads -> BOOLEAN]
  /\ removed \in [Threads -> BOOLEAN]
  /\ pc \in [Threads -> Places]
  /\ wait \in [Threads -> WaitArgs]
  /\ sig \in [Threads -> SigArgs]
  /\ op \in [Threads -> {"lock", "unlock", "wait", "sleep"}]
  /\ ret \in [Threads -> BOOLEAN]

Init ==
  /\ mutex = [m \in Mutexes |-> NULL]
  /\ kernel_sem = 1
  /\ waitset = [cv \in CVs |-> << >>]
  /\ waitset_lock = [cv \in CVs |-> NULL]
  /\ state = [t \in Threads |-> "awake"]
  /\ signalled = [t \in Threads |-> FALSE]
  /\ removed = [t \in Threads |-> FALSE]
  /\ pc = [t \in Threads |-> "user"]
  /\ wait = [t \in Threads |-> [cv |-> SemCV, timed |-> FALSE]]
  /\ sig = [t \in Threads |-> [cv |-> SemCV, all |-> FALSE, then |-> "user"]]
  /\ op = [t \in Threads |-> "lock"]
  /\ ret = [t \in Threads |-> FALSE]

Goto(t, place) == pc' = [pc EXCEPT ![t] = place]

(* Mutex_Lock: the test-and-set succeeds; until then the thread spins or   *)
(* yields and changes nothing.                                             *)
Mutex_Lock(t, m)   == mutex[m] = NULL /\ mutex' = [mutex EXCEPT ![m] = t]
Mutex_Unlock(t, m) == mutex' = [mutex EXCEPT ![m] = NULL]

ringVars == <<waitset, waitset_lock, state, signalled, removed>>

-----------------------------------------------------------------------------
(* cv_wait(MutexOf(cv), cv, timeout).                                      *)

CallWait(t, cv, timed) ==
  /\ wait' = [wait EXCEPT ![t] = [cv |-> cv, timed |-> timed]]
  /\ Goto(t, "cvlock")

(* A fresh __cv_waiter is pushed at the back of the ring.                  *)
CvLock(t) ==
  LET cv == wait[t].cv IN
  /\ pc[t] = "cvlock"
  /\ waitset_lock[cv] = NULL
  /\ waitset_lock' = [waitset_lock EXCEPT ![cv] = t]
  /\ waitset' = [waitset EXCEPT ![cv] = Append(@, t)]
  /\ signalled' = [signalled EXCEPT ![t] = FALSE]
  /\ removed' = [removed EXCEPT ![t] = FALSE]
  /\ Goto(t, "cvqueued")
  /\ UNCHANGED <<mutex, kernel_sem, state, wait, sig, op, ret>>

(* Mutant: the ring is unlocked together with the mutex, before the sleep. *)
UnlockBoth(t) ==
  /\ Mutex_Unlock(t, MutexOf(wait[t].cv))
  /\ waitset_lock' = [waitset_lock EXCEPT ![wait[t].cv] = NULL]

UnlockMutex(t) ==
  /\ Mutex_Unlock(t, MutexOf(wait[t].cv))
  /\ UNCHANGED waitset_lock

CvUnlock(t) ==
  /\ pc[t] = "cvqueued"
  /\ UnlockMutex(t)
  /\ Goto(t, "cvsleep")
  /\ UNCHANGED <<kernel_sem, waitset, state, signalled, removed, wait, sig, op, ret>>

(* sleep_releasing(STOPPED, &cv->waitset_lock, cause, timeout): no wakeup  *)
(* can come between the change of state and the unlocking.                 *)
CvSleep(t) ==
  /\ pc[t] = "cvsleep"
  /\ state' = [state EXCEPT ![t] = "STOPPED"]
  /\ waitset_lock' = [waitset_lock EXCEPT ![wait[t].cv] = NULL]
  /\ Goto(t, "cvslept")
  /\ UNCHANGED <<mutex, kernel_sem, waitset, signalled, removed, wait, sig, op, ret>>

(* The scheduler wakes up a thread whose timeout has expired.              *)
TimeoutExpires(t) ==
  /\ state[t] = "STOPPED"
  /\ wait[t].timed
  /\ state' = [state EXCEPT ![t] = "awake"]
  /\ UNCHANGED <<mutex, kernel_sem, waitset, waitset_lock, signalled, removed, pc,
                 wait, sig, op, ret>>

(* Mutant: a waiter that timed out is left in the ring.                    *)
LeaveInRing(t, cv) == UNCHANGED waitset

(* remove_from_ring, unless a signaller has done it.                       *)
TidyUp(t, cv) ==
  \/ removed[t] /\ UNCHANGED waitset
  \/ ~ removed[t] /\ waitset' = [waitset EXCEPT ![cv] = RemoveFirst(@, t)]

(* Woken up: lock the ring, tidy up, unlock it.                            *)
CvWoken(t) ==
  /\ pc[t] = "cvslept"
  /\ state[t] = "awake"
  /\ waitset_lock[wait[t].cv] = NULL
  /\ TidyUp(t, wait[t].cv)
  /\ Goto(t, "cvrelock")
  /\ UNCHANGED <<mutex, kernel_sem, waitset_lock, state, signalled, removed, wait, sig, op, ret>>

(* cv_wait returns with the mutex held.  kernel_wait keeps the result of   *)
(* its own wait, not of the waits for the semaphore after it.              *)
CvRelock(t) ==
  /\ pc[t] = "cvrelock"
  /\ Mutex_Lock(t, MutexOf(wait[t].cv))
  /\ Goto(t, IF wait[t].cv \in UserCVs THEN "umon" ELSE "sem")
  /\ ret' = IF wait[t].cv \in KernelCVs THEN [ret EXCEPT ![t] = signalled[t]] ELSE ret
  /\ UNCHANGED <<kernel_sem, ringVars, wait, sig, op>>

-----------------------------------------------------------------------------
(* Cond_Signal and Cond_Broadcast.                                         *)

CallSignal(t, cv, all, then) ==
  /\ sig' = [sig EXCEPT ![t] = [cv |-> cv, all |-> all, then |-> then]]
  /\ Goto(t, "siglock")

SigLock(t) ==
  /\ pc[t] = "siglock"
  /\ waitset_lock[sig[t].cv] = NULL
  /\ waitset_lock' = [waitset_lock EXCEPT ![sig[t].cv] = t]
  /\ Goto(t, "siglocked")
  /\ UNCHANGED <<mutex, kernel_sem, waitset, state, signalled, removed, wait, sig, op, ret>>

SigReturn(t) ==
  /\ waitset_lock' = [waitset_lock EXCEPT ![sig[t].cv] = NULL]
  /\ Goto(t, sig[t].then)

(* Mutant: cv_signal stops at the first waiter, whether it woke up or not. *)
FirstWaiterEnds(t, woken) == ~ sig[t].all

(* cv_signal goes on to the next waiter when wakeup() returned 0, and      *)
(* Cond_Broadcast as long as the ring is not empty.                        *)
SignalEnds(t, woken) == woken /\ ~ sig[t].all

(* Mutant: the waiter is marked as signalled although it had timed out.    *)
SignalUnrecorded(w, woken) == signalled' = [signalled EXCEPT ![w] = TRUE]

SignalRecord(w, woken) == signalled' = [signalled EXCEPT ![w] = woken]

(* One round of the loop of cv_signal: the first waiter leaves the ring    *)
(* and is woken up if it is still asleep.                                  *)
SignalOne(t) ==
  LET cv == sig[t].cv
      w  == Head(waitset[cv])
      woken == state[w] = "STOPPED"
  IN /\ pc[t] = "siglocked"
     /\ waitset[cv] # << >>
     /\ waitset' = [waitset EXCEPT ![cv] = Tail(@)]
     /\ removed' = [removed EXCEPT ![w] = TRUE]
     /\ state' = [state EXCEPT ![w] = IF woken THEN "awake" ELSE @]
     /\ SignalRecord(w, woken)
     /\ \/ SignalEnds(t, woken) /\ SigReturn(t)
        \/ ~ SignalEnds(t, woken) /\ UNCHANGED <<waitset_lock, pc>>
     /\ UNCHANGED <<mutex, kernel_sem, wait, sig, op, ret>>

SignalNone(t) ==
  /\ pc[t] = "siglocked"
  /\ waitset[sig[t].cv] = << >>
  /\ SigReturn(t)
  /\ UNCHANGED <<mutex, kernel_sem, waitset, state, signalled, removed, wait, sig, op, ret>>

-----------------------------------------------------------------------------
(* The kernel semaphore.                                                   *)

KernelLock(t) ==
  /\ pc[t] = "user"
  /\ op' = [op EXCEPT ![t] = "lock"]
  /\ Goto(t, "klock")
  /\ UNCHANGED <<mutex, kernel_sem, ringVars, wait, sig, ret>>

KLock(t) ==
  /\ pc[t] = "klock"
  /\ Mutex_Lock(t, "kernel_mutex")
  /\ Goto(t, "sem")
  /\ UNCHANGED <<kernel_sem, ringVars, wait, sig, op, ret>>

(* Mutant: the semaphore counts one unit too many.                         *)
SemFreeTooEarly == kernel_sem >= 0

SemFree == kernel_sem > 0

(* while(kernel_sem<=0) Cond_Wait(...); kernel_sem--; Mutex_Unlock         *)
SemTake(t) ==
  /\ pc[t] = "sem"
  /\ SemFree
  /\ kernel_sem' = kernel_sem - 1
  /\ Mutex_Unlock(t, "kernel_mutex")
  /\ Goto(t, "kernel")
  /\ UNCHANGED <<ringVars, wait, sig, op, ret>>

SemWait(t) ==
  /\ pc[t] = "sem"
  /\ ~ SemFree
  /\ CallWait(t, SemCV, FALSE)
  /\ UNCHANGED <<mutex, kernel_sem, ringVars, sig, op, ret>>

(* A system call signals or broadcasts a condition.                        *)
KernelSignal(t, cv, all) ==
  /\ pc[t] = "kernel"
  /\ CallSignal(t, cv, all, "kernel")
  /\ UNCHANGED <<mutex, kernel_sem, ringVars, wait, op, ret>>

(* A system call calls kernel_wait, kernel_unlock or kernel_sleep(EXITED). *)
KernelRelease(t, operation, cv, timed) ==
  /\ pc[t] = "kernel"
  /\ op' = [op EXCEPT ![t] = operation]
  /\ wait' = [wait EXCEPT ![t] = [cv |-> cv, timed |-> timed]]
  /\ Goto(t, "krelease")
  /\ UNCHANGED <<mutex, kernel_sem, ringVars, sig, ret>>

(* Mutant: kernel_sem_cv is not signalled when the semaphore is released.  *)
ReleaseSilently(t) == Goto(t, "kreleased") /\ UNCHANGED sig

SignalSem(t) == CallSignal(t, SemCV, FALSE, "kreleased")

(* Mutex_Lock(kernel_mutex); kernel_sem++; Cond_Signal(kernel_sem_cv)      *)
KRelease(t) ==
  /\ pc[t] = "krelease"
  /\ Mutex_Lock(t, "kernel_mutex")
  /\ kernel_sem' = kernel_sem + 1
  /\ SignalSem(t)
  /\ UNCHANGED <<ringVars, wait, op, ret>>

(* What each of the three operations does next.                            *)
WaitReleased(t) ==
  /\ op[t] = "wait"
  /\ Goto(t, "cvlock")
  /\ UNCHANGED <<mutex, state>>

UnlockReleased(t) ==
  /\ op[t] = "unlock"
  /\ Mutex_Unlock(t, "kernel_mutex")
  /\ Goto(t, "user")
  /\ UNCHANGED state

SleepReleased(t) ==
  /\ op[t] = "sleep"
  /\ state' = [state EXCEPT ![t] = "EXITED"]
  /\ Mutex_Unlock(t, "kernel_mutex")
  /\ Goto(t, "gone")

KReleased(t) ==
  /\ pc[t] = "kreleased"
  /\ WaitReleased(t) \/ UnlockReleased(t) \/ SleepReleased(t)
  /\ UNCHANGED <<kernel_sem, waitset, waitset_lock, signalled, removed, wait, sig, op, ret>>

-----------------------------------------------------------------------------
(* A user program with one mutex and condition variables.                  *)

UserLock(t) ==
  /\ pc[t] = "user"
  /\ UserCVs # {}
  /\ Mutex_Lock(t, "user_mutex")
  /\ Goto(t, "umon")
  /\ UNCHANGED <<kernel_sem, ringVars, wait, sig, op, ret>>

UserUnlock(t) ==
  /\ pc[t] = "umon"
  /\ Mutex_Unlock(t, "user_mutex")
  /\ Goto(t, "user")
  /\ UNCHANGED <<kernel_sem, ringVars, wait, sig, op, ret>>

(* Cond_Wait and Cond_TimedWait.                                           *)
UserWait(t, cv, timed) ==
  /\ pc[t] = "umon"
  /\ CallWait(t, cv, timed)
  /\ UNCHANGED <<mutex, kernel_sem, ringVars, sig, op, ret>>

(* Cond_Signal and Cond_Broadcast, with or without the mutex held.         *)
UserSignal(t, cv, all) ==
  /\ pc[t] \in {"user", "umon"}
  /\ CallSignal(t, cv, all, pc[t])
  /\ UNCHANGED <<mutex, kernel_sem, ringVars, wait, op, ret>>

-----------------------------------------------------------------------------
(* The code inside an operation, once it has been called.                  *)
Proceed(t) ==
  \/ CvLock(t) \/ CvUnlock(t) \/ CvSleep(t) \/ CvWoken(t) \/ CvRelock(t)
  \/ SigLock(t) \/ SignalOne(t) \/ SignalNone(t)
  \/ KLock(t) \/ SemTake(t) \/ SemWait(t) \/ KRelease(t) \/ KReleased(t)

(* The calls of programs and of system calls.                              *)
Call(t) ==
  \/ KernelCVs # {} /\ KernelLock(t)
  \/ \E cv \in KernelCVs, all \in BOOLEAN : KernelSignal(t, cv, all)
  \/ \E cv \in KernelCVs, timed \in BOOLEAN : KernelRelease(t, "wait", cv, timed)
  \/ \E operation \in {"unlock", "sleep"} : KernelRelease(t, operation, SemCV, FALSE)
  \/ UserLock(t) \/ UserUnlock(t)
  \/ \E cv \in UserCVs, b \in BOOLEAN : UserWait(t, cv, b) \/ UserSignal(t, cv, b)

Next == \E t \in Threads : Call(t) \/ Proceed(t) \/ TimeoutExpires(t)

Spec == Init /\ [][Next]_vars

(* A thread that is awake goes on: the scheduler starves nobody.           *)
FairSpec == Spec /\ \A t \in Threads : WF_vars(Proceed(t))
-----------------------------------------------------------------------------
(* Properties.                                                             *)

(* t has taken the kernel semaphore and not given it back.                 *)
Inside(t) ==
  \/ pc[t] \in {"kernel", "krelease"}
  \/ pc[t] \in {"siglock", "siglocked"} /\ sig[t].then = "kernel"

(* The kernel lock works: the semaphore is 1 with nobody in the kernel or  *)
(* 0 with exactly one thread in it, although cv_wait releases the mutex in *)
(* the middle of kernel_lock and others overtake the thread that was woken.*)
KernelExclusion ==
  \/ kernel_sem = 1 /\ \A t \in Threads : ~ Inside(t)
  \/ kernel_sem = 0 /\ \E t \in Threads : Inside(t) /\ \A u \in Threads \ {t} : ~ Inside(u)

(* t is asleep on cv, or has released the mutex to sleep on it.            *)
Sleeping(t, cv) ==
  /\ wait[t].cv = cv
  /\ pc[t] = "cvsleep" \/ (pc[t] = "cvslept" /\ state[t] = "STOPPED")

(* The ring of a condition variable holds each waiter once, and only       *)
(* waiters whose cv_wait on it has not returned (the __cv_waiter is on     *)
(* their stack); and every thread asleep on it is there to be found.       *)
RingInvariant ==
  \A cv \in CVs :
    /\ IsInjective(waitset[cv])
    /\ \A w \in ToSet(waitset[cv]) :
         /\ wait[w].cv = cv /\ pc[w] \in {"cvqueued", "cvsleep", "cvslept"}
         /\ ~ removed[w]
    /\ \A t \in Threads : Sleeping(t, cv) => Contains(waitset[cv], t)

(* A signal is not lost: when Cond_Signal or Cond_Broadcast returns with   *)
(* nobody woken by its last step, no thread sleeps on that condition       *)
(* variable; waiters that timed out do not swallow it.                     *)
SignalReachesSleeper ==
  [][\A t \in Threads :
       pc[t] = "siglocked" /\ pc'[t] # "siglocked" /\ state' = state
         => \A u \in Threads : ~ Sleeping(u, sig[t].cv)]_vars

(* t is awake on its way to the test of kernel_sem.                        *)
Coming(t) ==
  \/ pc[t] \in {"klock", "sem"}
  \/ pc[t] = "cvslept" /\ state[t] = "awake" /\ wait[t].cv \notin UserCVs
  \/ pc[t] = "cvrelock" /\ wait[t].cv \notin UserCVs

(* The semaphore is never free with threads asleep on kernel_sem_cv and    *)
(* nobody coming to take it or to wake one of them.                        *)
SemaphoreNotLost ==
  kernel_sem > 0 /\ (\E t \in Threads : Sleeping(t, SemCV))
    => \E t \in Threads :
         Coming(t) \/ (pc[t] \in {"siglock", "siglocked"} /\ sig[t].cv = SemCV)

(* The kernel's semaphore admits one thread, and when it is given back it  *)
(* is not given back unnoticed.                                            *)
SemaphoreInvariant == KernelExclusion /\ SemaphoreNotLost

(* The kernel does not stand idle: when threads wait to enter it and it is *)
(* free, one of them enters.  (Which one is not determined: threads that   *)
(* were signalled can be overtaken.)                                       *)
KernelEntered ==
  kernel_sem > 0 /\ (\E t \in Threads : Coming(t) \/ Sleeping(t, SemCV)) ~> kernel_sem = 0

-----------------------------------------------------------------------------
(* The kernel lock implements the abstract monitor.                        *)

(* t executes kernel_wait and has given up the semaphore.                  *)
InWait(t) ==
  op[t] = "wait" /\ ~ Inside(t) /\ pc[t] \notin {"user", "umon", "gone"}

(* ... and its own wait is over, it only has to get the semaphore again.   *)
Returning(t) == pc[t] \in {"cvslept", "cvrelock", "sem"} /\ state[t] = "awake"

WaitResult(t) ==
  LET s == IF wait[t].cv = SemCV \/ pc[t] = "sem" THEN ret[t] ELSE signalled[t]
  IN IF s THEN "signalled" ELSE "expired"

IsWaiting(t) == InWait(t) /\ ~ Returning(t) /\ wait[t].cv # SemCV

(* Where t is with respect to the monitor.                                 *)
MonitorPlace(t) ==
  CASE Inside(t)                      -> "inside"
    [] IsWaiting(t)                   -> "waiting"
    [] InWait(t) /\ ~ IsWaiting(t)    -> WaitResult(t)
    [] op[t] = "sleep" /\ ~ Inside(t) -> "gone"
    [] OTHER                          -> "outside"

(* u is in the ring, and w behind it or not there yet: a thread waits from *)
(* when it releases the semaphore, before it comes to the ring.            *)
Ahead(u, w) ==
  LET ring == waitset[wait[u].cv] IN
  \E i \in 1 .. Len(ring) : ring[i] = u /\ \A j \in 1 .. i : ring[j] # w

atBar      == [t \in Threads |-> MonitorPlace(t)]
waitersBar == [cv \in KernelCVs |-> {t \in Threads : IsWaiting(t) /\ wait[t].cv = cv}]
aheadBar   ==
  {p \in Threads \X Threads :
     /\ IsWaiting(p[1]) /\ IsWaiting(p[2]) /\ wait[p[1]].cv = wait[p[2]].cv
     /\ Ahead(p[1], p[2])}
limitedBar == {t \in Threads : IsWaiting(t) /\ wait[t].timed}

Monitor == INSTANCE KernelMonitor
             WITH at <- atBar, waiters <- waitersBar, ahead <- aheadBar, limited <- limitedBar

(* KernelCC implements KernelMonitor: one thread inside, first-come        *)
(* first-served waiters, signals only from inside, and a result of         *)
(* kernel_wait that tells a signal from a timeout whichever came first.    *)
MonitorSpec == Monitor!Spec

(* What the monitor is built of is sound: the rings of waiters hold no     *)
(* record of a thread that has left its wait, one thread is in the kernel, *)
(* and no unit of kernel_sem is lost.                                      *)
CCInvariant == TypeOK /\ RingInvariant /\ SemaphoreInvariant

=============================================================================
