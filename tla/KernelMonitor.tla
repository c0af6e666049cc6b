---------------------------- MODULE KernelMonitor ----------------------------
(***************************************************************************)
(* What kernel_lock, kernel_unlock, kernel_wait, kernel_signal and         *)
(* kernel_broadcast promise to the system calls: a monitor with one thread *)
(* inside, condition variables, and wake-ups that need not run at once.    *)
(* The modules of the kernel's services take a system call between two     *)
(* such points as one step; KernelCC implements this specification with a  *)
(* semaphore, a mutex, rings of waiters and the scheduler's wakeup().      *)
(***************************************************************************)
CONSTANTS Threads, KernelCVs

VARIABLES
  at,      \* where each thread is with respect to the monitor
  waiters, \* the threads that wait on each condition variable
  ahead,   \* the pairs of them of which the first has come before the second
  limited  \* those of them whose wait has a timeout

vars == <<at, waiters, ahead, limited>>

Places == {"outside", "inside", "waiting", "signalled", "expired", "gone"}

Init ==
  /\ at = [t \in Threads |-> "outside"]
  /\ waiters = [cv \in KernelCVs |-> {}]
  /\ ahead = {}
  /\ limited = {}

Move(t, place) == at' = [at EXCEPT ![t] = place]

(* kernel_lock returns, or kernel_wait does with its result decided.       *)
Enter(t) ==
  /\ at[t] \in {"outside", "signalled", "expired"}
  /\ \A u \in Threads : at[u] # "inside"
  /\ Move(t, "inside")
  /\ UNCHANGED <<waiters, ahead, limited>>

(* kernel_unlock, or kernel_sleep(EXITED).                                 *)
Leave(t) ==
  /\ at[t] = "inside"
  /\ \E place \in {"outside", "gone"} : Move(t, place)
  /\ UNCHANGED <<waiters, ahead, limited>>

Wait(t, cv, timed) ==
  /\ at[t] = "inside"
  /\ Move(t, "waiting")
  /\ waiters' = [waiters EXCEPT ![cv] = @ \cup {t}]
  /\ ahead' = ahead \cup (waiters[cv] \X {t})
  /\ limited' = IF timed THEN limited \cup {t} ELSE limited

(* t waits no more.                                                        *)
Forget(t) ==
  /\ waiters' = [cv \in KernelCVs |-> waiters[cv] \ {t}]
  /\ ahead' = {p \in ahead : p[1] # t /\ p[2] # t}
  /\ limited' = limited \ {t}

(* The thread inside the monitor wakes up the waiter who came first.       *)
Signal(s, cv) ==
  /\ at[s] = "inside"
  /\ \E w \in waiters[cv] :
       /\ \A u \in waiters[cv] : <<u, w>> \notin ahead
       /\ Move(w, "signalled")
       /\ Forget(w)

(* A timeout ends a wait at any moment.                                    *)
Expire(t) ==
  /\ t \in limited
  /\ Move(t, "expired")
  /\ Forget(t)

Next ==
  \E t \in Threads :
    \/ Enter(t) \/ Leave(t) \/ Expire(t)
    \/ \E cv \in KernelCVs : Signal(t, cv) \/ \E timed \in BOOLEAN : Wait(t, cv, timed)

Spec == Init /\ [][Next]_vars
=============================================================================
