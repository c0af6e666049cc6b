----------------------------- MODULE MCScheduler -----------------------------
(***************************************************************************)
(* Small instances of the scheduler for TLC.                               *)
(***************************************************************************)
EXTENDS Scheduler, TLC

CONSTANTS t1, t2, t3, c0, c1

TwoThreads   == {t1, t2}
ThreeThreads == {t1, t2, t3}
TwoCores     == {c0, c1}

(* Threads are interchangeable: the queues hold them in an order that no   *)
(* action derives from their names.                                        *)
ThreadSymmetry == Permutations(Threads)

-----------------------------------------------------------------------------
(* Two machines in one instance, for the liveness properties: one core for *)
(* three threads that never sleep, or two cores and a program that never   *)
(* has a second thread.  Nothing is fair about what threads do, so this    *)
(* restricts the program alone.                                            *)

(* The machine has one core only: the other is never booted.               *)
BootOneCore ==
  /\ pc = [c \in Cores |-> "yield"] /\ previous_thread = [c \in Cores |-> NULL]
  /\ pc' = [pc EXCEPT ![c1] = "exited"]
  /\ UNCHANGED <<tcbVars, queueVars, active_threads, sched_spinlock,
                 current_thread, previous_thread, timer, halted_list>>

SmallNext ==
  \/ BootOneCore
  \/ /\ Next
     /\ IF pc[c1] = "exited" THEN \A t \in Threads : state'[t] # "STOPPED"
        ELSE \A t \in Threads \ {t1} : state'[t] = "NONE"

(* Threads being interchangeable, the first one is t1.                     *)
SmallInit == Init /\ state[t1] = "READY"

ProgressSpec == SmallInit /\ [][SmallNext]_vars /\ Fairness
=============================================================================
