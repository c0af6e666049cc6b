------------------------------ MODULE Scheduler ------------------------------
(***************************************************************************)
(* The TinyOS scheduler (kernel_sched.c) on a machine of several cores:    *)
(* the multi-level feedback queue, the timeout list, the three critical    *)
(* sections a thread goes through when it gives up its core                *)
(* (sleep_releasing, yield, gain), wakeups from other cores, the idle loop *)
(* and the halting and restarting of cores by the virtual machine (bios.c).*)
(*                                                                         *)
(* Every routine takes sched_spinlock for one critical section with        *)
(* preemption off, so a critical section is one action; yield() is split   *)
(* at its timeout scan, because the scan is a loop, and holds the lock     *)
(* from YieldLock to YieldSelect.  Between two critical sections of one    *)
(* core the other cores run: a thread can be woken up after it has marked  *)
(* itself STOPPED and before its core has left its stack.                  *)
(***************************************************************************)
EXTENDS Integers, SequencesExt

CONSTANTS
  Threads,         \* the TCBs of normal threads (memory is reused after release_TCB)
  Cores,           \* the cores; core c also names its idle thread, cctx[c].idle_thread
  Core0,           \* the core that receives the serial interrupts
  HasTerminal,     \* TRUE when the machine was booted with at least one terminal
  SlowHalt,        \* TRUE when a time quantum may end while cpu_core_halt is entered
  QUEUES,          \* number of levels of the feedback queue
  BOOST_THRESHOLD, \* queue insertions between two priority boosts
  Timeouts,        \* the sleep timeouts, in ticks of the clock
  NULL

ASSUME SchedulerAssumption ==
  /\ Threads # {} /\ IsFiniteSet(Threads)
  /\ Core0 \in Cores
  /\ Threads \cap Cores = {}
  /\ NULL \notin Threads \cup Cores
  /\ HasTerminal \in BOOLEAN
  /\ SlowHalt \in BOOLEAN
  /\ QUEUES \in Nat /\ QUEUES >= 2
  /\ BOOST_THRESHOLD \in Nat /\ BOOST_THRESHOLD >= 2
  /\ Timeouts \subseteq Nat

VARIABLES
  state,            \* tcb->state, "NONE" for a TCB that is not allocated
  phase,            \* tcb->phase
  priority_level,   \* tcb->priority_level
  curr_cause,       \* tcb->curr_cause
  wakeup_time,      \* tcb->wakeup_time, as the ticks left (see Tick)
  SCHED,            \* the feedback queue
  SCHED_OPERATIONS, \* insertions since the last boost
  TIMEOUT_LIST,     \* sleeping threads with a timeout, earliest first
  active_threads,   \* threads that exist, idle threads excepted
  sched_spinlock,   \* the core that holds it across actions, or NULL
  pc,               \* where each core is in the scheduler code
  current_thread,   \* cctx[c].current_thread
  previous_thread,  \* cctx[c].previous_thread
  timer,            \* the core's one-shot timer; "pending" is an undelivered ALARM
  halted_list       \* the cores blocked in cpu_core_halt

tcbVars   == <<state, phase, priority_level, curr_cause, wakeup_time>>
queueVars == <<SCHED, SCHED_OPERATIONS, TIMEOUT_LIST>>
coreVars  == <<pc, current_thread, previous_thread, timer, halted_list>>
vars == <<tcbVars, queueVars, active_threads, sched_spinlock, coreVars>>

TCBs       == Threads \cup Cores
Levels     == 0 .. (QUEUES - 1)
NO_TIMEOUT == -1

(* SCHED_PIPE, SCHED_POLL, SCHED_IDLE and SCHED_USER are all "OTHER": the  *)
(* queue tells them apart from the first three and never from each other.  *)
Causes == {"QUANTUM", "IO", "MUTEX", "OTHER"}

(* Where a core is:                                                        *)
(*   run      its current thread executes, preemption is on                *)
(*   yield    preemption off, about to enter yield()'s critical section    *)
(*   scan     inside that critical section                                 *)
(*   switch   next thread chosen, gain() not yet entered                   *)
(*   halting  the idle thread is in cpu_core_halt, interrupts blocked      *)
(*   halted   it waits on halt_cond                                        *)
(*   exited   the idle thread has left the scheduler                       *)
CoreStates == {"run", "yield", "scan", "switch", "halting", "halted", "exited"}

TypeOK ==
  /\ state \in [TCBs -> {"NONE", "INIT", "READY", "RUNNING", "STOPPED", "EXITED"}]
  /\ phase \in [TCBs -> {"CLEAN", "DIRTY"}]
  /\ priority_level \in [Threads -> Levels]
  /\ curr_cause \in [Threads -> Causes]
  /\ wakeup_time \in [Threads -> Nat \cup {NO_TIMEOUT}]
  /\ SCHED \in [Levels -> Seq(Threads)]
  /\ SCHED_OPERATIONS \in 0 .. (BOOST_THRESHOLD - 1)
  /\ TIMEOUT_LIST \in Seq(Threads)
  /\ active_threads \in Int
  /\ sched_spinlock \in Cores \cup {NULL}
  /\ pc \in [Cores -> CoreStates]
  /\ current_thread \in [Cores -> TCBs]
  /\ previous_thread \in [Cores -> TCBs \cup {NULL}]
  /\ timer \in [Cores -> {"off", "armed", "pending"}]
  /\ halted_list \in Seq(Cores)

-----------------------------------------------------------------------------
(* Boot: core 0 has executed Exec(init_task), whose thread was spawned and *)
(* woken up, and every core enters run_scheduler, whose idle thread starts *)
(* with a call to yield().                                                 *)
Init ==
  \E t0 \in Threads :
    /\ state = [t \in TCBs |-> IF t = t0 THEN "READY"
                               ELSE IF t \in Cores THEN "RUNNING" ELSE "NONE"]
    /\ phase = [t \in TCBs |-> IF t \in Cores THEN "DIRTY" ELSE "CLEAN"]
    /\ priority_level = [t \in Threads |-> 1]
    /\ curr_cause = [t \in Threads |-> "OTHER"]
    /\ wakeup_time = [t \in Threads |-> NO_TIMEOUT]
    /\ SCHED = [l \in Levels |-> IF l = 1 THEN <<t0>> ELSE << >>]
    /\ SCHED_OPERATIONS = 1
    /\ TIMEOUT_LIST = << >>
    /\ active_threads = 1
    /\ sched_spinlock = NULL
    /\ pc = [c \in Cores |-> "yield"]
    /\ current_thread = [c \in Cores |-> c]
    /\ previous_thread = [c \in Cores |-> NULL]
    /\ timer = [c \in Cores |-> "off"]
    /\ halted_list = << >>

-----------------------------------------------------------------------------
(* The feedback queue.                                                     *)

(* Mutant: no test for the last level before a demotion.                   *)
NewLevelUnbounded(l, cause) ==
  CASE cause = "QUANTUM"                 -> l + 1
    [] cause = "IO" /\ l # 0             -> l - 1
    [] cause = "MUTEX" /\ l # QUEUES - 1 -> QUEUES - 1
    [] OTHER                             -> l

(* The level a thread is queued at, from its level and the reason it gave  *)
(* up the core.                                                            *)
NewLevel(l, cause) ==
  CASE cause = "QUANTUM" /\ l # QUEUES - 1 -> l + 1
    [] cause = "IO" /\ l # 0               -> l - 1
    [] cause = "MUTEX" /\ l # QUEUES - 1   -> QUEUES - 1
    [] OTHER                               -> l

Enqueue(q, l, t) == [q EXCEPT ![l] = Append(@, t)]

(* Mutant: no boost.                                                       *)
NoBoost(q) == q

(* The boost appends level i+1 to level i for i = 0, 1, ...: every level   *)
(* moves up by one and the top two are merged.                             *)
Boost(q) ==
  [l \in Levels |-> IF l = 0 THEN q[0] \o q[1]
                    ELSE IF l = QUEUES - 1 THEN << >> ELSE q[l + 1]]

InLevel(q, l, t) == Contains(q[l], t)
Queued(q, t)     == \E l \in Levels : InLevel(q, l, t)

(* Mutant: the boost leaves priority_level as it was.                      *)
NoRelabel(q, prio) == prio

(* After the boost each queued thread's priority_level is its level.       *)
Relabel(q, prio) ==
  [t \in Threads |-> IF Queued(q, t) THEN CHOOSE l \in Levels : InLevel(q, l, t)
                     ELSE prio[t]]

cpu_core_restart_one ==
  halted_list' = IF halted_list = << >> THEN << >> ELSE Tail(halted_list)

(* sched_queue_add: queue t, boost when it is time, restart a halted core. *)
sched_queue_add(t) ==
  LET l == NewLevel(priority_level[t], curr_cause[t])
      q == Enqueue(SCHED, l, t)
      p == [priority_level EXCEPT ![t] = l]
  IN /\ \/ /\ SCHED_OPERATIONS + 1 # BOOST_THRESHOLD
           /\ SCHED' = q
           /\ priority_level' = p
           /\ SCHED_OPERATIONS' = SCHED_OPERATIONS + 1
        \/ /\ SCHED_OPERATIONS + 1 = BOOST_THRESHOLD
           /\ SCHED' = Boost(q)
           /\ priority_level' = Relabel(Boost(q), p)
           /\ SCHED_OPERATIONS' = 0
     /\ cpu_core_restart_one

NoQueueAdd == UNCHANGED <<SCHED, priority_level, SCHED_OPERATIONS, halted_list>>

-----------------------------------------------------------------------------
(* The timeout list.                                                       *)

(* Mutant: wakeup_time is set and the thread is not linked into the list.  *)
RegisterUnlinked(t, timeout) ==
  /\ wakeup_time' = [wakeup_time EXCEPT ![t] = timeout]
  /\ UNCHANGED TIMEOUT_LIST

(* sched_register_timeout: insert before the first entry that expires      *)
(* later.  Position p is where the loop stops.                             *)
sched_register_timeout(t, timeout) ==
  \/ timeout = NO_TIMEOUT /\ UNCHANGED <<wakeup_time, TIMEOUT_LIST>>
  \/ /\ timeout # NO_TIMEOUT
     /\ wakeup_time' = [wakeup_time EXCEPT ![t] = timeout]
     /\ \E p \in 1 .. Len(TIMEOUT_LIST) + 1 :
          /\ \A i \in 1 .. p - 1 : wakeup_time[TIMEOUT_LIST[i]] <= timeout
          /\ p <= Len(TIMEOUT_LIST) => timeout < wakeup_time[TIMEOUT_LIST[p]]
          /\ TIMEOUT_LIST' = InsertAt(TIMEOUT_LIST, p, t)

(* Mutant: the thread leaves the list with its wakeup_time still set.      *)
CancelKeepsTime(t) ==
  /\ TIMEOUT_LIST' = SelectSeq(TIMEOUT_LIST, LAMBDA u : u # t)
  /\ UNCHANGED wakeup_time

(* The first half of sched_make_ready: take t off the timeout list.        *)
CancelTimeout(t) ==
  \/ wakeup_time[t] = NO_TIMEOUT /\ UNCHANGED <<wakeup_time, TIMEOUT_LIST>>
  \/ /\ wakeup_time[t] # NO_TIMEOUT
     /\ wakeup_time' = [wakeup_time EXCEPT ![t] = NO_TIMEOUT]
     /\ \E p \in 1 .. Len(TIMEOUT_LIST) :
          /\ TIMEOUT_LIST[p] = t
          /\ TIMEOUT_LIST' = RemoveAt(TIMEOUT_LIST, p)

(* Mutant: the phase is not tested before the thread is queued.            *)
MakeReadyDirty(t) ==
  /\ CancelTimeout(t)
  /\ state' = [state EXCEPT ![t] = "READY"]
  /\ sched_queue_add(t)

(* sched_make_ready: t is READY, and queued unless some core is still on   *)
(* its stack; in that case gain() will queue it.                           *)
sched_make_ready(t) ==
  /\ CancelTimeout(t)
  /\ state' = [state EXCEPT ![t] = "READY"]
  /\ \/ phase[t] = "CLEAN" /\ sched_queue_add(t)
     \/ phase[t] # "CLEAN" /\ NoQueueAdd

-----------------------------------------------------------------------------
(* What threads do to the scheduler.                                       *)

Running(c) == pc[c] = "run" /\ current_thread[c] \in Threads

(* Interrupt handlers run on top of the current thread, or on an idle core *)
(* that has just been restarted.                                           *)
Interruptible(c) ==
  pc[c] = "run" \/ (pc[c] = "halted" /\ ~ Contains(halted_list, c))

(* spawn_thread: the new TCB is not yet visible to anyone but its creator. *)
SpawnThread(c, t) ==
  /\ Running(c)
  /\ state[t] = "NONE"
  /\ state' = [state EXCEPT ![t] = "INIT"]
  /\ phase' = [phase EXCEPT ![t] = "CLEAN"]
  /\ priority_level' = [priority_level EXCEPT ![t] = 1]
  /\ curr_cause' = [curr_cause EXCEPT ![t] = "OTHER"]
  /\ wakeup_time' = [wakeup_time EXCEPT ![t] = NO_TIMEOUT]
  /\ active_threads' = active_threads + 1
  /\ UNCHANGED <<queueVars, sched_spinlock, coreVars>>

(* Mutant: wakeup() does not look at the state of its thread.              *)
WakeableAlways(t) == state[t] # "NONE"

Wakeable(t) == state[t] \in {"STOPPED", "INIT"}

(* wakeup, called on core c by a thread or an interrupt handler.  For a    *)
(* thread in any other state it returns 0 and changes nothing.             *)
Wakeup(c, t) ==
  /\ Interruptible(c)
  /\ sched_spinlock = NULL
  /\ Wakeable(t)
  /\ sched_make_ready(t)
  /\ UNCHANGED <<phase, curr_cause, active_threads, sched_spinlock,
                 pc, current_thread, previous_thread, timer>>

(* The first lines of yield(cause), outside its critical section.  yield() *)
(* records the cause inside it; until then the thread is DIRTY and nobody  *)
(* reads its cause, so it is recorded here.                                *)
EnterYield(c, cause) ==
  /\ timer' = [timer EXCEPT ![c] = "off"]
  /\ pc' = [pc EXCEPT ![c] = "yield"]
  /\ curr_cause' = IF current_thread[c] \in Threads
                   THEN [curr_cause EXCEPT ![current_thread[c]] = cause]
                   ELSE curr_cause

(* sleep_releasing up to yield(cause).                                     *)
SleepReleasing(c, newstate, cause, timeout) ==
  LET t == current_thread[c] IN
  /\ Running(c)
  /\ sched_spinlock = NULL
  /\ state' = [state EXCEPT ![t] = newstate]
  /\ sched_register_timeout(t, IF newstate = "EXITED" THEN NO_TIMEOUT ELSE timeout)
  /\ EnterYield(c, cause)
  /\ UNCHANGED <<phase, priority_level, SCHED, SCHED_OPERATIONS, active_threads,
                 sched_spinlock, current_thread, previous_thread, halted_list>>

(* A call of yield(cause) by a running thread: Mutex_Lock on contention    *)
(* (MUTEX), the polling serial_write (IO).                                 *)
YieldCall(c, cause) ==
  /\ Running(c)
  /\ EnterYield(c, cause)
  /\ UNCHANGED <<state, phase, priority_level, wakeup_time, queueVars, active_threads,
                 sched_spinlock, current_thread, previous_thread, halted_list>>

(* yield_handler: the ALARM interrupt is delivered.                        *)
YieldHandler(c) ==
  /\ pc[c] = "run"
  /\ timer[c] = "pending"
  /\ EnterYield(c, "QUANTUM")
  /\ UNCHANGED <<state, phase, priority_level, wakeup_time, queueVars, active_threads,
                 sched_spinlock, current_thread, previous_thread, halted_list>>

-----------------------------------------------------------------------------
(* yield() and gain().                                                     *)

LeaveRunning(t) == state' = [state EXCEPT ![t] = IF @ = "RUNNING" THEN "READY" ELSE @]

(* The critical section of yield() is entered.                             *)
YieldLock(c) ==
  /\ pc[c] = "yield"
  /\ sched_spinlock = NULL
  /\ sched_spinlock' = c
  /\ LeaveRunning(current_thread[c])
  /\ pc' = [pc EXCEPT ![c] = "scan"]
  /\ UNCHANGED <<phase, priority_level, curr_cause, wakeup_time, queueVars, active_threads,
                 current_thread, previous_thread, timer, halted_list>>

Expired == TIMEOUT_LIST # << >> /\ wakeup_time[Head(TIMEOUT_LIST)] = 0

(* One round of the loop of sched_wakeup_expired_timeouts.                 *)
WakeupExpired(c) ==
  /\ pc[c] = "scan"
  /\ Expired
  /\ sched_make_ready(Head(TIMEOUT_LIST))
  /\ UNCHANGED <<phase, curr_cause, active_threads, sched_spinlock,
                 pc, current_thread, previous_thread, timer>>

(* sched_queue_select: the head of the first non-empty level; with no      *)
(* thread queued, the current thread if it is still READY, else the idle   *)
(* thread.                                                                 *)
sched_queue_select(c, next) ==
  \/ \E l \in Levels :
       /\ SCHED[l] # << >>
       /\ \A k \in Levels : k < l => SCHED[k] = << >>
       /\ next = Head(SCHED[l])
       /\ SCHED' = [SCHED EXCEPT ![l] = Tail(@)]
  \/ /\ \A l \in Levels : SCHED[l] = << >>
     /\ next = IF state[current_thread[c]] = "READY" THEN current_thread[c] ELSE c
     /\ UNCHANGED SCHED

(* The rest of yield(), up to the context switch.                          *)
YieldSelect(c) ==
  /\ pc[c] = "scan"
  /\ ~ Expired
  /\ \E next \in TCBs :
       /\ sched_queue_select(c, next)
       /\ current_thread' = [current_thread EXCEPT ![c] = next]
  /\ previous_thread' = [previous_thread EXCEPT ![c] = current_thread[c]]
  /\ sched_spinlock' = NULL
  /\ pc' = [pc EXCEPT ![c] = "switch"]
  /\ UNCHANGED <<tcbVars, SCHED_OPERATIONS, TIMEOUT_LIST, active_threads, timer, halted_list>>

(* gain: the new thread starts its time slice and takes care of the one    *)
(* that ran before it: back to the queue, left asleep, or released.        *)
Gain(c) ==
  LET cur == current_thread[c]
      prev == previous_thread[c]
  IN /\ pc[c] = "switch"
     /\ sched_spinlock = NULL
     /\ pc' = [pc EXCEPT ![c] = "run"]
     /\ timer' = [timer EXCEPT ![c] = "armed"]
     /\ \/ /\ cur = prev
           /\ state' = [state EXCEPT ![cur] = "RUNNING"]
           /\ phase' = [phase EXCEPT ![cur] = "DIRTY"]
           /\ NoQueueAdd
           /\ UNCHANGED active_threads
        \/ /\ cur # prev
           /\ phase' = [phase EXCEPT ![cur] = "DIRTY", ![prev] = "CLEAN"]
           /\ \/ /\ state[prev] = "READY" /\ prev \in Threads
                 /\ state' = [state EXCEPT ![cur] = "RUNNING"]
                 /\ sched_queue_add(prev)
                 /\ UNCHANGED active_threads
              \/ /\ state[prev] = "EXITED"
                 /\ state' = [state EXCEPT ![cur] = "RUNNING", ![prev] = "NONE"]
                 /\ active_threads' = active_threads - 1
                 /\ NoQueueAdd
              \/ /\ state[prev] = "STOPPED" \/ (state[prev] = "READY" /\ prev \in Cores)
                 /\ state' = [state EXCEPT ![cur] = "RUNNING"]
                 /\ NoQueueAdd
                 /\ UNCHANGED active_threads
     /\ UNCHANGED <<curr_cause, wakeup_time, TIMEOUT_LIST, sched_spinlock,
                    current_thread, previous_thread>>

-----------------------------------------------------------------------------
(* The idle thread, and the virtual machine under it.                      *)

(* Mutants: the count compared with the wrong bound.                       *)
OneThreadMayRemain == active_threads > 1
ThreadsAlwaysRemain == active_threads >= 0

ThreadsRemain == active_threads > 0

(* The test of idle_thread's loop: halt while there are threads, otherwise *)
(* cancel the timer, restart every core and leave the scheduler.  The halt *)
(* begins by blocking interrupts; an ALARM on its way may arrive too late. *)
IdleLoop(c) ==
  /\ pc[c] = "run"
  /\ current_thread[c] = c
  /\ \/ /\ ThreadsRemain
        /\ timer[c] = "pending" => SlowHalt
        /\ pc' = [pc EXCEPT ![c] = "halting"]
        /\ UNCHANGED <<timer, halted_list>>
     \/ /\ ~ ThreadsRemain
        /\ pc' = [pc EXCEPT ![c] = "exited"]
        /\ timer' = [timer EXCEPT ![c] = "off"]
        /\ halted_list' = << >>
  /\ UNCHANGED <<tcbVars, queueVars, active_threads, sched_spinlock,
                 current_thread, previous_thread>>

(* cpu_core_halt: interrupts are already blocked when halted is set.       *)
CoreHalt(c) ==
  /\ pc[c] = "halting"
  /\ pc' = [pc EXCEPT ![c] = "halted"]
  /\ halted_list' = Cons(c, halted_list)
  /\ UNCHANGED <<tcbVars, queueVars, active_threads, sched_spinlock,
                 current_thread, previous_thread, timer>>

(* cpu_core_halt returns after a restart; idle_thread calls yield().  An   *)
(* ALARM delivered in between only makes the idle thread yield twice.      *)
CoreHaltReturn(c) ==
  /\ pc[c] = "halted"
  /\ ~ Contains(halted_list, c)
  /\ EnterYield(c, "OTHER")
  /\ UNCHANGED <<state, phase, priority_level, wakeup_time, queueVars, active_threads,
                 sched_spinlock, current_thread, previous_thread, halted_list>>

cpu_core_restart(c) ==
  \/ ~ Contains(halted_list, c) /\ UNCHANGED halted_list
  \/ \E p \in 1 .. Len(halted_list) :
       halted_list[p] = c /\ halted_list' = RemoveAt(halted_list, p)

(* The timer of core c expires: the PIC raises ALARM and restarts the core.*)
(* A core between blocking its interrupts and setting halted is not        *)
(* restarted, and takes the ALARM only when something else restarts it.    *)
Alarm(c) ==
  /\ timer[c] = "armed"
  /\ pc[c] = "halting" => SlowHalt
  /\ timer' = [timer EXCEPT ![c] = "pending"]
  /\ cpu_core_restart(c)
  /\ UNCHANGED <<tcbVars, queueVars, active_threads, sched_spinlock,
                 pc, current_thread, previous_thread>>

(* With a terminal attached the PIC raises a serial interrupt to core 0 at *)
(* least every SERIAL_TIMEOUT; what its handler wakes up is Wakeup.        *)
SerialInterrupt ==
  /\ HasTerminal
  /\ Contains(halted_list, Core0)
  /\ cpu_core_restart(Core0)
  /\ UNCHANGED <<tcbVars, queueVars, active_threads, sched_spinlock,
                 pc, current_thread, previous_thread, timer>>

(* The clock advances.  wakeup_time holds the ticks left, not the absolute *)
(* time: it orders the list and tells what has expired exactly as the      *)
(* absolute time does.  A scan works with the clock it read at its start,  *)
(* so a tick during a scan counts after it.                                *)
Tick ==
  /\ sched_spinlock = NULL
  /\ \E t \in Threads : wakeup_time[t] > 0
  /\ wakeup_time' = [t \in Threads |-> IF wakeup_time[t] > 0 THEN wakeup_time[t] - 1
                                       ELSE wakeup_time[t]]
  /\ UNCHANGED <<state, phase, priority_level, curr_cause, queueVars, active_threads,
                 sched_spinlock, coreVars>>

(* Every core has left the scheduler: the machine stops.                   *)
Shutdown ==
  /\ \A c \in Cores : pc[c] = "exited"
  /\ UNCHANGED vars

-----------------------------------------------------------------------------
ThreadStep(c) ==
  \/ \E t \in Threads : SpawnThread(c, t) \/ Wakeup(c, t)
  \/ \E timeout \in Timeouts \cup {NO_TIMEOUT}, cause \in {"IO", "OTHER"} :
       SleepReleasing(c, "STOPPED", cause, timeout)
  \/ SleepReleasing(c, "EXITED", "OTHER", NO_TIMEOUT)
  \/ \E cause \in {"MUTEX", "IO"} : YieldCall(c, cause)

SwitchStep(c) ==
  \/ YieldHandler(c) \/ YieldLock(c) \/ WakeupExpired(c) \/ YieldSelect(c) \/ Gain(c)

IdleStep(c) == IdleLoop(c) \/ CoreHalt(c) \/ CoreHaltReturn(c)

Next ==
  \/ \E c \in Cores : ThreadStep(c) \/ SwitchStep(c) \/ IdleStep(c) \/ Alarm(c)
  \/ SerialInterrupt
  \/ Tick
  \/ Shutdown

Spec == Init /\ [][Next]_vars

(* Cores execute, timers expire, the clock advances and the PIC daemon     *)
(* raises its periodic serial interrupts.  A core that spins on            *)
(* sched_spinlock gets it eventually, and the quantum is long enough for   *)
(* the idle thread to test active_threads.  Nothing is assumed of threads. *)
Fairness ==
  /\ \A c \in Cores :
       /\ WF_vars(YieldHandler(c))
       /\ SF_vars(YieldLock(c))
       /\ WF_vars(WakeupExpired(c))
       /\ WF_vars(YieldSelect(c))
       /\ SF_vars(Gain(c))
       /\ SF_vars(IdleLoop(c))
       /\ WF_vars(CoreHalt(c) \/ CoreHaltReturn(c))
       /\ WF_vars(Alarm(c))
  /\ WF_vars(SerialInterrupt)
  /\ SF_vars(Tick)

FairSpec == Spec /\ Fairness
-----------------------------------------------------------------------------
(* Properties.                                                             *)

(* The threads whose stack core c is executing on, or has yet to leave.    *)
OnStack(c) == {current_thread[c]} \cup IF pc[c] = "switch" THEN {previous_thread[c]} ELSE {}

(* t has been taken off the queue by yield() and not yet reached gain().   *)
Chosen(t) == \E c \in Cores : pc[c] = "switch" /\ current_thread[c] = t /\ previous_thread[c] # t

(* The invariant documented at Thread_phase (kernel_sched.h:57-62), made   *)
(* exact: a thread is in the scheduler queue if and only if it is READY,   *)
(* its context is clean, and no core has just selected it.  No wakeup is   *)
(* lost between sleep_releasing, yield and gain of the sleeper, whatever   *)
(* the other cores do in between.                                          *)
QueueInvariant ==
  \A t \in Threads :
    Queued(SCHED, t) <=> state[t] = "READY" /\ phase[t] = "CLEAN" /\ ~ Chosen(t)

(* No thread occurs at two places of the feedback queue q.                 *)
NoDuplicates(q) ==
  \A l1, l2 \in Levels : \A i \in 1 .. Len(q[l1]), j \in 1 .. Len(q[l2]) :
    q[l1][i] = q[l2][j] => l1 = l2 /\ i = j

(* Every queued thread's priority level is the level of q it is in.        *)
Labelled(q, prio) == \A l \in Levels : \A i \in 1 .. Len(q[l]) : prio[q[l][i]] = l

(* sched_node links a TCB into one list at most: a thread occurs once in   *)
(* the whole feedback queue, at the level its priority_level records, also *)
(* after a boost, and not in TIMEOUT_LIST at the same time.                *)
QueuedOnce ==
  /\ NoDuplicates(SCHED)
  /\ Labelled(SCHED, priority_level)
  /\ \A t \in Threads : ~ (Queued(SCHED, t) /\ Contains(TIMEOUT_LIST, t))

(* No two cores ever execute on one stack: a thread that gives up a core   *)
(* is not selected by another core before gain() has run on the first one. *)
StackExclusive ==
  \A c1, c2 \in Cores : c1 # c2 => OnStack(c1) \cap OnStack(c2) = {}

(* TIMEOUT_LIST holds exactly the threads whose wakeup_time is set, each   *)
(* once and asleep, in the order in which they expire: the scan of         *)
(* sched_wakeup_expired_timeouts may stop at the first that is not due.    *)
TimeoutListInvariant ==
  /\ \A t \in Threads : Contains(TIMEOUT_LIST, t) <=> wakeup_time[t] # NO_TIMEOUT
  /\ \A t \in Threads : wakeup_time[t] # NO_TIMEOUT => state[t] = "STOPPED"
  /\ \A i, j \in 1 .. Len(TIMEOUT_LIST) :
       i < j => /\ TIMEOUT_LIST[i] # TIMEOUT_LIST[j]
                /\ wakeup_time[TIMEOUT_LIST[i]] <= wakeup_time[TIMEOUT_LIST[j]]

(* The switch of gain() never reaches its assert(0): the thread that gave  *)
(* up the core is READY, STOPPED or EXITED, even if others woke it up.     *)
GainAssertion ==
  \A c \in Cores : pc[c] = "switch" /\ current_thread[c] # previous_thread[c]
                     => state[previous_thread[c]] \in {"READY", "STOPPED", "EXITED"}

(* A core leaves the scheduler only when no thread is left, neither        *)
(* runnable, nor asleep, nor exited and still waiting for its gain().      *)
NoThreadLeftBehind ==
  \A c \in Cores : pc[c] = "exited" => \A t \in Threads : state[t] = "NONE"

(* A core switches only to a thread that is READY and whose saved context  *)
(* is up to date, idle threads included.                                   *)
SwitchesToCleanContext ==
  [][\A c \in Cores : current_thread'[c] # current_thread[c]
       => state[current_thread'[c]] = "READY" /\ phase[current_thread'[c]] = "CLEAN"]_vars

(* What wakeup() grants is not taken back: a READY thread next runs, a     *)
(* STOPPED one next becomes READY, an EXITED one is released and never     *)
(* made ready again, although sleepers are DIRTY and wakeups race.         *)
LegalTransitions ==
  [][\A t \in Threads : state'[t] # state[t] =>
       <<state[t], state'[t]>> \in
         {<<"NONE", "INIT">>, <<"INIT", "READY">>, <<"READY", "RUNNING">>,
          <<"RUNNING", "READY">>, <<"RUNNING", "STOPPED">>, <<"RUNNING", "EXITED">>,
          <<"STOPPED", "READY">>, <<"EXITED", "NONE">>}]_vars

(* No starvation: a READY thread eventually runs, at whatever level of the *)
(* feedback queue it is, thanks to the quantum and the priority boost.     *)
ReadyRuns == \A t \in Threads : state[t] = "READY" ~> state[t] = "RUNNING"

(* sleep_releasing's documentation (kernel_sched.h:274-276): a thread that *)
(* sleeps with a timeout is made ready even if nobody calls wakeup().      *)
TimedSleepEnds ==
  \A t \in Threads : wakeup_time[t] # NO_TIMEOUT ~> state[t] # "STOPPED"

(* When the last thread is gone every core leaves the scheduler, also one  *)
(* that was about to halt when active_threads became zero.                 *)
MachineStops ==
  (\A t \in Threads : state[t] = "NONE") ~> (\A c \in Cores : pc[c] = "exited")
=============================================================================
