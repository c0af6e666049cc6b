--------------------------- MODULE SchedulerProofs ---------------------------
(***************************************************************************)
(* Proofs about the scheduler, for any number of cores, threads and levels.*)
(***************************************************************************)
EXTENDS Scheduler, ListLemmas, FiniteSetTheorems, TLAPS

-----------------------------------------------------------------------------
(* The feedback queue.                                                     *)

(* A step down or up, or to the last level, stays within the levels.       *)
LEMMA NewLevelType ==
  ASSUME NEW l \in Levels, NEW cause
  PROVE  NewLevel(l, cause) \in Levels
BY SchedulerAssumption DEF NewLevel, Levels

(* Appending a thread that is not queued adds it and no other, and keeps   *)
(* the queue free of duplicates and its labels right.                      *)
LEMMA EnqueueFacts ==
  ASSUME NEW q \in [Levels -> Seq(Threads)], NEW prio \in [Threads -> Levels],
         NEW l \in Levels, NEW t \in Threads,
         ~ Queued(q, t), NoDuplicates(q), Labelled(q, prio)
  PROVE  /\ Enqueue(q, l, t) \in [Levels -> Seq(Threads)]
         /\ NoDuplicates(Enqueue(q, l, t))
         /\ Labelled(Enqueue(q, l, t), [prio EXCEPT ![t] = l])
         /\ \A u \in Threads : Queued(Enqueue(q, l, t), u) <=> Queued(q, u) \/ u = t
<1> DEFINE e == Enqueue(q, l, t)
<1>1. /\ e \in [Levels -> Seq(Threads)]
      /\ \A k \in Levels : k # l => e[k] = q[k]
      /\ Len(e[l]) = Len(q[l]) + 1
      /\ \A i \in 1 .. Len(q[l]) : e[l][i] = q[l][i]
      /\ e[l][Len(q[l]) + 1] = t
  BY DEF Enqueue
<1>2. \A k \in Levels : Len(q[k]) \in Nat /\ \A i \in 1 .. Len(q[k]) : q[k][i] # t /\ q[k][i] \in Threads
  BY DEF Queued, InLevel, Contains
<1> HIDE DEF e
<1>3. ASSUME NEW k \in Levels, NEW i \in 1 .. Len(e[k])
      PROVE  \/ k = l /\ i = Len(q[l]) + 1 /\ e[k][i] = t
             \/ i \in 1 .. Len(q[k]) /\ e[k][i] = q[k][i]
  <2>1. CASE k = l
    <3>1. i \in 1 .. Len(q[l]) \/ i = Len(q[l]) + 1
      BY <2>1, <1>1, <1>2
    <3> QED BY <2>1, <3>1, <1>1
  <2>2. CASE k # l
    BY <2>2, <1>1
  <2> QED BY <2>1, <2>2
<1>4. ASSUME NEW k \in Levels, NEW i \in 1 .. Len(q[k])
      PROVE  i \in 1 .. Len(e[k]) /\ e[k][i] = q[k][i]
  <2>1. CASE k = l
    <3>1. i \in 1 .. Len(q[l]) + 1
      BY <2>1, <1>2
    <3> QED BY <2>1, <3>1, <1>1
  <2>2. CASE k # l
    BY <2>2, <1>1
  <2> QED BY <2>1, <2>2
<1>5. NoDuplicates(e)
  <2> SUFFICES ASSUME NEW k1 \in Levels, NEW k2 \in Levels,
                      NEW i \in 1 .. Len(e[k1]), NEW j \in 1 .. Len(e[k2]),
                      e[k1][i] = e[k2][j]
               PROVE  k1 = k2 /\ i = j
    BY DEF NoDuplicates
  <2>1. \/ k1 = l /\ i = Len(q[l]) + 1 /\ e[k1][i] = t
        \/ i \in 1 .. Len(q[k1]) /\ e[k1][i] = q[k1][i]
    BY <1>3
  <2>2. \/ k2 = l /\ j = Len(q[l]) + 1 /\ e[k2][j] = t
        \/ j \in 1 .. Len(q[k2]) /\ e[k2][j] = q[k2][j]
    BY <1>3
  <2>3. CASE k1 = l /\ i = Len(q[l]) + 1 /\ e[k1][i] = t
    BY <2>2, <2>3, <1>2
  <2>4. CASE i \in 1 .. Len(q[k1]) /\ e[k1][i] = q[k1][i]
    <3>1. j \in 1 .. Len(q[k2]) /\ q[k1][i] = q[k2][j]
      BY <2>2, <2>4, <1>2
    <3> QED BY <2>4, <3>1 DEF NoDuplicates
  <2> QED BY <2>1, <2>3, <2>4
<1>6. Labelled(e, [prio EXCEPT ![t] = l])
  <2> SUFFICES ASSUME NEW k \in Levels, NEW i \in 1 .. Len(e[k])
               PROVE  [prio EXCEPT ![t] = l][e[k][i]] = k
    BY DEF Labelled
  <2>1. CASE k = l /\ i = Len(q[l]) + 1 /\ e[k][i] = t
    BY <2>1
  <2>2. CASE i \in 1 .. Len(q[k]) /\ e[k][i] = q[k][i]
    BY <2>2, <1>2 DEF Labelled
  <2> QED BY <1>3, <2>1, <2>2
<1>7. ASSUME NEW u \in Threads PROVE Queued(e, u) <=> Queued(q, u) \/ u = t
  <2>1. Queued(e, u) => Queued(q, u) \/ u = t
    BY <1>3 DEF Queued, InLevel, Contains
  <2>2. Queued(q, u) => Queued(e, u)
    BY <1>4 DEF Queued, InLevel, Contains
  <2>3. Queued(e, t)
    BY <1>1, <1>2 DEF Queued, InLevel, Contains
  <2> QED BY <2>1, <2>2, <2>3
<1> QED BY <1>1, <1>5, <1>6, <1>7 DEF e

(* The boost and the relabelling yield a queue and priority levels.        *)
LEMMA BoostType ==
  ASSUME NEW q \in [Levels -> Seq(Threads)], NEW prio \in [Threads -> Levels]
  PROVE  /\ Boost(q) \in [Levels -> Seq(Threads)]
         /\ Relabel(q, prio) \in [Threads -> Levels]
<1>1. /\ 0 \in Levels /\ 1 \in Levels
      /\ \A k \in Levels : k # 0 /\ k # QUEUES - 1 => k + 1 \in Levels
  BY SchedulerAssumption DEF Levels
<1>2. ASSUME NEW k \in Levels
      PROVE  (IF k = 0 THEN q[0] \o q[1] ELSE IF k = QUEUES - 1 THEN << >> ELSE q[k + 1]) \in Seq(Threads)
  <2>1. CASE k = 0
    BY <2>1, <1>1, ConcatProperties
  <2>2. CASE k # 0 /\ k = QUEUES - 1
    <3>1. << >> \in Seq(Threads)
      OBVIOUS
    <3> QED BY <2>2, <3>1
  <2>3. CASE k # 0 /\ k # QUEUES - 1
    BY <2>3, <1>1
  <2> QED BY <2>1, <2>2, <2>3
<1>3. Boost(q) \in [Levels -> Seq(Threads)]
  BY <1>2 DEF Boost
<1>4. Relabel(q, prio) \in [Threads -> Levels]
  BY DEF Relabel, Queued
<1> QED BY <1>3, <1>4

(* The boost moves threads and neither loses nor duplicates any; it leaves *)
(* every queued thread labelled with the level it is in now.               *)
LEMMA BoostFacts ==
  ASSUME NEW q \in [Levels -> Seq(Threads)], NEW prio \in [Threads -> Levels],
         NoDuplicates(q)
  PROVE  /\ Boost(q) \in [Levels -> Seq(Threads)]
         /\ NoDuplicates(Boost(q))
         /\ Relabel(Boost(q), prio) \in [Threads -> Levels]
         /\ Labelled(Boost(q), Relabel(Boost(q), prio))
         /\ \A u \in Threads : Queued(Boost(q), u) <=> Queued(q, u)
<1> DEFINE b == Boost(q)
<1>1. /\ 0 \in Levels /\ 1 \in Levels /\ QUEUES - 1 \in Levels
      /\ \A k \in Levels : k # 0 /\ k # QUEUES - 1 => k + 1 \in Levels
      /\ \A k \in Levels : k # 0 /\ k # 1 => k - 1 \in Levels /\ k - 1 # 0 /\ k - 1 # QUEUES - 1
  BY SchedulerAssumption DEF Levels
<1>2. \A k \in Levels : Len(q[k]) \in Nat /\ q[k] \in Seq(Threads) /\ k \in Int
  BY DEF Levels
<1>3. /\ b[0] \in Seq(Threads)
      /\ Len(b[0]) = Len(q[0]) + Len(q[1])
      /\ \A i \in 1 .. Len(q[0]) + Len(q[1]) :
           b[0][i] = IF i <= Len(q[0]) THEN q[0][i] ELSE q[1][i - Len(q[0])]
  <2>1. b[0] = q[0] \o q[1]
    BY <1>1 DEF Boost
  <2> QED BY <1>1, <1>2, <2>1, ConcatProperties
<1>4. \A k \in Levels : k # 0 /\ k # QUEUES - 1 => b[k] = q[k + 1]
  BY DEF Boost
<1>5. \A k \in Levels : k # 0 /\ k = QUEUES - 1 => b[k] = << >>
  BY DEF Boost
<1>6. b \in [Levels -> Seq(Threads)]
  BY BoostType
<1> HIDE DEF b
(* where the thread at a position of the boosted queue was before *)
<1> DEFINE From(k, i, m, h) == \/ k = 0 /\ m = 0 /\ h = i
                               \/ k = 0 /\ m = 1 /\ h = i - Len(q[0])
                               \/ k # 0 /\ m = k + 1 /\ h = i
<1>7. ASSUME NEW k \in Levels, NEW i \in 1 .. Len(b[k])
      PROVE  \E m \in Levels : \E h \in 1 .. Len(q[m]) : b[k][i] = q[m][h] /\ From(k, i, m, h)
  <2>1. CASE k = 0 /\ i <= Len(q[0])
    <3>1. i \in 1 .. Len(q[0]) /\ b[k][i] = q[0][i]
      BY <2>1, <1>1, <1>2, <1>3
    <3> QED BY <3>1, <2>1, <1>1
  <2>2. CASE k = 0 /\ ~ (i <= Len(q[0]))
    <3>1. i - Len(q[0]) \in 1 .. Len(q[1]) /\ b[k][i] = q[1][i - Len(q[0])]
      BY <2>2, <1>1, <1>2, <1>3
    <3> QED BY <3>1, <2>2, <1>1
  <2>3. CASE k # 0 /\ k # QUEUES - 1
    <3>1. i \in 1 .. Len(q[k + 1]) /\ b[k][i] = q[k + 1][i] /\ k + 1 \in Levels
      BY <2>3, <1>1, <1>4
    <3> QED BY <3>1, <2>3
  <2>4. CASE k # 0 /\ k = QUEUES - 1
    <3>1. Len(b[k]) = 0
      BY <2>4, <1>5
    <3> QED BY <3>1
  <2> QED BY <2>1, <2>2, <2>3, <2>4
<1>8. NoDuplicates(b)
  <2> SUFFICES ASSUME NEW k1 \in Levels, NEW k2 \in Levels,
                      NEW i \in 1 .. Len(b[k1]), NEW j \in 1 .. Len(b[k2]),
                      b[k1][i] = b[k2][j]
               PROVE  k1 = k2 /\ i = j
    BY DEF NoDuplicates
  <2>1. PICK m1 \in Levels : \E h \in 1 .. Len(q[m1]) : b[k1][i] = q[m1][h] /\ From(k1, i, m1, h)
    BY <1>7
  <2>2. PICK h1 \in 1 .. Len(q[m1]) : b[k1][i] = q[m1][h1] /\ From(k1, i, m1, h1)
    BY <2>1
  <2>3. PICK m2 \in Levels : \E h \in 1 .. Len(q[m2]) : b[k2][j] = q[m2][h] /\ From(k2, j, m2, h)
    BY <1>7
  <2>4. PICK h2 \in 1 .. Len(q[m2]) : b[k2][j] = q[m2][h2] /\ From(k2, j, m2, h2)
    BY <2>3
  <2>5. m1 = m2 /\ h1 = h2
    <3>1. q[m1][h1] = q[m2][h2]
      BY <2>2, <2>4
    <3> QED BY <3>1 DEF NoDuplicates
  <2>6. Len(q[0]) \in Nat /\ i \in Int /\ j \in Int /\ k1 \in Nat /\ k2 \in Nat
    BY <1>1, <1>2, <1>6 DEF Levels
  <2>7. From(k1, i, m1, h1) /\ From(k2, j, m1, h1)
    BY <2>2, <2>4, <2>5
  <2> QED BY <2>6, <2>7, SMTT(30)
<1>9. ASSUME NEW u \in Threads PROVE Queued(b, u) <=> Queued(q, u)
  <2>1. ASSUME NEW k \in Levels, NEW i \in 1 .. Len(b[k]), b[k][i] = u
        PROVE  Queued(q, u)
    <3>1. PICK m \in Levels : \E h \in 1 .. Len(q[m]) : b[k][i] = q[m][h]
      BY <1>7
    <3> QED BY <2>1, <3>1 DEF Queued, InLevel, Contains
  <2>2. ASSUME NEW k \in Levels, NEW i \in 1 .. Len(q[k]), q[k][i] = u
        PROVE  Queued(b, u)
    <3>1. CASE k = 0
      <4>1. i \in 1 .. Len(b[0]) /\ b[0][i] = u
        BY <2>2, <3>1, <1>1, <1>2, <1>3
      <4> QED BY <4>1, <1>1 DEF Queued, InLevel, Contains
    <3>2. CASE k = 1
      <4>1. i + Len(q[0]) \in 1 .. Len(b[0]) /\ b[0][i + Len(q[0])] = u
        BY <2>2, <3>2, <1>1, <1>2, <1>3
      <4> QED BY <4>1, <1>1 DEF Queued, InLevel, Contains
    <3>3. CASE k # 0 /\ k # 1
      <4>1. b[k - 1] = q[k]
        <5>1. k - 1 \in Levels /\ k - 1 # 0 /\ k - 1 # QUEUES - 1 /\ (k - 1) + 1 = k
          BY <3>3, <1>1, <1>2
        <5> QED BY <5>1, <1>4
      <4> QED BY <2>2, <3>3, <4>1, <1>1 DEF Queued, InLevel, Contains
    <3> QED BY <3>1, <3>2, <3>3
  <2> QED BY <2>1, <2>2 DEF Queued, InLevel, Contains
<1>10. Relabel(b, prio) \in [Threads -> Levels]
  BY <1>6, BoostType
<1>11. Labelled(b, Relabel(b, prio))
  <2> SUFFICES ASSUME NEW k \in Levels, NEW i \in 1 .. Len(b[k])
               PROVE  Relabel(b, prio)[b[k][i]] = k
    BY DEF Labelled
  <2> DEFINE u == b[k][i]
  <2>1. u \in Threads /\ InLevel(b, k, u)
    BY <1>6 DEF InLevel, Contains
  <2>2. \A m \in Levels : InLevel(b, m, u) => m = k
    BY <1>8 DEF NoDuplicates, InLevel, Contains
  <2>3. Relabel(b, prio)[u] = CHOOSE m \in Levels : InLevel(b, m, u)
    BY <2>1 DEF Relabel, Queued
  <2> HIDE DEF u
  <2>4. (CHOOSE m \in Levels : InLevel(b, m, u)) = k
    BY <2>1, <2>2
  <2> QED BY <2>3, <2>4 DEF u
<1> QED BY <1>6, <1>8, <1>9, <1>10, <1>11 DEF b

-----------------------------------------------------------------------------
(* Type correctness.                                                       *)

(* sched_queue_add keeps the queue, the levels and the counter in range.   *)
LEMMA QueueAddType ==
  ASSUME TypeOK, NEW t \in Threads, sched_queue_add(t)
  PROVE  /\ SCHED' \in [Levels -> Seq(Threads)]
         /\ priority_level' \in [Threads -> Levels]
         /\ SCHED_OPERATIONS' \in 0 .. (BOOST_THRESHOLD - 1)
         /\ halted_list' \in Seq(Cores)
<1> DEFINE l == NewLevel(priority_level[t], curr_cause[t])
           q == Enqueue(SCHED, l, t)
           prio == [priority_level EXCEPT ![t] = l]
<1>1. l \in Levels
  BY NewLevelType DEF TypeOK
<1> HIDE DEF l
<1>2. q \in [Levels -> Seq(Threads)] /\ prio \in [Threads -> Levels]
  BY <1>1 DEF TypeOK, Enqueue
<1>3. Boost(q) \in [Levels -> Seq(Threads)] /\ Relabel(Boost(q), prio) \in [Threads -> Levels]
  BY <1>2, BoostType
<1>4. /\ SCHED' = q \/ SCHED' = Boost(q)
      /\ priority_level' = prio \/ priority_level' = Relabel(Boost(q), prio)
  BY DEF sched_queue_add, l
<1>5. SCHED_OPERATIONS' \in 0 .. (BOOST_THRESHOLD - 1)
  BY SchedulerAssumption DEF sched_queue_add, TypeOK
<1>6. halted_list' \in Seq(Cores)
  BY DEF sched_queue_add, cpu_core_restart_one, TypeOK
<1> QED BY <1>2, <1>3, <1>4, <1>5, <1>6

(* sched_make_ready, with or without the queue insertion.                  *)
LEMMA MakeReadyType ==
  ASSUME TypeOK, NEW t \in Threads, sched_make_ready(t)
  PROVE  /\ SCHED' \in [Levels -> Seq(Threads)]
         /\ priority_level' \in [Threads -> Levels]
         /\ SCHED_OPERATIONS' \in 0 .. (BOOST_THRESHOLD - 1)
         /\ halted_list' \in Seq(Cores)
         /\ wakeup_time' \in [Threads -> Nat \cup {NO_TIMEOUT}]
         /\ TIMEOUT_LIST' \in Seq(Threads)
         /\ state' \in [TCBs -> {"NONE", "INIT", "READY", "RUNNING", "STOPPED", "EXITED"}]
<1>1. wakeup_time' \in [Threads -> Nat \cup {NO_TIMEOUT}]
  BY DEF sched_make_ready, CancelTimeout, TypeOK
<1>2. TIMEOUT_LIST' \in Seq(Threads)
  BY RemoveAtElements DEF sched_make_ready, CancelTimeout, TypeOK
<1>3. state' \in [TCBs -> {"NONE", "INIT", "READY", "RUNNING", "STOPPED", "EXITED"}]
  BY DEF sched_make_ready, TypeOK
<1>4. CASE sched_queue_add(t)
  BY <1>1, <1>2, <1>3, <1>4, QueueAddType
<1>5. CASE NoQueueAdd
  BY <1>1, <1>2, <1>3, <1>5 DEF NoQueueAdd, TypeOK
<1> QED BY <1>4, <1>5 DEF sched_make_ready

(* sched_register_timeout inserts one thread, at a place inside the list.  *)
LEMMA RegisterTimeoutType ==
  ASSUME TypeOK, NEW t \in Threads, NEW timeout \in Timeouts \cup {NO_TIMEOUT},
         sched_register_timeout(t, timeout)
  PROVE  /\ wakeup_time' \in [Threads -> Nat \cup {NO_TIMEOUT}]
         /\ TIMEOUT_LIST' \in Seq(Threads)
<1>1. CASE timeout = NO_TIMEOUT
  BY <1>1 DEF sched_register_timeout, TypeOK
<1>2. CASE timeout # NO_TIMEOUT
  <2>1. wakeup_time' \in [Threads -> Nat \cup {NO_TIMEOUT}]
    BY <1>2, SchedulerAssumption DEF sched_register_timeout, TypeOK
  <2>2. TIMEOUT_LIST' \in Seq(Threads)
    BY <1>2, InsertAtElements DEF sched_register_timeout, TypeOK
  <2> QED BY <2>1, <2>2
<1> QED BY <1>1, <1>2

(* The type invariant is preserved by every step: no action of the         *)
(* scheduler writes a value outside the field it belongs to.               *)
LEMMA TypeStep == TypeOK /\ [Next]_vars => TypeOK'
<1> SUFFICES ASSUME TypeOK, [Next]_vars PROVE TypeOK'
  OBVIOUS
<1> USE DEF TCBs, CoreStates, Causes
<1>1. ASSUME NEW c \in Cores, NEW t \in Threads, SpawnThread(c, t) PROVE TypeOK'
  <2>1. 1 \in Levels
    BY SchedulerAssumption DEF Levels
  <2> QED BY <1>1, <2>1 DEF SpawnThread, TypeOK, queueVars, coreVars
<1>2. ASSUME NEW c \in Cores, NEW t \in Threads, Wakeup(c, t) PROVE TypeOK'
  BY <1>2, MakeReadyType DEF Wakeup, TypeOK
<1>3. ASSUME NEW c \in Cores, NEW newstate \in {"STOPPED", "EXITED"}, NEW cause \in {"IO", "OTHER"},
             NEW timeout \in Timeouts \cup {NO_TIMEOUT}, SleepReleasing(c, newstate, cause, timeout)
      PROVE  TypeOK'
  <2>1. /\ wakeup_time' \in [Threads -> Nat \cup {NO_TIMEOUT}]
        /\ TIMEOUT_LIST' \in Seq(Threads)
    BY <1>3, RegisterTimeoutType DEF SleepReleasing, Running
  <2> QED BY <1>3, <2>1 DEF SleepReleasing, Running, EnterYield, TypeOK
<1>4. ASSUME NEW c \in Cores, NEW cause \in {"MUTEX", "IO"}, YieldCall(c, cause) PROVE TypeOK'
  BY <1>4 DEF YieldCall, EnterYield, Running, TypeOK, queueVars
<1>5. ASSUME NEW c \in Cores, YieldHandler(c) PROVE TypeOK'
  BY <1>5 DEF YieldHandler, EnterYield, TypeOK, queueVars
<1>6. ASSUME NEW c \in Cores, YieldLock(c) PROVE TypeOK'
  BY <1>6 DEF YieldLock, LeaveRunning, TypeOK, queueVars
<1>7. ASSUME NEW c \in Cores, WakeupExpired(c) PROVE TypeOK'
  <2>1. Head(TIMEOUT_LIST) \in Threads
    BY <1>7 DEF WakeupExpired, Expired, TypeOK
  <2> QED BY <1>7, <2>1, MakeReadyType DEF WakeupExpired, TypeOK
<1>8. ASSUME NEW c \in Cores, YieldSelect(c) PROVE TypeOK'
  <2>1. SCHED' \in [Levels -> Seq(Threads)]
    <3>1. ASSUME NEW l \in Levels, SCHED[l] # << >>
          PROVE  [SCHED EXCEPT ![l] = Tail(@)] \in [Levels -> Seq(Threads)]
      <4>1. Tail(SCHED[l]) \in Seq(Threads)
        BY <3>1, HeadTailProperties DEF TypeOK
      <4> QED BY <4>1 DEF TypeOK
    <3> QED BY <1>8, <3>1, ZenonT(30) DEF YieldSelect, sched_queue_select, TypeOK
  <2> QED BY <1>8, <2>1 DEF YieldSelect, TypeOK, tcbVars
<1>9. ASSUME NEW c \in Cores, Gain(c) PROVE TypeOK'
  <2>1. /\ SCHED' \in [Levels -> Seq(Threads)]
        /\ priority_level' \in [Threads -> Levels]
        /\ SCHED_OPERATIONS' \in 0 .. (BOOST_THRESHOLD - 1)
        /\ halted_list' \in Seq(Cores)
    <3>1. CASE NoQueueAdd
      BY <3>1 DEF NoQueueAdd, TypeOK
    <3>2. CASE previous_thread[c] \in Threads /\ sched_queue_add(previous_thread[c])
      BY <3>2, QueueAddType
    <3> QED BY <1>9, <3>1, <3>2 DEF Gain
  <2>2. phase' \in [TCBs -> {"CLEAN", "DIRTY"}]
    BY <1>9 DEF Gain, TypeOK
  <2>3. state' \in [TCBs -> {"NONE", "INIT", "READY", "RUNNING", "STOPPED", "EXITED"}]
    BY <1>9 DEF Gain, TypeOK
  <2>4. active_threads' \in Int
    BY <1>9 DEF Gain, TypeOK
  <2> QED BY <1>9, <2>1, <2>2, <2>3, <2>4 DEF Gain, TypeOK
<1>10. ASSUME NEW c \in Cores, IdleStep(c) PROVE TypeOK'
  <2>1. CASE IdleLoop(c)
    <3>1. << >> \in Seq(Cores)
      OBVIOUS
    <3>2. halted_list' \in Seq(Cores)
      BY <2>1, <3>1 DEF IdleLoop, TypeOK
    <3>3. timer' \in [Cores -> {"off", "armed", "pending"}] /\ pc' \in [Cores -> CoreStates]
      BY <2>1, ZenonT(30) DEF IdleLoop, TypeOK
    <3> QED BY <2>1, <3>2, <3>3 DEF IdleLoop, TypeOK, tcbVars, queueVars
  <2>2. CASE CoreHalt(c)
    <3>1. Cons(c, halted_list) \in Seq(Cores)
      BY ConcatProperties DEF Cons, TypeOK
    <3> QED BY <2>2, <3>1 DEF CoreHalt, TypeOK, tcbVars, queueVars
  <2>3. CASE CoreHaltReturn(c)
    BY <2>3 DEF CoreHaltReturn, EnterYield, TypeOK, queueVars
  <2> QED BY <1>10, <2>1, <2>2, <2>3 DEF IdleStep
<1>11. ASSUME NEW c \in Cores, cpu_core_restart(c) PROVE halted_list' \in Seq(Cores)
  BY <1>11, RemoveAtElements DEF cpu_core_restart, TypeOK
<1>12. ASSUME NEW c \in Cores, Alarm(c) PROVE TypeOK'
  BY <1>11, <1>12 DEF Alarm, TypeOK, tcbVars, queueVars
<1>13. ASSUME SerialInterrupt PROVE TypeOK'
  BY <1>11, <1>13, SchedulerAssumption DEF SerialInterrupt, TypeOK, tcbVars, queueVars
<1>14. ASSUME Tick PROVE TypeOK'
  BY <1>14 DEF Tick, TypeOK, queueVars, coreVars, NO_TIMEOUT
<1>15. ASSUME UNCHANGED vars PROVE TypeOK'
  BY <1>15 DEF vars, tcbVars, queueVars, coreVars, TypeOK
<1> QED
  BY <1>1, <1>2, <1>3, <1>4, <1>5, <1>6, <1>7, <1>8, <1>9, <1>10, <1>12, <1>13, <1>14, <1>15
  DEF Next, ThreadStep, SwitchStep, Shutdown

(* The state at boot is well typed.                                        *)
LEMMA TypeInit == Init => TypeOK
<1> SUFFICES ASSUME Init PROVE TypeOK
  OBVIOUS
<1>1. 1 \in Levels /\ 1 \in 0 .. (BOOST_THRESHOLD - 1)
  BY SchedulerAssumption DEF Levels
<1>2. << >> \in Seq(Threads) /\ << >> \in Seq(Cores)
  OBVIOUS
<1>3. PICK t0 \in Threads :
        /\ state = [t \in TCBs |-> IF t = t0 THEN "READY"
                                   ELSE IF t \in Cores THEN "RUNNING" ELSE "NONE"]
        /\ SCHED = [l \in Levels |-> IF l = 1 THEN <<t0>> ELSE << >>]
  BY DEF Init
<1>4. SCHED \in [Levels -> Seq(Threads)]
  <2>1. <<t0>> \in Seq(Threads)
    OBVIOUS
  <2> QED BY <1>2, <1>3, <2>1
<1>5. state \in [TCBs -> {"NONE", "INIT", "READY", "RUNNING", "STOPPED", "EXITED"}]
  BY <1>3
<1> QED BY <1>1, <1>2, <1>4, <1>5 DEF Init, TypeOK, TCBs, CoreStates, Causes, NO_TIMEOUT

(* Type correctness: in every reachable state of every instance, each      *)
(* scheduler variable holds a value of its type; a level computed by       *)
(* sched_queue_add is always an index of SCHED, and the boost counter      *)
(* never passes BOOST_THRESHOLD, so the test for equality cannot miss it.  *)
THEOREM TypeCorrect == Spec => []TypeOK
BY TypeInit, TypeStep, PTL DEF Spec

-----------------------------------------------------------------------------
(* The inductive invariant.                                                *)

(* The thread whose registers core c holds: the one it has not yet left.   *)
Owner(c) == IF pc[c] = "switch" THEN previous_thread[c] ELSE current_thread[c]

(* What a core executes, and in which state that thread is.                *)
CoreOK(c) ==
  /\ current_thread[c] \in Threads \cup {c}
  /\ pc[c] = "switch" => previous_thread[c] \in Threads \cup {c}
  /\ pc[c] = "scan" <=> sched_spinlock = c
  /\ pc[c] \in {"halting", "halted", "exited"} => current_thread[c] = c
  /\ pc[c] \in {"run", "halting", "halted", "exited"} => state[current_thread[c]] = "RUNNING"
  /\ pc[c] = "yield" => state[current_thread[c]] \in {"RUNNING", "READY", "STOPPED", "EXITED"}
  /\ pc[c] \in {"scan", "switch"} => state[Owner(c)] \in {"READY", "STOPPED", "EXITED"}
  /\ pc[c] = "switch" => state[current_thread[c]] = "READY"
  /\ state[c] \in {"RUNNING", "READY"}
  /\ Owner(c) # c => state[c] = "READY"

CoreInv == \A c \in Cores : CoreOK(c)

(* A context is dirty exactly while some core is on its stack.             *)
PhaseInv ==
  /\ \A t \in Threads : phase[t] = "DIRTY" <=> \E c \in Cores : Owner(c) = t
  /\ \A c \in Cores : phase[c] = "DIRTY" <=> Owner(c) = c

IInv == /\ TypeOK
        /\ CoreInv
        /\ PhaseInv
        /\ StackExclusive
        /\ QueueInvariant
        /\ QueuedOnce
        /\ TimeoutListInvariant

-----------------------------------------------------------------------------
(* What the list operations do to the invariant.                           *)

(* sched_queue_add adds its thread to the queue, boost or not, and changes *)
(* who else is queued in no way.                                           *)
LEMMA QueueAddEffect ==
  ASSUME TypeOK, NEW t \in Threads, ~ Queued(SCHED, t),
         NoDuplicates(SCHED), Labelled(SCHED, priority_level), sched_queue_add(t)
  PROVE  /\ NoDuplicates(SCHED')
         /\ Labelled(SCHED', priority_level')
         /\ \A u \in Threads : Queued(SCHED', u) <=> Queued(SCHED, u) \/ u = t
<1> DEFINE l == NewLevel(priority_level[t], curr_cause[t])
           q == Enqueue(SCHED, l, t)
           prio == [priority_level EXCEPT ![t] = l]
<1>1. l \in Levels
  BY NewLevelType DEF TypeOK
<1>2. \/ SCHED' = q /\ priority_level' = prio
      \/ SCHED' = Boost(q) /\ priority_level' = Relabel(Boost(q), prio)
  BY DEF sched_queue_add
<1> HIDE DEF l
<1>3. /\ q \in [Levels -> Seq(Threads)]
      /\ NoDuplicates(q)
      /\ Labelled(q, prio)
      /\ \A u \in Threads : Queued(q, u) <=> Queued(SCHED, u) \/ u = t
  BY <1>1, EnqueueFacts DEF TypeOK
<1>4. prio \in [Threads -> Levels]
  BY <1>1 DEF TypeOK
<1> HIDE DEF q, prio
<1>5. /\ NoDuplicates(Boost(q))
      /\ Labelled(Boost(q), Relabel(Boost(q), prio))
      /\ \A u \in Threads : Queued(Boost(q), u) <=> Queued(q, u)
  BY <1>3, <1>4, BoostFacts
<1> QED BY <1>2, <1>3, <1>5

(* Taking the head of a level removes that thread from the queue, and no   *)
(* other.                                                                  *)
LEMMA SelectEffect ==
  ASSUME TypeOK, NoDuplicates(SCHED), Labelled(SCHED, priority_level),
         NEW l \in Levels, SCHED[l] # << >>, SCHED' = [SCHED EXCEPT ![l] = Tail(@)]
  PROVE  /\ Head(SCHED[l]) \in Threads
         /\ Queued(SCHED, Head(SCHED[l]))
         /\ NoDuplicates(SCHED')
         /\ Labelled(SCHED', priority_level)
         /\ \A u \in Threads : Queued(SCHED', u) <=> Queued(SCHED, u) /\ u # Head(SCHED[l])
<1> DEFINE h == Head(SCHED[l])
<1>1. /\ SCHED[l] \in Seq(Threads) /\ Len(SCHED[l]) \in Nat \ {0}
      /\ h \in Threads /\ h = SCHED[l][1]
  BY EmptySeq, HeadTailProperties DEF TypeOK
<1>2. /\ SCHED'[l] \in Seq(Threads)
      /\ Len(SCHED'[l]) = Len(SCHED[l]) - 1
      /\ \A i \in 1 .. Len(SCHED[l]) - 1 : SCHED'[l][i] = SCHED[l][i + 1]
  <2>1. SCHED'[l] = Tail(SCHED[l])
    BY DEF TypeOK
  <2> QED BY <1>1, <2>1, HeadTailProperties, ZenonT(30)
<1>3. \A k \in Levels : k # l => SCHED'[k] = SCHED[k]
  BY DEF TypeOK
<1>4. \A k \in Levels : Len(SCHED[k]) \in Nat
  BY DEF TypeOK
<1> HIDE DEF h
(* the place of an element before *)
<1>5. ASSUME NEW k \in Levels, NEW i \in 1 .. Len(SCHED'[k])
      PROVE  \E j \in 1 .. Len(SCHED[k]) :
               /\ SCHED'[k][i] = SCHED[k][j]
               /\ k = l => j = i + 1
               /\ k # l => j = i
  <2>1. CASE k = l
    <3>1. i + 1 \in 1 .. Len(SCHED[k]) /\ i \in 1 .. Len(SCHED[l]) - 1
      BY <2>1, <1>1, <1>2
    <3> QED BY <2>1, <3>1, <1>2
  <2>2. CASE k # l
    BY <2>2, <1>3
  <2> QED BY <2>1, <2>2
<1>6. NoDuplicates(SCHED')
  <2> SUFFICES ASSUME NEW k1 \in Levels, NEW k2 \in Levels,
                      NEW i \in 1 .. Len(SCHED'[k1]), NEW j \in 1 .. Len(SCHED'[k2]),
                      SCHED'[k1][i] = SCHED'[k2][j]
               PROVE  k1 = k2 /\ i = j
    BY DEF NoDuplicates
  <2>1. PICK i0 \in 1 .. Len(SCHED[k1]) : /\ SCHED'[k1][i] = SCHED[k1][i0]
                                          /\ k1 = l => i0 = i + 1
                                          /\ k1 # l => i0 = i
    BY <1>5
  <2>2. PICK j0 \in 1 .. Len(SCHED[k2]) : /\ SCHED'[k2][j] = SCHED[k2][j0]
                                          /\ k2 = l => j0 = j + 1
                                          /\ k2 # l => j0 = j
    BY <1>5
  <2>3. k1 = k2 /\ i0 = j0
    BY <2>1, <2>2 DEF NoDuplicates
  <2>4. i \in Int /\ j \in Int
    BY <1>2, <1>3, <1>4
  <2> QED BY <2>1, <2>2, <2>3, <2>4
<1>7. Labelled(SCHED', priority_level)
  <2> SUFFICES ASSUME NEW k \in Levels, NEW i \in 1 .. Len(SCHED'[k])
               PROVE  priority_level[SCHED'[k][i]] = k
    BY DEF Labelled
  <2>1. PICK j \in 1 .. Len(SCHED[k]) : SCHED'[k][i] = SCHED[k][j]
    BY <1>5
  <2> QED BY <2>1 DEF Labelled
<1>8. Queued(SCHED, h)
  BY <1>1 DEF Queued, InLevel, Contains
<1>9. ASSUME NEW u \in Threads, Queued(SCHED', u) PROVE Queued(SCHED, u) /\ u # h
  <2>1. PICK k \in Levels : \E i \in 1 .. Len(SCHED'[k]) : SCHED'[k][i] = u
    BY <1>9 DEF Queued, InLevel, Contains
  <2>2. PICK i \in 1 .. Len(SCHED'[k]) : SCHED'[k][i] = u
    BY <2>1
  <2>3. PICK j \in 1 .. Len(SCHED[k]) : SCHED[k][j] = u /\ (k = l => j = i + 1)
    BY <2>2, <1>5
  <2>4. Queued(SCHED, u)
    BY <2>3 DEF Queued, InLevel, Contains
  <2>5. 1 \in 1 .. Len(SCHED[l])
    BY <1>1
  <2>6. i + 1 # 1
    BY <1>2, <1>3, <1>4
  <2>7. u # h
    BY <1>1, <2>3, <2>5, <2>6 DEF NoDuplicates
  <2> QED BY <2>4, <2>7
<1>10. ASSUME NEW u \in Threads, Queued(SCHED, u), u # h PROVE Queued(SCHED', u)
  <2>1. PICK k \in Levels : \E i \in 1 .. Len(SCHED[k]) : SCHED[k][i] = u
    BY <1>10 DEF Queued, InLevel, Contains
  <2>2. PICK i \in 1 .. Len(SCHED[k]) : SCHED[k][i] = u
    BY <2>1
  <2>3. CASE k = l
    <3>1. i - 1 \in 1 .. Len(SCHED[l]) - 1 /\ (i - 1) + 1 = i
      BY <2>2, <2>3, <1>1, <1>10
    <3>2. SCHED'[l][i - 1] = u /\ i - 1 \in 1 .. Len(SCHED'[l])
      BY <2>2, <2>3, <3>1, <1>2
    <3> QED BY <3>2 DEF Queued, InLevel, Contains
  <2>4. CASE k # l
    BY <2>2, <2>4, <1>3 DEF Queued, InLevel, Contains
  <2> QED BY <2>3, <2>4
<1> QED BY <1>1, <1>6, <1>7, <1>8, <1>9, <1>10 DEF h

(* Removing t from the timeout list, as its state changes, keeps the list  *)
(* in step with wakeup_time.                                               *)
LEMMA CancelTimeoutEffect ==
  ASSUME TypeOK, TimeoutListInvariant, NEW t \in Threads, CancelTimeout(t),
         \A u \in Threads : u # t => state'[u] = state[u]
  PROVE  TimeoutListInvariant' /\ wakeup_time'[t] = NO_TIMEOUT
<1>1. CASE wakeup_time[t] = NO_TIMEOUT
  BY <1>1 DEF CancelTimeout, TimeoutListInvariant, Contains
<1>2. CASE wakeup_time[t] # NO_TIMEOUT
  <2> DEFINE s == TIMEOUT_LIST
  <2>1. PICK p \in 1 .. Len(s) : s[p] = t /\ TIMEOUT_LIST' = RemoveAt(s, p)
    BY <1>2 DEF CancelTimeout
  <2>2. /\ wakeup_time'[t] = NO_TIMEOUT
        /\ \A u \in Threads : u # t => wakeup_time'[u] = wakeup_time[u]
    BY <1>2 DEF CancelTimeout, TypeOK
  <2>3. s \in Seq(Threads) /\ Len(s) \in Nat /\ \A i \in 1 .. Len(s) : s[i] \in Threads
    BY DEF TypeOK
  <2> DEFINE r == TIMEOUT_LIST'
  <2>4. /\ Len(r) = Len(s) - 1
        /\ \A i \in 1 .. Len(s) - 1 : r[i] = IF i < p THEN s[i] ELSE s[i + 1]
    BY <2>1, <2>3, RemoveAtElements
  <2>5. \A i, j \in 1 .. Len(s) :
          i < j => s[i] # s[j] /\ wakeup_time[s[i]] <= wakeup_time[s[j]]
    BY DEF TimeoutListInvariant
  <2> HIDE DEF r
  (* where an element of the shorter list was *)
  <2>6. ASSUME NEW i \in 1 .. Len(r)
        PROVE  \E k \in 1 .. Len(s) :
                 /\ r[i] = s[k] /\ s[k] # t
                 /\ k = IF i < p THEN i ELSE i + 1
    <3>1. i \in 1 .. Len(s) - 1
      BY <2>4
    <3>2. CASE i < p
      <4>1. i \in 1 .. Len(s) /\ r[i] = s[i]
        BY <3>1, <3>2, <2>3, <2>4
      <4>2. s[i] # t
        BY <4>1, <3>2, <2>1, <2>5
      <4> QED BY <4>1, <4>2, <3>2
    <3>3. CASE ~ (i < p)
      <4>1. i + 1 \in 1 .. Len(s) /\ r[i] = s[i + 1] /\ p < i + 1
        BY <3>1, <3>3, <2>3, <2>4
      <4>2. s[i + 1] # t
        BY <4>1, <2>1, <2>5
      <4> QED BY <4>1, <4>2, <3>3
    <3> QED BY <3>2, <3>3
  <2>7. ASSUME NEW u \in Threads PROVE Contains(r, u) <=> wakeup_time'[u] # NO_TIMEOUT
    <3>1. Contains(r, u) => Contains(s, u) /\ u # t
      BY <2>6 DEF Contains
    <3>2. ASSUME NEW k \in 1 .. Len(s), s[k] = u, u # t PROVE Contains(r, u)
      <4>1. CASE k < p
        <5>1. k \in 1 .. Len(s) - 1
          BY <4>1, <2>3
        <5> QED BY <3>2, <4>1, <5>1, <2>4 DEF Contains
      <4>2. CASE ~ (k < p)
        <5>1. k - 1 \in 1 .. Len(s) - 1 /\ ~ (k - 1 < p) /\ (k - 1) + 1 = k
          BY <3>2, <4>2, <2>1, <2>3
        <5>2. r[k - 1] = u
          BY <3>2, <5>1, <2>4
        <5> QED BY <5>1, <5>2, <2>4 DEF Contains
      <4> QED BY <4>1, <4>2
    <3>3. Contains(s, u) <=> wakeup_time[u] # NO_TIMEOUT
      BY DEF TimeoutListInvariant
    <3> QED BY <3>1, <3>2, <3>3, <2>2 DEF Contains
  <2>8. ASSUME NEW u \in Threads, wakeup_time'[u] # NO_TIMEOUT PROVE state'[u] = "STOPPED"
    BY <2>2, <2>8 DEF TimeoutListInvariant
  <2>9. ASSUME NEW i \in 1 .. Len(r), NEW j \in 1 .. Len(r), i < j
        PROVE  r[i] # r[j] /\ wakeup_time'[r[i]] <= wakeup_time'[r[j]]
    <3>1. PICK k \in 1 .. Len(s) : /\ r[i] = s[k] /\ s[k] # t
                                   /\ k = IF i < p THEN i ELSE i + 1
      BY <2>6
    <3>2. PICK m \in 1 .. Len(s) : /\ r[j] = s[m] /\ s[m] # t
                                   /\ m = IF j < p THEN j ELSE j + 1
      BY <2>6
    <3>3. k < m
      BY <3>1, <3>2, <2>3, <2>4, <2>9
    <3>4. s[k] # s[m] /\ wakeup_time[s[k]] <= wakeup_time[s[m]]
      BY <3>3, <2>5
    <3>5. wakeup_time'[s[k]] = wakeup_time[s[k]] /\ wakeup_time'[s[m]] = wakeup_time[s[m]]
      BY <3>1, <3>2, <2>2, <2>3
    <3> QED BY <3>1, <3>2, <3>4, <3>5
  <2>10. TimeoutListInvariant'
    BY <2>7, <2>8, <2>9 DEF TimeoutListInvariant, r
  <2> QED BY <2>2, <2>10
<1> QED BY <1>1, <1>2

(* Inserting a thread that goes to sleep at the place the loop of          *)
(* sched_register_timeout finds keeps the list sorted.                     *)
LEMMA RegisterTimeoutEffect ==
  ASSUME TypeOK, TimeoutListInvariant, NEW t \in Threads, wakeup_time[t] = NO_TIMEOUT,
         NEW timeout \in Timeouts \cup {NO_TIMEOUT}, sched_register_timeout(t, timeout),
         timeout # NO_TIMEOUT => state'[t] = "STOPPED",
         \A u \in Threads : u # t => state'[u] = state[u]
  PROVE  TimeoutListInvariant'
<1>1. CASE timeout = NO_TIMEOUT
  BY <1>1 DEF sched_register_timeout, TimeoutListInvariant, Contains
<1>2. CASE timeout # NO_TIMEOUT
  <2> DEFINE s == TIMEOUT_LIST
             r == TIMEOUT_LIST'
  <2>1. PICK p \in 1 .. Len(s) + 1 :
          /\ \A i \in 1 .. p - 1 : wakeup_time[s[i]] <= timeout
          /\ p <= Len(s) => timeout < wakeup_time[s[p]]
          /\ r = InsertAt(s, p, t)
    BY <1>2 DEF sched_register_timeout
  <2>2. /\ wakeup_time'[t] = timeout
        /\ \A u \in Threads : u # t => wakeup_time'[u] = wakeup_time[u]
    BY <1>2 DEF sched_register_timeout, TypeOK
  <2>3. /\ s \in Seq(Threads) /\ Len(s) \in Nat /\ \A i \in 1 .. Len(s) : s[i] \in Threads
        /\ \A u \in Threads : wakeup_time[u] \in Int
        /\ timeout \in Int
    <3>1. s \in Seq(Threads)
      BY DEF TypeOK
    <3>2. Len(s) \in Nat /\ \A i \in 1 .. Len(s) : s[i] \in Threads
      BY <3>1, LenProperties
    <3>3. wakeup_time \in [Threads -> Nat \cup {NO_TIMEOUT}]
      BY DEF TypeOK
    <3>4. \A u \in Threads : wakeup_time[u] \in Int
      BY <3>3 DEF NO_TIMEOUT
    <3>5. timeout \in Int
      <4>1. timeout \in Timeouts
        BY <1>2
      <4>2. Timeouts \subseteq Nat
        BY SchedulerAssumption
      <4>3. timeout \in Nat
        BY <4>1, <4>2
      <4> QED BY <4>3
    <3> QED BY <3>1, <3>2, <3>4, <3>5
  <2>4. /\ Len(r) = Len(s) + 1
        /\ \A i \in 1 .. Len(s) + 1 :
             r[i] = IF i < p THEN s[i] ELSE IF i = p THEN t ELSE s[i - 1]
    <3>1. /\ Len(InsertAt(s, p, t)) = Len(s) + 1
          /\ \A i \in 1 .. Len(s) + 1 :
               InsertAt(s, p, t)[i] = IF i < p THEN s[i] ELSE IF i = p THEN t ELSE s[i - 1]
      <4> HIDE DEF s
      <4> QED BY <2>3, InsertAtElements
    <3> HIDE DEF r, s
    <3> QED BY <2>1, <3>1
  <2>5. \A i, j \in 1 .. Len(s) :
          i < j => s[i] # s[j] /\ wakeup_time[s[i]] <= wakeup_time[s[j]]
    BY DEF TimeoutListInvariant
  <2>6. \A i \in 1 .. Len(s) : s[i] # t
    BY DEF TimeoutListInvariant, Contains
  <2> HIDE DEF r
  <2>7. ASSUME NEW i \in 1 .. Len(r)
        PROVE  \/ i = p /\ r[i] = t
               \/ i < p /\ i \in 1 .. Len(s) /\ r[i] = s[i] /\ wakeup_time[s[i]] <= timeout
               \/ p < i /\ i - 1 \in 1 .. Len(s) /\ r[i] = s[i - 1] /\ timeout <= wakeup_time[s[i - 1]]
    <3>1. CASE i = p
      BY <3>1, <2>3, <2>4
    <3>2. CASE i < p
      BY <3>2, <2>1, <2>3, <2>4
    <3>3. CASE p < i
      <4>1. i - 1 \in 1 .. Len(s) /\ r[i] = s[i - 1] /\ p <= Len(s) /\ p \in 1 .. Len(s)
        BY <3>3, <2>3, <2>4
      <4>2. wakeup_time[s[p]] <= wakeup_time[s[i - 1]]
        <5>1. p = i - 1 \/ p < i - 1
          BY <3>3, <2>3, <2>4
        <5> QED BY <4>1, <5>1, <2>3, <2>5
      <4>3. timeout < wakeup_time[s[p]]
        BY <4>1, <2>1
      <4>4. wakeup_time[s[p]] \in Int /\ wakeup_time[s[i - 1]] \in Int
        BY <4>1, <2>3
      <4>5. timeout <= wakeup_time[s[i - 1]]
        BY <4>2, <4>3, <4>4, <2>3
      <4> QED BY <3>3, <4>1, <4>5
    <3>4. i < p \/ i = p \/ p < i
      BY <2>3, <2>4
    <3> QED BY <3>1, <3>2, <3>3, <3>4
  <2>8. ASSUME NEW u \in Threads PROVE Contains(r, u) <=> wakeup_time'[u] # NO_TIMEOUT
    <3>1. Contains(r, u) => Contains(s, u) \/ u = t
      BY <2>7 DEF Contains
    <3>2. ASSUME NEW k \in 1 .. Len(s), s[k] = u PROVE Contains(r, u)
      <4>1. CASE k < p
        <5>1. k \in 1 .. Len(s) + 1
          BY <2>3
        <5> QED BY <3>2, <4>1, <5>1, <2>4 DEF Contains
      <4>2. CASE ~ (k < p)
        <5>1. k + 1 \in 1 .. Len(s) + 1 /\ ~ (k + 1 < p) /\ k + 1 # p /\ (k + 1) - 1 = k
          BY <4>2, <2>1, <2>3
        <5>2. r[k + 1] = u
          BY <3>2, <5>1, <2>4
        <5> QED BY <5>1, <5>2, <2>4 DEF Contains
      <4> QED BY <4>1, <4>2
    <3>3. Contains(r, t)
      <4>1. p \in 1 .. Len(r) /\ r[p] = t
        BY <2>3, <2>4
      <4> QED BY <4>1 DEF Contains
    <3>4. Contains(s, u) <=> wakeup_time[u] # NO_TIMEOUT
      BY DEF TimeoutListInvariant
    <3> QED BY <1>2, <3>1, <3>2, <3>3, <3>4, <2>2 DEF Contains
  <2>9. ASSUME NEW u \in Threads, wakeup_time'[u] # NO_TIMEOUT PROVE state'[u] = "STOPPED"
    BY <1>2, <2>2, <2>9 DEF TimeoutListInvariant
  <2>10. ASSUME NEW i \in 1 .. Len(r), NEW j \in 1 .. Len(r), i < j
         PROVE  r[i] # r[j] /\ wakeup_time'[r[i]] <= wakeup_time'[r[j]]
    <3>0. i \in Int /\ j \in Int /\ p \in Int
      BY <2>3, <2>4
    <3>1. CASE i = p
      <4>1. p < j /\ j - 1 \in 1 .. Len(s) /\ r[j] = s[j - 1] /\ timeout <= wakeup_time[s[j - 1]]
        BY <3>0, <3>1, <2>7, <2>10
      <4>2. r[i] = t
        BY <3>0, <3>1, <2>7
      <4>3. wakeup_time'[s[j - 1]] = wakeup_time[s[j - 1]] /\ s[j - 1] # t
        BY <4>1, <2>2, <2>3, <2>6
      <4> QED BY <4>1, <4>2, <4>3, <2>2
    <3>2. CASE j = p
      <4>1. i < p /\ i \in 1 .. Len(s) /\ r[i] = s[i] /\ wakeup_time[s[i]] <= timeout
        BY <3>0, <3>2, <2>7, <2>10
      <4>2. r[j] = t
        BY <3>0, <3>2, <2>7
      <4>3. wakeup_time'[s[i]] = wakeup_time[s[i]] /\ s[i] # t
        BY <4>1, <2>2, <2>3, <2>6
      <4> QED BY <4>1, <4>2, <4>3, <2>2
    <3>3. CASE i # p /\ j # p
      <4> DEFINE k == IF i < p THEN i ELSE i - 1
                 m == IF j < p THEN j ELSE j - 1
      <4>1. k \in 1 .. Len(s) /\ r[i] = s[k]
        BY <3>0, <3>3, <2>7
      <4>2. m \in 1 .. Len(s) /\ r[j] = s[m]
        BY <3>0, <3>3, <2>7
      <4>3. k < m
        BY <3>0, <3>3, <2>10
      <4> HIDE DEF k, m
      <4>4. s[k] # s[m] /\ wakeup_time[s[k]] <= wakeup_time[s[m]]
        BY <4>1, <4>2, <4>3, <2>5
      <4>5. wakeup_time'[s[k]] = wakeup_time[s[k]] /\ wakeup_time'[s[m]] = wakeup_time[s[m]]
        BY <4>1, <4>2, <2>2, <2>3, <2>6
      <4> QED BY <4>1, <4>2, <4>4, <4>5
    <3> QED BY <3>1, <3>2, <3>3
  <2> QED BY <2>8, <2>9, <2>10 DEF TimeoutListInvariant, r
<1> QED BY <1>1, <1>2

-----------------------------------------------------------------------------
(* Every action preserves the inductive invariant.                         *)

(* Steps that change no part of the state the invariant speaks of.         *)
LEMMA FrameStep ==
  ASSUME IInv, TypeOK',
         UNCHANGED <<state, phase, priority_level, wakeup_time, SCHED, TIMEOUT_LIST,
                     sched_spinlock, pc, current_thread, previous_thread>>
  PROVE  IInv'
<1>1. CoreInv' /\ PhaseInv'
  BY DEF IInv, CoreInv, CoreOK, PhaseInv, Owner
<1>2. StackExclusive'
  BY DEF IInv, StackExclusive, OnStack
<1>3. QueueInvariant'
  BY DEF IInv, QueueInvariant, Chosen, Queued, InLevel, Contains
<1>4. QueuedOnce' /\ TimeoutListInvariant'
  BY DEF IInv, QueuedOnce, TimeoutListInvariant, Queued, InLevel, Contains, NoDuplicates, Labelled
<1> QED BY <1>1, <1>2, <1>3, <1>4 DEF IInv

(* Steps in which a core only moves on: the call of yield(), and the idle  *)
(* thread on its way to halting or leaving.                                *)
LEMMA CoreStep ==
  ASSUME IInv, TypeOK', NEW c \in Cores, NEW dst,
         UNCHANGED <<state, phase, priority_level, wakeup_time, SCHED, TIMEOUT_LIST,
                     sched_spinlock, current_thread, previous_thread>>,
         pc' = [pc EXCEPT ![c] = dst],
         \/ pc[c] \in {"run", "halted"} /\ dst = "yield"
         \/ pc[c] = "run" /\ current_thread[c] = c /\ dst \in {"halting", "exited"}
         \/ pc[c] = "halting" /\ dst = "halted"
  PROVE  IInv'
<1>1. \A d \in Cores : d # c => pc'[d] = pc[d]
  BY DEF IInv, TypeOK
<1>2. pc[c] # "switch" /\ pc[c] # "scan" /\ pc'[c] # "switch" /\ pc'[c] # "scan"
      /\ pc'[c] = dst
  BY DEF IInv, TypeOK
<1>3. \A d \in Cores : (pc'[d] = "switch") <=> (pc[d] = "switch")
  BY <1>1, <1>2
<1>4. \A d \in Cores : Owner(d)' = Owner(d)
  BY <1>3 DEF Owner
<1>5. CoreInv'
  <2> SUFFICES ASSUME NEW d \in Cores PROVE CoreOK(d)'
    BY DEF CoreInv
  <2>1. CASE d = c
    BY <2>1, <1>2, <1>4 DEF IInv, CoreInv, CoreOK
  <2>2. CASE d # c
    BY <2>2, <1>1, <1>4 DEF IInv, CoreInv, CoreOK
  <2> QED BY <2>1, <2>2
<1>6. PhaseInv'
  BY <1>4 DEF IInv, PhaseInv
<1>7. StackExclusive'
  BY <1>3 DEF IInv, StackExclusive, OnStack
<1>8. QueueInvariant'
  BY <1>3 DEF IInv, QueueInvariant, Chosen, Queued, InLevel, Contains
<1>9. QueuedOnce' /\ TimeoutListInvariant'
  BY DEF IInv, QueuedOnce, TimeoutListInvariant, Queued, InLevel, Contains, NoDuplicates, Labelled
<1> QED BY <1>5, <1>6, <1>7, <1>8, <1>9 DEF IInv

(* A wakeup, by a thread, a handler or an expired timeout.                 *)
LEMMA MakeReadyStep ==
  ASSUME IInv, TypeOK', NEW t \in Threads, state[t] \in {"STOPPED", "INIT"}, sched_make_ready(t),
         UNCHANGED <<phase, sched_spinlock, pc, current_thread, previous_thread>>
  PROVE  IInv'
<1>1. /\ state'[t] = "READY"
      /\ \A u \in TCBs : u # t => state'[u] = state[u]
  BY DEF sched_make_ready, IInv, TypeOK, TCBs
<1>2. \A d \in Cores : Owner(d)' = Owner(d)
  BY DEF Owner
<1>3. ~ Queued(SCHED, t) /\ ~ Chosen(t)
  BY DEF IInv, QueueInvariant, CoreInv, CoreOK, Chosen
<1>4. TimeoutListInvariant' /\ wakeup_time'[t] = NO_TIMEOUT
  BY <1>1, CancelTimeoutEffect DEF IInv, sched_make_ready, TCBs
<1>5. \A u \in Threads : Chosen(u)' <=> Chosen(u)
  BY DEF Chosen
<1>6. /\ NoDuplicates(SCHED') /\ Labelled(SCHED', priority_level')
      /\ \A u \in Threads :
           Queued(SCHED', u) <=> Queued(SCHED, u) \/ (u = t /\ phase[t] = "CLEAN")
  <2>1. CASE phase[t] = "CLEAN"
    BY <1>3, <2>1, QueueAddEffect DEF sched_make_ready, IInv, QueuedOnce
  <2>2. CASE phase[t] # "CLEAN"
    BY <2>2 DEF sched_make_ready, NoQueueAdd, IInv, QueuedOnce
  <2> QED BY <2>1, <2>2
<1>7. QueueInvariant'
  <2> SUFFICES ASSUME NEW u \in Threads
               PROVE  Queued(SCHED', u) <=> state'[u] = "READY" /\ phase'[u] = "CLEAN" /\ ~ Chosen(u)'
    BY DEF QueueInvariant
  <2>1. CASE u = t
    BY <2>1, <1>1, <1>3, <1>5, <1>6
  <2>2. CASE u # t
    BY <2>2, <1>1, <1>5, <1>6 DEF IInv, QueueInvariant, TCBs
  <2> QED BY <2>1, <2>2
<1>8. QueuedOnce'
  <2>1. ASSUME NEW u \in Threads, Queued(SCHED', u) PROVE ~ Contains(TIMEOUT_LIST', u)
    BY <1>4, <1>7, <2>1 DEF QueueInvariant, TimeoutListInvariant
  <2> QED BY <1>6, <2>1 DEF QueuedOnce
<1>9. CoreInv'
  <2>1. t \notin Cores
    BY SchedulerAssumption
  <2>2. \A d \in Cores : current_thread[d] \in TCBs /\ d \in TCBs
                          /\ (pc[d] = "switch" => Owner(d) \in TCBs)
    BY DEF IInv, TypeOK, CoreInv, CoreOK, Owner, TCBs
  <2> SUFFICES ASSUME NEW d \in Cores
               PROVE  /\ pc[d] \in {"run", "halting", "halted", "exited"}
                           => state'[current_thread[d]] = "RUNNING"
                      /\ pc[d] = "yield"
                           => state'[current_thread[d]] \in {"RUNNING", "READY", "STOPPED", "EXITED"}
                      /\ pc[d] \in {"scan", "switch"}
                           => state'[Owner(d)] \in {"READY", "STOPPED", "EXITED"}
                      /\ pc[d] = "switch" => state'[current_thread[d]] = "READY"
                      /\ state'[d] \in {"RUNNING", "READY"}
                      /\ Owner(d) # d => state'[d] = "READY"
    BY <1>2 DEF IInv, CoreInv, CoreOK
  <2>3. state'[d] = state[d]
    BY <1>1, <2>1, <2>2
  <2>4. current_thread[d] = t \/ state'[current_thread[d]] = state[current_thread[d]]
    BY <1>1, <2>2
  <2>5. pc[d] \in {"scan", "switch"} => Owner(d) = t \/ state'[Owner(d)] = state[Owner(d)]
    BY <1>1, <2>2 DEF Owner
  <2> QED BY <1>1, <2>3, <2>4, <2>5 DEF IInv, CoreInv, CoreOK
<1>10. PhaseInv' /\ StackExclusive'
  BY <1>2 DEF IInv, PhaseInv, StackExclusive, OnStack
<1> QED BY <1>4, <1>7, <1>8, <1>9, <1>10 DEF IInv

(* spawn_thread: a TCB that is not allocated is on no list and no stack.   *)
LEMMA SpawnStep ==
  ASSUME IInv, TypeOK', NEW c \in Cores, NEW t \in Threads, SpawnThread(c, t)
  PROVE  IInv'
<1> USE DEF SpawnThread, queueVars, coreVars
<1>1. /\ state[t] = "NONE" /\ state'[t] = "INIT"
      /\ \A u \in TCBs : u # t => state'[u] = state[u]
  BY DEF IInv, TypeOK, TCBs
<1>2. \A d \in Cores : Owner(d)' = Owner(d)
  BY DEF Owner
<1>3. \A d \in Cores : /\ current_thread[d] # t /\ d # t /\ Owner(d) # t
                        /\ current_thread[d] \in TCBs /\ Owner(d) \in TCBs /\ d \in TCBs
  <2> TAKE d \in Cores
  <2>1. d # t /\ current_thread[d] \in TCBs /\ Owner(d) \in TCBs /\ d \in TCBs
    BY SchedulerAssumption DEF IInv, TypeOK, CoreInv, CoreOK, Owner, TCBs
  <2>2. state[current_thread[d]] # "NONE"
    <3>1. pc[d] \in {"run", "halting", "halted", "exited"} \/ pc[d] = "yield"
            \/ pc[d] = "scan" \/ pc[d] = "switch"
      BY DEF IInv, TypeOK, CoreStates
    <3> QED BY <3>1 DEF IInv, CoreInv, CoreOK, Owner
  <2>3. state[Owner(d)] # "NONE"
    BY <2>2 DEF IInv, CoreInv, CoreOK, Owner
  <2> QED BY <1>1, <2>1, <2>2, <2>3
<1>4. \A d \in Cores : /\ state'[current_thread[d]] = state[current_thread[d]]
                        /\ state'[Owner(d)] = state[Owner(d)]
                        /\ state'[d] = state[d]
  BY <1>1, <1>3
<1>5. CoreInv'
  BY <1>2, <1>4 DEF IInv, CoreInv, CoreOK
<1>6. PhaseInv'
  <2>1. phase[t] = "CLEAN"
    BY <1>3 DEF IInv, PhaseInv, TypeOK, TCBs
  <2>2. phase' = phase
    BY <2>1 DEF IInv, TypeOK, TCBs
  <2> QED BY <1>2, <2>2 DEF IInv, PhaseInv
<1>7. StackExclusive'
  BY DEF IInv, StackExclusive, OnStack
<1>8. \A u \in Threads : (Queued(SCHED, u)' <=> Queued(SCHED, u)) /\ (Chosen(u)' <=> Chosen(u))
  BY DEF Queued, InLevel, Contains, Chosen
<1>9. ~ Queued(SCHED, t)
  BY <1>1 DEF IInv, QueueInvariant
<1>10. QueueInvariant'
  <2> SUFFICES ASSUME NEW u \in Threads
               PROVE  Queued(SCHED, u)' <=> state'[u] = "READY" /\ phase'[u] = "CLEAN" /\ ~ Chosen(u)'
    BY DEF QueueInvariant
  <2>1. CASE u = t
    BY <2>1, <1>1, <1>8, <1>9
  <2>2. CASE u # t
    <3>1. phase'[u] = phase[u] /\ state'[u] = state[u]
      BY <2>2, <1>1 DEF IInv, TypeOK, TCBs
    <3> QED BY <3>1, <1>8 DEF IInv, QueueInvariant
  <2> QED BY <2>1, <2>2
<1>11. Labelled(SCHED, priority_level)'
  <2> SUFFICES ASSUME NEW l \in Levels, NEW i \in 1 .. Len(SCHED[l])
               PROVE  priority_level'[SCHED[l][i]] = l
    BY DEF Labelled
  <2>1. SCHED[l][i] # t /\ SCHED[l][i] \in Threads
    BY <1>9 DEF Queued, InLevel, Contains, IInv, TypeOK
  <2> QED BY <2>1 DEF IInv, TypeOK, QueuedOnce, Labelled
<1>12. QueuedOnce'
  BY <1>8, <1>11 DEF IInv, QueuedOnce, NoDuplicates, Contains
<1>13. wakeup_time' = wakeup_time
  <2>1. wakeup_time[t] = NO_TIMEOUT
    BY <1>1 DEF IInv, TimeoutListInvariant
  <2> QED BY <2>1 DEF IInv, TypeOK
<1>14. TimeoutListInvariant'
  <2>1. \A u \in Threads : wakeup_time[u] # NO_TIMEOUT => state'[u] = "STOPPED"
    BY <1>1 DEF IInv, TimeoutListInvariant, TCBs
  <2> QED BY <1>13, <2>1 DEF IInv, TimeoutListInvariant, Contains
<1> QED BY <1>5, <1>6, <1>7, <1>10, <1>12, <1>14 DEF IInv

(* A thread that goes to sleep or exits is off every list, and stays DIRTY.*)
LEMMA SleepStep ==
  ASSUME IInv, TypeOK', NEW c \in Cores, NEW newstate \in {"STOPPED", "EXITED"}, NEW cause,
         NEW timeout \in Timeouts \cup {NO_TIMEOUT}, SleepReleasing(c, newstate, cause, timeout)
  PROVE  IInv'
<1> DEFINE t == current_thread[c]
<1> USE DEF SleepReleasing, EnterYield
<1>1. /\ t \in Threads /\ pc[c] = "run" /\ state[t] = "RUNNING" /\ phase[t] = "DIRTY"
      /\ state'[t] = newstate
      /\ \A u \in TCBs : u # t => state'[u] = state[u]
  BY DEF IInv, TypeOK, CoreInv, CoreOK, PhaseInv, Owner, Running, TCBs
<1>2. /\ pc'[c] = "yield"
      /\ \A d \in Cores : d # c => pc'[d] = pc[d]
  BY DEF IInv, TypeOK
<1>3. \A d \in Cores : (pc'[d] = "switch") <=> (pc[d] = "switch")
  BY <1>1, <1>2
<1>4. \A d \in Cores : Owner(d)' = Owner(d)
  BY <1>3 DEF Owner
<1>5. ASSUME NEW d \in Cores, d # c
      PROVE  /\ state'[current_thread[d]] = state[current_thread[d]]
             /\ state'[Owner(d)] = state[Owner(d)]
             /\ state'[d] = state[d]
  <2>1. current_thread[d] # t /\ Owner(d) # t
    BY <1>5 DEF IInv, StackExclusive, OnStack, Owner
  <2>2. current_thread[d] \in TCBs /\ Owner(d) \in TCBs /\ d \in TCBs /\ d # t
    BY <1>1, SchedulerAssumption DEF IInv, TypeOK, CoreInv, CoreOK, Owner, TCBs
  <2> QED BY <1>1, <2>1, <2>2
<1>6. state'[c] = state[c]
  BY <1>1, SchedulerAssumption DEF TCBs
<1>7. CoreInv'
  <2> SUFFICES ASSUME NEW d \in Cores PROVE CoreOK(d)'
    BY DEF CoreInv
  <2>1. CASE d = c
    BY <2>1, <1>1, <1>2, <1>4, <1>6 DEF IInv, CoreInv, CoreOK
  <2>2. CASE d # c
    BY <2>2, <1>2, <1>4, <1>5 DEF IInv, CoreInv, CoreOK
  <2> QED BY <2>1, <2>2
<1>8. PhaseInv'
  BY <1>4 DEF IInv, PhaseInv
<1>9. StackExclusive'
  BY <1>3 DEF IInv, StackExclusive, OnStack
<1>10. \A u \in Threads : (Queued(SCHED, u)' <=> Queued(SCHED, u)) /\ (Chosen(u)' <=> Chosen(u))
  BY <1>3 DEF Queued, InLevel, Contains, Chosen
<1>11. QueueInvariant'
  <2> SUFFICES ASSUME NEW u \in Threads
               PROVE  Queued(SCHED, u)' <=> state'[u] = "READY" /\ phase'[u] = "CLEAN" /\ ~ Chosen(u)'
    BY DEF QueueInvariant
  <2>1. CASE u = t
    BY <2>1, <1>1, <1>10 DEF IInv, QueueInvariant
  <2>2. CASE u # t
    BY <2>2, <1>1, <1>10 DEF IInv, QueueInvariant, TCBs
  <2> QED BY <2>1, <2>2
<1>12. TimeoutListInvariant'
  <2>1. wakeup_time[t] = NO_TIMEOUT
    BY <1>1 DEF IInv, TimeoutListInvariant
  <2>2. \A u \in Threads : u # t => state'[u] = state[u]
    BY <1>1 DEF TCBs
  <2> DEFINE tm == IF newstate = "EXITED" THEN NO_TIMEOUT ELSE timeout
  <2>3. /\ tm \in Timeouts \cup {NO_TIMEOUT} /\ sched_register_timeout(t, tm)
        /\ tm # NO_TIMEOUT => state'[t] = "STOPPED"
    BY <1>1
  <2> HIDE DEF tm
  <2> QED BY <1>1, <2>1, <2>2, <2>3, RegisterTimeoutEffect DEF IInv
<1>13. QueuedOnce'
  <2>1. ASSUME NEW u \in Threads, Queued(SCHED, u)' PROVE ~ Contains(TIMEOUT_LIST', u)
    BY <1>11, <1>12, <2>1 DEF QueueInvariant, TimeoutListInvariant
  <2> QED BY <2>1 DEF IInv, QueuedOnce, NoDuplicates, Labelled
<1> QED BY <1>7, <1>8, <1>9, <1>11, <1>12, <1>13 DEF IInv

(* yield() takes the spinlock and gives up RUNNING.                        *)
LEMMA YieldLockStep ==
  ASSUME IInv, TypeOK', NEW c \in Cores, YieldLock(c)
  PROVE  IInv'
<1> DEFINE t == current_thread[c]
<1> USE DEF YieldLock, LeaveRunning, queueVars
<1>1. /\ t \in TCBs /\ pc[c] = "yield" /\ phase[t] = "DIRTY"
      /\ state[t] \in {"RUNNING", "READY", "STOPPED", "EXITED"}
      /\ state'[t] = IF state[t] = "RUNNING" THEN "READY" ELSE state[t]
      /\ \A u \in TCBs : u # t => state'[u] = state[u]
  BY DEF IInv, TypeOK, CoreInv, CoreOK, PhaseInv, Owner, TCBs
<1>2. /\ pc'[c] = "scan"
      /\ \A d \in Cores : d # c => pc'[d] = pc[d]
  BY DEF IInv, TypeOK
<1>3. \A d \in Cores : (pc'[d] = "switch") <=> (pc[d] = "switch")
  BY <1>1, <1>2
<1>4. \A d \in Cores : Owner(d)' = Owner(d)
  BY <1>3 DEF Owner
<1>5. ASSUME NEW d \in Cores, d # c
      PROVE  /\ state'[current_thread[d]] = state[current_thread[d]]
             /\ state'[Owner(d)] = state[Owner(d)]
             /\ state'[d] = state[d]
  <2>1. current_thread[d] # t /\ Owner(d) # t
    BY <1>5 DEF IInv, StackExclusive, OnStack, Owner
  <2>2. current_thread[d] \in TCBs /\ Owner(d) \in TCBs /\ d \in TCBs /\ d # t
    BY <1>1, <1>5, SchedulerAssumption DEF IInv, TypeOK, CoreInv, CoreOK, Owner, TCBs
  <2> QED BY <1>1, <2>1, <2>2
<1>6. c \in TCBs /\ Owner(c) = t /\ state'[c] \in {"RUNNING", "READY"} /\ (t # c => state'[c] = "READY")
  BY <1>1 DEF IInv, CoreInv, CoreOK, Owner, TCBs
<1>7. \A d \in Cores : pc[d] # "scan"
  BY SchedulerAssumption DEF IInv, CoreInv, CoreOK
<1>8. CoreInv'
  <2> SUFFICES ASSUME NEW d \in Cores PROVE CoreOK(d)'
    BY DEF CoreInv
  <2>1. CASE d = c
    BY <2>1, <1>1, <1>2, <1>4, <1>6 DEF IInv, CoreInv, CoreOK
  <2>2. CASE d # c
    BY <2>2, <1>2, <1>4, <1>5, <1>7 DEF IInv, CoreInv, CoreOK
  <2> QED BY <2>1, <2>2
<1>9. PhaseInv'
  BY <1>4 DEF IInv, PhaseInv
<1>10. StackExclusive'
  BY <1>3 DEF IInv, StackExclusive, OnStack
<1>11. \A u \in Threads : (Queued(SCHED, u)' <=> Queued(SCHED, u)) /\ (Chosen(u)' <=> Chosen(u))
  BY <1>3 DEF Queued, InLevel, Contains, Chosen
<1>12. QueueInvariant'
  <2> SUFFICES ASSUME NEW u \in Threads
               PROVE  Queued(SCHED, u)' <=> state'[u] = "READY" /\ phase'[u] = "CLEAN" /\ ~ Chosen(u)'
    BY DEF QueueInvariant
  <2>1. CASE u = t
    BY <2>1, <1>1, <1>11 DEF IInv, QueueInvariant
  <2>2. CASE u # t
    BY <2>2, <1>1, <1>11 DEF IInv, QueueInvariant, TCBs
  <2> QED BY <2>1, <2>2
<1>13. QueuedOnce'
  BY <1>11 DEF IInv, QueuedOnce, NoDuplicates, Labelled, Contains
<1>14. TimeoutListInvariant'
  <2>1. \A u \in Threads : wakeup_time[u] # NO_TIMEOUT => state'[u] = "STOPPED"
    BY <1>1 DEF IInv, TimeoutListInvariant, TCBs
  <2> QED BY <2>1 DEF IInv, TimeoutListInvariant, Contains
<1> QED BY <1>8, <1>9, <1>10, <1>12, <1>13, <1>14 DEF IInv

(* The clock: order and membership survive a tick.                         *)
LEMMA TickStep ==
  ASSUME IInv, TypeOK', Tick
  PROVE  IInv'
<1> USE DEF Tick, queueVars, coreVars
<1>1. CoreInv' /\ PhaseInv'
  BY DEF IInv, CoreInv, CoreOK, PhaseInv, Owner
<1>2. StackExclusive'
  BY DEF IInv, StackExclusive, OnStack
<1>3. QueueInvariant'
  BY DEF IInv, QueueInvariant, Chosen, Queued, InLevel, Contains
<1>4. QueuedOnce'
  BY DEF IInv, QueuedOnce, Queued, InLevel, Contains, NoDuplicates, Labelled
<1>5. \A u \in Threads :
        /\ wakeup_time[u] \in Nat \cup {NO_TIMEOUT}
        /\ wakeup_time'[u] = IF wakeup_time[u] > 0 THEN wakeup_time[u] - 1 ELSE wakeup_time[u]
  BY DEF IInv, TypeOK
<1>6. \A u \in Threads : wakeup_time'[u] # NO_TIMEOUT <=> wakeup_time[u] # NO_TIMEOUT
  BY <1>5 DEF NO_TIMEOUT
<1>7. \A u, v \in Threads : wakeup_time[u] <= wakeup_time[v] => wakeup_time'[u] <= wakeup_time'[v]
  BY <1>5 DEF NO_TIMEOUT
<1>8. \A i \in 1 .. Len(TIMEOUT_LIST) : TIMEOUT_LIST[i] \in Threads
  BY DEF IInv, TypeOK
<1>9. TimeoutListInvariant'
  <2>1. \A i, j \in 1 .. Len(TIMEOUT_LIST) :
          i < j => wakeup_time'[TIMEOUT_LIST[i]] <= wakeup_time'[TIMEOUT_LIST[j]]
    BY <1>7, <1>8 DEF IInv, TimeoutListInvariant
  <2> QED BY <1>6, <2>1 DEF IInv, TimeoutListInvariant, Contains
<1> QED BY <1>1, <1>2, <1>3, <1>4, <1>9 DEF IInv

(* yield() selects the next thread and releases the spinlock; the core is  *)
(* still on the stack of the thread that called it.                        *)
LEMMA YieldSelectStep ==
  ASSUME IInv, TypeOK', NEW c \in Cores, YieldSelect(c)
  PROVE  IInv'
<1> DEFINE cur == current_thread[c]
<1> USE DEF YieldSelect, tcbVars
<1>1. PICK next \in TCBs :
        /\ sched_queue_select(c, next)
        /\ current_thread' = [current_thread EXCEPT ![c] = next]
  OBVIOUS
<1>2. /\ pc[c] = "scan" /\ pc'[c] = "switch"
      /\ current_thread'[c] = next /\ previous_thread'[c] = cur
      /\ \A d \in Cores : d # c => /\ pc'[d] = pc[d]
                                    /\ current_thread'[d] = current_thread[d]
                                    /\ previous_thread'[d] = previous_thread[d]
  BY <1>1 DEF IInv, TypeOK
<1>3. \A d \in Cores : Owner(d)' = Owner(d)
  BY <1>2 DEF Owner
<1>4. /\ Owner(c) = cur /\ cur \in Threads \cup {c}
      /\ state[cur] \in {"READY", "STOPPED", "EXITED"}
      /\ (cur = c => state[cur] = "READY") /\ (cur # c => state[c] = "READY")
  BY <1>2 DEF IInv, CoreInv, CoreOK, Owner
<1>5. \/ /\ next \in Threads /\ Queued(SCHED, next)
         /\ NoDuplicates(SCHED') /\ Labelled(SCHED', priority_level)
         /\ \A u \in Threads : Queued(SCHED', u) <=> Queued(SCHED, u) /\ u # next
      \/ /\ next = cur \/ next = c
         /\ state[next] = "READY"
         /\ SCHED' = SCHED
  <2>1. ASSUME NEW l \in Levels, SCHED[l] # << >>, next = Head(SCHED[l]),
               SCHED' = [SCHED EXCEPT ![l] = Tail(@)]
        PROVE  /\ next \in Threads /\ Queued(SCHED, next)
               /\ NoDuplicates(SCHED') /\ Labelled(SCHED', priority_level)
               /\ \A u \in Threads : Queued(SCHED', u) <=> Queued(SCHED, u) /\ u # next
    BY <2>1, SelectEffect DEF IInv, QueuedOnce
  <2>2. ASSUME next = IF state[cur] = "READY" THEN cur ELSE c
        PROVE  (next = cur \/ next = c) /\ state[next] = "READY"
    BY <2>2, <1>4
  <2> QED BY <1>1, <2>1, <2>2 DEF sched_queue_select
(* the selected thread is on no other core's stack *)
<1>6. \/ next = cur
      \/ next = c /\ cur # c
      \/ /\ next \in Threads /\ state[next] = "READY" /\ next # cur
         /\ \A d \in Cores : next \notin OnStack(d)
  <2>1. CASE next \in Threads /\ Queued(SCHED, next)
    <3>1. state[next] = "READY" /\ phase[next] = "CLEAN" /\ ~ Chosen(next)
      BY <2>1 DEF IInv, QueueInvariant
    <3>2. \A d \in Cores : Owner(d) # next
      BY <2>1, <3>1 DEF IInv, PhaseInv
    <3>3. \A d \in Cores : next \notin OnStack(d)
      BY <3>1, <3>2 DEF Chosen, OnStack, Owner
    <3> QED BY <2>1, <3>1, <3>2, <3>3, <1>4
  <2> QED BY <2>1, <1>5
<1>7. next \in Threads \cup {c} /\ state[next] = "READY"
  BY <1>4, <1>5 DEF IInv, QueueInvariant
<1>8. CoreInv'
  <2> SUFFICES ASSUME NEW d \in Cores PROVE CoreOK(d)'
    BY DEF CoreInv
  <2>1. CASE d = c
    <3>1. sched_spinlock' # d
      BY SchedulerAssumption
    <3> QED BY <2>1, <3>1, <1>2, <1>3, <1>4, <1>7 DEF IInv, CoreInv, CoreOK
  <2>2. CASE d # c
    <3>1. sched_spinlock = c /\ sched_spinlock' # d
      BY <1>2, SchedulerAssumption DEF IInv, CoreInv, CoreOK
    <3> QED BY <2>2, <3>1, <1>2, <1>3 DEF IInv, CoreInv, CoreOK
  <2> QED BY <2>1, <2>2
<1>9. PhaseInv'
  BY <1>3 DEF IInv, PhaseInv
<1>10. StackExclusive'
  <2>1. OnStack(c)' = {next, cur} /\ OnStack(c) = {cur}
    BY <1>2 DEF OnStack
  <2>2. \A d \in Cores : d # c => OnStack(d)' = OnStack(d)
    BY <1>2 DEF OnStack
  <2>3. \A d \in Cores : d # c => next \notin OnStack(d) /\ cur \notin OnStack(d)
    <3> SUFFICES ASSUME NEW d \in Cores, d # c
                 PROVE  next \notin OnStack(d) /\ cur \notin OnStack(d)
      OBVIOUS
    <3>1. cur \notin OnStack(d)
      BY <2>1 DEF IInv, StackExclusive
    <3>2. c \notin OnStack(d)
      BY SchedulerAssumption DEF IInv, CoreInv, CoreOK, OnStack
    <3> QED BY <3>1, <3>2, <1>6
  <2> QED BY <2>1, <2>2, <2>3 DEF IInv, StackExclusive
<1>11. ASSUME NEW u \in Threads PROVE Chosen(u)' <=> Chosen(u) \/ (u = next /\ next # cur)
  <2>1. Chosen(u)' => Chosen(u) \/ (u = next /\ next # cur)
    BY <1>2 DEF Chosen
  <2>2. Chosen(u) => Chosen(u)'
    BY <1>2 DEF Chosen
  <2>3. u = next /\ next # cur => Chosen(u)'
    BY <1>2 DEF Chosen
  <2> QED BY <2>1, <2>2, <2>3
<1>12. QueueInvariant'
  <2> SUFFICES ASSUME NEW u \in Threads
               PROVE  Queued(SCHED', u) <=> state'[u] = "READY" /\ phase'[u] = "CLEAN" /\ ~ Chosen(u)'
    BY DEF QueueInvariant
  <2>1. CASE /\ next \in Threads /\ Queued(SCHED, next)
             /\ \A v \in Threads : Queued(SCHED', v) <=> Queued(SCHED, v) /\ v # next
    <3>1. next # cur
      BY <2>1, <1>4 DEF IInv, QueueInvariant, PhaseInv
    <3> QED BY <2>1, <3>1, <1>11 DEF IInv, QueueInvariant
  <2>2. CASE (next = cur \/ next = c) /\ SCHED' = SCHED
    <3>1. Chosen(u)' <=> Chosen(u)
      BY <2>2, <1>11, SchedulerAssumption
    <3>2. Queued(SCHED', u) <=> Queued(SCHED, u)
      BY <2>2
    <3> QED BY <3>1, <3>2 DEF IInv, QueueInvariant
  <2> QED BY <2>1, <2>2, <1>5
<1>13. QueuedOnce'
  <2>1. NoDuplicates(SCHED)' /\ Labelled(SCHED, priority_level)'
    BY <1>5 DEF IInv, QueuedOnce
  <2>2. \A u \in Threads : Queued(SCHED', u) => Queued(SCHED, u)
    BY <1>5
  <2> QED BY <2>1, <2>2 DEF IInv, QueuedOnce
<1>14. TimeoutListInvariant'
  BY DEF IInv, TimeoutListInvariant, Contains
<1> QED BY <1>8, <1>9, <1>10, <1>12, <1>13, <1>14 DEF IInv

(* gain() leaves the stack of the previous thread and settles its fate.    *)
LEMMA GainStep ==
  ASSUME IInv, TypeOK', NEW c \in Cores, Gain(c)
  PROVE  IInv'
<1> DEFINE cur == current_thread[c]
           prev == previous_thread[c]
<1>1. /\ pc[c] = "switch" /\ pc'[c] = "run"
      /\ \A d \in Cores : d # c => pc'[d] = pc[d]
      /\ current_thread' = current_thread /\ previous_thread' = previous_thread
      /\ sched_spinlock' = sched_spinlock /\ sched_spinlock = NULL
      /\ wakeup_time' = wakeup_time /\ TIMEOUT_LIST' = TIMEOUT_LIST
  BY DEF Gain, IInv, TypeOK
<1>2. /\ Owner(c) = prev /\ Owner(c)' = cur
      /\ \A d \in Cores : d # c => Owner(d)' = Owner(d) /\ OnStack(d)' = OnStack(d)
      /\ OnStack(c) = {cur, prev} /\ OnStack(c)' = {cur}
  BY <1>1 DEF Owner, OnStack
<1>3. /\ cur \in Threads \cup {c} /\ prev \in Threads \cup {c} /\ cur \in TCBs /\ prev \in TCBs
      /\ state[cur] = "READY" /\ state[prev] \in {"READY", "STOPPED", "EXITED"}
      /\ phase[prev] = "DIRTY"
      /\ state[c] = "READY"
  <2>1. /\ cur \in Threads \cup {c} /\ prev \in Threads \cup {c} /\ cur \in TCBs /\ prev \in TCBs
        /\ state[cur] = "READY" /\ state[prev] \in {"READY", "STOPPED", "EXITED"}
    BY <1>1, <1>2 DEF IInv, CoreInv, CoreOK, TCBs
  <2>2. phase[prev] = "DIRTY"
    BY <2>1, <1>2 DEF IInv, PhaseInv
  <2>3. state[c] = "READY"
    BY <2>1, <1>2 DEF IInv, CoreInv, CoreOK
  <2> QED BY <2>1, <2>2, <2>3
<1>4. ASSUME NEW d \in Cores, d # c
      PROVE  /\ cur \notin OnStack(d) /\ prev \notin OnStack(d)
             /\ current_thread[d] \in OnStack(d) /\ Owner(d) \in OnStack(d)
             /\ current_thread[d] \in TCBs /\ Owner(d) \in TCBs /\ d \in TCBs
             /\ cur # d /\ prev # d
  <2>1. cur \notin OnStack(d) /\ prev \notin OnStack(d)
    BY <1>2, <1>4 DEF IInv, StackExclusive
  <2>2. current_thread[d] \in OnStack(d) /\ Owner(d) \in OnStack(d)
    BY DEF OnStack, Owner
  <2>3. current_thread[d] \in TCBs /\ Owner(d) \in TCBs /\ d \in TCBs
    BY DEF IInv, CoreInv, CoreOK, Owner, TCBs
  <2>4. cur # d /\ prev # d
    BY <1>3, <1>4, SchedulerAssumption
  <2> QED BY <2>1, <2>2, <2>3, <2>4
<1>5. /\ state'[cur] = "RUNNING"
      /\ \A u \in TCBs : u # cur /\ u # prev => state'[u] = state[u] /\ phase'[u] = phase[u]
      /\ phase'[cur] = "DIRTY"
      /\ prev # cur => /\ phase'[prev] = "CLEAN"
                        /\ state'[prev] = IF state[prev] = "EXITED" THEN "NONE" ELSE state[prev]
  BY <1>3 DEF Gain, IInv, TypeOK
<1>6. \/ /\ cur # prev /\ prev \in Threads /\ state[prev] = "READY"
         /\ sched_queue_add(prev)
      \/ /\ SCHED' = SCHED /\ priority_level' = priority_level
         /\ cur = prev \/ prev \notin Threads \/ state[prev] # "READY"
  BY SchedulerAssumption DEF Gain, NoQueueAdd
<1>7. \A d \in Cores : d # c => /\ state'[current_thread[d]] = state[current_thread[d]]
                                /\ state'[Owner(d)] = state[Owner(d)]
                                /\ state'[d] = state[d]
  BY <1>4, <1>5
<1>8. CoreInv'
  <2> SUFFICES ASSUME NEW d \in Cores PROVE CoreOK(d)'
    BY DEF CoreInv
  <2>1. CASE d = c
    <3>1. sched_spinlock' # d
      BY <1>1, SchedulerAssumption
    <3>2. state'[c] \in {"RUNNING", "READY"} /\ (cur # c => state'[c] = "READY")
      BY <1>3, <1>5 DEF TCBs
    <3> QED BY <2>1, <3>1, <3>2, <1>1, <1>2, <1>3, <1>5 DEF CoreOK
  <2>2. CASE d # c
    BY <2>2, <1>1, <1>2, <1>7 DEF IInv, CoreInv, CoreOK
  <2> QED BY <2>1, <2>2
<1>9. PhaseInv'
  <2>1. ASSUME NEW u \in Threads PROVE phase'[u] = "DIRTY" <=> \E d \in Cores : Owner(d)' = u
    <3>1. CASE u = cur
      BY <3>1, <1>2, <1>5
    <3>2. CASE u = prev /\ u # cur
      <4>1. \A d \in Cores : Owner(d)' # u
        BY <3>2, <1>2, <1>4
      <4> QED BY <3>2, <4>1, <1>5
    <3>3. CASE u # prev /\ u # cur
      <4>1. phase'[u] = phase[u]
        BY <3>3, <1>5 DEF TCBs
      <4>2. \A d \in Cores : Owner(d)' = u <=> Owner(d) = u
        BY <3>3, <1>2
      <4> QED BY <4>1, <4>2 DEF IInv, PhaseInv
    <3> QED BY <3>1, <3>2, <3>3
  <2>2. ASSUME NEW d \in Cores PROVE phase'[d] = "DIRTY" <=> Owner(d)' = d
    <3>1. CASE d = c
      <4>1. CASE cur = c
        BY <3>1, <4>1, <1>2, <1>5
      <4>2. CASE cur # c /\ prev = c
        BY <3>1, <4>2, <1>2, <1>5
      <4>3. CASE cur # c /\ prev # c
        BY <3>1, <4>3, <1>2, <1>5 DEF IInv, PhaseInv, TCBs
      <4> QED BY <4>1, <4>2, <4>3
    <3>2. CASE d # c
      BY <3>2, <1>2, <1>4, <1>5 DEF IInv, PhaseInv
    <3> QED BY <3>1, <3>2
  <2> QED BY <2>1, <2>2 DEF PhaseInv
<1>10. StackExclusive'
  BY <1>2 DEF IInv, StackExclusive
<1>11. ASSUME NEW u \in Threads PROVE Chosen(u)' <=> Chosen(u) /\ u # cur
  <2>1. Chosen(u)' => Chosen(u) /\ u # cur
    <3>1. ASSUME NEW d \in Cores, pc'[d] = "switch", current_thread[d] = u, previous_thread[d] # u
          PROVE  Chosen(u) /\ u # cur
      <4>1. d # c
        BY <3>1, <1>1
      <4> QED BY <3>1, <4>1, <1>1, <1>4 DEF Chosen
    <3> QED BY <3>1, <1>1 DEF Chosen
  <2>2. Chosen(u) /\ u # cur => Chosen(u)'
    BY <1>1 DEF Chosen
  <2> QED BY <2>1, <2>2
<1>12. prev \in Threads => ~ Queued(SCHED, prev) /\ (cur # prev => ~ Chosen(prev))
  <2>1. prev \in Threads => ~ Queued(SCHED, prev)
    BY <1>3 DEF IInv, QueueInvariant
  <2>2. cur # prev => ~ Chosen(prev)
    BY <1>4 DEF Chosen
  <2> QED BY <2>1, <2>2
<1>13. cur \in Threads => ~ Queued(SCHED, cur)
  <2>1. CASE cur = prev
    BY <2>1, <1>12
  <2>2. CASE cur # prev
    BY <2>2, <1>1 DEF IInv, QueueInvariant, Chosen
  <2> QED BY <2>1, <2>2
<1>14. /\ NoDuplicates(SCHED') /\ Labelled(SCHED', priority_level')
       /\ \A u \in Threads :
            Queued(SCHED', u) <=> Queued(SCHED, u) \/ (u = prev /\ cur # prev /\ state[prev] = "READY")
  <2>1. CASE cur # prev /\ prev \in Threads /\ state[prev] = "READY" /\ sched_queue_add(prev)
    BY <2>1, <1>12, QueueAddEffect DEF IInv, QueuedOnce
  <2>2. CASE /\ SCHED' = SCHED /\ priority_level' = priority_level
             /\ cur = prev \/ prev \notin Threads \/ state[prev] # "READY"
    BY <2>2 DEF IInv, QueuedOnce
  <2> QED BY <1>6, <2>1, <2>2
<1>15. QueueInvariant'
  <2> SUFFICES ASSUME NEW u \in Threads
               PROVE  Queued(SCHED', u) <=> state'[u] = "READY" /\ phase'[u] = "CLEAN" /\ ~ Chosen(u)'
    BY DEF QueueInvariant
  <2>1. CASE u = cur
    BY <2>1, <1>5, <1>13, <1>14
  <2>2. CASE u = prev /\ u # cur
    BY <2>2, <1>5, <1>11, <1>12, <1>14
  <2>3. CASE u # cur /\ u # prev
    BY <2>3, <1>5, <1>11, <1>14 DEF IInv, QueueInvariant, TCBs
  <2> QED BY <2>1, <2>2, <2>3
<1>16. TimeoutListInvariant'
  <2>1. \A u \in Threads : wakeup_time[u] # NO_TIMEOUT => state'[u] = "STOPPED"
    BY <1>3, <1>5 DEF IInv, TimeoutListInvariant, TCBs
  <2> QED BY <1>1, <2>1 DEF IInv, TimeoutListInvariant, Contains
<1>17. QueuedOnce'
  <2>1. ASSUME NEW u \in Threads, Queued(SCHED', u) PROVE ~ Contains(TIMEOUT_LIST', u)
    BY <1>15, <1>16, <2>1 DEF QueueInvariant, TimeoutListInvariant
  <2> QED BY <1>14, <2>1 DEF QueuedOnce
<1> QED BY <1>8, <1>9, <1>10, <1>15, <1>16, <1>17 DEF IInv

(* The invariant holds at boot.                                            *)
LEMMA InvInit == Init => IInv
<1> SUFFICES ASSUME Init PROVE IInv
  OBVIOUS
<1>1. TypeOK
  BY TypeInit
<1>2. PICK t0 \in Threads :
        /\ state = [t \in TCBs |-> IF t = t0 THEN "READY"
                                   ELSE IF t \in Cores THEN "RUNNING" ELSE "NONE"]
        /\ SCHED = [l \in Levels |-> IF l = 1 THEN <<t0>> ELSE << >>]
  BY DEF Init
<1>3. /\ phase = [t \in TCBs |-> IF t \in Cores THEN "DIRTY" ELSE "CLEAN"]
      /\ priority_level = [t \in Threads |-> 1]
      /\ wakeup_time = [t \in Threads |-> NO_TIMEOUT]
      /\ TIMEOUT_LIST = << >>
      /\ sched_spinlock = NULL
      /\ \A c \in Cores : pc[c] = "yield" /\ current_thread[c] = c
  BY DEF Init
<1>4. \A c \in Cores : Owner(c) = c /\ OnStack(c) = {c} /\ c \notin Threads /\ c \in TCBs
  BY <1>3, SchedulerAssumption DEF Owner, OnStack, TCBs
<1>5. \A c \in Cores : state[c] = "RUNNING"
  BY <1>2, <1>4
<1>6. CoreInv
  BY <1>3, <1>4, <1>5, SchedulerAssumption DEF CoreInv, CoreOK
<1>7. PhaseInv
  BY <1>3, <1>4 DEF PhaseInv, TCBs
<1>8. StackExclusive
  BY <1>4 DEF StackExclusive
<1>9. /\ 1 \in Levels
      /\ SCHED[1] = <<t0>>
      /\ \A l \in Levels : l # 1 => SCHED[l] = << >>
  BY <1>2, SchedulerAssumption DEF Levels
<1>10. /\ \A l \in Levels : \A i \in 1 .. Len(SCHED[l]) : l = 1 /\ i = 1 /\ SCHED[l][i] = t0
       /\ 1 \in 1 .. Len(SCHED[1]) /\ SCHED[1][1] = t0
  <2>1. Len(<<t0>>) = 1 /\ <<t0>>[1] = t0 /\ \A i \in 1 .. Len(<<t0>>) : i = 1
    OBVIOUS
  <2>2. ASSUME NEW l \in Levels, NEW i \in 1 .. Len(SCHED[l]) PROVE l = 1 /\ i = 1 /\ SCHED[l][i] = t0
    <3>1. CASE l = 1
      BY <3>1, <2>1, <1>9
    <3>2. CASE l # 1
      <4>1. Len(SCHED[l]) = 0
        BY <3>2, <1>9
      <4> QED BY <4>1
    <3> QED BY <3>1, <3>2
  <2> QED BY <2>1, <2>2, <1>9
<1>11. \A u \in Threads : Queued(SCHED, u) <=> u = t0
  BY <1>9, <1>10 DEF Queued, InLevel, Contains
<1>12. \A u \in Threads : ~ Chosen(u)
  BY <1>3 DEF Chosen
<1>13. QueueInvariant
  <2>1. ASSUME NEW u \in Threads
        PROVE  u = t0 <=> state[u] = "READY" /\ phase[u] = "CLEAN"
    BY <1>2, <1>3, SchedulerAssumption DEF TCBs
  <2> QED BY <2>1, <1>11, <1>12 DEF QueueInvariant
<1>14. TimeoutListInvariant
  BY <1>3 DEF TimeoutListInvariant, Contains
<1>15. QueuedOnce
  <2>1. NoDuplicates(SCHED)
    BY <1>10 DEF NoDuplicates
  <2>2. Labelled(SCHED, priority_level)
    BY <1>3, <1>10 DEF Labelled
  <2>3. \A u \in Threads : ~ Contains(TIMEOUT_LIST, u)
    BY <1>3 DEF Contains
  <2> QED BY <2>1, <2>2, <2>3 DEF QueuedOnce
<1> QED BY <1>1, <1>6, <1>7, <1>8, <1>13, <1>14, <1>15 DEF IInv

(* One step per action of the scheduler and of the machine under it.       *)
LEMMA InvStep == IInv /\ [Next]_vars => IInv'
<1> SUFFICES ASSUME IInv, [Next]_vars PROVE IInv'
  OBVIOUS
<1>0. TypeOK'
  BY TypeStep DEF IInv
<1>1. ASSUME NEW c \in Cores, NEW t \in Threads, SpawnThread(c, t) PROVE IInv'
  BY <1>0, <1>1, SpawnStep
<1>2. ASSUME NEW c \in Cores, NEW t \in Threads, Wakeup(c, t) PROVE IInv'
  BY <1>0, <1>2, MakeReadyStep DEF Wakeup, Wakeable
<1>3. ASSUME NEW c \in Cores, NEW newstate \in {"STOPPED", "EXITED"}, NEW cause \in {"IO", "OTHER"},
             NEW timeout \in Timeouts \cup {NO_TIMEOUT}, SleepReleasing(c, newstate, cause, timeout)
      PROVE  IInv'
  BY <1>0, <1>3, SleepStep
<1>4. ASSUME NEW c \in Cores, NEW cause \in {"MUTEX", "IO"}, YieldCall(c, cause) PROVE IInv'
  BY <1>0, <1>4, CoreStep DEF YieldCall, EnterYield, Running, queueVars
<1>5. ASSUME NEW c \in Cores, YieldHandler(c) PROVE IInv'
  BY <1>0, <1>5, CoreStep DEF YieldHandler, EnterYield, queueVars
<1>6. ASSUME NEW c \in Cores, YieldLock(c) PROVE IInv'
  BY <1>0, <1>6, YieldLockStep
<1>7. ASSUME NEW c \in Cores, WakeupExpired(c) PROVE IInv'
  <2> DEFINE t == Head(TIMEOUT_LIST)
  <2>1. TIMEOUT_LIST # << >> /\ TIMEOUT_LIST \in Seq(Threads)
    BY <1>7 DEF WakeupExpired, Expired, IInv, TypeOK
  <2>2. t \in Threads /\ t = TIMEOUT_LIST[1] /\ 1 \in 1 .. Len(TIMEOUT_LIST)
    BY <2>1, EmptySeq
  <2>3. state[t] = "STOPPED"
    BY <2>2 DEF IInv, TimeoutListInvariant, Contains
  <2> HIDE DEF t
  <2>4. sched_make_ready(t) /\ UNCHANGED <<phase, sched_spinlock, pc, current_thread, previous_thread>>
    BY <1>7 DEF WakeupExpired, t
  <2> QED BY <1>0, <2>2, <2>3, <2>4, MakeReadyStep
<1>8. ASSUME NEW c \in Cores, YieldSelect(c) PROVE IInv'
  BY <1>0, <1>8, YieldSelectStep
<1>9. ASSUME NEW c \in Cores, Gain(c) PROVE IInv'
  BY <1>0, <1>9, GainStep
<1>10. ASSUME NEW c \in Cores, IdleStep(c) PROVE IInv'
  <2>1. CASE IdleLoop(c)
    BY <1>0, <2>1, CoreStep DEF IdleLoop, tcbVars, queueVars
  <2>2. CASE CoreHalt(c)
    BY <1>0, <2>2, CoreStep DEF CoreHalt, tcbVars, queueVars
  <2>3. CASE CoreHaltReturn(c)
    BY <1>0, <2>3, CoreStep DEF CoreHaltReturn, EnterYield, queueVars
  <2> QED BY <1>10, <2>1, <2>2, <2>3 DEF IdleStep
<1>11. ASSUME NEW c \in Cores, Alarm(c) PROVE IInv'
  BY <1>0, <1>11, FrameStep DEF Alarm, tcbVars, queueVars
<1>12. ASSUME SerialInterrupt PROVE IInv'
  BY <1>0, <1>12, FrameStep DEF SerialInterrupt, tcbVars, queueVars
<1>13. ASSUME Tick PROVE IInv'
  BY <1>0, <1>13, TickStep
<1>14. ASSUME UNCHANGED vars PROVE IInv'
  BY <1>0, <1>14, FrameStep DEF vars, tcbVars, queueVars, coreVars
<1> QED
  BY <1>1, <1>2, <1>3, <1>4, <1>5, <1>6, <1>7, <1>8, <1>9, <1>10, <1>11, <1>12, <1>13, <1>14
  DEF Next, ThreadStep, SwitchStep, Shutdown

-----------------------------------------------------------------------------
(* The life of a thread, and the count of threads.                         *)

(* The threads that exist, which active_threads counts.                    *)
Live == {t \in Threads : state[t] # "NONE"}

(* The moves of a thread that exists and goes on existing.                 *)
Moves(t) ==
  \/ state'[t] = state[t]
  \/ state[t] = "INIT" /\ state'[t] = "READY"
  \/ state[t] = "READY" /\ state'[t] = "RUNNING"
  \/ state[t] = "RUNNING" /\ state'[t] \in {"READY", "STOPPED", "EXITED"}
  \/ state[t] = "STOPPED" /\ state'[t] = "READY"

(* A step either moves existing threads along and leaves the count alone,  *)
(* or creates one thread, or releases one that has exited, with the count. *)
Creates(t) ==
  /\ state[t] = "NONE" /\ state'[t] = "INIT"
  /\ \A u \in Threads : u # t => state'[u] = state[u]
  /\ active_threads' = active_threads + 1

Releases(t) ==
  /\ state[t] = "EXITED" /\ state'[t] = "NONE"
  /\ \A u \in Threads : u # t => Moves(u)
  /\ active_threads' = active_threads - 1

Keeps == (\A t \in Threads : Moves(t)) /\ active_threads' = active_threads

(* gain() moves the thread it gains, and releases the one it leaves if it  *)
(* has exited.                                                             *)
LEMMA GainMoves ==
  ASSUME IInv, NEW c \in Cores, Gain(c)
  PROVE  Keeps \/ \E t \in Threads : Releases(t)
<1> DEFINE cur == current_thread[c]
           prev == previous_thread[c]
<1>1. /\ pc[c] = "switch"
      /\ cur \in Threads \cup {c} /\ prev \in Threads \cup {c} /\ cur \in TCBs /\ prev \in TCBs
      /\ state[cur] = "READY" /\ state[c] \in {"RUNNING", "READY"}
  BY DEF Gain, IInv, CoreInv, CoreOK, TCBs
<1>2. state \in [TCBs -> {"NONE", "INIT", "READY", "RUNNING", "STOPPED", "EXITED"}] /\ Threads \subseteq TCBs
  BY DEF IInv, TypeOK, TCBs
<1>3. CASE state' = [state EXCEPT ![cur] = "RUNNING"] /\ active_threads' = active_threads
  BY <1>1, <1>2, <1>3 DEF Keeps, Moves
<1>4. CASE /\ cur # prev /\ state[prev] = "EXITED"
           /\ state' = [state EXCEPT ![cur] = "RUNNING", ![prev] = "NONE"]
           /\ active_threads' = active_threads - 1
  <2>1. prev \in Threads
    BY <1>1, <1>4
  <2>2. Releases(prev)
    BY <1>1, <1>2, <1>4, <2>1 DEF Releases, Moves
  <2> QED BY <2>1, <2>2
<1> QED BY <1>3, <1>4 DEF Gain

(* Every other step, one per action that writes a state.                   *)
LEMMA StateMoves ==
  ASSUME IInv, [Next]_vars
  PROVE  \/ Keeps
         \/ \E t \in Threads : Releases(t)
         \/ \E t \in Threads, c \in Cores : Running(c) /\ pc' = pc /\ Creates(t)
<1>0. state \in [TCBs -> {"NONE", "INIT", "READY", "RUNNING", "STOPPED", "EXITED"}] /\ Threads \subseteq TCBs
  BY DEF IInv, TypeOK, TCBs
<1>1. ASSUME NEW c \in Cores, NEW t \in Threads, SpawnThread(c, t)
      PROVE  Running(c) /\ pc' = pc /\ Creates(t)
  BY <1>0, <1>1 DEF SpawnThread, Creates, coreVars
<1>2. ASSUME NEW t \in Threads, state[t] \in {"STOPPED", "INIT"}, sched_make_ready(t),
             active_threads' = active_threads
      PROVE  Keeps
  BY <1>0, <1>2 DEF sched_make_ready, Keeps, Moves
<1>3. ASSUME NEW c \in Cores, NEW newstate \in {"STOPPED", "EXITED"}, NEW cause \in {"IO", "OTHER"},
             NEW timeout \in Timeouts \cup {NO_TIMEOUT}, SleepReleasing(c, newstate, cause, timeout)
      PROVE  Keeps
  <2>1. state[current_thread[c]] = "RUNNING"
    BY <1>3 DEF SleepReleasing, Running, IInv, CoreInv, CoreOK
  <2> QED BY <1>0, <1>3, <2>1 DEF SleepReleasing, Running, Keeps, Moves
<1>4. ASSUME NEW c \in Cores, YieldLock(c) PROVE Keeps
  BY <1>0, <1>4 DEF YieldLock, LeaveRunning, Keeps, Moves
<1>5. ASSUME NEW c \in Cores, WakeupExpired(c) PROVE Keeps
  <2> DEFINE t == Head(TIMEOUT_LIST)
  <2>1. TIMEOUT_LIST # << >> /\ TIMEOUT_LIST \in Seq(Threads)
    BY <1>5 DEF WakeupExpired, Expired, IInv, TypeOK
  <2>2. t \in Threads /\ t = TIMEOUT_LIST[1] /\ 1 \in 1 .. Len(TIMEOUT_LIST)
    BY <2>1, EmptySeq
  <2>3. state[t] = "STOPPED"
    BY <2>2 DEF IInv, TimeoutListInvariant, Contains
  <2> HIDE DEF t
  <2>4. sched_make_ready(t) /\ active_threads' = active_threads
    BY <1>5 DEF WakeupExpired, t
  <2> QED BY <1>2, <2>2, <2>3, <2>4
<1>6. ASSUME NEW c \in Cores, NEW t \in Threads, Wakeup(c, t) PROVE Keeps
  BY <1>2, <1>6 DEF Wakeup, Wakeable
<1>7. ASSUME state' = state, active_threads' = active_threads PROVE Keeps
  BY <1>7 DEF Keeps, Moves
<1>8. ASSUME NEW c \in Cores, \/ (\E cause \in {"MUTEX", "IO"} : YieldCall(c, cause))
                              \/ YieldHandler(c) \/ YieldSelect(c) \/ IdleStep(c) \/ Alarm(c)
      PROVE  Keeps
  BY <1>7, <1>8 DEF YieldCall, YieldHandler, YieldSelect, IdleStep, IdleLoop, CoreHalt, CoreHaltReturn,
                    Alarm, tcbVars
<1>9. ASSUME SerialInterrupt \/ Tick \/ Shutdown \/ UNCHANGED vars PROVE Keeps
  BY <1>7, <1>9 DEF SerialInterrupt, Tick, Shutdown, vars, tcbVars
<1>10. ASSUME NEW c \in Cores, ThreadStep(c)
       PROVE  Keeps \/ \E t \in Threads : Running(c) /\ pc' = pc /\ Creates(t)
  BY <1>1, <1>3, <1>6, <1>8, <1>10 DEF ThreadStep
<1>11. ASSUME NEW c \in Cores, SwitchStep(c) PROVE Keeps \/ \E t \in Threads : Releases(t)
  BY <1>4, <1>5, <1>8, <1>11, GainMoves DEF SwitchStep
<1> QED BY <1>8, <1>9, <1>10, <1>11 DEF Next

(* active_threads is the number of threads, and a core that has left the   *)
(* scheduler has left none behind.                                         *)
CountInv == active_threads = Cardinality(Live) /\ NoThreadLeftBehind

(* Creating and releasing a thread keep the count exact; a core leaves     *)
(* when the count is zero, and from then on no thread runs to create one.  *)
LEMMA CountStep == IInv /\ CountInv /\ [Next]_vars => CountInv'
<1> SUFFICES ASSUME IInv, CountInv, [Next]_vars PROVE CountInv'
  OBVIOUS
<1>1. Live \subseteq Threads /\ IsFiniteSet(Live) /\ Cardinality(Live) \in Nat
  <2>1. Live \subseteq Threads
    BY DEF Live
  <2> QED BY <2>1, SchedulerAssumption, FS_Subset, FS_CardinalityType
<1>2. CASE Keeps
  <2>1. Live' = Live
    BY <1>2 DEF Live, Keeps, Moves
  <2>2. active_threads' = Cardinality(Live')
    BY <1>2, <2>1 DEF CountInv, Keeps
  <2>3. ASSUME NEW c \in Cores, pc'[c] = "exited" PROVE Live = {}
    <3>1. CASE pc[c] = "exited"
      BY <3>1 DEF CountInv, NoThreadLeftBehind, Live
    <3>2. CASE pc[c] # "exited"
      <4>1. ~ ThreadsRemain
        BY <2>3, <3>2 DEF Next, ThreadStep, SwitchStep, IdleStep, Shutdown, vars, coreVars,
              SpawnThread, Wakeup, SleepReleasing, YieldCall, YieldHandler, YieldLock, WakeupExpired,
              YieldSelect, Gain, IdleLoop, CoreHalt, CoreHaltReturn, EnterYield, Alarm,
              SerialInterrupt, Tick, IInv, TypeOK
      <4>2. Cardinality(Live) = 0
        BY <1>1, <4>1 DEF CountInv, ThreadsRemain
      <4> QED BY <1>1, <4>2, FS_EmptySet
    <3> QED BY <3>1, <3>2
  <2>4. NoThreadLeftBehind'
    BY <2>1, <2>3 DEF NoThreadLeftBehind, Live
  <2> QED BY <2>2, <2>4 DEF CountInv
<1>3. ASSUME NEW t \in Threads, Releases(t) PROVE CountInv'
  <2>1. Live' = Live \ {t} /\ t \in Live
    BY <1>3 DEF Live, Releases, Moves
  <2>2. Cardinality(Live') = Cardinality(Live) - 1
    BY <1>1, <2>1, FS_RemoveElement
  <2>3. active_threads' = Cardinality(Live')
    BY <1>3, <2>2 DEF Releases, CountInv
  <2>4. \A c \in Cores : pc'[c] # "exited"
    <3>1. \A c \in Cores : pc[c] # "exited"
      BY <2>1 DEF CountInv, NoThreadLeftBehind, Live
    <3>2. active_threads' # active_threads
      BY <1>1, <1>3 DEF Releases, CountInv
    <3>3. PICK d \in Cores : Gain(d) \/ \E u \in Threads : SpawnThread(d, u)
      BY <3>2 DEF Next, ThreadStep, SwitchStep, IdleStep, Shutdown, vars, coreVars,
            Wakeup, SleepReleasing, YieldCall, YieldHandler, YieldLock, WakeupExpired,
            YieldSelect, IdleLoop, CoreHalt, CoreHaltReturn, Alarm, SerialInterrupt, Tick
    <3>4. pc' = [pc EXCEPT ![d] = "run"] \/ pc' = pc
      BY <3>3 DEF Gain, SpawnThread, coreVars
    <3> QED BY <3>1, <3>4 DEF IInv, TypeOK
  <2> QED BY <2>3, <2>4 DEF CountInv, NoThreadLeftBehind
<1>4. ASSUME NEW t \in Threads, NEW c \in Cores, Running(c), pc' = pc, Creates(t) PROVE CountInv'
  <2>1. Live' = Live \cup {t} /\ t \notin Live
    BY <1>4 DEF Live, Creates
  <2>2. Cardinality(Live') = Cardinality(Live) + 1
    BY <1>1, <2>1, FS_AddElement
  <2>3. active_threads' = Cardinality(Live')
    BY <1>4, <2>2 DEF Creates, CountInv
  <2>4. current_thread[c] \in Threads /\ state[current_thread[c]] # "NONE"
    BY <1>4 DEF Running, IInv, CoreInv, CoreOK
  <2>5. \A d \in Cores : pc'[d] # "exited"
    BY <1>4, <2>4 DEF CountInv, NoThreadLeftBehind
  <2> QED BY <2>3, <2>5 DEF CountInv, NoThreadLeftBehind
<1> QED BY <1>2, <1>3, <1>4, StateMoves

(* At boot there is one thread, that of init_task.                         *)
LEMMA CountInit == Init => CountInv
<1> SUFFICES ASSUME Init PROVE CountInv
  OBVIOUS
<1>1. PICK t0 \in Threads :
        state = [t \in TCBs |-> IF t = t0 THEN "READY"
                                ELSE IF t \in Cores THEN "RUNNING" ELSE "NONE"]
  BY DEF Init
<1>2. Live = {t0}
  BY <1>1, SchedulerAssumption DEF Live, TCBs
<1>3. Cardinality(Live) = 1
  BY <1>2, FS_Singleton
<1>4. active_threads = 1 /\ \A c \in Cores : pc[c] # "exited"
  BY DEF Init
<1> QED BY <1>3, <1>4 DEF CountInv, NoThreadLeftBehind

-----------------------------------------------------------------------------
(* The results.                                                            *)

(* The inductive invariant holds in every reachable state: what each core  *)
(* executes, which contexts are dirty, and the contents of the lists that  *)
(* sched_spinlock protects.                                                *)
THEOREM Invariance == Spec => []IInv
BY InvInit, InvStep, PTL DEF Spec

(* The scheduler queue holds exactly the READY threads with a clean        *)
(* context that no core has just selected: no interleaving of              *)
(* sleep_releasing, yield and gain on one core with wakeup() or a timeout  *)
(* on another loses a wakeup or queues a thread that is still on a stack.  *)
THEOREM QueueIsReadySet == Spec => []QueueInvariant
<1>1. IInv => QueueInvariant
  BY DEF IInv
<1> QED BY <1>1, Invariance, PTL

(* A thread is in at most one of the scheduler's lists, once, and at the   *)
(* level that its priority_level says, boosts included.                    *)
THEOREM OneListPerThread == Spec => []QueuedOnce
<1>1. IInv => QueuedOnce
  BY DEF IInv
<1> QED BY <1>1, Invariance, PTL

(* Two cores never execute on one stack, on any number of cores.           *)
THEOREM MutualExclusionOfStacks == Spec => []StackExclusive
<1>1. IInv => StackExclusive
  BY DEF IInv
<1> QED BY <1>1, Invariance, PTL

(* TIMEOUT_LIST is sorted and holds exactly the timed sleepers.            *)
THEOREM TimeoutsInOrder == Spec => []TimeoutListInvariant
<1>1. IInv => TimeoutListInvariant
  BY DEF IInv
<1> QED BY <1>1, Invariance, PTL

(* gain()'s assert(0) is unreachable.                                      *)
THEOREM GainNeverAsserts == Spec => []GainAssertion
<1>1. IInv => GainAssertion
  BY DEF IInv, CoreInv, CoreOK, GainAssertion, Owner
<1> QED BY <1>1, Invariance, PTL

(* A core switches only to a READY thread whose saved context is clean.    *)
THEOREM SwitchesToClean == Spec => SwitchesToCleanContext
<1> DEFINE A == \A c \in Cores : current_thread'[c] # current_thread[c]
                  => state[current_thread'[c]] = "READY" /\ phase[current_thread'[c]] = "CLEAN"
<1>1. IInv /\ [Next]_vars => [A]_vars
  <2> SUFFICES ASSUME IInv, [Next]_vars, NEW d \in Cores, current_thread'[d] # current_thread[d]
               PROVE  state[current_thread'[d]] = "READY" /\ phase[current_thread'[d]] = "CLEAN"
    OBVIOUS
  <2>1. PICK c \in Cores : YieldSelect(c)
    BY DEF Next, ThreadStep, SwitchStep, IdleStep, Shutdown, vars, coreVars, SpawnThread, Wakeup,
           SleepReleasing, YieldCall, YieldHandler, YieldLock, WakeupExpired, Gain,
           IdleLoop, CoreHalt, CoreHaltReturn, Alarm, SerialInterrupt, Tick
  <2>2. PICK next \in TCBs :
          /\ sched_queue_select(c, next)
          /\ current_thread' = [current_thread EXCEPT ![c] = next]
    BY <2>1 DEF YieldSelect
  <2>3. d = c /\ current_thread'[d] = next /\ next # current_thread[c] /\ pc[c] = "scan"
    BY <2>1, <2>2 DEF YieldSelect, IInv, TypeOK
  <2>4. CASE next = c
    <3>1. Owner(c) # c
      BY <2>3, <2>4 DEF Owner
    <3> QED BY <2>3, <2>4, <3>1 DEF IInv, CoreInv, CoreOK, PhaseInv, TypeOK, TCBs
  <2>5. ASSUME NEW l \in Levels, SCHED[l] # << >>, next = Head(SCHED[l])
        PROVE  state[next] = "READY" /\ phase[next] = "CLEAN"
    <3>1. next \in Threads /\ next = SCHED[l][1] /\ 1 \in 1 .. Len(SCHED[l])
      BY <2>5, EmptySeq DEF IInv, TypeOK
    <3>2. Queued(SCHED, next)
      BY <3>1 DEF Queued, InLevel, Contains
    <3> QED BY <3>1, <3>2 DEF IInv, QueueInvariant
  <2> QED BY <2>2, <2>3, <2>4, <2>5 DEF sched_queue_select
<1>2. SwitchesToCleanContext <=> [][A]_vars
  BY DEF SwitchesToCleanContext
<1> QED BY <1>1, <1>2, Invariance, PTL DEF Spec

(* A core leaves the scheduler only when no thread is left: active_threads *)
(* is the number of threads at any time, whatever spawn_thread and gain()  *)
(* do on the other cores while the idle loop reads it.                     *)
THEOREM NobodyLeftBehind == Spec => []NoThreadLeftBehind
<1>1. Spec => [](IInv /\ CountInv)
  BY InvInit, InvStep, CountInit, CountStep, PTL DEF Spec
<1>2. IInv /\ CountInv => NoThreadLeftBehind
  BY DEF CountInv
<1> QED BY <1>1, <1>2, PTL

(* A thread goes only through the moves of its life cycle: in particular   *)
(* no sleeper is made to run without being made ready, and no exited       *)
(* thread comes back.                                                      *)
THEOREM LifeCycle == Spec => LegalTransitions
<1> DEFINE A == \A t \in Threads : state'[t] # state[t] =>
                  <<state[t], state'[t]>> \in
                    {<<"NONE", "INIT">>, <<"INIT", "READY">>, <<"READY", "RUNNING">>,
                     <<"RUNNING", "READY">>, <<"RUNNING", "STOPPED">>, <<"RUNNING", "EXITED">>,
                     <<"STOPPED", "READY">>, <<"EXITED", "NONE">>}
<1>1. IInv /\ [Next]_vars => [A]_vars
  <2> SUFFICES ASSUME IInv, [Next]_vars PROVE A
    OBVIOUS
  <2>1. CASE Keeps
    BY <2>1 DEF Keeps, Moves
  <2>2. ASSUME NEW t \in Threads, Releases(t) PROVE A
    BY <2>2 DEF Releases, Moves
  <2>3. ASSUME NEW t \in Threads, Creates(t) PROVE A
    BY <2>3 DEF Creates
  <2> QED BY <2>1, <2>2, <2>3, StateMoves
<1>2. LegalTransitions <=> [][A]_vars
  BY DEF LegalTransitions
<1> QED BY <1>1, <1>2, Invariance, PTL DEF Spec
=============================================================================
