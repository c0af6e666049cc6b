---------------------------- MODULE MachineProofs ----------------------------
(***************************************************************************)
(* Proofs about the programs and tests of module Machine, each for every   *)
(* value of its own constants: the symposium, the barrier, the remote      *)
(* server, the init tasks, the test framework, the virtual machine with a  *)
(* terminal under test, the exceptions, the lines of the shell and the     *)
(* lists of util.h.                                                        *)
(*                                                                         *)
(* A part moves by its own steps or not at all (PartsMove), so an          *)
(* invariant that the steps of the part preserve is an invariant of the    *)
(* machine.                                                                *)
(***************************************************************************)
EXTENDS Machine, ListLemmas, FiniteSetTheorems, SequenceTheorems, TLAPS

-----------------------------------------------------------------------------
(* What a step of the machine is to one part.                              *)

SymposiumMove == SymposiumNext \/ \E k \in {"threads", "processes"} : SymposiumStarts(k)
ServerMove    == ServerNext \/ ServerStarts \/ ConsoleEnds
InitTaskMove  ==
  \/ InitTaskStep
  \/ \E task \in {"boot_shell", "boot_symposium"}, nterm \in 0 .. MaxTerms : InitTaskStarts(task, nterm)
  \/ \E k \in Kids : KidEnds(k)
BarrierMove   == BarrierNext \/ BarrierStarts
RunnerMove    == RunnerNext \/ RunnerStarts
TerminalMove  == TerminalNext \/ TestStarts

(* A step of the machine is a step of each part, or leaves the part alone. *)
LEMMA PartsMove ==
  ASSUME [Next]_vars
  PROVE  /\ [SymposiumMove]_symposiumVars /\ [ServerMove]_serverVars /\ [InitTaskMove]_initVars
         /\ [BarrierMove]_barrierVars /\ [RunnerMove]_runnerVars /\ [TerminalMove]_terminalVars
         /\ [ExceptionNext]_exceptionVars
<1> USE Zenon DEF Next, Start, NotSymposium, NotServer, NotShell, NotInit, NotBarrier, NotRunner, NotTerminal,
       NotLists, NotExceptions, KidBegins, RunProgram, ServerInputEnds, ProgramReturns, KidExits, vars, bootVars, testVars
<1>1. [SymposiumMove]_symposiumVars
  BY DEF SymposiumMove
<1>2. [ServerMove]_serverVars
  BY DEF ServerMove
<1>3. [InitTaskMove]_initVars
  BY DEF InitTaskMove
<1>4. [BarrierMove]_barrierVars
  BY DEF BarrierMove
<1>5. [RunnerMove]_runnerVars
  BY DEF RunnerMove
<1>6. [TerminalMove]_terminalVars
  BY DEF TerminalMove
<1>7. [ExceptionNext]_exceptionVars
  OBVIOUS
<1> QED BY <1>1, <1>2, <1>3, <1>4, <1>5, <1>6, <1>7

-----------------------------------------------------------------------------
(* The symposium.                                                          *)

(* The neighbours of a philosopher: LEFT and RIGHT are inverse.            *)
LEMMA Seats ==
  ASSUME NEW i \in Phils
  PROVE  /\ LEFT(i) \in Phils /\ RIGHT(i) \in Phils
         /\ RIGHT(LEFT(i)) = i /\ LEFT(RIGHT(i)) = i
<1> USE SymposiumAssumption DEF Phils
<1>1. LEFT(i) = IF i = N - 1 THEN 0 ELSE i + 1
  <2>1. CASE i = N - 1
    BY <2>1 DEF LEFT
  <2>2. CASE i # N - 1
    BY <2>2 DEF LEFT
  <2> QED BY <2>1, <2>2
<1>2. ASSUME NEW j \in Phils PROVE RIGHT(j) = IF j = 0 THEN N - 1 ELSE j - 1
  <2>1. CASE j = 0
    BY <2>1 DEF RIGHT
  <2>2. CASE j # 0
    <3>1. j - 1 \in 0 .. N - 1 /\ j + N - 1 = (j - 1) + N
      BY <2>2
    <3>2. ((j - 1) + N) % N = j - 1
      BY <3>1
    <3> QED BY <3>1, <3>2, <2>2 DEF RIGHT
  <2> QED BY <2>1, <2>2
<1>3. ASSUME NEW j \in Phils PROVE LEFT(j) = IF j = N - 1 THEN 0 ELSE j + 1
  <2>1. CASE j = N - 1
    BY <2>1 DEF LEFT
  <2>2. CASE j # N - 1
    BY <2>2 DEF LEFT
  <2> QED BY <2>1, <2>2
<1>4. LEFT(i) \in Phils /\ RIGHT(i) \in Phils
  BY <1>2, <1>3
<1> QED BY <1>2, <1>3, <1>4

States == {"NOTHERE", "THINKING", "HUNGRY", "EATING"}

Apart(s) == \A i \in Phils : LEFT(i) # i => ~ (s[i] = "EATING" /\ s[LEFT(i)] = "EATING")

(* trytoeat lets at most the one philosopher eat, and only between two     *)
(* neighbours who do not; if it does not, one of them does.                *)
LEMMA TryToEat ==
  ASSUME NEW s \in [Phils -> States], Apart(s), NEW j \in Phils, NEW r, r = trytoeat(s, j)
  PROVE  /\ r \in [Phils -> States] /\ Apart(r)
         /\ \A k \in Phils : r[k] # s[k] => k = j /\ s[k] = "HUNGRY" /\ r[k] = "EATING"
         /\ r[j] = "HUNGRY" => "EATING" \in {r[LEFT(j)], r[RIGHT(j)]}
<1>1. LEFT(j) \in Phils /\ RIGHT(j) \in Phils /\ \A k \in Phils : RIGHT(LEFT(k)) = k /\ LEFT(RIGHT(k)) = k
  BY Seats
<1>2. CASE MayEat(s, j)
  <2>1. r = [s EXCEPT ![j] = "EATING"]
    BY <1>2 DEF trytoeat
  <2>2. ASSUME NEW i \in Phils, LEFT(i) # i, r[i] = "EATING", r[LEFT(i)] = "EATING" PROVE FALSE
    <3>1. LEFT(i) \in Phils /\ RIGHT(LEFT(i)) = i
      BY Seats
    <3>2. CASE i = j
      BY <1>2, <2>1, <2>2, <3>1, <3>2 DEF MayEat
    <3>3. CASE LEFT(i) = j
      BY <1>2, <2>1, <2>2, <3>1, <3>3 DEF MayEat
    <3>4. CASE i # j /\ LEFT(i) # j
      BY <2>1, <2>2, <3>1, <3>4 DEF Apart
    <3> QED BY <3>2, <3>3, <3>4
  <2>3. Apart(r)
    BY <2>2 DEF Apart
  <2> QED BY <1>1, <1>2, <2>1, <2>3 DEF MayEat, States
<1>3. CASE ~ MayEat(s, j)
  <2>1. r = s
    BY <1>3 DEF trytoeat
  <2> QED BY <1>1, <1>3, <2>1 DEF MayEat
<1> QED BY <1>2, <1>3

(* What each place of a philosopher says about the table.                  *)
PhilOK(i) ==
  /\ phil[i] \in {"absent", "arrives"} => state[i] = "NOTHERE" /\ bites[i] = Bites
  /\ phil[i] \in {"thinks", "leaves"} => state[i] = "THINKING"
  /\ phil[i] = "eats" => state[i] = "EATING"
  /\ phil[i] = "waits" => state[i] = IF i \in hungry THEN "HUNGRY" ELSE "EATING"
  /\ phil[i] = "gone" => state[i] = "NOTHERE"
  /\ i \in hungry => phil[i] = "waits" /\ "EATING" \in {state[LEFT(i)], state[RIGHT(i)]}
  /\ phil[i] \in {"thinks", "waits", "eats"} => bites[i] > 0

(* What the host has started and waited for.                               *)
HostOK ==
  /\ host.i < N
  /\ \A i \in waited : phil[i] = "gone"
  /\ host.at = "off" => host.i = 0 /\ waited = {} /\ \A i \in Phils : phil[i] = "absent"
  /\ host.at = "start" =>
       /\ waited = {}
       /\ \A i \in Phils : IF i >= host.i THEN phil[i] = "absent" ELSE kind = "threads" => phil[i] # "absent"
  /\ host.at = "wait" =>
       /\ kind = "threads" => \A i \in Phils : phil[i] # "absent" /\ (i < host.i => phil[i] = "gone")
       /\ kind = "processes" => Children = {} \/ Cardinality(waited) = host.i
  /\ host.at = "destroyed" => \A i \in Phils : phil[i] \in {"absent", "gone"}

SymposiumInv == SymposiumTypeOK /\ Apart(state) /\ (\A i \in Phils : PhilOK(i)) /\ HostOK

(* The inductive invariant implies the property the run checks.            *)
LEMMA SymposiumInvSound == SymposiumInv => TableInvariant
BY Zenon DEF SymposiumInv, TableInvariant, PhilOK, HostOK, Apart, SymposiumTypeOK

(* The inductive invariant holds initially.                                *)
LEMMA SymposiumInvInit == SymposiumInit => SymposiumInv
<1> SUFFICES ASSUME SymposiumInit PROVE SymposiumInv
  OBVIOUS
<1> USE SymposiumAssumption DEF SymposiumInit
<1>1. SymposiumTypeOK
  BY DEF SymposiumTypeOK
<1>2. Apart(state)
  <2>1. \A i \in Phils : state[i] # "EATING"
    OBVIOUS
  <2> QED BY <2>1 DEF Apart
<1>3. \A i \in Phils : PhilOK(i)
  BY DEF PhilOK
<1>4. HostOK
  BY DEF HostOK
<1> QED BY <1>1, <1>2, <1>3, <1>4 DEF SymposiumInv

(* A philosopher's step leaves the host and the others where they are.     *)
LEMMA PhilosopherHost ==
  ASSUME SymposiumInv, NEW i \in Phils, SymposiumTable_philosopher(i)
  PROVE  HostOK'
<1>1. /\ UNCHANGED <<kind, host, waited>>
      /\ phil[i] \notin {"absent", "gone"} /\ phil'[i] # "absent"
      /\ \A k \in Phils : k # i => phil'[k] = phil[k]
  BY DEF SymposiumTable_philosopher, Arrive, GetHungry, WakeUp, StopEating, Leave, SymposiumInv, SymposiumTypeOK
<1>2. Children' = Children
  BY <1>1 DEF Children
<1>3. waited \subseteq Phils /\ host.i \in 0 .. N
  BY DEF SymposiumInv, SymposiumTypeOK
<1> QED BY <1>1, <1>2, <1>3, SymposiumAssumption DEF HostOK, SymposiumInv, Phils

(* A philosopher comes or goes without forks.                              *)
LEMMA ArriveLeave ==
  ASSUME SymposiumInv, NEW i \in Phils, Arrive(i) \/ Leave(i)
  PROVE  SymposiumInv'
<1> USE SymposiumAssumption DEF Arrive, Leave
<1>1. /\ state' \in [Phils -> States] /\ state'[i] # "EATING" /\ state[i] # "EATING" /\ i \notin hungry
      /\ \A k \in Phils : k # i => state'[k] = state[k] /\ phil'[k] = phil[k]
      /\ UNCHANGED <<bites, hungry>>
  BY DEF SymposiumInv, SymposiumTypeOK, States, PhilOK
<1>2. SymposiumTypeOK'
  BY <1>1 DEF SymposiumInv, SymposiumTypeOK, States
<1>3. \A k \in Phils : LEFT(k) \in Phils /\ RIGHT(k) \in Phils
  BY Seats
<1>4. Apart(state')
  BY <1>1, <1>3 DEF Apart, SymposiumInv
<1>5. ASSUME NEW k \in Phils PROVE PhilOK(k)'
  <2>1. CASE k = i
    BY <1>1, <2>1 DEF PhilOK, SymposiumInv, SymposiumTypeOK
  <2>2. CASE k # i
    <3>1. \A j \in Phils : state[j] = "EATING" => state'[j] = "EATING"
      BY <1>1
    <3> QED BY <1>1, <1>3, <2>2, <3>1 DEF PhilOK, SymposiumInv
  <2> QED BY <2>1, <2>2
<1>6. HostOK'
  BY PhilosopherHost DEF SymposiumTable_philosopher
<1> QED BY <1>2, <1>4, <1>5, <1>6 DEF SymposiumInv

(* The step GetHungry keeps the inductive invariant.                       *)
LEMMA GetHungryInv ==
  ASSUME SymposiumInv, NEW i \in Phils, GetHungry(i)
  PROVE  SymposiumInv'
<1> DEFINE s == [state EXCEPT ![i] = "HUNGRY"]
<1>1. \A k \in Phils : LEFT(k) \in Phils /\ RIGHT(k) \in Phils
  BY Seats
<1>2. s \in [Phils -> States] /\ Apart(s) /\ state' = trytoeat(s, i) /\ state[i] = "THINKING" /\ i \notin hungry
  BY <1>1 DEF SymposiumInv, SymposiumTypeOK, States, Apart, GetHungry, PhilOK
<1>3. /\ state' \in [Phils -> States] /\ Apart(state')
      /\ \A k \in Phils : state'[k] # s[k] => k = i /\ s[k] = "HUNGRY" /\ state'[k] = "EATING"
      /\ state'[i] = "HUNGRY" => "EATING" \in {state'[LEFT(i)], state'[RIGHT(i)]}
  <2> HIDE DEF s
  <2> QED BY <1>2, TryToEat
<1>4. /\ \A k \in Phils : k # i => state'[k] = state[k]
      /\ state'[i] \in {"HUNGRY", "EATING"}
  BY <1>2, <1>3 DEF SymposiumInv, SymposiumTypeOK
<1>5. SymposiumTypeOK'
  BY <1>3, ZenonT(30) DEF SymposiumInv, SymposiumTypeOK, States, GetHungry
<1>6. ASSUME NEW k \in Phils PROVE PhilOK(k)'
  <2>1. CASE k = i
    BY <1>2, <1>3, <1>4, <2>1 DEF PhilOK, SymposiumInv, SymposiumTypeOK, GetHungry
  <2>2. CASE k # i
    <3>1. \A j \in Phils : state[j] = "EATING" => state'[j] = "EATING"
      BY <1>2, <1>4
    <3>2. phil'[k] = phil[k] /\ (k \in hungry' <=> k \in hungry) /\ bites' = bites
      BY <2>2 DEF GetHungry, SymposiumInv, SymposiumTypeOK
    <3> QED BY <1>1, <1>4, <2>2, <3>1, <3>2 DEF PhilOK, SymposiumInv
  <2> QED BY <2>1, <2>2
<1>7. HostOK'
  BY PhilosopherHost DEF SymposiumTable_philosopher
<1> QED BY <1>3, <1>5, <1>6, <1>7 DEF SymposiumInv

(* The step WakeUp keeps the inductive invariant.                          *)
LEMMA WakeUpInv ==
  ASSUME SymposiumInv, NEW i \in Phils, WakeUp(i)
  PROVE  SymposiumInv'
<1>1. state[i] = "EATING" /\ phil' = [phil EXCEPT ![i] = "eats"] /\ UNCHANGED <<state, hungry, bites>>
  BY DEF SymposiumInv, SymposiumTypeOK, WakeUp, PhilOK
<1>2. SymposiumTypeOK'
  BY <1>1 DEF SymposiumInv, SymposiumTypeOK, WakeUp
<1>3. \A k \in Phils : PhilOK(k)'
  BY <1>1 DEF SymposiumInv, SymposiumTypeOK, WakeUp, PhilOK
<1>4. HostOK'
  BY PhilosopherHost DEF SymposiumTable_philosopher
<1> QED BY <1>1, <1>2, <1>3, <1>4 DEF SymposiumInv, Apart

(* The hungry neighbours of the one who stops are looked at: they eat, or  *)
(* have another neighbour who does.                                        *)
LEMMA StopEatingInv ==
  ASSUME SymposiumInv, NEW i \in Phils, StopEating(i)
  PROVE  SymposiumInv'
<1> DEFINE s == [state EXCEPT ![i] = "THINKING"]
           r == trytoeat(s, LEFT(i))
<1>1. \A k \in Phils : LEFT(k) \in Phils /\ RIGHT(k) \in Phils /\ RIGHT(LEFT(k)) = k /\ LEFT(RIGHT(k)) = k
  BY Seats
<1>2. s \in [Phils -> States] /\ Apart(s) /\ state' = trytoeat(r, RIGHT(i)) /\ state[i] = "EATING" /\ i \notin hungry
  BY <1>1 DEF SymposiumInv, SymposiumTypeOK, States, Apart, StopEating, PhilOK, TryNeighbours
<1>3. /\ r \in [Phils -> States] /\ Apart(r)
      /\ \A k \in Phils : r[k] # s[k] => k = LEFT(i) /\ s[k] = "HUNGRY" /\ r[k] = "EATING"
      /\ r[LEFT(i)] = "HUNGRY" => "EATING" \in {r[LEFT(LEFT(i))], r[RIGHT(LEFT(i))]}
  <2> HIDE DEF s
  <2>1. LEFT(i) \in Phils
    BY <1>1
  <2> QED BY <1>2, <2>1, TryToEat
<1>4. /\ state' \in [Phils -> States] /\ Apart(state')
      /\ \A k \in Phils : state'[k] # r[k] => k = RIGHT(i) /\ r[k] = "HUNGRY" /\ state'[k] = "EATING"
      /\ state'[RIGHT(i)] = "HUNGRY" => "EATING" \in {state'[LEFT(RIGHT(i))], state'[RIGHT(RIGHT(i))]}
  <2> HIDE DEF s, r
  <2>1. RIGHT(i) \in Phils
    BY <1>1
  <2> QED BY <1>2, <1>3, <2>1, TryToEat
<1> HIDE DEF r
<1>5. s[i] = "THINKING" /\ \A k \in Phils : k # i => s[k] = state[k]
  BY <1>2 DEF SymposiumInv, SymposiumTypeOK
<1> HIDE DEF s
<1>6. /\ state'[i] = "THINKING"
      /\ \A k \in Phils : k # i /\ state'[k] # state[k] => state[k] = "HUNGRY" /\ state'[k] = "EATING"
      /\ \A k \in Phils : k # i /\ state[k] = "EATING" => state'[k] = "EATING"
      /\ \A k \in Phils : r[k] = "EATING" => state'[k] = "EATING"
  BY <1>3, <1>4, <1>5
<1>7. hungry' = {k \in hungry : state'[k] = state[k]}
  BY <1>6, <1>2 DEF StopEating, Signalled, SymposiumInv, SymposiumTypeOK, PhilOK
<1>8. SymposiumTypeOK'
  <2>1. bites[i] \in 1 .. Bites
    BY SymposiumAssumption DEF SymposiumInv, SymposiumTypeOK, PhilOK, StopEating
  <2>2. bites' \in [Phils -> 0 .. Bites]
    BY <2>1, SymposiumAssumption DEF SymposiumInv, SymposiumTypeOK, StopEating
  <2>3. phil' \in [Phils -> {"absent", "arrives", "thinks", "waits", "eats", "leaves", "gone"}]
    BY DEF SymposiumInv, SymposiumTypeOK, StopEating
  <2>4. hungry' \subseteq Phils
    BY <1>7 DEF SymposiumInv, SymposiumTypeOK
  <2> QED BY <1>4, <2>2, <2>3, <2>4 DEF SymposiumInv, SymposiumTypeOK, States, StopEating
<1>9. ASSUME NEW k \in hungry' PROVE "EATING" \in {state'[LEFT(k)], state'[RIGHT(k)]}
  <2>1. k \in Phils /\ k # i /\ state[k] = "HUNGRY" /\ state'[k] = "HUNGRY" /\ s[k] = "HUNGRY" /\ r[k] = "HUNGRY"
    BY <1>2, <1>3, <1>5, <1>6, <1>7 DEF SymposiumInv, SymposiumTypeOK, PhilOK
  <2>2. "EATING" \in {state[LEFT(k)], state[RIGHT(k)]}
    BY <1>7, <2>1 DEF SymposiumInv, PhilOK
  <2>3. CASE k = LEFT(i)
    BY <1>1, <1>3, <1>6, <2>1, <2>3
  <2>4. CASE k = RIGHT(i)
    BY <1>1, <1>4, <1>6, <2>1, <2>4
  <2>5. CASE k # LEFT(i) /\ k # RIGHT(i)
    <3>1. LEFT(k) # i /\ RIGHT(k) # i
      BY <1>1, <2>1, <2>5
    <3> QED BY <1>1, <1>6, <2>1, <2>2, <3>1
  <2> QED BY <2>3, <2>4, <2>5
<1>10. ASSUME NEW k \in Phils PROVE PhilOK(k)'
  <2>1. CASE k = i
    BY <1>2, <1>6, <1>7, <2>1, SymposiumAssumption DEF PhilOK, SymposiumInv, SymposiumTypeOK, StopEating
  <2>2. CASE k # i
    <3>1. phil'[k] = phil[k] /\ bites'[k] = bites[k]
      BY <2>2 DEF StopEating, SymposiumInv, SymposiumTypeOK
    <3>2. PhilOK(k)
      BY DEF SymposiumInv
    <3> QED BY <1>6, <1>7, <1>9, <2>2, <3>1, <3>2 DEF PhilOK
  <2> QED BY <2>1, <2>2
<1>11. HostOK'
  BY PhilosopherHost DEF SymposiumTable_philosopher
<1> QED BY <1>4, <1>8, <1>10, <1>11 DEF SymposiumInv

(* The host starts a philosopher: there was none in the place.             *)
LEMMA StartPhilosopherInv ==
  ASSUME SymposiumInv, StartPhilosopher
  PROVE  SymposiumInv'
<1> USE SymposiumAssumption
<1>1. /\ host.i \in Phils /\ phil[host.i] = "absent" /\ waited = {}
      /\ phil' \in [Phils -> {"absent", "arrives", "thinks", "waits", "eats", "leaves", "gone"}]
      /\ phil'[host.i] \in {"absent", "arrives"} /\ (kind = "threads" => phil'[host.i] = "arrives")
      /\ \A k \in Phils : k # host.i => phil'[k] = phil[k]
      /\ UNCHANGED <<kind, state, bites, hungry, waited>>
  BY DEF SymposiumInv, SymposiumTypeOK, HostOK, StartPhilosopher, Phils
<1>2. /\ host' \in [at : {"off", "start", "wait", "destroyed"}, i : 0 .. N]
      /\ host.i + 1 < N => host'.at = "start" /\ host'.i = host.i + 1
      /\ host.i + 1 >= N => host'.at = "wait" /\ host'.i = 0 /\ host.i = N - 1
  BY <1>1 DEF StartPhilosopher, HostStep, SymposiumInv, SymposiumTypeOK, Phils
<1>3. SymposiumTypeOK'
  BY <1>1, <1>2 DEF SymposiumInv, SymposiumTypeOK
<1>4. \A k \in Phils : PhilOK(k)'
  BY <1>1 DEF SymposiumInv, SymposiumTypeOK, PhilOK
<1>5. HostOK'
  <2>1. CASE host.i + 1 < N
    <3>1. \A k \in Phils : IF k >= host.i + 1 THEN phil'[k] = "absent" ELSE kind = "threads" => phil'[k] # "absent"
      BY <1>1 DEF SymposiumInv, HostOK, StartPhilosopher, Phils
    <3> QED BY <1>1, <1>2, <2>1, <3>1 DEF HostOK
  <2>2. CASE host.i + 1 >= N
    <3>1. Cardinality(waited') = 0
      BY <1>1, FS_EmptySet
    <3>2. kind = "threads" => \A k \in Phils : phil'[k] # "absent"
      BY <1>1, <1>2, <2>2 DEF SymposiumInv, SymposiumTypeOK, HostOK, StartPhilosopher, Phils
    <3> QED BY <1>1, <1>2, <2>2, <3>1, <3>2 DEF SymposiumInv, SymposiumTypeOK, HostOK, Phils
  <2> QED BY <1>1, <2>1, <2>2 DEF Phils
<1> QED BY <1>1, <1>3, <1>4, <1>5 DEF SymposiumInv, Apart

(* N rounds of waiting take every philosopher that could be started.       *)
LEMMA WaitForPhilosopherInv ==
  ASSUME SymposiumInv, JoinPhilosopher \/ WaitPhilosopher
  PROVE  SymposiumInv'
<1> USE SymposiumAssumption
<1>1. /\ host.at = "wait" /\ host.i \in Phils
      /\ UNCHANGED <<kind, phil, state, bites, hungry>>
      /\ kind \in {"threads", "processes"} /\ waited \subseteq Phils
  BY DEF SymposiumInv, SymposiumTypeOK, HostOK, JoinPhilosopher, WaitPhilosopher, Phils
<1>2. /\ host' \in [at : {"off", "start", "wait", "destroyed"}, i : 0 .. N]
      /\ host.i + 1 < N => host'.at = "wait" /\ host'.i = host.i + 1
      /\ host.i + 1 >= N => host'.at = "destroyed" /\ host'.i = 0 /\ host.i = N - 1
  BY <1>1 DEF JoinPhilosopher, WaitPhilosopher, HostStep, SymposiumInv, SymposiumTypeOK, Phils
<1>3. \A i \in waited' : i \in Phils /\ phil[i] = "gone"
  BY <1>1 DEF JoinPhilosopher, WaitPhilosopher, Children, SymposiumInv, HostOK
<1>4. SymposiumTypeOK'
  BY <1>1, <1>2, <1>3 DEF SymposiumInv, SymposiumTypeOK
<1>5. \A k \in Phils : PhilOK(k)'
  BY <1>1 DEF SymposiumInv, PhilOK
<1>6. HostOK'
  <2>1. CASE kind = "threads"
    <3>1. phil[host.i] = "gone"
      BY <2>1 DEF JoinPhilosopher, WaitPhilosopher
    <3>2. \A k \in Phils : phil[k] # "absent" /\ (k <= host.i => phil[k] = "gone")
      BY <1>1, <2>1, <3>1 DEF SymposiumInv, HostOK, Phils
    <3> QED BY <1>1, <1>2, <1>3, <2>1, <3>2 DEF HostOK, Phils
  <2>2. CASE kind = "processes"
    <3>1. IsFiniteSet(Phils) /\ Cardinality(Phils) = N
      BY FS_Interval DEF Phils
    <3>2. IsFiniteSet(waited)
      BY <1>1, <3>1, FS_Subset
    <3>3. Children' = {} \/ Cardinality(waited') = host.i + 1
      <4>1. CASE Children = {} /\ UNCHANGED waited
        BY <1>1, <4>1 DEF Children
      <4>2. ASSUME NEW i \in Children, waited' = waited \cup {i}
            PROVE  Cardinality(waited') = host.i + 1
        <5>1. Cardinality(waited) = host.i /\ i \notin waited
          BY <1>1, <2>2, <4>2 DEF SymposiumInv, HostOK, Children
        <5> QED BY <3>2, <4>2, <5>1, FS_AddElement
      <4> QED BY <2>2, <4>1, <4>2 DEF JoinPhilosopher, WaitPhilosopher
    <3>4. CASE host.i + 1 < N
      BY <1>1, <1>2, <1>3, <2>2, <3>3, <3>4 DEF HostOK, Phils
    <3>5. CASE host.i + 1 >= N
      <4>1. ASSUME Cardinality(waited') = host.i + 1 PROVE waited' = Phils
        <5>1. waited' \subseteq Phils /\ Cardinality(waited') = Cardinality(Phils)
          BY <1>2, <1>3, <3>1, <3>5, <4>1
        <5> QED BY <3>1, <5>1, FS_Subset
      <4>2. \A k \in Phils : phil[k] \in {"absent", "gone"}
        BY <1>1, <1>3, <3>3, <4>1 DEF Children
      <4> QED BY <1>1, <1>2, <1>3, <2>2, <3>5, <4>2 DEF HostOK, Phils
    <3> QED BY <1>1, <3>4, <3>5 DEF Phils
  <2> QED BY <1>1, <2>1, <2>2
<1> QED BY <1>1, <1>4, <1>5, <1>6 DEF SymposiumInv, Apart

(* Every step keeps the inductive invariant.                               *)
LEMMA SymposiumInvStep ==
  ASSUME SymposiumInv, [SymposiumMove]_symposiumVars
  PROVE  SymposiumInv'
<1>1. CASE UNCHANGED symposiumVars
  BY <1>1 DEF symposiumVars, SymposiumInv, SymposiumTypeOK, Apart, PhilOK, HostOK, Children
<1>2. ASSUME NEW k \in {"threads", "processes"}, SymposiumStarts(k) PROVE SymposiumInv'
  <2>1. SymposiumTypeOK' /\ UNCHANGED <<phil, state, bites, hungry, waited>>
    BY <1>2 DEF SymposiumInv, SymposiumTypeOK, SymposiumStarts
  <2>2. \A i \in Phils : PhilOK(i)'
    BY <2>1 DEF SymposiumInv, PhilOK
  <2>3. HostOK'
    BY <1>2, <2>1, SymposiumAssumption DEF SymposiumInv, SymposiumTypeOK, HostOK, SymposiumStarts, Phils
  <2> QED BY <2>1, <2>2, <2>3 DEF SymposiumInv, Apart
<1>3. CASE SymposiumNext
  BY <1>3, StartPhilosopherInv, WaitForPhilosopherInv, ArriveLeave, GetHungryInv, WakeUpInv, StopEatingInv
     DEF SymposiumNext, SymposiumTable_philosopher
<1> QED BY <1>1, <1>2, <1>3 DEF SymposiumMove

(* The philosophers of symposium.c: any number of them, with threads or    *)
(* processes.  Neighbours do not eat together, whoever sleeps hungry will  *)
(* be looked at, and the table is destroyed after the last one has left.   *)
THEOREM SymposiumSafe == Spec => []TableInvariant
<1>1. Init => SymposiumInv
  BY SymposiumInvInit DEF Init
<1>2. SymposiumInv /\ [Next]_vars => SymposiumInv'
  BY SymposiumInvStep, PartsMove
<1> QED BY <1>1, <1>2, SymposiumInvSound, PTL DEF Spec

-----------------------------------------------------------------------------
(* The barrier.                                                            *)

(* In round r a thread is between two calls, waits at the barrier, or has  *)
(* yet to leave the round before, whose epoch is not the current one.      *)
Between(m, r) == ~ member[m].inside /\ member[m].calls = r /\ member[m].left = r
Waiting(m, r) ==
  member[m].inside /\ member[m].calls = r + 1 /\ member[m].left = r /\ member[m].epoch = epoch
Leaving(m, r) ==
  member[m].inside /\ member[m].calls = r /\ member[m].left = r - 1 /\ member[m].epoch # epoch

InRound(r) == \A m \in Members : Between(m, r) \/ Waiting(m, r) \/ Leaving(m, r)

AtBarrier == {m \in Members : member[m].inside /\ MustWait(m)}

BarrierInv ==
  /\ BarrierTypeOK
  /\ \E r \in Nat : InRound(r)
  /\ asleep \subseteq AtBarrier
  /\ count = Cardinality(AtBarrier)

(* The inductive invariant implies the property the run checks.            *)
LEMMA BarrierInvSound == BarrierInv => BarrierInvariant
<1> SUFFICES ASSUME BarrierInv PROVE BarrierInvariant
  OBVIOUS
<1>1. PICK r \in Nat : InRound(r)
  BY DEF BarrierInv
<1>2. \A m, k \in Members : member[m].left <= member[k].calls
  BY <1>1 DEF InRound, Between, Waiting, Leaving
<1>3. \A m \in asleep : MustWait(m)
  BY DEF BarrierInv, AtBarrier
<1> QED BY <1>2, <1>3, Zenon DEF BarrierInv, BarrierInvariant, AtBarrier

(* A barrier has members, finitely many.                                   *)
LEMMA SomeMembers == IsFiniteSet(Members) /\ Parties \in Nat \ {0}
<1>1. IsFiniteSet(Members) /\ Members # {}
  BY BarrierAssumption
<1>2. Cardinality(Members) \in Nat /\ Cardinality(Members) # 0
  BY <1>1, FS_CardinalityType, FS_EmptySet, Zenon
<1> QED BY <1>1, <1>2 DEF Parties

(* The inductive invariant holds initially.                                *)
LEMMA BarrierInvInit == BarrierInit => BarrierInv
<1> SUFFICES ASSUME BarrierInit PROVE BarrierInv
  OBVIOUS
<1> USE BarrierAssumption, SomeMembers DEF BarrierInit
<1>1. BarrierTypeOK
  BY DEF BarrierTypeOK
<1>2. InRound(Rounds)
  BY DEF InRound, Between
<1>3. AtBarrier = {}
  BY DEF AtBarrier
<1> QED BY <1>1, <1>2, <1>3, FS_EmptySet DEF BarrierInv

(* The step BarrierStarts keeps the inductive invariant.                   *)
LEMMA BarrierStartsInv ==
  ASSUME BarrierInv, BarrierStarts
  PROVE  BarrierInv'
<1> USE BarrierAssumption, SomeMembers
<1>1. PICK r \in Nat : InRound(r)
  BY DEF BarrierInv
<1>2. AtBarrier = {}
  <2>1. ASSUME NEW m \in AtBarrier PROVE FALSE
    <3>1. Waiting(m, r) /\ r + 1 = Rounds
      BY <1>1, <2>1 DEF InRound, Between, Waiting, Leaving, AtBarrier, MustWait, BarrierStarts
    <3>2. \A k \in Members : Waiting(k, r)
      BY <1>1, <3>1 DEF InRound, Between, Waiting, Leaving, BarrierStarts
    <3>3. AtBarrier = Members
      BY <3>2 DEF AtBarrier, Waiting, MustWait
    <3>4. count = Parties
      BY <3>3, Zenon DEF BarrierInv, Parties
    <3> QED BY <3>4 DEF BarrierInv, BarrierTypeOK
  <2> QED BY <2>1
<1>3. count = 0 /\ asleep = {}
  BY <1>2, FS_EmptySet DEF BarrierInv
<1>4. AtBarrier' = {}
  BY DEF AtBarrier, BarrierStarts
<1>5. BarrierTypeOK'
  BY DEF BarrierInv, BarrierTypeOK, BarrierStarts
<1>6. InRound(0)'
  BY DEF InRound, Between, BarrierStarts
<1> QED BY <1>3, <1>4, <1>5, <1>6, FS_EmptySet DEF BarrierInv, BarrierStarts

(* The last to come finds all others waiting, and starts the next round.   *)
LEMMA LastArrives ==
  ASSUME BarrierInv, NEW m \in Members, ArriveAtBarrier(m), count + 1 = Parties
  PROVE  BarrierInv'
<1> USE BarrierAssumption, SomeMembers
<1>1. PICK r \in Nat : InRound(r)
  BY DEF BarrierInv
<1>2. /\ ~ member[m].inside /\ member[m].calls < Rounds
      /\ count' = 0 /\ epoch' = (epoch + 1) % EPOCHS /\ asleep' = {}
      /\ member' = [member EXCEPT ![m].calls = @ + 1, ![m].left = @ + 1]
  BY DEF ArriveAtBarrier, OpenBarrier
<1>3. AtBarrier \subseteq Members /\ m \notin AtBarrier
  BY <1>2 DEF AtBarrier
<1>4. IsFiniteSet(AtBarrier) /\ AtBarrier \cup {m} \subseteq Members
  BY <1>3, FS_Subset
<1>5. Cardinality(AtBarrier \cup {m}) = Cardinality(Members)
  <2>1. Cardinality(AtBarrier \cup {m}) = Cardinality(AtBarrier) + 1
    BY <1>3, <1>4, FS_AddElement
  <2> QED BY <2>1 DEF BarrierInv, Parties
<1>6. AtBarrier \cup {m} = Members
  BY <1>4, <1>5, FS_Subset
<1>7. epoch' \in 0 .. EPOCHS - 1 /\ epoch' # epoch
  BY <1>2 DEF BarrierInv, BarrierTypeOK
<1>8. Between(m, r) /\ \A k \in Members : k # m => Waiting(k, r)
  BY <1>1, <1>2, <1>6 DEF AtBarrier, MustWait, InRound, Between, Waiting, Leaving
<1>9. member \in [Members -> [inside : BOOLEAN, epoch : 0 .. EPOCHS - 1, calls : 0 .. Rounds, left : 0 .. Rounds]]
  BY DEF BarrierInv, BarrierTypeOK
<1>10. InRound(r + 1)'
  BY <1>2, <1>7, <1>8, <1>9 DEF InRound, Between, Waiting, Leaving
<1>11. AtBarrier' = {}
  BY <1>2, <1>7, <1>8, <1>9 DEF AtBarrier, MustWait, Between, Waiting
<1>12. BarrierTypeOK'
  BY <1>2, <1>7, <1>8, <1>9 DEF BarrierTypeOK, Between
<1> QED BY <1>2, <1>10, <1>11, <1>12, FS_EmptySet DEF BarrierInv

(* One that is not the last arrives at the barrier.                        *)
LEMMA OtherArrives ==
  ASSUME BarrierInv, NEW m \in Members, ArriveAtBarrier(m), count + 1 # Parties
  PROVE  BarrierInv'
<1> USE BarrierAssumption, SomeMembers
<1>1. PICK r \in Nat : InRound(r)
  BY DEF BarrierInv
<1>2. /\ ~ member[m].inside /\ member[m].calls < Rounds
      /\ count' = count + 1 /\ epoch' = epoch /\ asleep' = asleep \cup {m}
      /\ member' = [member EXCEPT ![m].calls = @ + 1, ![m].inside = TRUE, ![m].epoch = epoch]
  BY DEF ArriveAtBarrier
<1>3. member \in [Members -> [inside : BOOLEAN, epoch : 0 .. EPOCHS - 1, calls : 0 .. Rounds, left : 0 .. Rounds]]
  BY DEF BarrierInv, BarrierTypeOK
<1>4. InRound(r)'
  BY <1>1, <1>2, <1>3 DEF InRound, Between, Waiting, Leaving
<1>5. AtBarrier' = AtBarrier \cup {m} /\ m \notin AtBarrier /\ AtBarrier \subseteq Members
  BY <1>2, <1>3 DEF AtBarrier, MustWait
<1>6. IsFiniteSet(AtBarrier)
  BY <1>5, FS_Subset
<1>7. Cardinality(AtBarrier') = count + 1
  BY <1>5, <1>6, FS_AddElement DEF BarrierInv
<1>8. BarrierTypeOK'
  BY <1>2, <1>3 DEF BarrierInv, BarrierTypeOK
<1> QED BY <1>2, <1>4, <1>5, <1>7, <1>8 DEF BarrierInv

(* The step WakeAtBarrier keeps the inductive invariant.                   *)
LEMMA WakeAtBarrierInv ==
  ASSUME BarrierInv, NEW m \in Members, WakeAtBarrier(m)
  PROVE  BarrierInv'
<1> USE BarrierAssumption, SomeMembers
<1>1. PICK r \in Nat : InRound(r)
  BY DEF BarrierInv
<1>2. member \in [Members -> [inside : BOOLEAN, epoch : 0 .. EPOCHS - 1, calls : 0 .. Rounds, left : 0 .. Rounds]]
  BY DEF BarrierInv, BarrierTypeOK
<1>3. CASE MustWait(m)
  BY <1>3, ZenonT(30) DEF WakeAtBarrier, BarrierInv, BarrierTypeOK, InRound, Between, Waiting, Leaving, AtBarrier, MustWait
<1>4. CASE ~ MustWait(m)
  <2>1. /\ member[m].inside /\ member' = [member EXCEPT ![m].inside = FALSE, ![m].left = @ + 1]
        /\ UNCHANGED <<count, epoch, asleep>>
    BY <1>4 DEF WakeAtBarrier
  <2>2. Leaving(m, r)
    BY <1>1, <1>4, <2>1 DEF InRound, Between, Waiting, Leaving, MustWait
  <2>3. InRound(r)'
    BY <1>1, <1>2, <2>1, <2>2 DEF InRound, Between, Waiting, Leaving
  <2>4. AtBarrier' = AtBarrier
    BY <1>2, <1>4, <2>1 DEF AtBarrier, MustWait
  <2>5. BarrierTypeOK'
    BY <1>2, <2>1, <2>2 DEF BarrierInv, BarrierTypeOK, Leaving
  <2> QED BY <2>1, <2>3, <2>4, <2>5 DEF BarrierInv
<1> QED BY <1>3, <1>4

(* Every step keeps the inductive invariant.                               *)
LEMMA BarrierInvStep ==
  ASSUME BarrierInv, [BarrierMove]_barrierVars
  PROVE  BarrierInv'
<1>1. CASE UNCHANGED barrierVars
  BY <1>1 DEF barrierVars, BarrierInv, BarrierTypeOK, InRound, Between, Waiting, Leaving, AtBarrier, MustWait
<1>2. CASE BarrierNext
  BY <1>2, LastArrives, OtherArrives, WakeAtBarrierInv DEF BarrierNext, BarrierStep
<1> QED BY <1>1, <1>2, BarrierStartsInv DEF BarrierMove

(* BarrierSync separates the rounds for any number of threads, also when   *)
(* the epoch wraps: two values of the counter are enough.                  *)
THEOREM BarrierSafe == Spec => []BarrierInvariant
<1>1. Init => BarrierInv
  BY BarrierInvInit DEF Init
<1>2. BarrierInv /\ [Next]_vars => BarrierInv'
  BY BarrierInvStep, PartsMove
<1> QED BY <1>1, <1>2, BarrierInvSound, PTL DEF Spec

-----------------------------------------------------------------------------
(* The test framework.                                                     *)

(* The alarm is set and its signal pending only where the harness waits    *)
(* for it, and no signal is left when the mask is restored.                *)
SignalsOK ==
  /\ armed => runner.at \in {"sigwait", "cancel"}
  /\ "SIGALRM" \in pending => runner.at = "sigwait" /\ ~ armed
  /\ runner.at \in {"off", "fork", "next", "done", "aborted"} => pending = {}
  /\ "SIGCHLD" \in pending => subprocess.at # "runs"
  /\ runner.at # "killed"

(* What the state of the process under test says of the test.              *)
SubprocessOK ==
  /\ subprocess.at = "runs" => runner.at \in {"alarm", "sigwait", "timeout", "kill"}
  /\ subprocess.at = "exited" => subprocess.does = "passes"
  /\ subprocess.at = "signaled" /\ subprocess.does = "passes" => ~ subprocess.inTime
  /\ subprocess.at = "none" => subprocess.does = "skipped" \/ runner.at = "aborted"
  /\ subprocess.does = "skipped" => subprocess.at = "none"
  /\ subprocess.at = "runs" /\ ("SIGALRM" \in pending \/ runner.at \in {"timeout", "kill"}) =>
       ~ subprocess.inTime

TotalsOK ==
  /\ deserved.soFar => result
  /\ results.number_of_tests = IF runner.at = "done" THEN Tests ELSE runner.test - 1
  /\ deserved.tests <= results.successful /\ results.successful <= results.number_of_tests

RunnerInv == RunnerTypeOK /\ SignalsOK /\ SubprocessOK /\ TotalsOK

(* The inductive invariant implies the property the run checks.            *)
LEMMA RunnerInvSound == RunnerInv => VerdictSound
BY DEF RunnerInv, RunnerTypeOK, SignalsOK, SubprocessOK, TotalsOK, VerdictSound, Succeeded

(* The inductive invariant holds initially.                                *)
LEMMA RunnerInvInit == RunnerInit => RunnerInv
<1> SUFFICES ASSUME RunnerInit PROVE RunnerInv
  OBVIOUS
<1> USE RunnerAssumption DEF RunnerInit
<1>1. RunnerTypeOK
  <2>1. subprocess \in [at : {"none", "runs", "exited", "signaled"}, does : Behaviours, inTime : BOOLEAN]
    BY DEF Behaviours
  <2>2. /\ results \in [number_of_tests : 0 .. Tests, successful : 0 .. Tests]
        /\ deserved \in [soFar : BOOLEAN, tests : 0 .. Tests]
    OBVIOUS
  <2>3. 1 \in 1 .. Tests /\ 1 \in 1 .. Configs
    OBVIOUS
  <2> QED BY <2>1, <2>2, <2>3 DEF RunnerTypeOK
<1>2. SignalsOK /\ SubprocessOK /\ TotalsOK
  BY DEF SignalsOK, SubprocessOK, TotalsOK
<1> QED BY <1>1, <1>2 DEF RunnerInv

(* The steps of execute_fork and execute_nofork.                           *)
LEMMA HarnessInv ==
  ASSUME RunnerInv,
         RunnerStarts \/ ForkTest \/ RunHere \/ SkipTest \/ SetAlarm \/ SigWait \/ CancelAlarm \/ TimedOut
           \/ WaitPid \/ RestoreMask
  PROVE  RunnerInv'
<1> USE RunnerAssumption DEF RunnerInv, RunnerTypeOK, SignalsOK, SubprocessOK, TotalsOK, RunnerTo, Behaviours
<1>1. CASE RunnerStarts
  BY <1>1 DEF RunnerStarts
<1>2. CASE ForkTest
  BY <1>2 DEF ForkTest
<1>3. CASE RunHere
  BY <1>3 DEF RunHere
<1>4. CASE SkipTest
  BY <1>4 DEF SkipTest
<1>5. CASE SetAlarm
  BY <1>5 DEF SetAlarm
<1>6. CASE SigWait
  BY <1>6 DEF SigWait
<1>7. CASE CancelAlarm
  BY <1>7 DEF CancelAlarm, alarm_0
<1>8. CASE TimedOut
  BY <1>8 DEF TimedOut, kill
<1>9. CASE WaitPid
  BY <1>9 DEF WaitPid
<1>10. CASE RestoreMask
  BY <1>10 DEF RestoreMask
<1> QED BY <1>1, <1>2, <1>3, <1>4, <1>5, <1>6, <1>7, <1>8, <1>9, <1>10

(* The result that is counted is the one the test deserves.                *)
LEMMA CountResultInv ==
  ASSUME RunnerInv, CountResult
  PROVE  RunnerInv'
<1> USE RunnerAssumption DEF RunnerInv, RunnerTypeOK, SignalsOK, SubprocessOK, TotalsOK, Behaviours
<1>1. subprocess.does \in {"passes", "skipped"} /\ subprocess.inTime => Succeeded
  BY DEF CountResult, Succeeded
<1>2. /\ runner.at = "next" /\ runner.test \in 1 .. Tests /\ runner.config \in 1 .. Configs
      /\ subprocess' = [at |-> "none", does |-> "skipped", inTime |-> TRUE]
      /\ UNCHANGED <<forked, armed, pending>>
  BY DEF CountResult
<1>3. CASE runner.config = Configs
  <2> DEFINE succeeds == result /\ Succeeded
             good == deserved.soFar /\ subprocess.does \in {"passes", "skipped"} /\ subprocess.inTime
  <2>1. /\ runner' = IF runner.test = Tests THEN [runner EXCEPT !.at = "done"]
                     ELSE [at |-> "fork", test |-> runner.test + 1, config |-> 1]
        /\ results' = [number_of_tests |-> results.number_of_tests + 1,
                       successful |-> results.successful + IF succeeds THEN 1 ELSE 0]
        /\ deserved' = [soFar |-> TRUE, tests |-> deserved.tests + IF good THEN 1 ELSE 0]
        /\ result' = TRUE
    BY <1>3, Zenon DEF CountResult
  <2>2. good => succeeds
    BY <1>1
  <2>3. /\ results'.number_of_tests = runner.test
        /\ deserved'.tests <= results'.successful /\ results'.successful <= results'.number_of_tests
        /\ results'.successful \in 0 .. Tests /\ deserved'.tests \in 0 .. Tests
    <3> HIDE DEF succeeds, good
    <3> QED BY <1>2, <2>1, <2>2
  <2>4. RunnerTypeOK'
    <3> HIDE DEF succeeds, good
    <3> QED BY <1>2, <1>3, <2>1, <2>3
  <2>5. TotalsOK' /\ SignalsOK' /\ SubprocessOK'
    <3> HIDE DEF succeeds, good
    <3> QED BY <1>2, <2>1, <2>3
  <2> QED BY <2>4, <2>5
<1>4. CASE runner.config # Configs
  <2>1. /\ runner' = [runner EXCEPT !.at = "fork", !.config = @ + 1]
        /\ result' = (result /\ Succeeded) /\ UNCHANGED results
        /\ deserved' = [deserved EXCEPT !.soFar =
             deserved.soFar /\ subprocess.does \in {"passes", "skipped"} /\ subprocess.inTime]
    BY <1>4, Zenon DEF CountResult
  <2>2. RunnerTypeOK'
    <3>1. result' \in BOOLEAN /\ deserved' \in [soFar : BOOLEAN, tests : 0 .. Tests]
      BY <2>1 DEF Succeeded
    <3>2. runner'.config \in 1 .. Configs
      BY <1>2, <1>4, <2>1
    <3> QED BY <1>2, <2>1, <3>1, <3>2
  <2>3. TotalsOK' /\ SignalsOK' /\ SubprocessOK'
    BY <1>1, <1>2, <2>1 DEF Succeeded
  <2> QED BY <2>2, <2>3
<1> QED BY <1>3, <1>4

(* The alarm rings or the test ends by itself.                             *)
LEMMA OutsideInv ==
  ASSUME RunnerInv, ~ LateAlarm, AlarmExpires \/ TestEnds
  PROVE  RunnerInv'
<1> USE RunnerAssumption DEF RunnerInv, RunnerTypeOK, SignalsOK, SubprocessOK, TotalsOK, Behaviours
<1>1. CASE AlarmExpires
  BY <1>1 DEF AlarmExpires, Unblocked
<1>2. CASE TestEnds
  BY <1>2 DEF TestEnds
<1> QED BY <1>1, <1>2

(* Every step keeps the inductive invariant.                               *)
LEMMA RunnerInvStep ==
  ASSUME RunnerInv, ~ LateAlarm, [RunnerMove]_runnerVars
  PROVE  RunnerInv'
<1>1. CASE UNCHANGED runnerVars
  BY <1>1 DEF runnerVars, RunnerInv, RunnerTypeOK, SignalsOK, SubprocessOK, TotalsOK
<1>2. CASE RunnerMove
  BY <1>2, HarnessInv, CountResultInv, OutsideInv DEF RunnerMove, RunnerNext, Harness
<1> QED BY <1>1, <1>2

(* The verdict of the test framework is sound for any number of tests and  *)
(* configurations, provided that the time does not run out between sigwait *)
(* and alarm(0).                                                           *)
THEOREM VerdictsSound ==
  ASSUME ~ LateAlarm
  PROVE  Spec => []VerdictSound
<1>1. Init => RunnerInv
  BY RunnerInvInit DEF Init
<1>2. RunnerInv /\ [Next]_vars => RunnerInv'
  BY RunnerInvStep, PartsMove
<1> QED BY <1>1, <1>2, RunnerInvSound, PTL DEF Spec

-----------------------------------------------------------------------------
(* The exceptions.                                                         *)

Bit(b) == IF b THEN 1 ELSE 0

(* s[k] is the number of finalizers that the k outermost frames of stack c *)
(* have left.                                                              *)
Sums(c, s) ==
  /\ s \in [0 .. MaxFrames -> Nat] /\ s[0] = 0
  /\ \A k \in 1 .. Len(c) : s[k] = s[k - 1] + c[k].finalizers /\ s[k] <= k * MaxHandlers

(* A frame outside its body has captured its exception if and only if it   *)
(* has one that a catcher has handled; at the regular end of a block there *)
(* is none and there are no catchers.                                      *)
FrameOK(f) ==
  /\ f \in Frame
  /\ f.at = "body" => f.errcode = 0 /\ ~ f.captured /\ ~ f.raised
  /\ f.at # "body" => (f.captured <=> f.errcode = 1 /\ ~ f.raised)
  /\ f.errcode = 0 => ~ f.raised
  /\ f.at # "body" /\ f.errcode = 0 => f.catchers = 0

RaisedIn(c) == {k \in 1 .. Len(c) : c[k].raised}

(* A stack of frames, with the finalizers it owes and the exceptions that  *)
(* are pending in it.                                                      *)
StackOK(c, o, p) ==
  /\ c \in Seq(Frame) /\ Len(c) <= MaxFrames
  /\ \A k \in 1 .. Len(c) : FrameOK(c[k]) /\ (c[k].at = "unwind" => k = Len(c))
  /\ p = Cardinality(RaisedIn(c))
  /\ \E s : Sums(c, s) /\ o = s[Len(c)]

ExceptionInv == StackOK(context, owed, unsettled)

(* Multiplication by a natural number is monotone.                         *)
LEMMA Monotone ==
  ASSUME NEW a \in Nat, NEW b \in Nat, NEW c \in Nat, a <= b
  PROVE  a * c \in Nat /\ b * c \in Nat /\ a * c <= b * c
<1>1. b * c = a * c + (b - a) * c /\ (b - a) * c >= 0 /\ a * c >= 0 /\ a * c \in Int /\ (b - a) * c \in Int
  OBVIOUS
<1> QED BY <1>1

(* The next multiple.                                                      *)
LEMMA NextMultiple ==
  ASSUME NEW a \in Nat, NEW c \in Nat
  PROVE  (a + 1) * c = a * c + c
OBVIOUS

(* The frames with a pending exception are finitely many, and the          *)
(* outermost ones and the top can be counted apart.                        *)
LEMMA RaisedCount ==
  ASSUME NEW c \in Seq(Frame)
  PROVE  /\ IsFiniteSet(RaisedIn(c)) /\ Cardinality(RaisedIn(c)) \in 0 .. Len(c)
         /\ Len(c) > 0 => Cardinality(RaisedIn(c)) = Cardinality(RaisedIn(c) \ {Len(c)}) + Bit(c[Len(c)].raised)
<1>1. Len(c) \in Nat /\ RaisedIn(c) \in SUBSET (1 .. Len(c))
  BY DEF RaisedIn
<1>2. IsFiniteSet(1 .. Len(c)) /\ Cardinality(1 .. Len(c)) = Len(c)
  <2>1. Len(c) \in Int /\ 1 \in Int
    BY <1>1
  <2>2. IsFiniteSet(1 .. Len(c)) /\ Cardinality(1 .. Len(c)) = IF 1 > Len(c) THEN 0 ELSE Len(c) - 1 + 1
    BY <2>1, FS_Interval
  <2> QED BY <1>1, <2>2
<1>3. IsFiniteSet(RaisedIn(c)) /\ Cardinality(RaisedIn(c)) <= Len(c) /\ Cardinality(RaisedIn(c)) \in Nat
  BY <1>1, <1>2, FS_Subset, FS_CardinalityType
<1>4. Cardinality(RaisedIn(c) \ {Len(c)})
        = IF Len(c) \in RaisedIn(c) THEN Cardinality(RaisedIn(c)) - 1 ELSE Cardinality(RaisedIn(c))
  BY <1>3, FS_RemoveElement
<1>5. ASSUME Len(c) > 0 PROVE Len(c) \in RaisedIn(c) <=> c[Len(c)].raised
  BY <1>1, <1>5 DEF RaisedIn
<1> QED BY <1>1, <1>3, <1>4, <1>5 DEF Bit

(* The inductive invariant implies the property the run checks.            *)
LEMMA ExceptionInvSound == ExceptionInv => ExceptionInvariant
<1> SUFFICES ASSUME ExceptionInv PROVE ExceptionInvariant
  OBVIOUS
<1> USE ExceptionAssumption DEF Depth
<1>1. PICK s : Sums(context, s) /\ owed = s[Depth]
  BY DEF ExceptionInv, StackOK
<1>2. Depth \in Nat /\ Depth <= MaxFrames /\ context \in Seq(Frame)
  BY DEF ExceptionInv, StackOK
<1>3. owed \in Nat /\ owed <= Depth * MaxHandlers /\ (Depth = 0 => owed = 0)
  BY <1>1, <1>2 DEF Sums
<1>4. owed \in 0 .. MaxFrames * MaxHandlers
  <2>1. Depth * MaxHandlers \in Nat /\ MaxFrames * MaxHandlers \in Nat /\ Depth * MaxHandlers <= MaxFrames * MaxHandlers
    BY <1>2, Monotone
  <2> QED BY <1>3, <2>1
<1>5. unsettled = Cardinality(Unhandled) /\ unsettled \in 0 .. MaxFrames
  <2>1. Unhandled = RaisedIn(context)
    BY DEF Unhandled, RaisedIn
  <2>2. Cardinality(RaisedIn(context)) \in 0 .. Len(context)
    BY <1>2, RaisedCount
  <2> QED BY <1>2, <2>1, <2>2 DEF ExceptionInv, StackOK
<1>6. ASSUME NEW k \in 1 .. Depth
      PROVE  /\ context[k] \in Frame /\ (context[k].at = "unwind" => k = Depth)
             /\ IF context[k].at = "body" THEN ~ context[k].raised
                ELSE context[k].captured = (context[k].errcode = 1 /\ ~ context[k].raised)
  <2>1. FrameOK(context[k]) /\ (context[k].at = "unwind" => k = Depth)
    BY DEF ExceptionInv, StackOK
  <2> QED BY <2>1, Zenon DEF FrameOK, Frame
<1>7. ExceptionTypeOK
  BY <1>2, <1>4, <1>5, <1>6 DEF ExceptionTypeOK
<1> QED BY <1>3, <1>5, <1>6, <1>7 DEF ExceptionInvariant

(* The inductive invariant holds initially.                                *)
LEMMA ExceptionInvInit == ExceptionInit => ExceptionInv
<1> SUFFICES ASSUME ExceptionInit PROVE ExceptionInv
  OBVIOUS
<1> USE ExceptionAssumption DEF ExceptionInit
<1>1. context \in Seq(Frame) /\ Len(context) = 0
  OBVIOUS
<1>2. Sums(context, [k \in 0 .. MaxFrames |-> 0])
  BY <1>1 DEF Sums
<1>3. \E s : Sums(context, s) /\ owed = s[Len(context)]
  BY <1>1, <1>2
<1>4. RaisedIn(context) = {}
  BY <1>1 DEF RaisedIn
<1>5. unsettled = Cardinality(RaisedIn(context))
  BY <1>4, FS_EmptySet
<1> QED BY <1>1, <1>3, <1>5 DEF ExceptionInv, StackOK

(* A change of the top frame changes the last sum, and the exceptions by   *)
(* that of the top.                                                        *)
LEMMA StackTop ==
  ASSUME NEW c, NEW o, NEW p, StackOK(c, o, p), Len(c) > 0, NEW f, FrameOK(f)
  PROVE  StackOK([c EXCEPT ![Len(c)] = f], o + (f.finalizers - c[Len(c)].finalizers),
                 p + (Bit(f.raised) - Bit(c[Len(c)].raised)))
<1> USE ExceptionAssumption
<1> DEFINE e == [c EXCEPT ![Len(c)] = f]
<1>1. c \in Seq(Frame) /\ Len(c) \in Nat /\ Len(c) \in 1 .. MaxFrames /\ f \in Frame
  BY DEF StackOK, FrameOK
<1>2. PICK d \in Nat : d = Len(c) /\ d \in 1 .. MaxFrames
  BY <1>1
<1>3. e \in Seq(Frame) /\ Len(e) = d /\ \A k \in 1 .. d : e[k] = IF k = d THEN f ELSE c[k]
  BY <1>1, <1>2, ExceptSeq
<1> HIDE DEF e
<1>4. e[d] = f /\ \A k \in 1 .. d - 1 : e[k] = c[k]
  BY <1>2, <1>3
<1>5. PICK s : Sums(c, s) /\ o = s[d]
  BY <1>2 DEF StackOK
<1> DEFINE r == [s EXCEPT ![d] = s[d - 1] + f.finalizers]
<1>6. /\ s \in [0 .. MaxFrames -> Nat] /\ s[0] = 0
      /\ \A k \in 1 .. d : s[k] = s[k - 1] + c[k].finalizers /\ s[k] <= k * MaxHandlers
  BY <1>2, <1>5 DEF Sums
<1>7. f.finalizers \in 0 .. MaxHandlers /\ c[d].finalizers \in 0 .. MaxHandlers
  <2>1. c[d] \in Frame
    BY <1>1, <1>2
  <2> QED BY <1>1, <2>1 DEF Frame
<1>8. s[d - 1] + f.finalizers \in Nat /\ s[d - 1] + f.finalizers <= d * MaxHandlers
  <2>1. (d - 1) * MaxHandlers \in Nat /\ d * MaxHandlers = (d - 1) * MaxHandlers + MaxHandlers
    BY <1>2, Monotone, NextMultiple
  <2>2. s[d - 1] \in Nat /\ s[d - 1] <= (d - 1) * MaxHandlers
    <3>1. CASE d = 1
      BY <1>6, <2>1, <3>1
    <3>2. CASE d # 1
      <4>1. d - 1 \in 1 .. d /\ d - 1 \in 0 .. MaxFrames
        BY <1>2, <3>2
      <4> QED BY <1>6, <4>1
    <3> QED BY <3>1, <3>2
  <2> QED BY <1>7, <2>1, <2>2
<1>9. /\ r \in [0 .. MaxFrames -> Nat] /\ r[0] = 0 /\ r[d] = s[d - 1] + f.finalizers
      /\ \A k \in 0 .. d - 1 : r[k] = s[k]
  BY <1>2, <1>6, <1>8
<1> HIDE DEF r
<1>10. \A k \in 1 .. d : r[k] = r[k - 1] + e[k].finalizers /\ r[k] <= k * MaxHandlers
  <2>1. ASSUME NEW k \in 1 .. d PROVE r[k] = r[k - 1] + e[k].finalizers /\ r[k] <= k * MaxHandlers
    <3>1. k - 1 \in 0 .. d - 1 /\ k \in Nat
      BY <1>2
    <3>2. CASE k = d
      BY <1>2, <1>4, <1>8, <1>9, <3>1, <3>2
    <3>3. CASE k # d
      <4>1. k \in 0 .. d - 1 /\ k \in 1 .. d - 1
        BY <1>2, <3>3
      <4>2. r[k] = s[k] /\ r[k - 1] = s[k - 1] /\ e[k] = c[k]
        BY <1>4, <1>9, <3>1, <4>1
      <4> QED BY <1>6, <4>2
    <3> QED BY <3>2, <3>3
  <2> QED BY <2>1
<1>11. Sums(e, r)
  BY <1>3, <1>9, <1>10 DEF Sums
<1>12. o + (f.finalizers - c[d].finalizers) = r[d]
  <2>1. s[d - 1] \in Nat /\ s[d] = s[d - 1] + c[d].finalizers /\ o = s[d]
    BY <1>2, <1>5, <1>6
  <2> QED BY <1>7, <1>9, <2>1
<1>13. p + (Bit(f.raised) - Bit(c[d].raised)) = Cardinality(RaisedIn(e))
  <2>1. RaisedIn(e) \ {d} = RaisedIn(c) \ {d}
    BY <1>2, <1>3 DEF RaisedIn
  <2>2. Cardinality(RaisedIn(e)) = Cardinality(RaisedIn(e) \ {d}) + Bit(f.raised)
    BY <1>2, <1>3, <1>4, RaisedCount
  <2>3. p = Cardinality(RaisedIn(c) \ {d}) + Bit(c[d].raised)
    BY <1>1, <1>2, RaisedCount DEF StackOK
  <2>4. Cardinality(RaisedIn(c) \ {d}) \in Nat
    <3>1. IsFiniteSet(RaisedIn(c) \ {d})
      BY <1>1, RaisedCount, FS_RemoveElement
    <3> QED BY <3>1, FS_CardinalityType
  <2>5. Bit(f.raised) \in Nat /\ Bit(c[d].raised) \in Nat
    BY DEF Bit
  <2>6. PICK n \in Nat : n = Cardinality(RaisedIn(c) \ {d})
    BY <2>4
  <2>7. PICK i \in Nat, j \in Nat : i = Bit(f.raised) /\ j = Bit(c[d].raised)
    BY <2>5
  <2>8. Cardinality(RaisedIn(e)) = n + i /\ p = n + j
    BY <2>1, <2>2, <2>3, <2>6, <2>7
  <2>9. p + (i - j) = n + i
    BY <2>8
  <2> QED BY <2>7, <2>8, <2>9
<1>14. \A k \in 1 .. d : FrameOK(e[k]) /\ (e[k].at = "unwind" => k = d)
  <2>1. ASSUME NEW k \in 1 .. d PROVE FrameOK(e[k]) /\ (e[k].at = "unwind" => k = d)
    <3>1. k # d => e[k] = c[k] /\ FrameOK(c[k]) /\ (c[k].at = "unwind" => k = d)
      BY <1>2, <1>3 DEF StackOK
    <3> QED BY <1>4, <3>1
  <2> QED BY <2>1
<1> QED BY <1>1, <1>2, <1>3, <1>11, <1>12, <1>13, <1>14 DEF StackOK, e

(* A block is entered in a stack of which no frame is being unwound.       *)
LEMMA StackPush ==
  ASSUME NEW c, NEW o, NEW p, StackOK(c, o, p), Len(c) < MaxFrames, Len(c) > 0 => Running(c[Len(c)])
  PROVE  StackOK(Append(c, NewFrame), o, p)
<1> USE ExceptionAssumption
<1> DEFINE e == Append(c, NewFrame)
<1>1. PICK d \in Nat : d = Len(c) /\ d < MaxFrames
  BY DEF StackOK
<1>2. NewFrame \in Frame /\ FrameOK(NewFrame) /\ ~ NewFrame.raised /\ NewFrame.finalizers = 0 /\ NewFrame.at = "body"
  BY DEF NewFrame, Frame, FrameOK
<1>3. c \in Seq(Frame)
  BY DEF StackOK
<1>4. /\ e \in Seq(Frame) /\ Len(e) = d + 1 /\ e[d + 1] = NewFrame
      /\ \A k \in 1 .. d : e[k] = c[k]
  BY <1>1, <1>2, <1>3
<1> HIDE DEF e
<1>5. PICK s : Sums(c, s) /\ o = s[d]
  BY <1>1 DEF StackOK
<1> DEFINE r == [s EXCEPT ![d + 1] = s[d]]
<1>6. /\ s \in [0 .. MaxFrames -> Nat] /\ s[0] = 0
      /\ \A k \in 1 .. d : s[k] = s[k - 1] + c[k].finalizers /\ s[k] <= k * MaxHandlers
  BY <1>1, <1>5 DEF Sums
<1>7. r \in [0 .. MaxFrames -> Nat] /\ r[0] = 0 /\ r[d + 1] = s[d] /\ \A k \in 0 .. d : r[k] = s[k]
  BY <1>1, <1>6
<1> HIDE DEF r
<1>8. s[d] \in Nat /\ s[d] <= (d + 1) * MaxHandlers
  <2>1. d * MaxHandlers \in Nat /\ d * MaxHandlers <= (d + 1) * MaxHandlers /\ (d + 1) * MaxHandlers \in Nat
    BY <1>1, Monotone
  <2>2. s[d] \in Nat /\ s[d] <= d * MaxHandlers
    BY <1>1, <1>6, <2>1
  <2> QED BY <2>1, <2>2
<1>9. ASSUME NEW k \in 1 .. d + 1 PROVE r[k] = r[k - 1] + e[k].finalizers /\ r[k] <= k * MaxHandlers
  <2>1. CASE k = d + 1
    BY <1>2, <1>4, <1>7, <1>8, <2>1
  <2>2. CASE k # d + 1
    <3>1. k \in 1 .. d /\ k \in 0 .. d /\ k - 1 \in 0 .. d
      BY <2>2
    <3> QED BY <1>4, <1>6, <1>7, <3>1
  <2> QED BY <2>1, <2>2
<1>10. Sums(e, r) /\ o = r[d + 1]
  BY <1>4, <1>5, <1>7, <1>9 DEF Sums
<1>11. p = Cardinality(RaisedIn(e))
  <2>1. ASSUME NEW k \in 1 .. d + 1 PROVE e[k].raised <=> k \in 1 .. d /\ c[k].raised
    <3>1. CASE k = d + 1
      BY <1>1, <1>2, <1>4, <3>1
    <3>2. CASE k # d + 1
      BY <1>1, <1>4, <3>2
    <3> QED BY <3>1, <3>2
  <2>2. RaisedIn(e) = RaisedIn(c)
    BY <1>1, <1>4, <2>1 DEF RaisedIn
  <2> QED BY <2>2 DEF StackOK
<1>12. ASSUME NEW k \in 1 .. d + 1 PROVE FrameOK(e[k]) /\ (e[k].at = "unwind" => k = d + 1)
  <2>1. CASE k = d + 1
    BY <1>2, <1>4, <2>1
  <2>2. CASE k # d + 1
    <3>1. k \in 1 .. d /\ e[k] = c[k] /\ FrameOK(c[k]) /\ (c[k].at = "unwind" => k = d) /\ (k = d => Running(c[k]))
      BY <1>1, <1>4, <2>2 DEF StackOK
    <3> QED BY <3>1 DEF Running
  <2> QED BY <2>1, <2>2
<1> QED BY <1>1, <1>4, <1>10, <1>11, <1>12 DEF StackOK, e

(* A frame that is left has no finalizer to run, and takes its exception   *)
(* along.                                                                  *)
LEMMA StackPop ==
  ASSUME NEW c, NEW o, NEW p, StackOK(c, o, p), Len(c) > 0, HandlersDone(c[Len(c)])
  PROVE  /\ StackOK(SubSeq(c, 1, Len(c) - 1), o, p - Bit(c[Len(c)].raised))
         /\ Len(SubSeq(c, 1, Len(c) - 1)) = Len(c) - 1
         /\ \A k \in 1 .. Len(c) - 1 : SubSeq(c, 1, Len(c) - 1)[k] = c[k] /\ Running(c[k])
<1> USE ExceptionAssumption
<1> DEFINE e == SubSeq(c, 1, Len(c) - 1)
<1>1. PICK d \in Nat : d = Len(c) /\ d \in 1 .. MaxFrames
  BY DEF StackOK
<1>2. c \in Seq(Frame)
  BY DEF StackOK
<1>3. e \in Seq(Frame) /\ Len(e) = d - 1 /\ \A k \in 1 .. d - 1 : e[k] = c[k]
  BY <1>1, <1>2
<1> HIDE DEF e
<1>4. PICK s : Sums(c, s) /\ o = s[d]
  BY <1>1 DEF StackOK
<1>5. Sums(e, s) /\ o = s[d - 1]
  <2>1. c[d].finalizers = 0
    BY <1>1 DEF HandlersDone
  <2>2. /\ s \in [0 .. MaxFrames -> Nat] /\ s[0] = 0
        /\ \A k \in 1 .. d : s[k] = s[k - 1] + c[k].finalizers /\ s[k] <= k * MaxHandlers
    BY <1>1, <1>4 DEF Sums
  <2>3. s[d] = s[d - 1] + 0 /\ s[d - 1] \in Nat
    BY <1>1, <2>1, <2>2
  <2>4. \A k \in 1 .. Len(e) : s[k] = s[k - 1] + e[k].finalizers /\ s[k] <= k * MaxHandlers
    <3>1. ASSUME NEW k \in 1 .. d - 1 PROVE k \in 1 .. d /\ e[k] = c[k]
      BY <1>1, <1>3
    <3> QED BY <1>3, <2>2, <3>1
  <2> QED BY <1>4, <2>2, <2>3, <2>4 DEF Sums
<1>6. p - Bit(c[d].raised) = Cardinality(RaisedIn(e))
  <2>1. RaisedIn(e) = RaisedIn(c) \ {d}
    BY <1>1, <1>3 DEF RaisedIn
  <2>2. p = Cardinality(RaisedIn(c) \ {d}) + Bit(c[d].raised)
    BY <1>1, <1>2, RaisedCount DEF StackOK
  <2>3. Cardinality(RaisedIn(e)) \in Nat
    <3>1. IsFiniteSet(RaisedIn(e))
      BY <1>3, RaisedCount
    <3> QED BY <3>1, FS_CardinalityType
  <2>4. Bit(c[d].raised) \in Nat
    BY DEF Bit
  <2> QED BY <2>1, <2>2, <2>3, <2>4
<1>7. ASSUME NEW k \in 1 .. d - 1 PROVE FrameOK(c[k]) /\ c[k].at # "unwind"
  <2>1. k \in 1 .. d /\ k # d
    BY <1>1
  <2> QED BY <1>1, <2>1 DEF StackOK
<1>8. StackOK(e, o, p - Bit(c[d].raised))
  BY <1>1, <1>3, <1>5, <1>6, <1>7 DEF StackOK
<1> QED BY <1>1, <1>3, <1>7, <1>8 DEF Running, e

(* A change of the top frame.                                              *)
LEMMA TopChanges ==
  ASSUME ExceptionInv, Depth > 0, NEW f, FrameOK(f), SetTop(f),
         owed' = owed + (f.finalizers - Top.finalizers), unsettled' = unsettled + (Bit(f.raised) - Bit(Top.raised))
  PROVE  ExceptionInv'
BY StackTop DEF ExceptionInv, Depth, Top, SetTop

(* An exception that comes to a frame leaves it well formed.               *)
LEMMA RaisedFrame ==
  ASSUME NEW f, FrameOK(f)
  PROVE  FrameOK(Raised(f)) /\ Raised(f).raised /\ Raised(f).finalizers = f.finalizers
<1>1. /\ Raised(f).at = "unwind" /\ Raised(f).errcode = 1 /\ Raised(f).captured = FALSE /\ Raised(f).raised = TRUE
      /\ Raised(f).finalizers = f.finalizers /\ Raised(f) \in Frame
  BY DEF FrameOK, Raised, Frame
<1> QED BY <1>1 DEF FrameOK

(* A handler is registered or runs, the block ends, or an exception is     *)
(* raised in it.                                                           *)
LEMMA HandlersInv ==
  ASSUME ExceptionInv,
         ON_ERROR \/ FINALLY \/ raise_exception \/ exc_exit_try \/ RunCatcher \/ RunFinalizer \/ HandlerReturns
  PROVE  ExceptionInv'
<1> USE ExceptionAssumption
<1>1. Depth > 0
  BY DEF ON_ERROR, FINALLY, raise_exception, exc_exit_try, RunCatcher, RunFinalizer, HandlerReturns
<1>2. /\ FrameOK(Top) /\ Top.catchers \in 0 .. MaxHandlers /\ Top.finalizers \in 0 .. MaxHandlers /\ Top.raised \in BOOLEAN
      /\ owed \in Nat /\ unsettled \in Nat
  <2>1. Depth \in 1 .. Len(context) /\ Depth = Len(context)
    BY <1>1 DEF ExceptionInv, StackOK, Depth
  <2>2. FrameOK(Top)
    BY <2>1 DEF ExceptionInv, StackOK, Top
  <2>3. owed \in Nat
    BY <2>1 DEF ExceptionInv, StackOK, Sums
  <2>4. unsettled \in Nat
    <3>1. IsFiniteSet(RaisedIn(context))
      BY RaisedCount DEF ExceptionInv, StackOK
    <3> QED BY <3>1, FS_CardinalityType DEF ExceptionInv, StackOK
  <2> QED BY <2>2, <2>3, <2>4 DEF FrameOK, Frame
<1>3. CASE ON_ERROR
  <2> DEFINE f == [Top EXCEPT !.catchers = @ + 1]
  <2>1. FrameOK(f) /\ f.finalizers = Top.finalizers /\ f.raised = Top.raised
    BY <1>2, <1>3, SMTT(30) DEF ON_ERROR, FrameOK, Frame
  <2>2. SetTop(f) /\ owed' = owed /\ unsettled' = unsettled
    BY <1>3 DEF ON_ERROR
  <2> HIDE DEF f
  <2>3. owed' = owed + (f.finalizers - Top.finalizers) /\ unsettled' = unsettled + (Bit(f.raised) - Bit(Top.raised))
    BY <1>2, <2>1, <2>2 DEF Bit
  <2> QED BY <1>1, <2>1, <2>2, <2>3, TopChanges
<1>4. CASE FINALLY
  <2> DEFINE f == [Top EXCEPT !.finalizers = @ + 1]
  <2>1. FrameOK(f) /\ f.finalizers = Top.finalizers + 1 /\ f.raised = Top.raised
    BY <1>2, <1>4, SMTT(30) DEF FINALLY, FrameOK, Frame
  <2>2. SetTop(f) /\ owed' = owed + 1 /\ unsettled' = unsettled
    BY <1>4 DEF FINALLY
  <2> HIDE DEF f
  <2>3. owed' = owed + (f.finalizers - Top.finalizers) /\ unsettled' = unsettled + (Bit(f.raised) - Bit(Top.raised))
    BY <1>2, <2>1, <2>2 DEF Bit
  <2> QED BY <1>1, <2>1, <2>2, <2>3, TopChanges
<1>5. CASE raise_exception
  <2> DEFINE f == Raised(Top)
  <2>1. FrameOK(f) /\ f.finalizers = Top.finalizers /\ f.raised
    BY <1>2, RaisedFrame
  <2>2. SetTop(f) /\ owed' = owed /\ unsettled' = IF Top.raised THEN unsettled ELSE unsettled + 1
    BY <1>5 DEF raise_exception
  <2> HIDE DEF f
  <2>3. owed' = owed + (f.finalizers - Top.finalizers) /\ unsettled' = unsettled + (Bit(f.raised) - Bit(Top.raised))
    BY <1>2, <2>1, <2>2 DEF Bit
  <2> QED BY <1>1, <2>1, <2>2, <2>3, TopChanges
<1>6. CASE exc_exit_try
  <2> DEFINE f == [WithoutCatchers(Top) EXCEPT !.at = "unwind"]
  <2>1. FrameOK(f) /\ f.finalizers = Top.finalizers /\ f.raised = Top.raised
    <3>1. /\ f.at = "unwind" /\ f.catchers = 0 /\ f.errcode = Top.errcode /\ f.captured = Top.captured
          /\ f.raised = Top.raised /\ f.finalizers = Top.finalizers /\ f \in Frame
      <4>1. /\ WithoutCatchers(Top) \in Frame /\ WithoutCatchers(Top).catchers = 0 /\ WithoutCatchers(Top).errcode = Top.errcode
            /\ WithoutCatchers(Top).captured = Top.captured /\ WithoutCatchers(Top).raised = Top.raised
            /\ WithoutCatchers(Top).finalizers = Top.finalizers
        BY <1>2 DEF FrameOK, Frame, WithoutCatchers
      <4> QED BY <4>1 DEF Frame
    <3>2. Top.errcode = 0 /\ ~ Top.captured /\ ~ Top.raised
      BY <1>2, <1>6 DEF exc_exit_try, FrameOK
    <3> QED BY <3>1, <3>2 DEF FrameOK
  <2>2. SetTop(f) /\ owed' = owed /\ unsettled' = unsettled
    BY <1>6 DEF exc_exit_try
  <2> HIDE DEF f
  <2>3. owed' = owed + (f.finalizers - Top.finalizers) /\ unsettled' = unsettled + (Bit(f.raised) - Bit(Top.raised))
    BY <1>2, <2>1, <2>2 DEF Bit
  <2> QED BY <1>1, <2>1, <2>2, <2>3, TopChanges
<1>7. CASE RunCatcher
  <2> DEFINE f == [Top EXCEPT !.at = "catcher", !.catchers = @ - 1, !.captured = TRUE, !.raised = FALSE]
  <2>1. FrameOK(f) /\ f.finalizers = Top.finalizers /\ ~ f.raised
    <3>1. Top.errcode = 1 /\ Top.catchers - 1 \in 0 .. MaxHandlers
      BY <1>2, <1>7 DEF RunCatcher, FrameOK, Frame
    <3>2. /\ f.at = "catcher" /\ f.errcode = Top.errcode /\ f.captured = TRUE
          /\ f.raised = FALSE /\ f.finalizers = Top.finalizers /\ f \in Frame
      BY <1>2, <3>1 DEF FrameOK, Frame
    <3> QED BY <3>1, <3>2 DEF FrameOK
  <2>2. SetTop(f) /\ owed' = owed /\ unsettled' = IF Top.raised THEN unsettled - 1 ELSE unsettled
    BY <1>7 DEF RunCatcher
  <2> HIDE DEF f
  <2>3. owed' = owed + (f.finalizers - Top.finalizers) /\ unsettled' = unsettled + (Bit(f.raised) - Bit(Top.raised))
    BY <1>2, <2>1, <2>2 DEF Bit
  <2> QED BY <1>1, <2>1, <2>2, <2>3, TopChanges
<1>8. CASE RunFinalizer
  <2> DEFINE f == [Top EXCEPT !.at = "finalizer", !.finalizers = @ - 1]
  <2>1. FrameOK(f) /\ f.finalizers = Top.finalizers - 1 /\ f.raised = Top.raised
    <3>1. Top.finalizers - 1 \in 0 .. MaxHandlers
      BY <1>2, <1>8 DEF RunFinalizer
    <3> QED BY <1>2, <1>8, <3>1 DEF RunFinalizer, FrameOK, Frame
  <2>2. SetTop(f) /\ owed' = owed - 1 /\ unsettled' = unsettled
    BY <1>8 DEF RunFinalizer
  <2> HIDE DEF f
  <2>3. owed' = owed + (f.finalizers - Top.finalizers) /\ unsettled' = unsettled + (Bit(f.raised) - Bit(Top.raised))
    BY <1>2, <2>1, <2>2 DEF Bit
  <2> QED BY <1>1, <2>1, <2>2, <2>3, TopChanges
<1>9. CASE HandlerReturns
  <2> DEFINE f == [Top EXCEPT !.at = "unwind"]
  <2>1. FrameOK(f) /\ f.finalizers = Top.finalizers /\ f.raised = Top.raised
    BY <1>2, <1>9 DEF HandlerReturns, FrameOK, Frame
  <2>2. SetTop(f) /\ owed' = owed /\ unsettled' = unsettled
    BY <1>9 DEF HandlerReturns
  <2> HIDE DEF f
  <2>3. owed' = owed + (f.finalizers - Top.finalizers) /\ unsettled' = unsettled + (Bit(f.raised) - Bit(Top.raised))
    BY <1>2, <2>1, <2>2 DEF Bit
  <2> QED BY <1>1, <2>1, <2>2, <2>3, TopChanges
<1> QED BY <1>3, <1>4, <1>5, <1>6, <1>7, <1>8, <1>9

(* A frame is left; what it has not captured goes on outside.              *)
LEMMA PopFrameInv ==
  ASSUME ExceptionInv, PopFrame
  PROVE  ExceptionInv'
<1> USE ExceptionAssumption
<1> DEFINE rest == SubSeq(context, 1, Depth - 1)
<1>1. Depth = Len(context) /\ Depth \in Nat /\ Depth > 0 /\ FrameOK(Top) /\ Top.at = "unwind" /\ unsettled \in Nat
  <2>1. Depth = Len(context) /\ Depth \in Nat /\ Depth > 0 /\ Depth \in 1 .. Len(context) /\ Top.at = "unwind"
    BY DEF ExceptionInv, StackOK, PopFrame, Depth
  <2>2. unsettled \in Nat
    <3>1. IsFiniteSet(RaisedIn(context))
      BY RaisedCount DEF ExceptionInv, StackOK
    <3> QED BY <3>1, FS_CardinalityType DEF ExceptionInv, StackOK
  <2> QED BY <2>1, <2>2 DEF ExceptionInv, StackOK, Top
<1>2. /\ StackOK(rest, owed, unsettled - Bit(Top.raised)) /\ Len(rest) = Depth - 1
      /\ \A k \in 1 .. Depth - 1 : rest[k] = context[k]
  BY <1>1, StackPop DEF ExceptionInv, PopFrame, Top
<1>3. Propagates(Top) <=> Top.raised
  BY <1>1 DEF Propagates, FrameOK, Frame
<1>4. /\ owed' = owed
      /\ context' = IF Top.raised /\ Depth > 1 THEN [rest EXCEPT ![Depth - 1] = Raised(rest[Depth - 1])] ELSE rest
      /\ unsettled' = IF Top.raised /\ (Depth > 1 => context[Depth - 1].raised) THEN unsettled - 1 ELSE unsettled
  BY <1>3 DEF PopFrame
<1> HIDE DEF rest
<1>5. CASE Top.raised /\ Depth > 1
  <2> DEFINE f == Raised(rest[Depth - 1])
  <2>1. Depth - 1 \in 1 .. Len(rest) /\ rest[Depth - 1] = context[Depth - 1]
    BY <1>1, <1>2, <1>5
  <2>2. FrameOK(rest[Depth - 1])
    BY <1>2, <2>1 DEF StackOK
  <2>3. FrameOK(f) /\ f.raised /\ f.finalizers = rest[Depth - 1].finalizers
    BY <2>2, RaisedFrame
  <2>4. rest[Depth - 1].finalizers \in Nat /\ owed \in Nat
    <3>1. rest[Depth - 1].finalizers \in Nat
      BY <2>2 DEF FrameOK, Frame
    <3>2. owed \in Nat
      BY <1>1 DEF ExceptionInv, StackOK, Sums
    <3> QED BY <3>1, <3>2
  <2> HIDE DEF f
  <2>5. StackOK([rest EXCEPT ![Len(rest)] = f], owed + (f.finalizers - rest[Len(rest)].finalizers),
                (unsettled - Bit(Top.raised)) + (Bit(f.raised) - Bit(rest[Len(rest)].raised)))
    <3>1. Len(rest) > 0
      BY <1>1, <1>2, <1>5
    <3> QED BY <1>2, <2>3, <3>1, StackTop
  <2>6. owed' = owed + (f.finalizers - rest[Len(rest)].finalizers)
    BY <1>2, <1>4, <2>3, <2>4
  <2>7. unsettled' = (unsettled - Bit(Top.raised)) + (Bit(f.raised) - Bit(rest[Len(rest)].raised))
    BY <1>1, <1>2, <1>4, <1>5, <2>1, <2>3 DEF Bit
  <2>8. context' = [rest EXCEPT ![Len(rest)] = f]
    BY <1>2, <1>4, <1>5 DEF f
  <2> QED BY <2>5, <2>6, <2>7, <2>8 DEF ExceptionInv
<1>6. CASE ~ (Top.raised /\ Depth > 1)
  <2>1. context' = rest /\ unsettled' = unsettled - Bit(Top.raised)
    BY <1>1, <1>4, <1>6 DEF Bit
  <2> QED BY <1>2, <1>4, <2>1 DEF ExceptionInv
<1> QED BY <1>5, <1>6

(* Every step keeps the inductive invariant.                               *)
LEMMA ExceptionInvStep ==
  ASSUME ExceptionInv, [ExceptionNext]_exceptionVars
  PROVE  ExceptionInv'
<1>1. CASE UNCHANGED exceptionVars
  BY <1>1 DEF exceptionVars, ExceptionInv
<1>2. CASE TRY_WITH
  <2>1. StackOK(Append(context, NewFrame), owed, unsettled)
    BY <1>2, StackPush DEF ExceptionInv, TRY_WITH, Depth, Top
  <2> QED BY <1>2, <2>1 DEF ExceptionInv, TRY_WITH
<1>3. CASE ON_ERROR \/ FINALLY \/ raise_exception \/ exc_exit_try \/ RunCatcher \/ RunFinalizer \/ HandlerReturns
  BY <1>3, HandlersInv
<1> QED BY <1>1, <1>2, <1>3, PopFrameInv DEF ExceptionNext, exception_unwind

(* Exceptions unwind correctly for frames nested to any depth with any     *)
(* number of handlers, whichever of them raise exceptions themselves or    *)
(* use blocks of their own: no exception is lost or handled twice on its   *)
(* way out through the frames, the body of a block runs only when none is  *)
(* pending in it, and no finalizer is left out.                            *)
THEOREM ExceptionsSafe == Spec => []ExceptionInvariant
<1>1. Init => ExceptionInv
  BY ExceptionInvInit DEF Init
<1>2. ExceptionInv /\ [Next]_vars => ExceptionInv'
  BY ExceptionInvStep, PartsMove
<1> QED BY <1>1, <1>2, ExceptionInvSound, PTL DEF Spec

-----------------------------------------------------------------------------
(* The remote server.                                                      *)

Served == {c \in Clients : served[c] \notin {"none", "gone"}}

(* The client has got no connection, so there is no thread for it.         *)
Unconnected(c) == client[c] \in {"idle", "connecting", "dropped", "refused"}

(* Until two updates overlap, each stores what it has loaded plus or minus *)
(* one without another store in between.                                   *)
CountOK ==
  /\ ~ overlapped =>
       /\ active_conn = Cardinality(Served)
       /\ listener.at = "count" => listener.loaded = active_conn
       /\ \A c \in Clients : served[c] = "ending" => loaded = active_conn
  /\ \A c, d \in Clients : served[c] = "ending" /\ served[d] = "ending" => c = d

(* Where the listener and the console are says who is left.                *)
ConsoleOK ==
  /\ listener.conn # "none" <=> listener.at = "count"
  /\ listener.conn # "none" => served[listener.conn] = "none"
  /\ console = "off" <=> listener.at = "off"
  /\ console \in {"wait", "truncate", "returned"} => listener.at = "ended"
  /\ ~ overlapped /\ console \in {"truncate", "returned"} => Served = {}

(* A connection from Accept to the end of its thread; who holds its        *)
(* socket.                                                                 *)
ConnectionOK(c) ==
  /\ Unconnected(c) <=> served[c] = "none" /\ listener.conn # c
  /\ command[c] # "none" => served[c] \in {"executed", "wait", "finish", "ending", "gone"}
  /\ served[c] \in {"executed", "wait"} => command[c] # "none"
  /\ "server" \in holds[c] <=> KeepsSocket(c)
  /\ c \in holds[c] <=> command[c] = "running"
  /\ \A d \in Clients : d \in holds[c] => command[d] = "running"
  /\ client[c] = "done" => command[c] \in {"failed", "exited", "reaped"}

ConnectionsOK == \A c \in Clients : ConnectionOK(c)

ServerInv == ServerTypeOK /\ CountOK /\ ConsoleOK /\ ConnectionsOK

(* The types, apart from each other.                                       *)
ListenerPlace == {"off", "start", "listens", "accept", "accepting", "count", "ended"}
Listener   == [at : ListenerPlace, conn : Clients \cup {"none"}, loaded : Int]
Serving    == {"none", "started", "request", "executed", "wait", "finish", "ending", "gone"}
ClientPlace == {"idle", "connecting", "dropped", "refused", "sending", "reading", "aborted", "done"}
CommandPlace == {"none", "failed", "running", "exited", "reaped"}
ConsolePlace == {"off", "prompt", "quit", "join", "wait", "truncate", "returned", "left"}
Holding    == [Clients \cup {"listener"} -> SUBSET Holders]

ServerTypes ==
  /\ console \in ConsolePlace /\ listener \in Listener /\ quit \in BOOLEAN /\ listenerSocket \in BOOLEAN
  /\ overlapped \in BOOLEAN
  /\ active_conn \in Int /\ log \in Nat /\ served \in [Clients -> Serving] /\ loaded \in Int
  /\ command \in [Clients -> CommandPlace] /\ client \in [Clients -> ClientPlace] /\ holds \in Holding

(* The type invariant and its expanded form say the same.                  *)
LEMMA SameTypes == (ServerTypeOK <=> ServerTypes) /\ (ServerTypeOK' <=> ServerTypes')
BY Zenon DEF ServerTypeOK, ServerTypes, ConsolePlace, Listener, ListenerPlace, Serving, CommandPlace, ClientPlace,
             Holding

(* The inductive invariant implies the property the run checks.            *)
LEMMA ServerInvSound == ServerInv => ServerInvariant
<1> SUFFICES ASSUME ServerInv PROVE ServerInvariant
  OBVIOUS
<1>1. ~ overlapped =>
        /\ active_conn = Cardinality({c \in Clients : served[c] \notin {"none", "gone"}})
        /\ console = "returned" => \A c \in Clients : served[c] \in {"none", "gone"}
  <2>1. ~ overlapped => active_conn = Cardinality(Served)
    BY DEF ServerInv, CountOK
  <2>2. ~ overlapped /\ console = "returned" => Served = {}
    BY DEF ServerInv, ConsoleOK
  <2> QED BY <2>1, <2>2 DEF Served
<1>2. console \in {"wait", "truncate", "returned"} => listener.at = "ended"
  BY DEF ServerInv, ConsoleOK
<1>3. ASSUME NEW c \in Clients
      PROVE  /\ "server" \in holds[c] <=> KeepsSocket(c)
             /\ c \in holds[c] <=> command[c] = "running"
             /\ \A d \in holds[c] \ {"server"} : command[d] = "running"
             /\ client[c] = "done" => command[c] \in {"failed", "exited", "reaped"}
  <2>1. ConnectionOK(c)
    BY DEF ServerInv, ConnectionsOK
  <2>2. \A d \in holds[c] \ {"server"} : d \in Clients
    BY SameTypes DEF ServerInv, ServerTypes, Holding, Holders
  <2> QED BY <2>1, <2>2 DEF ConnectionOK
<1> QED BY <1>1, <1>2, <1>3, Zenon DEF ServerInv, ServerInvariant

(* The inductive invariant holds initially.                                *)
LEMMA ServerInvInit == ServerInit => ServerInv
<1> SUFFICES ASSUME ServerInit PROVE ServerInv
  OBVIOUS
<1> USE DEF ServerInit
<1>1. Served = {}
  BY DEF Served
<1>2. ServerTypeOK
  <2>1. listener \in Listener
    BY DEF Listener, ListenerPlace
  <2>2. served \in [Clients -> Serving] /\ command \in [Clients -> CommandPlace] /\ client \in [Clients -> ClientPlace]
    BY DEF Serving, CommandPlace, ClientPlace
  <2>3. holds \in Holding
    BY DEF Holding
  <2>4. console \in ConsolePlace /\ active_conn \in Int /\ log \in Nat /\ loaded \in Int
    BY DEF ConsolePlace
  <2>5. quit \in BOOLEAN /\ listenerSocket \in BOOLEAN /\ overlapped \in BOOLEAN
    OBVIOUS
  <2> QED BY <2>1, <2>2, <2>3, <2>4, <2>5, SameTypes, Zenon DEF ServerTypes
<1>3. CountOK
  BY <1>1, FS_EmptySet DEF CountOK
<1>4. ConsoleOK
  BY <1>1 DEF ConsoleOK
<1>5. ConnectionsOK
  BY ServerAssumption DEF ConnectionsOK, ConnectionOK, Unconnected, KeepsSocket
<1> QED BY <1>2, <1>3, <1>4, <1>5 DEF ServerInv

(* The connections are as before when nothing about them has changed.      *)
LEMMA ConnectionsSame ==
  ASSUME ConnectionsOK, UNCHANGED <<served, command>>, listener'.conn = listener.conn,
         \A c \in Clients : holds'[c] = holds[c],
         \A c \in Clients : client'[c] = client[c]
                            \/ (Unconnected(c) /\ client'[c] \in {"idle", "connecting", "dropped", "refused"})
  PROVE  ConnectionsOK'
<1> SUFFICES ASSUME NEW c \in Clients PROVE ConnectionOK(c)'
  BY DEF ConnectionsOK
<1>1. ConnectionOK(c)
  BY DEF ConnectionsOK
<1>2. (Unconnected(c)' <=> Unconnected(c)) /\ (client'[c] = "done" => client[c] = "done")
  BY DEF Unconnected
<1>3. KeepsSocket(c)' <=> KeepsSocket(c)
  BY DEF KeepsSocket
<1> QED BY <1>1, <1>2, <1>3 DEF ConnectionOK

(* The listener moves, with no thread of a connection and no count.        *)
LEMMA ListenerInv ==
  ASSUME ServerInv, ServerStarts \/ ListenOnPort \/ PublishSocket \/ CallAccept
  PROVE  ServerInv'
<1>1. UNCHANGED <<served, active_conn, loaded, overlapped, client, command, log, quit>>
  BY DEF ServerStarts, ListenOnPort, PublishSocket, CallAccept
<1>2. listener \in Listener /\ console \in ConsolePlace /\ holds \in Holding /\ listenerSocket \in BOOLEAN
  BY SameTypes DEF ServerInv, ServerTypes
<1>3. /\ listener' \in Listener /\ listener'.at \notin {"count", "off"} /\ listener'.conn = listener.conn
      /\ listener.at \notin {"count", "ended"}
  BY <1>2 DEF Listener, ListenerPlace, ServerStarts, ListenOnPort, PublishSocket, CallAccept, ServerInv, ConsoleOK
<1>4. console' \in ConsolePlace /\ console' # "off" /\ console' \in {console, "prompt"}
  BY <1>2 DEF ConsolePlace, ServerStarts, ListenOnPort, PublishSocket, CallAccept, ServerInv, ConsoleOK
<1>5. holds' \in Holding /\ listenerSocket' \in BOOLEAN /\ \A c \in Clients : holds'[c] = holds[c]
  BY <1>2, ServerAssumption DEF ServerStarts, ListenOnPort, PublishSocket, CallAccept, Holding, Holders
<1>6. ServerTypeOK'
  BY <1>1, <1>3, <1>4, <1>5, SameTypes DEF ServerInv, ServerTypes
<1>7. CountOK' /\ ConsoleOK'
  BY <1>1, <1>3, <1>4 DEF ServerInv, CountOK, ConsoleOK, Served
<1>8. ConnectionsOK'
  <2>1. ConnectionsOK /\ UNCHANGED <<served, command>> /\ \A c \in Clients : client'[c] = client[c]
    BY <1>1 DEF ServerInv
  <2> QED BY <1>3, <1>5, <2>1, ConnectionsSame
<1> QED BY <1>6, <1>7, <1>8 DEF ServerInv

(* Accept fails: the listener ends or logs it and goes on.                 *)
LEMMA AcceptFailsInv ==
  ASSUME ServerInv, AcceptFails
  PROVE  ServerInv'
<1>1. UNCHANGED <<served, active_conn, loaded, overlapped, command, quit, console, listenerSocket, holds>>
  BY DEF AcceptFails
<1>2. listener \in Listener /\ client \in [Clients -> ClientPlace] /\ log \in Nat
  BY SameTypes DEF ServerInv, ServerTypes
<1>3. /\ listener' \in Listener /\ listener.at \in {"accept", "accepting"} /\ listener'.at \in {"accept", "ended"}
      /\ listener'.conn = listener.conn
  BY <1>2 DEF Listener, ListenerPlace, AcceptFails, NoConnection
<1>4. /\ client' \in [Clients -> ClientPlace]
      /\ \A c \in Clients : client'[c] = client[c] \/ (client[c] = "connecting" /\ client'[c] = "dropped")
  <2>1. CASE UNCHANGED client
    BY <1>2, <2>1
  <2>2. CASE \E c \in Clients : client[c] = "connecting" /\ client' = [client EXCEPT ![c] = "dropped"]
    BY <1>2, <2>2 DEF ClientPlace
  <2> QED BY <2>1, <2>2 DEF AcceptFails, NoConnection
<1>5. log' \in Nat
  BY <1>2 DEF AcceptFails, log_message
<1>6. ServerTypeOK'
  BY <1>1, <1>3, <1>4, <1>5, SameTypes DEF ServerInv, ServerTypes
<1>7. CountOK'
  BY <1>1, <1>3 DEF ServerInv, CountOK, Served
<1>8. ConnectionsOK'
  <2>1. \A c \in Clients : client'[c] = client[c]
                           \/ (Unconnected(c) /\ client'[c] \in {"idle", "connecting", "dropped", "refused"})
    BY <1>4 DEF Unconnected
  <2> QED BY <1>1, <1>3, <2>1, ConnectionsSame DEF ServerInv
<1>9. console \notin {"off", "wait", "truncate", "returned"} /\ listener.conn = "none"
  BY <1>3 DEF ServerInv, ConsoleOK
<1>10. ConsoleOK'
  BY <1>1, <1>3, <1>9 DEF ConsoleOK
<1> QED BY <1>6, <1>7, <1>8, <1>10 DEF ServerInv

(* The load of active_conn++.                                              *)
LEMMA AcceptConnectionInv ==
  ASSUME ServerInv, NEW c \in Clients, AcceptConnection(c)
  PROVE  ServerInv'
<1>1. /\ UNCHANGED <<served, active_conn, loaded, overlapped, command, quit, console, log, listenerSocket>>
      /\ listener' = [at |-> "count", conn |-> c, loaded |-> active_conn] /\ listener.at = "accepting"
      /\ client[c] = "connecting" /\ client' = [client EXCEPT ![c] = "sending"]
      /\ holds' = [holds EXCEPT ![c] = {"server"}]
  BY DEF AcceptConnection
<1>2. /\ listener \in Listener /\ client \in [Clients -> ClientPlace] /\ holds \in Holding /\ active_conn \in Int
      /\ served[c] = "none" /\ listener.conn = "none" /\ c # "none" /\ command[c] = "none"
      /\ \A d \in Clients : ConnectionOK(d)
  <2>1. ConnectionOK(c) /\ listener.conn = "none" /\ c # "none"
    BY <1>1, ServerAssumption DEF ServerInv, ConnectionsOK, ConsoleOK
  <2> QED BY <1>1, <2>1, SameTypes DEF ServerInv, ServerTypes, ConnectionsOK, ConnectionOK, Unconnected
<1>3. listener' \in Listener
  BY <1>1, <1>2 DEF Listener, ListenerPlace
<1>4. client' \in [Clients -> ClientPlace] /\ \A d \in Clients : d # c => client'[d] = client[d]
  BY <1>1, <1>2 DEF ClientPlace
<1>5. client'[c] = "sending"
  BY <1>1, <1>2
<1>6. holds' \in Holding /\ holds'[c] = {"server"} /\ \A d \in Clients : d # c => holds'[d] = holds[d]
  BY <1>1, <1>2, ServerAssumption DEF Holding, Holders
<1>7. ServerTypeOK'
  BY <1>1, <1>3, <1>4, <1>6, SameTypes DEF ServerInv, ServerTypes
<1>8. CountOK'
  BY <1>1 DEF ServerInv, CountOK, Served
<1>9. ConsoleOK'
  BY <1>1, <1>2 DEF ServerInv, ConsoleOK, Served
<1>10. ASSUME NEW d \in Clients PROVE ConnectionOK(d)'
  <2>1. CASE d = c
    BY <1>1, <1>2, <1>5, <1>6, <2>1, ServerAssumption DEF ConnectionOK, Unconnected, KeepsSocket
  <2>2. CASE d # c
    <3>1. ConnectionOK(d) /\ client'[d] = client[d] /\ holds'[d] = holds[d] /\ listener'.conn = c
      BY <1>1, <1>2, <1>4, <1>6, <2>2
    <3>2. (Unconnected(d)' <=> Unconnected(d)) /\ (KeepsSocket(d)' <=> KeepsSocket(d)) /\ listener.conn # d
      BY <1>1, <1>2, <2>2, <3>1, ServerAssumption DEF Unconnected, KeepsSocket
    <3> QED BY <1>1, <2>2, <3>1, <3>2 DEF ConnectionOK
  <2> QED BY <2>1, <2>2
<1> QED BY <1>7, <1>8, <1>9, <1>10 DEF ServerInv, ConnectionsOK

(* A client moves.  It sees the end of its output only when its command    *)
(* does not run any more.                                                  *)
LEMMA ClientInv ==
  ASSUME ServerInv, NEW c \in Clients, RemoteClient(c)
  PROVE  ServerInv'
<1> USE DEF RemoteClient, ConnectClient, ConnectFails, SendRequest, OutputEnds
<1>1. UNCHANGED <<served, active_conn, loaded, overlapped, quit, console, log, listener, listenerSocket, command, holds>>
  OBVIOUS
<1>2. client \in [Clients -> ClientPlace] /\ command \in [Clients -> CommandPlace] /\ served \in [Clients -> Serving]
  BY SameTypes DEF ServerInv, ServerTypes
<1>3. /\ client' \in [Clients -> ClientPlace] /\ \A d \in Clients : d # c => client'[d] = client[d]
      /\ Unconnected(c)' <=> Unconnected(c)
      /\ client'[c] = "done" => client[c] = "reading" /\ holds[c] = {}
  BY <1>2 DEF ClientPlace, Unconnected, send_message
<1>4. ServerTypeOK'
  BY <1>1, <1>3, SameTypes DEF ServerInv, ServerTypes
<1>5. CountOK' /\ ConsoleOK'
  BY <1>1 DEF ServerInv, CountOK, ConsoleOK, Served
<1>6. ConnectionOK(c) /\ \A d \in Clients : ConnectionOK(d)
  BY DEF ServerInv, ConnectionsOK
<1>7. client[c] = "reading" /\ holds[c] = {} => command[c] \in {"failed", "exited", "reaped"}
  <2>1. SUFFICES ASSUME client[c] = "reading", holds[c] = {} PROVE command[c] \in {"failed", "exited", "reaped"}
    OBVIOUS
  <2>2. ~ KeepsSocket(c) /\ command[c] # "running" /\ ~ Unconnected(c)
    BY <1>6, <2>1 DEF ConnectionOK, Unconnected
  <2>3. served[c] # "none" /\ command[c] # "none"
    BY <1>2, <1>6, <2>2 DEF ConnectionOK, KeepsSocket, Serving
  <2> QED BY <1>2, <2>2, <2>3 DEF CommandPlace
<1>8. ASSUME NEW d \in Clients PROVE ConnectionOK(d)'
  <2>1. (Unconnected(d)' <=> Unconnected(d)) /\ (client'[d] = "done" => command[d] \in {"failed", "exited", "reaped"})
    BY <1>3, <1>6, <1>7 DEF Unconnected, ConnectionOK
  <2>2. KeepsSocket(d)' <=> KeepsSocket(d)
    BY <1>1 DEF KeepsSocket
  <2> QED BY <1>1, <1>6, <2>1, <2>2 DEF ConnectionOK
<1> QED BY <1>4, <1>5, <1>8 DEF ServerInv, ConnectionsOK

(* The command of a connection ends, and lets go of what it holds.         *)
LEMMA CommandInv ==
  ASSUME ServerInv, NEW c \in Clients, rsrv_process(c)
  PROVE  ServerInv'
<1>1. /\ UNCHANGED <<served, active_conn, loaded, overlapped, quit, console, log, listener, listenerSocket, client>>
      /\ command[c] = "running" /\ command' = [command EXCEPT ![c] = "exited"]
      /\ holds' = [k \in DOMAIN holds |-> holds[k] \ {c}]
  BY DEF rsrv_process
<1>2. holds \in Holding /\ command \in [Clients -> CommandPlace] /\ "server" \notin Clients
  BY SameTypes, ServerAssumption DEF ServerInv, ServerTypes
<1>3. command' \in [Clients -> CommandPlace] /\ command'[c] = "exited" /\ \A d \in Clients : d # c => command'[d] = command[d]
  BY <1>1, <1>2 DEF CommandPlace
<1>4. holds' \in Holding /\ \A d \in Clients : holds'[d] = holds[d] \ {c}
  BY <1>1, <1>2 DEF Holding
<1>5. ServerTypeOK'
  BY <1>1, <1>3, <1>4, SameTypes DEF ServerInv, ServerTypes
<1>6. CountOK' /\ ConsoleOK'
  BY <1>1 DEF ServerInv, CountOK, ConsoleOK, Served
<1>7. ASSUME NEW d \in Clients PROVE ConnectionOK(d)'
  <2>1. ConnectionOK(d)
    BY DEF ServerInv, ConnectionsOK
  <2>2. (Unconnected(d)' <=> Unconnected(d)) /\ (command'[d] = "none" <=> command[d] = "none")
    BY <1>1, <1>3 DEF Unconnected
  <2>3. KeepsSocket(d)' <=> KeepsSocket(d)
    BY <1>1, <2>2 DEF KeepsSocket
  <2>4. /\ "server" \in holds'[d] <=> "server" \in holds[d]
        /\ \A e \in Clients : e \in holds'[d] <=> e \in holds[d] /\ e # c
    BY <1>2, <1>4
  <2>5. client'[d] = "done" => command'[d] \in {"failed", "exited", "reaped"}
    BY <1>1, <1>3, <2>1 DEF ConnectionOK
  <2>6. /\ d \in holds'[d] <=> command'[d] = "running"
        /\ \A e \in Clients : e \in holds'[d] => command'[e] = "running"
    BY <1>3, <2>1, <2>4 DEF ConnectionOK
  <2> QED BY <1>1, <2>1, <2>2, <2>3, <2>4, <2>5, <2>6 DEF ConnectionOK
<1> QED BY <1>5, <1>6, <1>7 DEF ServerInv, ConnectionsOK

(* Finitely many clients are served.                                       *)
LEMMA ServedFinite == IsFiniteSet(Served)
BY ServerAssumption, FS_Subset DEF Served

(* The console waits for the listener, and then for the count to be zero,  *)
(* or it leaves.                                                           *)
LEMMA ConsoleInv ==
  ASSUME ServerInv, ConsoleQuit \/ ConsoleEnds \/ QuitConsole
  PROVE  ServerInv'
<1> USE DEF ConsoleQuit, ConsoleEnds, QuitConsole, CloseListener, JoinListener, WaitConnections, log_truncate
<1>1. UNCHANGED <<served, active_conn, loaded, overlapped, client, command, listener, listenerSocket>>
  OBVIOUS
<1>2. console \in ConsolePlace /\ holds \in Holding /\ log \in Nat /\ quit \in BOOLEAN
  BY SameTypes DEF ServerInv, ServerTypes
<1>3. console' \in ConsolePlace /\ log' \in Nat /\ quit' \in BOOLEAN
  <2>1. console' \in ConsolePlace /\ log' \in Nat
    BY <1>2 DEF ConsolePlace
  <2>2. quit' = quit \/ quit' = TRUE
    OBVIOUS
  <2> QED BY <1>2, <2>1, <2>2, Zenon
<1>4. holds' \in Holding /\ \A c \in Clients : holds'[c] = holds[c]
  BY <1>2, ServerAssumption DEF Holding, Holders
<1>5. ServerTypeOK'
  BY <1>1, <1>3, <1>4, SameTypes DEF ServerInv, ServerTypes
<1>6. Served' = Served
  BY <1>1 DEF Served
<1>7. ~ overlapped /\ active_conn = 0 => Served = {}
  BY ServedFinite, FS_EmptySet DEF ServerInv, CountOK
<1>8. /\ console # "off" /\ console' # "off"
      /\ console' \in {"wait", "truncate", "returned"} => listener.at = "ended"
      /\ ~ overlapped /\ console' \in {"truncate", "returned"} => Served = {}
  BY <1>7 DEF ServerInv, ConsoleOK, ConnectionsDone
<1>9. CountOK'
  BY <1>1, <1>6 DEF ServerInv, CountOK
<1>10. ConsoleOK'
  BY <1>1, <1>6, <1>8 DEF ServerInv, ConsoleOK
<1>11. ConnectionsOK'
  <2>1. /\ ConnectionsOK /\ UNCHANGED <<served, command>> /\ listener'.conn = listener.conn
        /\ \A c \in Clients : client'[c] = client[c]
    BY <1>1 DEF ServerInv
  <2> QED BY <1>4, <2>1, ConnectionsSame
<1> QED BY <1>5, <1>9, <1>10, <1>11 DEF ServerInv

(* The store of active_conn++ and the new thread.                          *)
LEMMA StartServingInv ==
  ASSUME ServerInv, StartServing
  PROVE  ServerInv'
<1>1. PICK c \in Clients : c = listener.conn /\ served[c] = "none"
  BY SameTypes DEF ServerInv, ServerTypes, ConsoleOK, StartServing, Listener
<1>2. /\ served' = [served EXCEPT ![c] = "started"] /\ active_conn' = listener.loaded + 1
      /\ overlapped' = (overlapped \/ ~ MutexFree)
      /\ listener' = [listener EXCEPT !.at = "accept", !.conn = "none", !.loaded = 0] /\ listener.at = "count"
      /\ UNCHANGED <<console, quit, log, listenerSocket, loaded, command, client, holds>>
  BY <1>1 DEF StartServing
<1>3. /\ listener \in Listener /\ served \in [Clients -> Serving] /\ active_conn \in Int /\ overlapped \in BOOLEAN
      /\ c # "none"
  BY ServerAssumption, SameTypes DEF ServerInv, ServerTypes
<1>4. listener' \in Listener /\ listener'.at = "accept" /\ listener'.conn = "none"
  <2>1. listener' = [at |-> "accept", conn |-> "none", loaded |-> 0]
    BY <1>2, <1>3 DEF Listener
  <2> QED BY <2>1 DEF Listener, ListenerPlace
<1>5. served' \in [Clients -> Serving] /\ active_conn' \in Int /\ \A d \in Clients : d # c => served'[d] = served[d]
  BY <1>2, <1>3 DEF Serving, Listener
<1>6. served'[c] = "started" /\ overlapped' \in BOOLEAN
  <2>1. served'[c] = "started"
    BY <1>2, <1>3
  <2>2. overlapped' \in BOOLEAN
    BY <1>2, Zenon
  <2> QED BY <2>1, <2>2
<1>7. ServerTypeOK'
  BY <1>2, <1>4, <1>5, <1>6, SameTypes DEF ServerInv, ServerTypes
<1>8. Served' = Served \cup {c} /\ c \notin Served
  BY <1>1, <1>5, <1>6 DEF Served
<1>9. ASSUME ~ overlapped' PROVE active_conn' = Cardinality(Served') /\ \A d \in Clients : served'[d] # "ending"
  <2>1. ~ overlapped /\ MutexFree
    BY <1>2, <1>9, Zenon
  <2>2. active_conn = Cardinality(Served) /\ listener.loaded = active_conn
    BY <1>2, <2>1 DEF ServerInv, CountOK
  <2>3. Cardinality(Served') = Cardinality(Served) + 1
    BY <1>8, ServedFinite, FS_AddElement
  <2>4. \A d \in Clients : served'[d] # "ending"
    BY <1>5, <1>6, <2>1 DEF MutexFree
  <2> QED BY <1>2, <2>2, <2>3, <2>4
<1>10. \A d \in Clients : served'[d] = "ending" => served[d] = "ending"
  BY <1>5, <1>6
<1>11. CountOK'
  BY <1>4, <1>9, <1>10 DEF ServerInv, CountOK
<1>12. console \notin {"off", "wait", "truncate", "returned"}
  BY <1>2 DEF ServerInv, ConsoleOK
<1>13. ConsoleOK'
  BY <1>2, <1>4, <1>12 DEF ConsoleOK
<1>14. ASSUME NEW d \in Clients PROVE ConnectionOK(d)'
  <2>1. ConnectionOK(d)
    BY DEF ServerInv, ConnectionsOK
  <2>2. (Unconnected(d)' <=> Unconnected(d)) /\ d # "none"
    BY <1>2, ServerAssumption DEF Unconnected
  <2>3. CASE d = c
    <3>1. KeepsSocket(d)' /\ KeepsSocket(d)
      BY <1>1, <1>6, <2>3 DEF KeepsSocket
    <3> QED BY <1>1, <1>2, <1>4, <1>6, <2>1, <2>2, <2>3, <3>1 DEF ConnectionOK
  <2>4. CASE d # c
    <3>1. KeepsSocket(d)' <=> KeepsSocket(d)
      BY <1>1, <1>2, <1>4, <1>5, <2>2, <2>4 DEF KeepsSocket
    <3> QED BY <1>1, <1>2, <1>4, <1>5, <2>1, <2>2, <2>4, <3>1 DEF ConnectionOK
  <2> QED BY <2>3, <2>4
<1> QED BY <1>7, <1>11, <1>13, <1>14 DEF ServerInv, ConnectionsOK

(* What the thread of a connection does with its socket and its command is *)
(* in order.                                                               *)
LEMMA ThreadConnections ==
  ASSUME ServerInv, NEW c \in Clients,
         StartClientThread(c) \/ BadRequest(c) \/ ExecuteRequest(c) \/ CloseRequest(c) \/ ReapRequest(c)
  PROVE  ConnectionsOK'
<1> SUFFICES ASSUME NEW d \in Clients PROVE ConnectionOK(d)'
  BY DEF ConnectionsOK
<1>1. UNCHANGED <<client, listener>>
  BY DEF StartClientThread, BadRequest, ExecuteRequest, CloseRequest, ReapRequest
<1>2. ConnectionOK(c) /\ ConnectionOK(d)
  BY DEF ServerInv, ConnectionsOK
<1>3. /\ served \in [Clients -> Serving] /\ holds \in Holding /\ command \in [Clients -> CommandPlace]
      /\ "server" \notin Clients /\ "none" \notin Clients
  BY SameTypes, ServerAssumption DEF ServerInv, ServerTypes
<1>4. served[c] # "none" /\ listener.conn # c
  <2>1. served[c] # "none"
    BY DEF StartClientThread, BadRequest, ExecuteRequest, CloseRequest, ReapRequest
  <2>2. listener.conn # "none" => served[listener.conn] = "none"
    BY DEF ServerInv, ConsoleOK
  <2> QED BY <1>3, <2>1, <2>2
<1>5. Unconnected(d)' <=> Unconnected(d)
  BY <1>1 DEF Unconnected
<1>6. CASE StartClientThread(c) \/ BadRequest(c)
  <2>1. /\ UNCHANGED <<command, holds>> /\ served[c] \in {"started", "request"} /\ served'[c] \in {"request", "finish"}
        /\ \A e \in Clients : e # c => served'[e] = served[e]
    BY <1>3, <1>6 DEF StartClientThread, BadRequest, Serving
  <2>2. command[c] = "none"
    BY <1>2, <2>1 DEF ConnectionOK
  <2>3. KeepsSocket(d)' <=> KeepsSocket(d)
    BY <1>1, <2>1, <2>2 DEF KeepsSocket
  <2> QED BY <1>1, <1>2, <1>5, <2>1, <2>2, <2>3 DEF ConnectionOK
<1>7. CASE ExecuteRequest(c)
  <2>1. /\ served[c] = "request" /\ served'[c] = "executed" /\ \A e \in Clients : e # c => served'[e] = served[e]
        /\ client[c] = "reading"
    BY <1>3, <1>7 DEF ExecuteRequest, Serving, recv_message
  <2>2. command[c] = "none" /\ "server" \in holds[c]
    BY <1>2, <2>1 DEF ConnectionOK, KeepsSocket
  <2>3. CASE command' = [command EXCEPT ![c] = "running"] /\ holds' = Inherited(c)
    <3>1. command'[c] = "running" /\ \A e \in Clients : e # c => command'[e] = command[e]
      BY <1>3, <2>3
    <3>2. holds'[d] = IF "server" \in holds[d] THEN holds[d] \cup {c} ELSE holds[d]
      BY <1>3, <2>3 DEF Inherited, Holding
    <3>3. /\ "server" \in holds'[d] <=> "server" \in holds[d]
          /\ \A e \in Clients : e # c => (e \in holds'[d] <=> e \in holds[d])
          /\ d = c => c \in holds'[d]
      BY <1>3, <2>2, <3>2
    <3>4. KeepsSocket(d)' <=> KeepsSocket(d)
      BY <1>1, <2>1, <2>2, <3>1 DEF KeepsSocket
    <3>5. /\ d \in holds'[d] <=> command'[d] = "running"
          /\ \A e \in Clients : e \in holds'[d] => command'[e] = "running"
      BY <1>2, <3>1, <3>3 DEF ConnectionOK
    <3> QED BY <1>1, <1>2, <1>5, <2>1, <3>1, <3>3, <3>4, <3>5 DEF ConnectionOK
  <2>4. CASE command' = [command EXCEPT ![c] = "failed"] /\ UNCHANGED holds
    <3>1. command'[c] = "failed" /\ \A e \in Clients : e # c => command'[e] = command[e]
      BY <1>3, <2>4
    <3>2. KeepsSocket(d)' <=> KeepsSocket(d)
      BY <1>1, <2>1, <2>2, <3>1 DEF KeepsSocket
    <3>3. /\ d \in holds'[d] <=> command'[d] = "running"
          /\ \A e \in Clients : e \in holds'[d] => command'[e] = "running"
      BY <1>2, <2>2, <2>4, <3>1 DEF ConnectionOK
    <3> QED BY <1>1, <1>2, <1>5, <2>1, <2>4, <3>1, <3>2, <3>3 DEF ConnectionOK
  <2> QED BY <1>7, <2>3, <2>4 DEF ExecuteRequest
<1>8. CASE CloseRequest(c)
  <2>1. /\ served[c] = "executed" /\ served'[c] = "wait" /\ \A e \in Clients : e # c => served'[e] = served[e]
        /\ UNCHANGED command /\ holds' = [holds EXCEPT ![c] = holds[c] \ {"server"}]
    BY <1>3, <1>8 DEF CloseRequest, CloseSocket, Serving
  <2>2. holds'[c] = holds[c] \ {"server"} /\ (d # c => holds'[d] = holds[d])
    BY <1>3, <2>1 DEF Holding
  <2>3. command[c] # "none"
    BY <1>2, <2>1 DEF ConnectionOK
  <2>4. ~ KeepsSocket(c)' /\ (d # c => (KeepsSocket(d)' <=> KeepsSocket(d)))
    BY <1>1, <1>4, <2>1, <2>3 DEF KeepsSocket
  <2>5. \A e \in Clients : e \in holds'[d] <=> e \in holds[d]
    BY <1>3, <2>2
  <2>6. "server" \in holds'[d] <=> KeepsSocket(d)'
    BY <1>2, <2>2, <2>4 DEF ConnectionOK
  <2> QED BY <1>1, <1>2, <1>5, <2>1, <2>3, <2>5, <2>6 DEF ConnectionOK
<1>9. CASE ReapRequest(c)
  <2>1. /\ served[c] = "wait" /\ served'[c] = "finish" /\ \A e \in Clients : e # c => served'[e] = served[e]
        /\ UNCHANGED holds /\ command[c] \in {"exited", "failed"} /\ command'[c] \in {"reaped", "failed"}
        /\ \A e \in Clients : e # c => command'[e] = command[e]
    BY <1>3, <1>9 DEF ReapRequest, Serving, CommandPlace
  <2>2. KeepsSocket(d)' <=> KeepsSocket(d)
    BY <1>1, <2>1 DEF KeepsSocket
  <2>3. \A e \in Clients : command'[e] = "running" <=> command[e] = "running"
    BY <2>1
  <2>4. /\ command'[d] = "none" <=> command[d] = "none"
        /\ command[d] \in {"failed", "exited", "reaped"} => command'[d] \in {"failed", "exited", "reaped"}
    BY <2>1
  <2> QED BY <1>1, <1>2, <1>5, <2>1, <2>2, <2>3, <2>4 DEF ConnectionOK
<1> QED BY <1>6, <1>7, <1>8, <1>9

(* A thread of a connection moves and is still there.                      *)
LEMMA ThreadInv ==
  ASSUME ServerInv, NEW c \in Clients,
         StartClientThread(c) \/ BadRequest(c) \/ ExecuteRequest(c) \/ CloseRequest(c) \/ ReapRequest(c)
  PROVE  ServerInv'
<1> USE DEF StartClientThread, BadRequest, ExecuteRequest, CloseRequest, ReapRequest
<1>1. UNCHANGED <<console, listener, quit, active_conn, listenerSocket, loaded, overlapped, client>>
  OBVIOUS
<1>2. /\ served \in [Clients -> Serving] /\ log \in Nat /\ holds \in Holding
      /\ command \in [Clients -> CommandPlace]
  BY SameTypes DEF ServerInv, ServerTypes
<1>3. /\ served' \in [Clients -> Serving] /\ \A d \in Clients : d # c => served'[d] = served[d]
      /\ served'[c] \in {"request", "finish", "executed", "wait"}
      /\ served[c] \in {"started", "request", "executed", "wait"}
  BY <1>2 DEF Serving
<1>4. log' \in Nat /\ command' \in [Clients -> CommandPlace]
  <2>1. log' \in Nat
    <3>1. log' = log \/ log' = log + 1
      BY DEF log_message
    <3> QED BY <1>2, <3>1
  <2>2. command' \in [Clients -> CommandPlace]
    <3>1. CASE UNCHANGED command
      BY <1>2, <3>1
    <3>2. CASE \E p \in CommandPlace : command' = [command EXCEPT ![c] = p]
      BY <1>2, <3>2
    <3>3. "running" \in CommandPlace /\ "failed" \in CommandPlace /\ "reaped" \in CommandPlace
      BY DEF CommandPlace
    <3>4. ReapRequest(c) => command' = [command EXCEPT ![c] = IF command[c] = "exited" THEN "reaped" ELSE "failed"]
      BY DEF ReapRequest
    <3>5. ReapRequest(c) => \E p \in CommandPlace : command' = [command EXCEPT ![c] = p]
      BY <3>3, <3>4
    <3> QED BY <3>1, <3>2, <3>3, <3>5
  <2> QED BY <2>1, <2>2
<1>5. holds' \in Holding
  <2>1. c \in Holders
    BY DEF Holders
  <2>2. CASE UNCHANGED holds
    BY <1>2, <2>2
  <2>3. CASE holds' = Inherited(c)
    BY <1>2, <2>1, <2>3 DEF Inherited, Holding
  <2>4. CASE CloseSocket(c)
    BY <1>2, <2>4 DEF CloseSocket, Holding
  <2> QED BY <2>2, <2>3, <2>4
<1>6. ServerTypeOK'
  BY <1>1, <1>3, <1>4, <1>5, SameTypes DEF ServerInv, ServerTypes
<1>7. Served' = Served /\ c \in Served
  BY <1>3 DEF Served
<1>8. \A d \in Clients : (served'[d] = "ending" <=> served[d] = "ending")
                       /\ (served'[d] = "none" <=> served[d] = "none")
  BY <1>3
<1>9. CountOK'
  BY <1>1, <1>7, <1>8 DEF ServerInv, CountOK
<1>10. listener.conn # "none" => listener.conn \in Clients
  BY SameTypes DEF ServerInv, ServerTypes, Listener
<1>11. ConsoleOK'
  BY <1>1, <1>7, <1>8, <1>10 DEF ServerInv, ConsoleOK
<1> QED BY <1>6, <1>9, <1>11, ThreadConnections DEF ServerInv

(* A thread after its WaitChild: its place says no more about its socket   *)
(* and its command.                                                        *)
LEMMA EndingConnections ==
  ASSUME ServerInv, NEW c \in Clients, served[c] \in {"finish", "ending"}, served'[c] \in {"ending", "gone"},
         \A d \in Clients : d # c => served'[d] = served[d], UNCHANGED <<listener, command, client, holds>>
  PROVE  ConnectionsOK'
<1> SUFFICES ASSUME NEW d \in Clients PROVE ConnectionOK(d)'
  BY DEF ConnectionsOK
<1>1. ConnectionOK(d)
  BY DEF ServerInv, ConnectionsOK
<1>2. (KeepsSocket(d)' <=> KeepsSocket(d)) /\ (Unconnected(d)' <=> Unconnected(d))
  BY DEF KeepsSocket, Unconnected
<1> QED BY <1>1, <1>2 DEF ConnectionOK

(* The load of active_conn--.                                              *)
LEMMA LoadCountInv ==
  ASSUME ServerInv, NEW c \in Clients, LoadCount(c)
  PROVE  ServerInv'
<1>1. /\ UNCHANGED <<console, listener, quit, active_conn, log, listenerSocket, overlapped, command, client, holds>>
      /\ served[c] = "finish" /\ MutexFree
      /\ loaded' = active_conn /\ served' = [served EXCEPT ![c] = "ending"]
  BY DEF LoadCount
<1>2. served \in [Clients -> Serving] /\ active_conn \in Int
  BY SameTypes DEF ServerInv, ServerTypes
<1>3. served' \in [Clients -> Serving] /\ \A d \in Clients : d # c => served'[d] = served[d]
  BY <1>1, <1>2 DEF Serving
<1>4. served'[c] = "ending"
  BY <1>1, <1>2
<1>5. ServerTypeOK'
  BY <1>1, <1>2, <1>3, SameTypes DEF ServerInv, ServerTypes
<1>6. Served' = Served /\ c \in Served
  BY <1>1, <1>3, <1>4 DEF Served
<1>7. CountOK'
  BY <1>1, <1>3, <1>4, <1>6 DEF ServerInv, CountOK, MutexFree
<1>8. listener.conn # "none" => listener.conn \in Clients
  BY SameTypes DEF ServerInv, ServerTypes, Listener
<1>9. ConsoleOK'
  BY <1>1, <1>3, <1>4, <1>6, <1>8 DEF ServerInv, ConsoleOK
<1>10. ConnectionsOK'
  BY <1>1, <1>3, <1>4, EndingConnections
<1> QED BY <1>5, <1>7, <1>9, <1>10 DEF ServerInv

(* The store of active_conn--: the thread has let go of the globals.       *)
LEMMA FinishConnectionInv ==
  ASSUME ServerInv, NEW c \in Clients, FinishConnection(c)
  PROVE  ServerInv'
<1>1. /\ UNCHANGED <<console, listener, quit, log, listenerSocket, command, client, holds>>
      /\ served[c] = "ending" /\ active_conn' = loaded - 1 /\ loaded' = 0
      /\ overlapped' = (overlapped \/ listener.at = "count")
      /\ served' = [served EXCEPT ![c] = "gone"]
  BY DEF FinishConnection
<1>2. served \in [Clients -> Serving] /\ active_conn \in Int /\ loaded \in Int
  BY SameTypes DEF ServerInv, ServerTypes
<1>3. served' \in [Clients -> Serving] /\ \A d \in Clients : d # c => served'[d] = served[d]
  BY <1>1, <1>2 DEF Serving
<1>4. served'[c] = "gone" /\ active_conn' \in Int /\ loaded' \in Int
  BY <1>1, <1>2
<1>5. overlapped' \in BOOLEAN /\ (~ overlapped' => ~ overlapped /\ listener.at # "count")
  BY <1>1, Zenon
<1>6. ServerTypeOK'
  BY <1>1, <1>3, <1>4, <1>5, SameTypes DEF ServerInv, ServerTypes
<1>7. Served' = Served \ {c} /\ c \in Served
  BY <1>1, <1>3, <1>4 DEF Served
<1>8. ASSUME ~ overlapped' PROVE active_conn' = Cardinality(Served')
  <2>1. active_conn = Cardinality(Served) /\ loaded = active_conn
    BY <1>1, <1>5, <1>8 DEF ServerInv, CountOK
  <2>2. Cardinality(Served') = Cardinality(Served) - 1
    BY <1>7, ServedFinite, FS_RemoveElement
  <2> QED BY <1>1, <2>1, <2>2
<1>9. \A d \in Clients : served'[d] # "ending"
  BY <1>1, <1>3, <1>4 DEF ServerInv, CountOK
<1>10. CountOK'
  BY <1>1, <1>5, <1>8, <1>9 DEF CountOK
<1>11. listener.conn # "none" => listener.conn \in Clients
  BY SameTypes DEF ServerInv, ServerTypes, Listener
<1>12. ConsoleOK'
  BY <1>1, <1>3, <1>4, <1>5, <1>7, <1>11 DEF ServerInv, ConsoleOK
<1>13. ConnectionsOK'
  BY <1>1, <1>3, <1>4, EndingConnections
<1> QED BY <1>6, <1>10, <1>12, <1>13 DEF ServerInv

(* Every step keeps the inductive invariant.                               *)
LEMMA ServerInvStep ==
  ASSUME ServerInv, [ServerMove]_serverVars
  PROVE  ServerInv'
<1>1. CASE UNCHANGED serverVars
  <2>1. ServerTypeOK' /\ CountOK' /\ ConsoleOK'
    BY <1>1, ZenonT(60) DEF serverVars, ServerInv, ServerTypeOK, CountOK, ConsoleOK, Served
  <2>2. ConnectionsOK'
    <3>1. /\ ConnectionsOK /\ UNCHANGED <<served, command>> /\ listener'.conn = listener.conn
          /\ \A c \in Clients : client'[c] = client[c] /\ holds'[c] = holds[c]
      BY <1>1 DEF serverVars, ServerInv
    <3> QED BY <3>1, ConnectionsSame
  <2> QED BY <2>1, <2>2 DEF ServerInv
<1>2. CASE ServerStarts \/ rsrv_listener_thread
  BY <1>2, ListenerInv, AcceptFailsInv, AcceptConnectionInv, StartServingInv DEF rsrv_listener_thread
<1>3. CASE ConsoleQuit \/ ConsoleEnds \/ QuitConsole
  BY <1>3, ConsoleInv
<1>4. CASE \E c \in Clients : rsrv_client(c)
  BY <1>4, ThreadInv, LoadCountInv, FinishConnectionInv DEF rsrv_client
<1>5. CASE \E c \in Clients : rsrv_process(c) \/ RemoteClient(c)
  BY <1>5, ClientInv, CommandInv
<1> QED BY <1>1, <1>2, <1>3, <1>4, <1>5 DEF ServerMove, ServerNext

(* As long as no active_conn++ of the listener has overlapped an           *)
(* active_conn--, active_conn counts the connections whose threads have    *)
(* not finished, and the console returns after q only when there is none   *)
(* left to use the globals; the listener has ended by then whatever has    *)
(* overlapped.  A socket is held until its Close by the server and then    *)
(* only by commands that run, also when other threads execute theirs in    *)
(* between, so a client sees the end of its output only after its command. *)
THEOREM ServerSafe == Spec => []ServerInvariant
<1>1. Init => ServerInv
  BY ServerInvInit DEF Init
<1>2. ServerInv /\ [Next]_vars => ServerInv'
  BY ServerInvStep, PartsMove
<1>3. ServerInv => ServerInvariant
  BY ServerInvSound
<1> QED BY <1>1, <1>2, <1>3, PTL DEF Spec

-----------------------------------------------------------------------------
(* The init tasks.                                                         *)

(* A new stream gets the lowest free fid.                                  *)
LEMMA LowestFid ==
  ASSUME NEW t, NEW f \in Fids, t[f] = NOSTREAM, \A g \in 0 .. f - 1 : t[g] # NOSTREAM
  PROVE  FreeFid(t) = f
<1> USE FidAssumption DEF Fids
<1> DEFINE P(h) == t[h] = NOSTREAM /\ \A g \in 0 .. h - 1 : t[g] # NOSTREAM
<1>1. FreeFid(t) \in Fids /\ P(FreeFid(t))
  <2>1. \E h \in Fids : P(h)
    OBVIOUS
  <2>2. FreeFid(t) = CHOOSE h \in Fids : P(h)
    BY Zenon DEF FreeFid
  <2> HIDE DEF P
  <2> QED BY <2>1, <2>2, Zenon
<1> DEFINE y == FreeFid(t)
<1>2. y \in Fids /\ P(y)
  BY <1>1
<1> HIDE DEF y
<1>3. ~ (y < f) /\ ~ (f < y)
  BY <1>2
<1> QED BY <1>2, <1>3 DEF y

(* Standard output alone is left of the streams of the shell before.       *)
OutTable(s) == [f \in Fids |-> IF f = 1 THEN s ELSE NOSTREAM]

(* Two opens on an empty table give the standard streams, and closing      *)
(* gives the table back.                                                   *)
LEMMA StdStreams ==
  ASSUME NEW s, s # NOSTREAM
  PROVE  /\ OpenStream(OpenStream(NoFiles, s), s) = StdTable(s)
         /\ Close(StdTable(s), 0) = OutTable(s)
         /\ Close(Close(NoFiles, 0), 1) = NoFiles
         /\ FreeFid(NoFiles) = 0
         /\ FreeFid(OpenStream(NoFiles, s)) = 1
<1> USE FidAssumption
<1>1. FreeFid(NoFiles) = 0
  BY LowestFid DEF NoFiles, Fids
<1> DEFINE t == [f \in Fids |-> IF f = 0 THEN s ELSE NOSTREAM]
<1>2. OpenStream(NoFiles, s) = t
  BY <1>1 DEF OpenStream, NoFiles, Fids
<1>3. FreeFid(t) = 1
  <2>1. t[1] = NOSTREAM /\ t[0] = s /\ 1 \in Fids
    BY DEF Fids
  <2> HIDE DEF t
  <2> QED BY <2>1, LowestFid
<1>4. OpenStream(t, s) = StdTable(s)
  BY <1>3 DEF OpenStream, StdTable, Fids
<1>5. Close(StdTable(s), 0) = OutTable(s)
  <2>1. StdTable(s) = [f \in Fids |-> IF f = 0 \/ f = 1 THEN s ELSE NOSTREAM]
    BY DEF StdTable
  <2> QED BY <2>1 DEF Close, OutTable, Fids
<1>6. Close(Close(NoFiles, 0), 1) = NoFiles
  BY DEF Close, NoFiles, Fids
<1> QED BY <1>1, <1>2, <1>3, <1>4, <1>5, <1>6

(* OpenTerminal twice gives fids 0 and 1, also while the terminal before   *)
(* still has fid 1.                                                        *)
LEMMA TerminalsOpen ==
  ASSUME NEW i \in Nat, NEW t, t = NoFiles \/ \E j \in Nat : t = OutTable(Terminal(j))
  PROVE  OpenTerminals(t, i) = StdTable(Terminal(i))
<1> USE FidAssumption
<1> DEFINE s == Terminal(i)
<1>0. s # NOSTREAM /\ \A j \in Nat : Terminal(j) # NOSTREAM
  BY DEF Terminal, NOSTREAM
<1>1. CASE t = NoFiles
  <2> HIDE DEF s
  <2>1. OpenAs(NoFiles, s, 0) = OpenStream(NoFiles, s)
    BY <1>0, StdStreams DEF OpenAs
  <2>2. OpenAs(OpenStream(NoFiles, s), s, 1) = StdTable(s)
    BY <1>0, StdStreams DEF OpenAs
  <2> QED BY <1>1, <2>1, <2>2 DEF OpenTerminals, s
<1>2. ASSUME NEW j \in Nat, t = OutTable(Terminal(j)) PROVE OpenTerminals(t, i) = StdTable(s)
  <2> DEFINE o == Terminal(j)
             u == [f \in Fids |-> IF f = 0 THEN s ELSE IF f = 1 THEN o ELSE NOSTREAM]
             v == [f \in Fids |-> IF f = 0 THEN s ELSE IF f = 1 THEN o ELSE IF f = 2 THEN s ELSE NOSTREAM]
  <2>0. s # NOSTREAM /\ o # NOSTREAM
    BY <1>0
  <2> HIDE DEF s, o
  <2>1. FreeFid(OutTable(o)) = 0
    BY LowestFid DEF OutTable, Fids
  <2>2. OpenAs(OutTable(o), s, 0) = u
    BY <2>1 DEF OpenAs, OpenStream, OutTable, Fids
  <2>3. FreeFid(u) = 2
    <3>1. u[2] = NOSTREAM /\ u[0] = s /\ u[1] = o /\ 2 \in Fids
      BY DEF Fids
    <3> HIDE DEF u
    <3> QED BY <2>0, <3>1, LowestFid
  <2>4. OpenStream(u, s) = v
    BY <2>3 DEF OpenStream, Fids
  <2>5. Close(Dup2(v, 2, 1), 2) = StdTable(s)
    <3>1. StdTable(s) = [f \in Fids |-> IF f = 0 \/ f = 1 THEN s ELSE NOSTREAM]
      BY DEF StdTable
    <3>2. Dup2(v, 2, 1) = [f \in Fids |-> IF f = 0 \/ f = 1 \/ f = 2 THEN s ELSE NOSTREAM]
      <4>1. v[2] = s /\ 1 \in Fids
        BY DEF Fids
      <4>2. Dup2(v, 2, 1) = [v EXCEPT ![1] = s]
        BY <4>1 DEF Dup2
      <4> QED BY <4>1, <4>2
    <3>3. [[f \in Fids |-> IF f = 0 \/ f = 1 \/ f = 2 THEN s ELSE NOSTREAM] EXCEPT ![2] = NOSTREAM]
            = [f \in Fids |-> IF f = 0 \/ f = 1 THEN s ELSE NOSTREAM]
      <4> DEFINE w == [f \in Fids |-> IF f = 0 \/ f = 1 \/ f = 2 THEN s ELSE NOSTREAM]
      <4>1. \A f \in Fids : [w EXCEPT ![2] = NOSTREAM][f] = IF f = 0 \/ f = 1 THEN s ELSE NOSTREAM
        BY DEF Fids
      <4> QED BY <4>1
    <3> QED BY <3>1, <3>2, <3>3 DEF Close
  <2>6. OpenAs(u, s, 1) = StdTable(s)
    BY <2>3, <2>4, <2>5 DEF OpenAs
  <2> QED BY <1>2, <2>2, <2>6 DEF OpenTerminals, s, o
<1> QED BY <1>1, <1>2

(* The stream of the k-th child.                                           *)
Std(k) == StdTable(IF machine.nterm > 0 THEN Terminal(k) ELSE Console)

KidState == {"none", "alive", "exited", "reaped"}

(* Where init is in its loop says what its file table holds, and the C     *)
(* library is on the fids from before the first child to after the last.   *)
InitTaskInv ==
  /\ InitTaskTypeOK
  /\ DOMAIN kid = Kids
  /\ init.at \in {"open", "execute", "close"} => init.i < nshells
  /\ stdio = "tinyos" <=> init.at \in {"open", "execute", "close", "wait"}
  /\ init.at \in {"off", "start"} => init.i = 0 /\ initFid = NoFiles
  /\ init.at = "open" =>
       \/ init.i = 0 /\ initFid = NoFiles
       \/ machine.nterm > 0 /\ \E j \in Nat : initFid = OutTable(Terminal(j))
  /\ init.at \in {"execute", "close"} => initFid = Std(init.i)
  /\ \A k \in Kids : kid[k].at = "alive" => stdio = "tinyos" /\ kid[k].fid = Std(k)

(* The inductive invariant implies the property the run checks.            *)
LEMMA InitTaskInvSound == InitTaskInv => InitTaskInvariant
BY DEF InitTaskInv, InitTaskInvariant, Std

(* The inductive invariant holds initially.                                *)
LEMMA InitTaskInvInit == InitTaskInit => InitTaskInv
BY TermsAssumption DEF InitTaskInit, InitTaskInv, InitTaskTypeOK, Kids

(* init starts at least one shell and at most one for each terminal.       *)
LEMMA Shells == InitTaskTypeOK => nshells \in 1 .. MaxTerms
BY TermsAssumption DEF InitTaskTypeOK, nshells

(* The step OpenStdio keeps the inductive invariant.                       *)
LEMMA OpenStdioInv ==
  ASSUME InitTaskInv, OpenStdio
  PROVE  InitTaskInv'
<1>1. init.at = "open" /\ UNCHANGED <<machine, stdio, kid>> /\ init' = [init EXCEPT !.at = "execute"]
  BY DEF OpenStdio
<1>2. /\ init.i \in Nat /\ init'.at = "execute" /\ init'.i = init.i
      /\ init' \in [at : {"off", "start", "open", "execute", "close", "wait", "ended"}, i : 0 .. MaxTerms]
      /\ machine.nterm \in Nat
  BY <1>1, TermsAssumption DEF InitTaskInv, InitTaskTypeOK
<1>3. initFid' = Std(init.i)
  <2>1. CASE machine.nterm > 0
    <3>1. initFid' = OpenTerminals(initFid, init.i)
      BY <2>1 DEF OpenStdio
    <3>2. initFid = NoFiles \/ \E j \in Nat : initFid = OutTable(Terminal(j))
      BY <1>1 DEF InitTaskInv
    <3> QED BY <2>1, <3>1, <3>2, <1>2, TerminalsOpen DEF Std
  <2>2. CASE ~ (machine.nterm > 0)
    <3>1. initFid = NoFiles /\ initFid' = tinyos_pseudo_console(NoFiles)
      BY <1>1, <2>2 DEF InitTaskInv, OpenStdio
    <3>2. Console # NOSTREAM
      BY DEF Console, NOSTREAM
    <3>3. tinyos_pseudo_console(NoFiles) = StdTable(Console)
      BY <3>2, StdStreams DEF tinyos_pseudo_console
    <3> QED BY <2>2, <3>1, <3>3 DEF Std
  <2> QED BY <2>1, <2>2
<1> QED BY <1>1, <1>2, <1>3 DEF InitTaskInv, InitTaskTypeOK, nshells, Std

(* The step StartKid keeps the inductive invariant.                        *)
LEMMA StartKidInv ==
  ASSUME InitTaskInv, StartKid
  PROVE  InitTaskInv'
<1> DEFINE i == init.i
<1>1. /\ init.at = "execute" /\ UNCHANGED <<machine, stdio, initFid>> /\ init' = [init EXCEPT !.at = "close"]
      /\ kid' = [kid EXCEPT ![i] = [at |-> "alive", fid |-> initFid]] /\ initFid = Std(i) /\ stdio = "tinyos"
  BY DEF StartKid, InitTaskInv
<1>2. /\ i \in Kids /\ init'.at = "close" /\ init'.i = i /\ DOMAIN kid = Kids
      /\ init' \in [at : {"off", "start", "open", "execute", "close", "wait", "ended"}, i : 0 .. MaxTerms]
  BY <1>1, Shells, TermsAssumption DEF InitTaskInv, InitTaskTypeOK, Kids
<1>3. /\ DOMAIN kid' = Kids /\ \A k \in Kids : k # i => kid'[k] = kid[k]
      /\ kid'[i].at = "alive" /\ kid'[i].fid = Std(i)
  BY <1>1, <1>2
<1>4. \A k \in Kids : kid'[k].at \in KidState
  BY <1>3 DEF InitTaskInv, InitTaskTypeOK, KidState
<1> HIDE DEF i
<1>5. \A k \in Kids : Std(k)' = Std(k)
  BY <1>1 DEF Std
<1>6. \A k \in Kids : kid'[k].at = "alive" => stdio' = "tinyos" /\ kid'[k].fid = Std(k)'
  BY <1>1, <1>3, <1>5 DEF InitTaskInv
<1>7. init'.i < nshells' /\ initFid' = Std(init.i)'
  <2>1. i < nshells /\ nshells' = nshells
    BY <1>1 DEF InitTaskInv, nshells, i
  <2> QED BY <1>1, <1>2, <2>1 DEF Std
<1>8. InitTaskTypeOK'
  BY <1>1, <1>2, <1>4 DEF InitTaskInv, InitTaskTypeOK, KidState
<1> QED BY <1>1, <1>2, <1>3, <1>6, <1>7, <1>8 DEF InitTaskInv

(* The step CloseStdio keeps the inductive invariant.                      *)
LEMMA CloseStdioInv ==
  ASSUME InitTaskInv, CloseStdio
  PROVE  InitTaskInv'
<1>1. init.at = "close" /\ UNCHANGED <<machine, stdio, kid>> /\ initFid = Std(init.i) /\ stdio = "tinyos"
  BY DEF CloseStdio, InitTaskInv
<1>2. /\ init.i \in Nat /\ nshells \in 1 .. MaxTerms /\ machine.nterm \in Nat
      /\ machine.task \in {"boot_shell", "boot_symposium"} /\ init.i < nshells
  BY <1>1, Shells DEF InitTaskInv, InitTaskTypeOK
<1>3. \/ init' = [at |-> "wait", i |-> 0]
      \/ init' = [at |-> "open", i |-> init.i + 1] /\ init.i + 1 < nshells
  BY DEF CloseStdio
<1>4. CASE init' = [at |-> "wait", i |-> 0]
  <2>1. InitTaskTypeOK'
    BY <1>1, <1>2, <1>4, TermsAssumption DEF InitTaskInv, InitTaskTypeOK
  <2> QED BY <1>1, <1>4, <2>1 DEF InitTaskInv, Std
<1>5. CASE init' = [at |-> "open", i |-> init.i + 1] /\ init.i + 1 < nshells
  <2>1. machine.task = "boot_shell" /\ machine.nterm > 0
    BY <1>2, <1>5 DEF nshells
  <2>2. initFid' = Close(initFid, 0)
    BY <2>1 DEF CloseStdio
  <2>3. initFid' = OutTable(Terminal(init.i))
    <3>1. Terminal(init.i) # NOSTREAM
      BY DEF Terminal, NOSTREAM
    <3> QED BY <1>1, <2>1, <2>2, <3>1, StdStreams DEF Std
  <2>4. InitTaskTypeOK'
    BY <1>1, <1>2, <1>5, TermsAssumption DEF InitTaskInv, InitTaskTypeOK
  <2> QED BY <1>1, <1>2, <1>5, <2>1, <2>3, <2>4 DEF InitTaskInv, Std, nshells
<1> QED BY <1>3, <1>4, <1>5

(* A child that is not alive any more is in nobody's way.                  *)
LEMMA KidMoves ==
  ASSUME InitTaskInv, UNCHANGED <<machine, init, stdio, initFid>>, NEW k \in Kids, NEW r,
         r.at \in KidState \ {"alive"}, kid' = [kid EXCEPT ![k] = r]
  PROVE  InitTaskInv'
<1>1. DOMAIN kid' = Kids /\ \A j \in Kids : (j # k => kid'[j] = kid[j]) /\ kid'[k].at = r.at
  BY DEF InitTaskInv
<1>2. InitTaskTypeOK'
  BY <1>1 DEF InitTaskInv, InitTaskTypeOK, KidState
<1>3. \A j \in Kids : kid'[j].at = "alive" => kid[j].at = "alive" /\ kid'[j] = kid[j]
  BY <1>1
<1> QED BY <1>1, <1>2, <1>3 DEF InitTaskInv, Std, nshells

(* Every step keeps the inductive invariant.                               *)
LEMMA InitTaskInvStep ==
  ASSUME InitTaskInv, [InitTaskMove]_initVars
  PROVE  InitTaskInv'
<1>1. CASE UNCHANGED initVars
  BY <1>1 DEF initVars, InitTaskInv, InitTaskTypeOK, Std, nshells
<1>2. ASSUME NEW task \in {"boot_shell", "boot_symposium"}, NEW nterm \in 0 .. MaxTerms, InitTaskStarts(task, nterm)
      PROVE  InitTaskInv'
  <2>1. init.at = "off" /\ UNCHANGED <<stdio, initFid, kid>> /\ init'.at = "start" /\ init'.i = init.i
    BY <1>2 DEF InitTaskStarts, InitTaskInv, InitTaskTypeOK
  <2>2. InitTaskTypeOK'
    BY <1>2 DEF InitTaskStarts, InitTaskInv, InitTaskTypeOK
  <2> QED BY <2>1, <2>2 DEF InitTaskInv
<1>3. CASE tinyos_replace_stdio
  <2>1. /\ init.at = "start" /\ UNCHANGED <<machine, initFid, kid>> /\ init'.at = "open" /\ init'.i = init.i
        /\ stdio' = "tinyos"
    BY <1>3 DEF tinyos_replace_stdio, InitTaskInv, InitTaskTypeOK
  <2>2. InitTaskTypeOK'
    BY <1>3 DEF tinyos_replace_stdio, InitTaskInv, InitTaskTypeOK
  <2>3. init'.i < nshells'
    BY <2>1, Shells DEF InitTaskInv, nshells
  <2> QED BY <2>1, <2>2, <2>3 DEF InitTaskInv, Std
<1>4. CASE ReapKid
  <2>1. PICK k \in Kids : kid[k].at = "exited" /\ kid' = [kid EXCEPT ![k].at = "reaped"]
    BY <1>4 DEF ReapKid
  <2> DEFINE r == [kid[k] EXCEPT !.at = "reaped"]
  <2>2. kid' = [kid EXCEPT ![k] = r]
    BY <2>1
  <2>3. r.at \in KidState \ {"alive"}
    BY <2>1 DEF KidState, InitTaskInv, InitTaskTypeOK
  <2> HIDE DEF r
  <2> QED BY <1>4, <2>2, <2>3, KidMoves DEF ReapKid
<1>5. CASE tinyos_restore_stdio
  <2>1. /\ init.at = "wait" /\ UNCHANGED <<machine, initFid, kid>> /\ init'.at = "ended" /\ init'.i = init.i
        /\ stdio' = "host" /\ NoKidLeft
    BY <1>5 DEF tinyos_restore_stdio, InitTaskInv, InitTaskTypeOK
  <2>2. InitTaskTypeOK'
    BY <1>5 DEF tinyos_restore_stdio, InitTaskInv, InitTaskTypeOK
  <2> QED BY <2>1, <2>2 DEF InitTaskInv, NoKidLeft
<1>6. ASSUME NEW k \in Kids, KidEnds(k) PROVE InitTaskInv'
  <2> DEFINE r == [at |-> "exited", fid |-> NoFiles]
  <2>1. r.at \in KidState \ {"alive"}
    BY DEF KidState
  <2>2. kid' = [kid EXCEPT ![k] = r] /\ UNCHANGED <<machine, init, stdio, initFid>>
    BY <1>6 DEF KidEnds
  <2> HIDE DEF r
  <2> QED BY <2>1, <2>2, KidMoves
<1> QED BY <1>1, <1>2, <1>3, <1>4, <1>5, <1>6, OpenStdioInv, StartKidInv, CloseStdioInv
        DEF InitTaskMove, InitTaskStep

(* With any number of terminals, on every one of them the child starts     *)
(* with its own standard streams and nothing else, and no child prints to  *)
(* the host.                                                               *)
THEOREM InitTasksSafe == Spec => []InitTaskInvariant
<1>1. Init => InitTaskInv
  BY InitTaskInvInit DEF Init
<1>2. InitTaskInv /\ [Next]_vars => InitTaskInv'
  BY InitTaskInvStep, PartsMove
<1> QED BY <1>1, <1>2, InitTaskInvSound, PTL DEF Spec

-----------------------------------------------------------------------------
(* The virtual machine with a terminal under test.                         *)

NotBooted == {"off", "start", "boot"}
Over      == {"reset", "stopped", "exited"}
Ended     == {"stopped", "exited"}

CorePlace   == {"off", "start", "boot", "barrier", "runs", "reset", "stopped", "exited"}
PicPlace    == {"off", "start", "check", "select", "process", "stopped", "joined"}
PicState    == [at : PicPlace, set : SUBSET Devices, found : SUBSET Devices]
ThreadState == [at : {"ready", "user", "failed", "asleep", "gone"}, core : Cores,
                got : 0 .. K, put : 0 .. K, asked : {"none", "sendme", "expect"}]
ProxyPlace  == {"get", "poll", "decide", "read", "write", "ended"}
ProxyState  == [at : ProxyPlace, patterns : 0 .. 1, left : 0 .. K, done : BOOLEAN, failed : BOOLEAN]
TesterPlace == {"off", "boot", "close_con", "join_con", "close_kbd", "join_kbd", "done"}

(* The cores, the PIC daemon and the harness go through their phases       *)
(* together: from a core's scheduler on everybody is booted, and from its  *)
(* end on nothing is left to run.                                          *)
PhaseOK ==
  /\ pic.at = "off" <=> tester = "off"
  /\ tester \notin {"off", "boot"} => pic.at = "joined"
  /\ \A c \in Cores :
       /\ core[c] = "off" <=> pic.at = "off"
       /\ core[c] = "start" <=> pic.at = "start"
       /\ core[c] = "exited" <=> pic.at = "joined"
  /\ PIC_active <=> pic.at # "off" /\ core[0] \notin Ended
  /\ pic.at = "stopped" => ~ PIC_active
  /\ \A c, d \in Cores : core[c] \in {"runs"} \cup Over => core[d] \notin NotBooted
  /\ \A c, d \in Cores : core[c] \in Ended => core[d] \in Over

VectorOK ==
  /\ \A c \in Cores : core[c] \in NotBooted \cup Over => intvec[c] = {}
  /\ core[0] \in {"barrier", "runs"} => {SERIAL_RX_READY, SERIAL_TX_READY} \subseteq intvec[0]

(* The one thread is counted from its start to its exit.                   *)
ThreadOK ==
  /\ core[0] \in NotBooted => thread.at = "ready" /\ active_threads = 0
  /\ core[0] \notin NotBooted => active_threads = IF thread.at = "gone" THEN 0 ELSE 1
  /\ \A c \in Cores : core[c] \in Over => thread.at = "gone"

(* No FIFO holds more than it can, and no pattern waits that was not asked *)
(* for.                                                                    *)
AskedOK ==
  /\ fifo["kbd"] <= KbdSize
  /\ thread.asked = "none" => proxy["kbd"].patterns = 0
  /\ thread.asked # "expect" => proxy["con"].patterns = 0

VMTypes ==
  /\ core \in [Cores -> CorePlace] /\ pic \in PicState /\ PIC_active \in BOOLEAN
  /\ int_pending \in [Cores -> SUBSET Interrupts] /\ usr1 \subseteq Cores /\ intvec \in [Cores -> SUBSET Interrupts]
  /\ ready \in [Devices -> BOOLEAN] /\ fifo \in [Devices -> Nat] /\ active_threads \in Nat
  /\ thread \in ThreadState /\ proxy \in [Devices -> ProxyState] /\ complete \in [Devices -> BOOLEAN]
  /\ tester \in TesterPlace

VMInv == VMTypes /\ PhaseOK /\ VectorOK /\ ThreadOK /\ AskedOK

(* There is a core 0.                                                      *)
LEMMA CoreZero == 0 \in Cores
BY BiosAssumption DEF Cores

(* The inductive invariant implies the property the run checks.            *)
LEMMA VMInvSound == VMInv => VMInvariant
<1> SUFFICES ASSUME VMInv PROVE VMInvariant
  OBVIOUS
<1>1. TerminalTypeOK
  BY Zenon DEF VMInv, VMTypes, TerminalTypeOK, BiosTypeOK, ThreadTypeOK, CorePlace, PicPlace, PicState, ThreadState,
               ProxyPlace, ProxyState, TesterPlace
<1>2. ASSUME NEW c \in Cores, core[c] = "runs"
      PROVE  {SERIAL_RX_READY, SERIAL_TX_READY} \subseteq intvec[0] \/ active_threads = 0
  <2>1. core[0] \notin NotBooted /\ core[0] \in CorePlace
    BY <1>2, CoreZero DEF VMInv, VMTypes, PhaseOK
  <2>2. CASE core[0] \in {"barrier", "runs"}
    BY <2>2 DEF VMInv, VectorOK
  <2>3. CASE core[0] \in Over
    BY <2>1, <2>3, CoreZero DEF VMInv, ThreadOK
  <2> QED BY <2>1, <2>2, <2>3 DEF CorePlace, Over, NotBooted
<1>3. ASSUME pic.at # "off", ~ PIC_active, NEW c \in Cores PROVE intvec[c] = {}
  BY <1>3, CoreZero DEF VMInv, PhaseOK, VectorOK
<1>4. pic.at \in {"check", "select", "process"} => \A c \in Cores : core[c] # "exited"
  BY DEF VMInv, PhaseOK
<1>5. pic.at = "joined" => thread.at = "gone"
  BY CoreZero DEF VMInv, PhaseOK, ThreadOK, Over
<1> QED BY <1>1, <1>2, <1>3, <1>4, <1>5 DEF VMInvariant

(* The inductive invariant holds initially.                                *)
LEMMA VMInvInit == TerminalInit => VMInv
<1> SUFFICES ASSUME TerminalInit PROVE VMInv
  OBVIOUS
<1> USE BiosAssumption, SerialAssumption, ProxyAssumption, CoreZero DEF TerminalInit, BiosInit, ThreadInit
<1>1. /\ core \in [Cores -> CorePlace] /\ int_pending \in [Cores -> SUBSET Interrupts] /\ usr1 \subseteq Cores
      /\ intvec \in [Cores -> SUBSET Interrupts]
  BY DEF CorePlace
<1>2. pic \in PicState
  BY DEF PicState, PicPlace
<1>3. thread \in ThreadState
  BY DEF ThreadState
<1>4. ready \in [Devices -> BOOLEAN] /\ complete \in [Devices -> BOOLEAN] /\ PIC_active \in BOOLEAN
  OBVIOUS
<1>5. proxy \in [Devices -> ProxyState]
  BY DEF ProxyState, ProxyPlace
<1>6. fifo \in [Devices -> Nat] /\ active_threads \in Nat /\ tester \in TesterPlace
  BY DEF TesterPlace
<1>7. VMTypes
  BY <1>1, <1>2, <1>3, <1>4, <1>5, <1>6 DEF VMTypes
<1>8. PhaseOK /\ VectorOK /\ ThreadOK
  BY DEF PhaseOK, VectorOK, ThreadOK, Over, Ended, NotBooted
<1>9. AskedOK
  BY DEF AskedOK, Devices
<1> QED BY <1>7, <1>8, <1>9 DEF VMInv

(* vm_boot.                                                                *)
LEMMA TestStartsInv ==
  ASSUME VMInv, TestStarts
  PROVE  VMInv'
<1>1. /\ UNCHANGED <<thread, proxy, complete, int_pending, usr1, intvec, fifo, active_threads>>
      /\ pic.at = "off" /\ tester = "off" /\ tester' = "boot" /\ core' = [c \in Cores |-> "start"]
      /\ pic' = [pic EXCEPT !.at = "start"] /\ PIC_active' = TRUE
  BY DEF TestStarts, vm_boot
<1>2. pic' \in PicState /\ pic'.at = "start"
  BY <1>1 DEF VMInv, VMTypes, PicState, PicPlace
<1>3. ready' \in [Devices -> BOOLEAN]
  <2>1. ASSUME NEW d \in Devices PROVE io_ready(d) \in BOOLEAN
    <3>1. fifo \in [Devices -> Nat] /\ ConSize \in Nat
      BY BiosAssumption DEF VMInv, VMTypes
    <3>2. CASE d = "kbd"
      BY <3>1, <3>2 DEF io_ready
    <3>3. CASE d # "kbd"
      BY <3>1, <3>3 DEF io_ready
    <3> QED BY <3>2, <3>3
  <2> QED BY <2>1, Zenon DEF TestStarts, vm_boot
<1>4. core' \in [Cores -> CorePlace] /\ \A c \in Cores : core'[c] = "start"
  BY <1>1 DEF CorePlace
<1>5. VMTypes'
  BY <1>1, <1>2, <1>3, <1>4 DEF VMInv, VMTypes, TesterPlace
<1>6. \A c \in Cores : core[c] = "off"
  BY <1>1 DEF VMInv, PhaseOK
<1>7. PhaseOK'
  BY <1>1, <1>2, <1>4, CoreZero DEF PhaseOK, Over, Ended, NotBooted
<1>8. VectorOK' /\ ThreadOK'
  BY <1>1, <1>4, <1>6, CoreZero DEF VMInv, VectorOK, ThreadOK, Over, NotBooted
<1>9. AskedOK'
  BY <1>1 DEF VMInv, AskedOK
<1> QED BY <1>5, <1>7, <1>8, <1>9 DEF VMInv

(* A step of the cores or of the PIC daemon: the other half of the state.  *)
LEMMA MachineFrame ==
  ASSUME VMInv, UNCHANGED <<thread, proxy, complete, fifo>>
  PROVE  AskedOK'
BY DEF VMInv, AskedOK

(* The two system barriers.                                                *)
LEMMA SystemBarrierInv ==
  ASSUME VMInv, SystemStarts \/ SystemStops, UNCHANGED <<thread, proxy, complete, tester>>, tester = "boot"
  PROVE  VMInv'
<1>1. UNCHANGED <<PIC_active, int_pending, intvec, ready, fifo, active_threads>>
  BY DEF SystemStarts, SystemStops
<1>2. usr1' \subseteq Cores
  BY DEF VMInv, VMTypes, SystemStarts, SystemStops
<1>3. PICK place \in {"boot", "exited"} :
        /\ core' = [c \in Cores |-> place] /\ pic'.at = IF place = "boot" THEN "check" ELSE "joined"
        /\ pic.at = IF place = "boot" THEN "start" ELSE "stopped"
        /\ \A c \in Cores : core[c] = IF place = "boot" THEN "start" ELSE "stopped"
        /\ pic' \in PicState
  BY DEF VMInv, VMTypes, PicState, PicPlace, SystemStarts, SystemStops
<1>4. core' \in [Cores -> CorePlace] /\ \A c \in Cores : core'[c] = place
  BY <1>3 DEF CorePlace
<1>5. VMTypes'
  BY <1>1, <1>2, <1>3, <1>4 DEF VMInv, VMTypes
<1>6. PIC_active <=> place = "boot"
  BY <1>3, CoreZero DEF VMInv, PhaseOK, Ended
<1>7. PhaseOK'
  BY <1>1, <1>3, <1>4, <1>6, CoreZero DEF PhaseOK, Over, Ended, NotBooted
<1>8. VectorOK' /\ ThreadOK'
  BY <1>1, <1>3, <1>4, CoreZero DEF VMInv, VectorOK, ThreadOK, Over, NotBooted
<1> QED BY <1>1, <1>5, <1>7, <1>8, MachineFrame DEF VMInv

(* A core goes on: one entry of core and of intvec changes.                *)
LEMMA CoreStepInv ==
  ASSUME VMInv, NEW c \in Cores, CoreStep(c), UNCHANGED <<thread, proxy, complete, tester>>, tester = "boot"
  PROVE  VMInv'
<1>1. UNCHANGED <<pic, int_pending, usr1, ready, fifo>>
  BY DEF CoreStep, BootCore, EnterScheduler, LeaveScheduler, StopPIC
<1>2. core \in [Cores -> CorePlace] /\ intvec \in [Cores -> SUBSET Interrupts] /\ active_threads \in Nat
  BY DEF VMInv, VMTypes
<1>3. AskedOK'
  BY <1>1, MachineFrame
<1>4. CASE BootCore(c)
  <2>1. /\ core[c] = "boot" /\ core'[c] = "barrier" /\ \A d \in Cores : d # c => core'[d] = core[d] /\ intvec'[d] = intvec[d]
        /\ core' \in [Cores -> CorePlace] /\ UNCHANGED PIC_active
    BY <1>2, <1>4 DEF BootCore, CorePlace
  <2>2. intvec' \in [Cores -> SUBSET Interrupts] /\ intvec'[c] = IF c = 0 THEN initialize_devices ELSE {}
    BY <1>2, <1>4 DEF BootCore, initialize_devices, Interrupts
  <2>3. /\ active_threads' = active_threads + (IF c = 0 THEN 1 ELSE 0) /\ active_threads' \in Nat
        /\ core[0] \in NotBooted => active_threads = 0 /\ thread.at = "ready"
    BY <1>2, <1>4 DEF BootCore, VMInv, ThreadOK
  <2>4. VMTypes'
    BY <1>1, <2>1, <2>2, <2>3 DEF VMInv, VMTypes
  <2>5. \A d \in Cores : core[d] \notin {"runs"} \cup Over
    BY <2>1 DEF VMInv, PhaseOK, NotBooted
  <2>6. PhaseOK'
    BY <1>1, <2>1, <2>5, CoreZero DEF VMInv, PhaseOK, Over, Ended, NotBooted
  <2>7. VectorOK'
    BY <2>1, <2>2, CoreZero DEF VMInv, VectorOK, Over, NotBooted, initialize_devices
  <2>8. ThreadOK'
    BY <2>1, <2>3, <2>5, CoreZero DEF VMInv, ThreadOK, Over, NotBooted
  <2> QED BY <1>3, <2>4, <2>6, <2>7, <2>8 DEF VMInv
<1>5. CASE EnterScheduler(c)
  <2>1. /\ core[c] = "barrier" /\ core'[c] = "runs" /\ \A d \in Cores : d # c => core'[d] = core[d] /\ intvec'[d] = intvec[d]
        /\ core' \in [Cores -> CorePlace] /\ UNCHANGED <<PIC_active, active_threads>>
        /\ \A d \in Cores : core[d] \notin {"start", "boot"}
    BY <1>2, <1>5 DEF EnterScheduler, CorePlace, AllBooted
  <2>2. intvec' \in [Cores -> SUBSET Interrupts] /\ intvec[c] \subseteq intvec'[c]
    BY <1>2, <1>5 DEF EnterScheduler, Interrupts
  <2>3. VMTypes'
    BY <1>1, <2>1, <2>2 DEF VMInv, VMTypes
  <2>4. \A d \in Cores : core[d] \notin NotBooted
    BY <2>1 DEF VMInv, PhaseOK, NotBooted
  <2>5. PhaseOK'
    BY <1>1, <2>1, <2>4, CoreZero DEF VMInv, PhaseOK, Over, Ended, NotBooted
  <2>6. VectorOK'
    BY <2>1, <2>2, CoreZero DEF VMInv, VectorOK, Over, NotBooted
  <2>7. ThreadOK'
    BY <2>1, <2>4, CoreZero DEF VMInv, ThreadOK, Over, NotBooted
  <2> QED BY <1>3, <2>3, <2>5, <2>6, <2>7 DEF VMInv
<1>6. CASE LeaveScheduler(c)
  <2>1. /\ core[c] = "runs" /\ core'[c] = "reset" /\ \A d \in Cores : d # c => core'[d] = core[d] /\ intvec'[d] = intvec[d]
        /\ core' \in [Cores -> CorePlace] /\ UNCHANGED <<PIC_active, active_threads>> /\ active_threads = 0
    BY <1>2, <1>6 DEF LeaveScheduler, CorePlace
  <2>2. intvec' \in [Cores -> SUBSET Interrupts] /\ intvec'[c] = {}
    BY <1>2, <1>6 DEF LeaveScheduler
  <2>3. VMTypes'
    BY <1>1, <2>1, <2>2 DEF VMInv, VMTypes
  <2>4. \A d \in Cores : core[d] \notin NotBooted
    BY <2>1 DEF VMInv, PhaseOK
  <2>5. \A d \in Cores : core[d] \notin Ended
    BY <2>1 DEF VMInv, PhaseOK, Over
  <2>6. PhaseOK'
    BY <1>1, <2>1, <2>4, <2>5, CoreZero DEF VMInv, PhaseOK, Over, Ended, NotBooted
  <2>7. VectorOK'
    BY <2>1, <2>2, CoreZero DEF VMInv, VectorOK, Over, NotBooted
  <2>8. thread.at = "gone"
    BY <2>1, <2>4, CoreZero DEF VMInv, ThreadOK
  <2>9. ThreadOK'
    BY <2>1, <2>4, <2>8, CoreZero DEF VMInv, ThreadOK, NotBooted
  <2> QED BY <1>3, <2>3, <2>6, <2>7, <2>9 DEF VMInv
<1>7. CASE StopPIC(c)
  <2>1. /\ core[c] = "reset" /\ core'[c] = "stopped" /\ \A d \in Cores : d # c => core'[d] = core[d]
        /\ core' \in [Cores -> CorePlace] /\ UNCHANGED <<intvec, active_threads>>
        /\ \A d \in Cores : core[d] \in {"reset", "stopped"}
    BY <1>2, <1>7 DEF StopPIC, CorePlace, AllReset
  <2>2. PIC_active' \in BOOLEAN /\ (PIC_active' <=> PIC_active /\ c # 0)
    BY <1>7, Zenon DEF StopPIC
  <2>3. VMTypes'
    BY <1>1, <2>1, <2>2 DEF VMInv, VMTypes
  <2>4. PIC_active' <=> pic'.at # "off" /\ core'[0] \notin Ended
    BY <1>1, <2>1, <2>2, CoreZero DEF VMInv, PhaseOK, Ended
  <2>5. pic'.at = "stopped" => ~ PIC_active'
    BY <1>1, <2>2 DEF VMInv, PhaseOK
  <2>6. PhaseOK'
    BY <1>1, <2>1, <2>4, <2>5 DEF VMInv, PhaseOK, Over, Ended, NotBooted
  <2>7. VectorOK' /\ ThreadOK'
    BY <2>1, CoreZero DEF VMInv, VectorOK, ThreadOK, Over, NotBooted
  <2> QED BY <1>3, <2>3, <2>6, <2>7 DEF VMInv
<1> QED BY <1>4, <1>5, <1>6, <1>7 DEF CoreStep

(* The loop of the PIC daemon.                                             *)
LEMMA PICInv ==
  ASSUME VMInv, UNCHANGED <<thread, proxy, complete, tester>>, tester = "boot",
         \/ PIC_check \/ PIC_select
         \/ \E late \in SUBSET Devices, alarms \in SUBSET Cores : PIC_process(late, alarms)
  PROVE  VMInv'
<1>1. UNCHANGED <<core, PIC_active, intvec, fifo, active_threads>>
  BY DEF PIC_check, PIC_select, PIC_process
<1>2. /\ pic' \in PicState /\ pic.at \in {"check", "select", "process"}
      /\ pic'.at \in {"check", "select", "process"} \/ (pic'.at = "stopped" /\ ~ PIC_active)
  <2>1. pic \in PicState
    BY DEF VMInv, VMTypes
  <2>2. ASSUME PIC_check, PIC_active PROVE pic.at = "check" /\ pic'.at = "select" /\ pic' \in PicState
    <3> DEFINE waits == {d \in Devices : ~ ready[d]}
    <3>1. pic.at = "check" /\ pic' = [at |-> "select", set |-> waits, found |-> {}]
      BY <2>2, Zenon DEF PIC_check
    <3>2. waits \in SUBSET Devices
      OBVIOUS
    <3> HIDE DEF waits
    <3> QED BY <3>1, <3>2 DEF PicState, PicPlace
  <2>3. ASSUME PIC_check, ~ PIC_active PROVE pic.at = "check" /\ pic'.at = "stopped" /\ pic' \in PicState
    <3>1. pic.at = "check" /\ pic' = [pic EXCEPT !.at = "stopped"]
      BY <2>3, Zenon DEF PIC_check
    <3> QED BY <2>1, <3>1 DEF PicState, PicPlace
  <2>4. ASSUME PIC_select PROVE pic.at = "select" /\ pic'.at = "process" /\ pic' \in PicState
    <3> DEFINE now == {d \in pic.set : io_ready(d)}
    <3>1. pic.at = "select" /\ pic' = [pic EXCEPT !.at = "process", !.found = now]
      BY <2>4 DEF PIC_select
    <3>2. now \in SUBSET Devices
      BY <2>1 DEF PicState
    <3> HIDE DEF now
    <3> QED BY <2>1, <3>1, <3>2 DEF PicState, PicPlace
  <2>5. ASSUME NEW late \in SUBSET Devices, NEW alarms \in SUBSET Cores, PIC_process(late, alarms)
        PROVE  pic.at = "process" /\ pic'.at = "check" /\ pic' \in PicState
    BY <2>5 DEF PIC_process, PicState, PicPlace
  <2>6. CASE PIC_check
    BY <2>2, <2>3, <2>6, Zenon
  <2>7. CASE PIC_select
    BY <2>4, <2>7
  <2> QED BY <2>5, <2>6, <2>7, Zenon
<1>3. usr1' \subseteq Cores /\ int_pending' \in [Cores -> SUBSET Interrupts] /\ ready' \in [Devices -> BOOLEAN]
  <2>1. CASE PIC_check \/ PIC_select
    BY <2>1 DEF VMInv, VMTypes, PIC_check, PIC_select
  <2>2. ASSUME NEW late \in SUBSET Devices, NEW alarms \in SUBSET Cores, PIC_process(late, alarms)
        PROVE  usr1' \subseteq Cores /\ int_pending' \in [Cores -> SUBSET Interrupts] /\ ready' \in [Devices -> BOOLEAN]
    <3> DEFINE ints == {IntOf(d) : d \in Fired(late)}
    <3>1. ints \subseteq Interrupts
      BY DEF IntOf, Interrupts
    <3>2. usr1' \subseteq Cores
      <4>1. usr1' = usr1 \cup alarms \cup (IF ints = {} THEN {} ELSE {0}) /\ usr1 \subseteq Cores
        BY <2>2 DEF PIC_process, VMInv, VMTypes
      <4> HIDE DEF ints
      <4> QED BY <4>1, CoreZero
    <3>3. int_pending' \in [Cores -> SUBSET Interrupts]
      <4>1. /\ int_pending' = [c \in Cores |-> int_pending[c] \cup (IF c = 0 THEN ints ELSE {})
                                       \cup (IF c \in alarms THEN {ALARM} ELSE {})]
            /\ int_pending \in [Cores -> SUBSET Interrupts]
        BY <2>2 DEF PIC_process, VMInv, VMTypes
      <4>2. ALARM \in Interrupts
        BY DEF Interrupts
      <4> HIDE DEF ints
      <4> QED BY <3>1, <4>1, <4>2
    <3>4. ready' \in [Devices -> BOOLEAN]
      BY <2>2, Zenon DEF PIC_process
    <3> QED BY <3>2, <3>3, <3>4
  <2> QED BY <2>1, <2>2
<1>4. VMTypes'
  BY <1>1, <1>2, <1>3 DEF VMInv, VMTypes
<1>5. PhaseOK'
  BY <1>1, <1>2 DEF VMInv, PhaseOK
<1>6. VectorOK' /\ ThreadOK'
  BY <1>1 DEF VMInv, VectorOK, ThreadOK
<1> QED BY <1>1, <1>4, <1>5, <1>6, MachineFrame DEF VMInv

-----------------------------------------------------------------------------
(* The thread moves, and the machine does not.                             *)
LEMMA ThreadMoves ==
  ASSUME VMInv, UNCHANGED <<core, pic, PIC_active, intvec, complete, tester>>,
         int_pending' \in [Cores -> SUBSET Interrupts], usr1' \subseteq Cores, ready' \in [Devices -> BOOLEAN],
         fifo' \in [Devices -> Nat], proxy' \in [Devices -> ProxyState], thread' \in ThreadState,
         AskedOK', active_threads' \in Nat,
         \/ UNCHANGED active_threads /\ (thread'.at = "gone" <=> thread.at = "gone")
         \/ active_threads' = 0 /\ thread'.at = "gone",
         thread'.at # thread.at => core[0] \notin NotBooted
  PROVE  VMInv'
<1>1. VMTypes'
  BY DEF VMInv, VMTypes
<1>2. PhaseOK' /\ VectorOK'
  BY DEF VMInv, PhaseOK, VectorOK
<1>3. ThreadOK'
  <2>1. CASE UNCHANGED active_threads /\ (thread'.at = "gone" <=> thread.at = "gone")
    BY <2>1 DEF VMInv, ThreadOK
  <2>2. CASE active_threads' = 0 /\ thread'.at = "gone"
    BY <2>2 DEF VMInv, ThreadOK
  <2> QED BY <2>1, <2>2
<1> QED BY <1>1, <1>2, <1>3 DEF VMInv

(* A core that runs has seen core 0 boot.                                  *)
LEMMA RunsBooted ==
  ASSUME VMInv, NEW c \in Cores, core[c] = "runs"
  PROVE  core[0] \notin NotBooted /\ (thread.at # "gone" => active_threads = 1)
BY CoreZero DEF VMInv, PhaseOK, ThreadOK

(* A signal is handled.                                                    *)
LEMMA HandleInv ==
  ASSUME VMInv, NEW c \in Cores, Handle(c), UNCHANGED <<proxy, complete, tester>>
  PROVE  VMInv'
<1>1. /\ UNCHANGED <<core, pic, PIC_active, intvec, ready, fifo, active_threads>> /\ usr1' = usr1 \ {c}
      /\ int_pending' = [int_pending EXCEPT ![c] = Remaining(c, Lowest(c))]
  BY DEF Handle, sigusr1_handler
<1>2. int_pending' \in [Cores -> SUBSET Interrupts] /\ usr1' \subseteq Cores
  <2> DEFINE r == Remaining(c, Lowest(c))
  <2>1. r \in SUBSET Interrupts
    BY DEF Remaining, VMInv, VMTypes
  <2> HIDE DEF r
  <2> QED BY <1>1, <2>1 DEF VMInv, VMTypes, r
<1>3. \/ thread' = thread
      \/ thread' = [thread EXCEPT !.at = "ready"] /\ thread.at \in {"asleep", "user"}
  BY DEF Handle, serial_rx_handler
<1>4. thread \in ThreadState
  BY DEF VMInv, VMTypes
<1>5. /\ thread' \in ThreadState /\ thread'.asked = thread.asked
      /\ thread'.at = "gone" <=> thread.at = "gone"
      /\ thread'.at # thread.at => thread.at # "ready"
  BY <1>3, <1>4 DEF ThreadState
<1>6. thread'.at # thread.at => core[0] \notin NotBooted
  BY <1>5 DEF VMInv, ThreadOK
<1>7. AskedOK'
  BY <1>1, <1>5 DEF VMInv, AskedOK
<1> QED BY <1>1, <1>2, <1>5, <1>6, <1>7, ThreadMoves DEF VMInv, VMTypes

(* The thread is taken, sleeps, or exits.                                  *)
LEMMA ThreadPlaceInv ==
  ASSUME VMInv, UNCHANGED <<proxy, complete, tester>>,
         SleepRx \/ \E c \in Cores : RunThread(c) \/ ThreadExits(c)
  PROVE  VMInv'
<1>1. UNCHANGED <<core, pic, PIC_active, int_pending, usr1, intvec, ready, fifo>>
  BY DEF SleepRx, RunThread, ThreadExits, biosVars, machineUnchanged
<1>2. thread \in ThreadState
  BY DEF VMInv, VMTypes
<1>3. thread' \in ThreadState /\ thread'.asked = thread.asked
  BY <1>2 DEF SleepRx, RunThread, ThreadExits, ThreadState
<1>4. core[0] \notin NotBooted
  <2>1. CASE SleepRx
    BY <2>1 DEF SleepRx, VMInv, ThreadOK
  <2>2. CASE \E c \in Cores : RunThread(c) \/ ThreadExits(c)
    BY <2>2, RunsBooted DEF RunThread, ThreadExits, On
  <2> QED BY <2>1, <2>2
<1>5. /\ active_threads' \in Nat
      /\ \/ UNCHANGED active_threads /\ (thread'.at = "gone" <=> thread.at = "gone")
         \/ active_threads' = 0 /\ thread'.at = "gone"
  <2>1. CASE SleepRx \/ \E c \in Cores : RunThread(c)
    BY <1>2, <2>1 DEF SleepRx, RunThread, biosVars, ThreadState, VMInv, VMTypes
  <2>2. ASSUME NEW c \in Cores, ThreadExits(c) PROVE active_threads' = 0 /\ thread'.at = "gone"
    <3>1. active_threads = 1
      BY <2>2, RunsBooted DEF ThreadExits, On
    <3> QED BY <1>2, <2>2, <3>1 DEF ThreadExits, ThreadsLeft, ThreadState
  <2> QED BY <2>1, <2>2
<1>6. AskedOK'
  BY <1>1, <1>3 DEF VMInv, AskedOK
<1> QED BY <1>1, <1>3, <1>4, <1>5, <1>6, ThreadMoves DEF VMInv, VMTypes

(* serial_read and serial_write.                                           *)
LEMMA SerialInv ==
  ASSUME VMInv, UNCHANGED <<proxy, complete, tester>>, NEW c \in Cores, serial_read(c) \/ serial_write(c)
  PROVE  VMInv'
<1>1. UNCHANGED <<core, pic, PIC_active, int_pending, usr1, intvec, active_threads>>
  BY DEF serial_read, serial_write, machineUnchanged
<1>2. thread \in ThreadState /\ fifo \in [Devices -> Nat] /\ ready \in [Devices -> BOOLEAN]
  BY DEF VMInv, VMTypes
<1>3. /\ thread' \in ThreadState /\ thread'.asked = thread.asked /\ thread.at = "user"
      /\ thread'.at \in {"user", "failed", "ready"} /\ core[c] = "runs"
  <2>1. CASE serial_read(c)
    BY <1>2, <2>1, SerialAssumption DEF serial_read, MayRead, On, ThreadState
  <2>2. CASE serial_write(c)
    BY <1>2, <2>2, SerialAssumption DEF serial_write, MayWrite, On, ThreadState
  <2> QED BY <2>1, <2>2
<1>4. PICK d \in Devices : TryTransfer(d)
  BY DEF serial_read, serial_write, Devices
<1>5. fifo' \in [Devices -> Nat] /\ fifo'["kbd"] <= KbdSize /\ ready' \in [Devices -> BOOLEAN]
  <2>1. fifo["kbd"] <= KbdSize /\ fifo["kbd"] \in Nat /\ KbdSize \in Nat
    BY <1>2, ProxyAssumption DEF VMInv, AskedOK, Devices
  <2>2. CASE io_ready(d)
    <3>1. fifo' = [fifo EXCEPT ![d] = IF d = "kbd" THEN @ - 1 ELSE @ + 1] /\ UNCHANGED ready
      BY <1>4, <2>2 DEF TryTransfer, Transfer
    <3>2. fifo[d] \in Nat /\ (d = "kbd" => fifo[d] > 0)
      BY <1>2, <2>2 DEF io_ready
    <3> QED BY <1>2, <2>1, <3>1, <3>2 DEF Devices
  <2>3. CASE ~ io_ready(d)
    BY <1>2, <1>4, <2>1, <2>3 DEF TryTransfer, FailedTransfer
  <2> QED BY <2>2, <2>3
<1>6. AskedOK'
  BY <1>3, <1>5 DEF VMInv, AskedOK
<1>7. core[0] \notin NotBooted
  BY <1>3, RunsBooted
<1> QED BY <1>1, <1>3, <1>5, <1>6, <1>7, ThreadMoves DEF VMInv, VMTypes

(* The thread asks for a pattern.                                          *)
LEMMA AskInv ==
  ASSUME VMInv, NEW c \in Cores, Sendme(c) \/ Expect(c)
  PROVE  VMInv'
<1>1. UNCHANGED <<biosVars, complete, tester>>
  BY DEF Sendme, Expect, Ask
<1>2. thread \in ThreadState /\ proxy \in [Devices -> ProxyState]
  BY DEF VMInv, VMTypes
<1>3. PICK d \in Devices, what \in {"sendme", "expect"} :
        /\ thread' = [thread EXCEPT !.asked = what] /\ proxy' = [proxy EXCEPT ![d].patterns = @ + 1]
        /\ d = IF what = "sendme" THEN "kbd" ELSE "con"
        /\ what = "sendme" => thread.asked = "none"
        /\ what = "expect" => thread.asked = "sendme"
  BY DEF Sendme, Expect, Ask, term_proxy_daemon_add, Devices
<1>4. proxy[d].patterns = 0
  BY <1>3 DEF VMInv, AskedOK, Devices
<1>5. thread' \in ThreadState /\ thread'.at = thread.at /\ thread'.asked = what
  BY <1>2, <1>3 DEF ThreadState
<1>6. proxy' = [proxy EXCEPT ![d] = [proxy[d] EXCEPT !.patterns = 1]]
  BY <1>2, <1>3, <1>4
<1>7. [proxy[d] EXCEPT !.patterns = 1] \in ProxyState
  BY <1>2 DEF ProxyState
<1>8. proxy' \in [Devices -> ProxyState] /\ \A e \in Devices : e # d => proxy'[e] = proxy[e]
  BY <1>2, <1>6, <1>7
<1>9. AskedOK'
  BY <1>1, <1>3, <1>5, <1>8 DEF VMInv, AskedOK, Devices, biosVars
<1> QED BY <1>1, <1>5, <1>8, <1>9, ThreadMoves DEF VMInv, VMTypes, biosVars

-----------------------------------------------------------------------------
(* The daemons move: one entry of proxy, and maybe a FIFO.                 *)
LEMMA DaemonMoves ==
  ASSUME VMInv, NEW d \in Devices, NEW r \in ProxyState, proxy' = [proxy EXCEPT ![d] = r],
         r.patterns <= proxy[d].patterns, fifo' \in [Devices -> Nat], fifo'["kbd"] <= KbdSize,
         UNCHANGED <<core, pic, PIC_active, int_pending, usr1, intvec, ready, active_threads, thread, complete, tester>>
  PROVE  VMInv'
<1>1. proxy \in [Devices -> ProxyState]
  BY DEF VMInv, VMTypes
<1>2. proxy' \in [Devices -> ProxyState] /\ \A e \in Devices : e # d => proxy'[e] = proxy[e]
  BY <1>1
<1>3. proxy'[d] = r /\ r.patterns \in 0 .. 1 /\ proxy[d].patterns \in 0 .. 1
  BY <1>1 DEF ProxyState
<1>4. VMTypes'
  BY <1>2 DEF VMInv, VMTypes
<1>5. PhaseOK' /\ VectorOK' /\ ThreadOK'
  BY DEF VMInv, PhaseOK, VectorOK, ThreadOK
<1>6. AskedOK'
  BY <1>2, <1>3 DEF VMInv, AskedOK, Devices
<1> QED BY <1>4, <1>5, <1>6 DEF VMInv

(* The types of a terminal daemon's state.                                 *)
LEMMA DaemonTypes ==
  ASSUME VMInv, NEW d \in Devices
  PROVE  /\ proxy[d].at \in ProxyPlace /\ proxy[d].patterns \in 0 .. 1 /\ proxy[d].left \in 0 .. K
         /\ proxy[d].done \in BOOLEAN /\ proxy[d].failed \in BOOLEAN /\ complete[d] \in BOOLEAN
         /\ proxy \in [Devices -> ProxyState] /\ fifo \in [Devices -> Nat] /\ fifo[d] \in Nat
<1>1. proxy \in [Devices -> ProxyState] /\ complete \in [Devices -> BOOLEAN] /\ fifo \in [Devices -> Nat]
  BY DEF VMInv, VMTypes
<1>2. proxy[d] \in ProxyState /\ fifo[d] \in Nat
  BY <1>1
<1>3. proxy[d].done \in BOOLEAN /\ proxy[d].failed \in BOOLEAN /\ complete[d] \in BOOLEAN
  BY <1>1, <1>2, Zenon DEF ProxyState
<1>4. proxy[d].at \in ProxyPlace /\ proxy[d].patterns \in 0 .. 1 /\ proxy[d].left \in 0 .. K
  BY <1>2 DEF ProxyState
<1> QED BY <1>1, <1>2, <1>3, <1>4

(* What one entry of proxy becomes; the other is left alone.               *)
Becomes(d, at, patterns, left) ==
  /\ proxy' \in [Devices -> ProxyState]
  /\ \A e \in Devices : e # d => proxy'[e] = proxy[e]
  /\ proxy'[d].at = at /\ proxy'[d].patterns = patterns /\ proxy'[d].left = left

(* Every step of a daemon, spelled out: it takes a pattern or ends, polls, *)
(* decides, or moves bytes.                                                *)
LEMMA GetStep ==
  ASSUME VMInv, NEW d \in Devices, term_proxy_daemon_get(d)
  PROVE  /\ UNCHANGED fifo /\ proxy[d].at = "get" /\ proxy'[d].failed = proxy[d].failed
         /\ \/ proxy[d].patterns = 1 /\ Becomes(d, "poll", 0, K) /\ proxy'[d].done = FALSE
            \/ /\ proxy[d].patterns = 0 /\ complete[d] /\ Becomes(d, "ended", 0, proxy[d].left)
               /\ proxy'[d].done = proxy[d].done
<1> USE DaemonTypes, SerialAssumption
<1>1. UNCHANGED fifo /\ proxy[d].at = "get"
  BY DEF term_proxy_daemon_get, serialVars, biosVars
<1>2. CASE proxy[d].patterns > 0
  <2>1. proxy' = [proxy EXCEPT ![d].at = "poll", ![d].patterns = @ - 1, ![d].left = K, ![d].done = FALSE]
    BY <1>2 DEF term_proxy_daemon_get
  <2>2. proxy[d].patterns = 1
    BY <1>2
  <2>3. proxy'[d].at = "poll" /\ proxy'[d].patterns = 0 /\ proxy'[d].left = K /\ proxy'[d].done = FALSE
        /\ proxy'[d].failed = proxy[d].failed
    BY <2>1, <2>2 DEF ProxyState
  <2>4. proxy' \in [Devices -> ProxyState]
    BY <2>1, <2>2 DEF ProxyState, ProxyPlace
  <2>5. \A e \in Devices : e # d => proxy'[e] = proxy[e]
    BY <2>1
  <2> QED BY <1>1, <2>2, <2>3, <2>4, <2>5 DEF Becomes
<1>3. CASE ~ (proxy[d].patterns > 0)
  <2>1. proxy' = [proxy EXCEPT ![d].at = "ended"] /\ complete[d]
    BY <1>3 DEF term_proxy_daemon_get
  <2>2. proxy[d].patterns = 0
    BY <1>3
  <2>3. proxy'[d].at = "ended" /\ proxy'[d].patterns = 0 /\ proxy'[d].left = proxy[d].left
        /\ proxy'[d].done = proxy[d].done /\ proxy'[d].failed = proxy[d].failed
    BY <2>1, <2>2 DEF ProxyState
  <2>4. proxy' \in [Devices -> ProxyState]
    BY <2>1, <2>2 DEF ProxyState, ProxyPlace
  <2>5. \A e \in Devices : e # d => proxy'[e] = proxy[e]
    BY <2>1
  <2> QED BY <1>1, <2>1, <2>2, <2>3, <2>4, <2>5 DEF Becomes
<1> QED BY <1>2, <1>3

(* A step of the console daemon, in terms of its record.                   *)
LEMMA ConStep ==
  ASSUME VMInv, con_poll \/ con_decide
  PROVE  /\ UNCHANGED fifo
         /\ \/ /\ proxy["con"].at = "poll" /\ proxy'["con"].failed = proxy["con"].failed
               /\ proxy'["con"].done <=> proxy["con"].done \/ complete["con"]
               /\ \/ fifo["con"] > 0 /\ Becomes("con", "read", proxy["con"].patterns, proxy["con"].left)
                  \/ fifo["con"] = 0 /\ Becomes("con", "decide", proxy["con"].patterns, proxy["con"].left)
            \/ /\ proxy["con"].at = "decide" /\ proxy'["con"].done = proxy["con"].done
               /\ \/ /\ proxy["con"].done \/ complete["con"]
                     /\ Becomes("con", "get", proxy["con"].patterns, proxy["con"].left)
                  \/ /\ ~ (proxy["con"].done \/ complete["con"])
                     /\ Becomes("con", "poll", proxy["con"].patterns, proxy["con"].left)
                     /\ proxy'["con"].failed <=> proxy["con"].failed
<1>0. "con" \in Devices
  BY DEF Devices
<1> DEFINE p == proxy["con"]
           over == p.done \/ complete["con"]
           fails == p.failed \/ over
<1>1. p \in ProxyState /\ proxy \in [Devices -> ProxyState] /\ over \in BOOLEAN /\ fails \in BOOLEAN /\ fifo["con"] \in Nat
  BY <1>0, DaemonTypes
<1>2. UNCHANGED fifo
  BY DEF con_poll, con_decide, serialVars, biosVars
<1>3. CASE con_poll
  <2>1. PICK at \in {"read", "decide"} : /\ at = IF fifo["con"] > 0 THEN "read" ELSE "decide"
                                         /\ proxy' = [proxy EXCEPT !["con"].at = at, !["con"].done = over]
    BY <1>0, <1>1, <1>3 DEF con_poll
  <2> HIDE DEF over
  <2>2. proxy'["con"].at = at /\ proxy'["con"].patterns = p.patterns /\ proxy'["con"].left = p.left
    BY <1>0, <1>1, <2>1 DEF ProxyState
  <2>3. proxy'["con"].failed = p.failed /\ proxy'["con"].done = over
    BY <1>0, <1>1, <2>1 DEF ProxyState
  <2>4. proxy' \in [Devices -> ProxyState]
    BY <1>0, <1>1, <2>1 DEF ProxyState, ProxyPlace
  <2>5. \A e \in Devices : e # "con" => proxy'[e] = proxy[e]
    BY <1>1, <2>1
  <2>6. p.at = "poll"
    BY <1>3 DEF con_poll
  <2>7. proxy'["con"].done <=> p.done \/ complete["con"]
    BY <2>3 DEF over
  <2>8. Becomes("con", at, p.patterns, p.left)
    BY <2>2, <2>4, <2>5 DEF Becomes
  <2>9. CASE fifo["con"] > 0
    BY <1>2, <2>1, <2>3, <2>6, <2>7, <2>8, <2>9
  <2>10. CASE fifo["con"] = 0
    BY <1>2, <2>1, <2>3, <2>6, <2>7, <2>8, <2>10
  <2> QED BY <1>1, <2>9, <2>10
<1>4. CASE con_decide
  <2>1. PICK at \in {"get", "poll"} : /\ at = IF over THEN "get" ELSE "poll"
                                      /\ proxy' = [proxy EXCEPT !["con"].at = at, !["con"].failed = fails]
    BY <1>0, <1>1, <1>4 DEF con_decide
  <2>0. (fails <=> p.failed \/ over) /\ (over <=> p.done \/ complete["con"])
    OBVIOUS
  <2> HIDE DEF over, fails
  <2>2. proxy'["con"].at = at /\ proxy'["con"].patterns = p.patterns /\ proxy'["con"].left = p.left
    BY <1>0, <1>1, <2>1 DEF ProxyState
  <2>3. proxy'["con"].done = p.done /\ proxy'["con"].failed = fails
    BY <1>0, <1>1, <2>1 DEF ProxyState
  <2>4. proxy' \in [Devices -> ProxyState]
    BY <1>0, <1>1, <2>1 DEF ProxyState, ProxyPlace
  <2>5. \A e \in Devices : e # "con" => proxy'[e] = proxy[e]
    BY <1>1, <2>1
  <2>6. p.at = "decide"
    BY <1>4 DEF con_decide
  <2>7. Becomes("con", at, p.patterns, p.left)
    BY <2>2, <2>4, <2>5 DEF Becomes
  <2>8. CASE over
    BY <1>2, <2>0, <2>1, <2>3, <2>6, <2>7, <2>8
  <2>9. CASE ~ over
    BY <1>2, <2>0, <2>1, <2>3, <2>6, <2>7, <2>9
  <2> QED BY <2>8, <2>9
<1> QED BY <1>3, <1>4

(* What the step Read does.                                                *)
LEMMA ReadStep ==
  ASSUME VMInv, NEW n \in 1 .. K, con_read(n)
  PROVE  /\ proxy["con"].at = "read" /\ n <= proxy["con"].left /\ n <= fifo["con"]
         /\ fifo' = [fifo EXCEPT !["con"] = @ - n] /\ fifo' \in [Devices -> Nat]
         /\ proxy'["con"].done = proxy["con"].done /\ proxy'["con"].failed = proxy["con"].failed
         /\ Becomes("con", IF proxy["con"].left = n THEN "get" ELSE "poll", proxy["con"].patterns, proxy["con"].left - n)
<1>0. "con" \in Devices
  BY DEF Devices
<1> DEFINE p == proxy["con"]
<1>1. p \in ProxyState /\ proxy \in [Devices -> ProxyState] /\ p.left \in 0 .. K /\ fifo["con"] \in Nat
      /\ fifo \in [Devices -> Nat]
  BY <1>0, DaemonTypes
<1>2. p.at = "read" /\ n <= p.left /\ n <= fifo["con"] /\ fifo' = [fifo EXCEPT !["con"] = @ - n]
  BY <1>1, SerialAssumption DEF con_read
<1>3. fifo' \in [Devices -> Nat]
  BY <1>0, <1>1, <1>2
<1> DEFINE at == IF p.left = n THEN "get" ELSE "poll"
           left == p.left - n
<1>4. at \in {"get", "poll"} /\ left \in 0 .. K /\ proxy' = [proxy EXCEPT !["con"].left = left, !["con"].at = at]
  <2>1. at \in {"get", "poll"} /\ left \in 0 .. K
    BY <1>1, <1>2, SerialAssumption
  <2>2. proxy' = [proxy EXCEPT !["con"].left = @ - n, !["con"].at = at]
    BY DEF con_read
  <2> HIDE DEF at
  <2> QED BY <1>0, <1>1, <2>1, <2>2
<1> HIDE DEF at, left
<1>5. proxy'["con"].at = at /\ proxy'["con"].patterns = p.patterns /\ proxy'["con"].left = left
  BY <1>0, <1>1, <1>4 DEF ProxyState
<1>6. proxy'["con"].failed = p.failed /\ proxy'["con"].done = p.done
  BY <1>0, <1>1, <1>4 DEF ProxyState
<1>7. proxy' \in [Devices -> ProxyState]
  BY <1>0, <1>1, <1>4 DEF ProxyState, ProxyPlace
<1>8. \A e \in Devices : e # "con" => proxy'[e] = proxy[e]
  BY <1>1, <1>4
<1> QED BY <1>2, <1>3, <1>4, <1>5, <1>6, <1>7, <1>8 DEF Becomes, at, left

(* What the step Type does.                                                *)
LEMMA TypeStep ==
  ASSUME VMInv, kbd_poll
  PROVE  /\ proxy["kbd"].at = "poll" /\ UNCHANGED fifo
         /\ proxy'["kbd"].done = complete["kbd"] /\ proxy'["kbd"].failed = proxy["kbd"].failed
         /\ Becomes("kbd", "write", proxy["kbd"].patterns, proxy["kbd"].left)
<1>0. "kbd" \in Devices
  BY DEF Devices
<1> DEFINE p == proxy["kbd"]
           e == complete["kbd"]
<1>1. p \in ProxyState /\ proxy \in [Devices -> ProxyState] /\ e \in BOOLEAN
  BY <1>0, DaemonTypes
<1>2. p.at = "poll" /\ UNCHANGED fifo /\ proxy' = [proxy EXCEPT !["kbd"].at = "write", !["kbd"].done = e]
  BY DEF kbd_poll, serialVars, biosVars
<1> HIDE DEF e
<1>3. proxy'["kbd"].at = "write" /\ proxy'["kbd"].patterns = p.patterns /\ proxy'["kbd"].left = p.left
  BY <1>0, <1>1, <1>2 DEF ProxyState
<1>4. proxy'["kbd"].failed = p.failed /\ proxy'["kbd"].done = e
  BY <1>0, <1>1, <1>2 DEF ProxyState
<1>5. proxy' \in [Devices -> ProxyState]
  BY <1>0, <1>1, <1>2 DEF ProxyState, ProxyPlace
<1>6. \A d \in Devices : d # "kbd" => proxy'[d] = proxy[d]
  BY <1>1, <1>2
<1> QED BY <1>2, <1>3, <1>4, <1>5, <1>6 DEF Becomes, e

(* The smaller of two numbers.                                             *)
LEMMA MinOfTwo ==
  ASSUME NEW a \in Nat, NEW b \in Nat
  PROVE  Min({a, b}) = IF a <= b THEN a ELSE b
<1> DEFINE m == Min({a, b})
<1>1. \E x \in {a, b} : \A y \in {a, b} : x <= y
  OBVIOUS
<1>2. m \in {a, b} /\ \A y \in {a, b} : m <= y
  BY <1>1, Zenon DEF Min
<1> HIDE DEF m
<1>3. m = IF a <= b THEN a ELSE b
  BY <1>2
<1> QED BY <1>3 DEF m

(* What the step Write does.                                               *)
LEMMA WriteStep ==
  ASSUME VMInv, kbd_write
  PROVE  \E n \in 0 .. K :
           /\ proxy["kbd"].at = "write" /\ n <= proxy["kbd"].left /\ fifo["kbd"] + n <= KbdSize
           /\ fifo' = [fifo EXCEPT !["kbd"] = @ + n] /\ fifo' \in [Devices -> Nat]
           /\ proxy'["kbd"].done = proxy["kbd"].done
           /\ n = proxy["kbd"].left => proxy'["kbd"].failed = proxy["kbd"].failed
           /\ ~ proxy["kbd"].done => proxy'["kbd"].failed = proxy["kbd"].failed
           /\ Becomes("kbd", IF n = proxy["kbd"].left \/ proxy["kbd"].done THEN "get" ELSE "poll",
                      proxy["kbd"].patterns, proxy["kbd"].left - n)
<1>0. "kbd" \in Devices
  BY DEF Devices
<1> DEFINE p == proxy["kbd"]
           room == KbdSize - fifo["kbd"]
           n == Min({p.left, room})
           fails == p.failed \/ (n < p.left /\ p.done)
<1>1. /\ p \in ProxyState /\ proxy \in [Devices -> ProxyState] /\ p.left \in 0 .. K /\ fifo["kbd"] \in Nat
      /\ fifo \in [Devices -> Nat] /\ room \in Nat /\ p.failed \in BOOLEAN /\ p.done \in BOOLEAN
  BY <1>0, DaemonTypes, ProxyAssumption DEF VMInv, AskedOK
<1>2. n \in 0 .. K /\ n <= p.left /\ n <= room
  <2>1. p.left \in Nat
    BY <1>1
  <2> HIDE DEF room, p
  <2> QED BY <1>1, <2>1, MinOfTwo, SerialAssumption
<1>3. /\ p.at = "write" /\ fifo' = [fifo EXCEPT !["kbd"] = @ + n]
      /\ proxy' = [proxy EXCEPT !["kbd"] =
            [p EXCEPT !.left = @ - n, !.at = IF n = p.left \/ p.done THEN "get" ELSE "poll", !.failed = fails]]
  BY DEF kbd_write, NoMoreRoom
<1>4. fifo["kbd"] + n <= KbdSize
  <2> HIDE DEF n
  <2> QED BY <1>1, <1>2, ProxyAssumption
<1>5. fifo' \in [Devices -> Nat]
  <2> HIDE DEF n
  <2> QED BY <1>0, <1>1, <1>2, <1>3
<1>6. fails \in BOOLEAN /\ (n = p.left => fails = p.failed) /\ (~ p.done => fails = p.failed)
  <2> HIDE DEF n, p
  <2>1. n = p.left => ~ (n < p.left)
    BY <1>1, <1>2
  <2>2. fails \in BOOLEAN
    BY Zenon
  <2>3. n = p.left => fails = p.failed
    BY <1>1, <2>1, Zenon
  <2>4. ~ p.done => fails = p.failed
    BY <1>1, Zenon
  <2> QED BY <2>2, <2>3, <2>4
<1> DEFINE at == IF n = p.left \/ p.done THEN "get" ELSE "poll"
<1>7. at \in {"get", "poll"}
  OBVIOUS
<1>8. p.left - n \in 0 .. K
  <2> HIDE DEF n
  <2> QED BY <1>1, <1>2, SerialAssumption
<1>9. proxy' = [proxy EXCEPT !["kbd"] = [p EXCEPT !.left = p.left - n, !.at = at, !.failed = fails]]
  BY <1>3
<1>10. /\ Becomes("kbd", at, p.patterns, p.left - n) /\ proxy'["kbd"].done = p.done /\ proxy'["kbd"].failed = fails
  <2> DEFINE m == p.left - n
  <2>0. m \in 0 .. K
    BY <1>8
  <2> HIDE DEF m, at, fails
  <2>1. proxy' = [proxy EXCEPT !["kbd"] = [p EXCEPT !.left = m, !.at = at, !.failed = fails]]
    BY <1>9 DEF m
  <2>2. proxy'["kbd"].at = at /\ proxy'["kbd"].patterns = p.patterns /\ proxy'["kbd"].left = m
    BY <1>0, <1>1, <2>1 DEF ProxyState
  <2>3. proxy'["kbd"].failed = fails /\ proxy'["kbd"].done = p.done
    BY <1>0, <1>1, <2>1 DEF ProxyState
  <2>4. proxy' \in [Devices -> ProxyState]
    BY <1>0, <1>1, <1>6, <1>7, <2>0, <2>1 DEF ProxyState, ProxyPlace
  <2>5. \A d \in Devices : d # "kbd" => proxy'[d] = proxy[d]
    BY <1>1, <2>1
  <2> QED BY <2>2, <2>3, <2>4, <2>5 DEF Becomes, m
<1> HIDE DEF n, at, fails
<1>11. at = IF n = p.left \/ p.done THEN "get" ELSE "poll"
  BY DEF at
<1> QED BY <1>2, <1>3, <1>4, <1>5, <1>6, <1>10, <1>11

(* The daemons do not touch the machine.                                   *)
LEMMA DaemonFrame ==
  ASSUME DaemonStep
  PROVE  UNCHANGED <<core, pic, PIC_active, int_pending, usr1, intvec, ready, active_threads, thread, complete, tester>>
BY DEF DaemonStep, term_proxy_daemon_get, con_poll, con_decide, con_read, kbd_poll, kbd_write, serialVars, biosVars

(* A step of a terminal daemon.                                            *)
LEMMA DaemonInv ==
  ASSUME VMInv, DaemonStep
  PROVE  VMInv'
<1> DEFINE Kept == /\ proxy' \in [Devices -> ProxyState] /\ fifo' \in [Devices -> Nat] /\ fifo'["kbd"] <= KbdSize
                   /\ \A d \in Devices : proxy'[d].patterns <= proxy[d].patterns
<1>0. UNCHANGED <<core, pic, PIC_active, int_pending, usr1, intvec, ready, active_threads, thread, complete, tester>>
  BY DaemonFrame
<1>1. Kept
  <2>0. /\ proxy \in [Devices -> ProxyState] /\ fifo \in [Devices -> Nat] /\ fifo["kbd"] <= KbdSize
        /\ \A d \in Devices : proxy[d].patterns \in 0 .. 1
    BY DaemonTypes DEF VMInv, AskedOK, VMTypes
  <2>1. ASSUME NEW d \in Devices, term_proxy_daemon_get(d) PROVE Kept
    <3>1. /\ UNCHANGED fifo /\ proxy' \in [Devices -> ProxyState] /\ \A e \in Devices : e # d => proxy'[e] = proxy[e]
          /\ proxy'[d].patterns = 0
      BY <2>1, GetStep DEF Becomes
    <3> QED BY <2>0, <3>1
  <2>2. CASE con_poll \/ con_decide
    BY <2>0, <2>2, ConStep DEF Becomes
  <2>3. ASSUME NEW n \in 1 .. K, con_read(n) PROVE Kept
    BY <2>0, <2>3, ReadStep DEF Becomes, Devices
  <2>4. CASE kbd_poll
    BY <2>0, <2>4, TypeStep DEF Becomes
  <2>5. CASE kbd_write
    <3>1. "kbd" \in Devices
      BY DEF Devices
    <3> QED BY <2>0, <2>5, <3>1, WriteStep DEF Becomes
  <2> QED BY <2>1, <2>2, <2>3, <2>4, <2>5 DEF DaemonStep
<1>2. VMTypes'
  BY <1>0, <1>1 DEF VMInv, VMTypes
<1>3. PhaseOK' /\ VectorOK' /\ ThreadOK'
  BY <1>0 DEF VMInv, PhaseOK, VectorOK, ThreadOK
<1>4. \A d \in Devices : proxy[d].patterns \in 0 .. 1 /\ proxy'[d].patterns \in 0 .. 1
  BY <1>1, DaemonTypes DEF ProxyState
<1>5. AskedOK'
  BY <1>0, <1>1, <1>4 DEF VMInv, AskedOK, Devices
<1> QED BY <1>2, <1>3, <1>5 DEF VMInv

(* run_boot closes the daemons when the machine is gone.                   *)
LEMMA TestClosesInv ==
  ASSUME VMInv, TestCloses
  PROVE  VMInv'
<1> USE DEF TestCloses, term_proxy_daemon_close, JoinDaemon
<1>1. UNCHANGED <<serialVars, proxy>>
  OBVIOUS
<1>2. /\ tester' \in TesterPlace \ {"off", "boot"} /\ tester # "off"
      /\ tester = "boot" => pic.at = "joined"
  BY DEF TesterPlace
<1>3. complete' \in [Devices -> BOOLEAN]
  <2>1. complete \in [Devices -> BOOLEAN]
    BY DEF VMInv, VMTypes
  <2>2. complete' = complete \/ \E d \in Devices : complete' = [complete EXCEPT ![d] = TRUE]
    BY DEF Told, Devices
  <2> QED BY <2>1, <2>2
<1>4. VMTypes'
  BY <1>1, <1>2, <1>3 DEF VMInv, VMTypes, serialVars, biosVars
<1>5. PhaseOK'
  BY <1>1, <1>2 DEF VMInv, PhaseOK, serialVars, biosVars
<1>6. VectorOK' /\ ThreadOK' /\ AskedOK'
  BY <1>1 DEF VMInv, VectorOK, ThreadOK, AskedOK, serialVars, biosVars
<1> QED BY <1>4, <1>5, <1>6 DEF VMInv

(* Every step keeps the inductive invariant.                               *)
LEMMA VMInvStep ==
  ASSUME VMInv, [TerminalMove]_terminalVars
  PROVE  VMInv'
<1>1. CASE UNCHANGED terminalVars
  BY <1>1 DEF terminalVars, serialVars, biosVars, VMInv, VMTypes, PhaseOK, VectorOK, ThreadOK, AskedOK
<1>2. CASE tester = "boot" /\ VMStep /\ UNCHANGED <<proxy, complete, tester>>
  BY <1>2, SystemBarrierInv, CoreStepInv, PICInv, HandleInv, ThreadPlaceInv, SerialInv DEF VMStep
<1> QED BY <1>1, <1>2, TestStartsInv, TestClosesInv, DaemonInv, AskInv DEF TerminalMove, TerminalNext

(* On any number of cores, with FIFOs of any size and any number of bytes: *)
(* no core runs its scheduler before the kernel is there, the PIC daemon   *)
(* stops after the last handler is gone and signals no core thread that    *)
(* has ended, and the terminals are closed after the last thread has left. *)
THEOREM MachineSafe == Spec => []VMInvariant
<1>1. Init => VMInv
  BY VMInvInit DEF Init
<1>2. VMInv /\ [Next]_vars => VMInv'
  BY VMInvStep, PartsMove
<1> QED BY <1>1, <1>2, VMInvSound, PTL DEF Spec

-----------------------------------------------------------------------------
(* What the daemons have seen and typed.                                   *)

Announced(d) == IF proxy[d].patterns = 1 THEN K ELSE 0

(* Every byte promised is typed, in the keyboard's FIFO or read; and every *)
(* byte announced and not seen yet is in the console's or to be written.   *)
BytesOK ==
  /\ thread.got + fifo["kbd"] + proxy["kbd"].left + Announced("kbd") = IF thread.asked = "none" THEN 0 ELSE K
  /\ fifo["con"] + (IF thread.asked = "expect" THEN K ELSE 0) = thread.put + proxy["con"].left + Announced("con")
  /\ thread.asked # "expect" => thread.put = 0 /\ proxy["con"].left = 0
  /\ thread.asked = "expect" => thread.got = K
  /\ thread.at = "gone" => thread.put = K

(* A daemon is told of the end after the machine has gone, and the one of  *)
(* the console is not told between a poll and what follows it.             *)
DaemonsOK ==
  /\ \A d \in Devices : ~ proxy[d].failed
  /\ \A d \in Devices : proxy[d].done => complete[d]
  /\ \A d \in Devices : complete[d] => tester \notin {"off", "boot"}
  /\ \A d \in Devices : proxy[d].at \in {"get", "ended"} => proxy[d].left = 0
  /\ proxy["con"].at \in {"poll", "decide", "read"} => proxy["con"].left > 0
  /\ proxy["con"].at = "decide" => ~ complete["con"]

PatternInv == VMInv /\ BytesOK /\ DaemonsOK

(* The inductive invariant implies the property the run checks.            *)
LEMMA PatternInvSound == PatternInv => ExpectsMet
BY DEF PatternInv, DaemonsOK, ExpectsMet

(* The inductive invariant holds initially.                                *)
LEMMA PatternInvInit == TerminalInit => PatternInv
<1> SUFFICES ASSUME TerminalInit PROVE PatternInv
  OBVIOUS
<1> USE DEF TerminalInit, BiosInit, ThreadInit, Devices
<1>1. BytesOK
  BY SerialAssumption DEF BytesOK, Announced
<1>2. DaemonsOK
  BY DEF DaemonsOK
<1> QED BY <1>1, <1>2, VMInvInit DEF PatternInv

(* The counters as numbers.                                                *)
LEMMA ByteTypes ==
  ASSUME VMInv
  PROVE  /\ thread.got \in 0 .. K /\ thread.put \in 0 .. K /\ K \in Nat /\ K > 0
         /\ fifo["kbd"] \in Nat /\ fifo["con"] \in Nat
         /\ proxy["kbd"].left \in 0 .. K /\ proxy["con"].left \in 0 .. K
         /\ proxy["kbd"].patterns \in 0 .. 1 /\ proxy["con"].patterns \in 0 .. 1
         /\ Announced("kbd") \in {0, K} /\ Announced("con") \in {0, K}
         /\ thread.asked \in {"none", "sendme", "expect"}
<1>1. "kbd" \in Devices /\ "con" \in Devices
  BY DEF Devices
<1>2. thread \in ThreadState
  BY DEF VMInv, VMTypes
<1> QED BY <1>1, <1>2, DaemonTypes, SerialAssumption DEF ThreadState, Announced

(* When the thread has exited, everything has been read and written; and a *)
(* daemon that is told finds it so.                                        *)
LEMMA AfterTheThread ==
  ASSUME PatternInv, NEW d \in Devices, complete[d]
  PROVE  proxy["kbd"].left = 0 /\ fifo["con"] = proxy["con"].left + Announced("con")
<1>1. tester \notin {"off", "boot"}
  BY DEF PatternInv, DaemonsOK
<1>2. pic.at = "joined"
  BY <1>1 DEF PatternInv, VMInv, PhaseOK
<1>3. thread.at = "gone"
  BY <1>2, VMInvSound DEF PatternInv, VMInvariant
<1>4. thread.put = K /\ thread.asked = "expect" /\ thread.got = K
  BY <1>3, ByteTypes DEF PatternInv, BytesOK
<1> QED BY <1>4, ByteTypes DEF PatternInv, BytesOK

(* The steps of the console's daemon.                                      *)
LEMMA ConsoleDaemonInv ==
  ASSUME PatternInv, term_proxy_daemon_get("con") \/ con_poll \/ con_decide \/ \E n \in 1 .. K : con_read(n)
  PROVE  BytesOK' /\ DaemonsOK'
<1>0. "kbd" \in Devices /\ "con" \in Devices /\ \A e \in Devices : e \in {"kbd", "con"}
  BY DEF Devices
<1>1. DaemonStep /\ VMInv
  BY <1>0 DEF DaemonStep, PatternInv
<1>2. UNCHANGED <<thread, complete, tester>>
  BY <1>1, DaemonFrame
<1> DEFINE p == proxy["con"]
           q == proxy'["con"]
<1>3. /\ \A e \in Devices : proxy[e].left \in 0 .. K /\ proxy[e].patterns \in 0 .. 1
      /\ fifo["con"] \in Nat /\ fifo["kbd"] \in Nat /\ K \in Nat /\ K > 0 /\ thread.got \in 0 .. K /\ thread.put \in 0 .. K
  BY <1>0, <1>1, ByteTypes, DaemonTypes
<1>4. ASSUME NEW at, NEW patterns, NEW left, Becomes("con", at, patterns, left), fifo'["kbd"] = fifo["kbd"],
             left + (IF patterns = 1 THEN K ELSE 0) - fifo'["con"] = p.left + Announced("con") - fifo["con"],
             left \in 0 .. K, patterns \in 0 .. 1, fifo'["con"] \in Nat,
             ~ q.failed, q.done => complete["con"],
             at \in {"get", "ended"} => left = 0, at \in {"poll", "decide", "read"} => left > 0,
             at = "decide" => ~ complete["con"],
             thread.asked # "expect" => left = 0
      PROVE  BytesOK' /\ DaemonsOK'
  <2>1. proxy'["kbd"] = proxy["kbd"] /\ q.at = at /\ q.patterns = patterns /\ q.left = left
    BY <1>0, <1>4 DEF Becomes
  <2>2. Announced("kbd")' = Announced("kbd") /\ Announced("con")' = IF patterns = 1 THEN K ELSE 0
    BY <2>1 DEF Announced
  <2>3. BytesOK'
    <3> DEFINE w == IF patterns = 1 THEN K ELSE 0
               a == IF thread.asked = "expect" THEN K ELSE 0
    <3>1. w \in Nat /\ a \in Nat /\ Announced("con") \in Nat
      BY <1>1, <1>3, ByteTypes
    <3>2. fifo["con"] + a = thread.put + p.left + Announced("con")
      BY DEF PatternInv, BytesOK
    <3>3. left + w - fifo'["con"] = p.left + Announced("con") - fifo["con"]
      BY <1>4
    <3> HIDE DEF w, a
    <3>4. fifo'["con"] + a = thread.put + left + w
      BY <1>0, <1>3, <1>4, <3>1, <3>2, <3>3
    <3>5. fifo'["con"] + (IF thread'.asked = "expect" THEN K ELSE 0) = thread'.put + q.left + Announced("con")'
      BY <1>2, <2>1, <2>2, <3>4 DEF w, a
    <3>6. thread'.got + fifo'["kbd"] + proxy'["kbd"].left + Announced("kbd")' = IF thread'.asked = "none" THEN 0 ELSE K
      BY <1>2, <1>4, <2>1, <2>2 DEF PatternInv, BytesOK
    <3> QED BY <1>2, <1>4, <2>1, <3>5, <3>6 DEF PatternInv, BytesOK
  <2>4. DaemonsOK'
    BY <1>0, <1>2, <1>4, <2>1 DEF PatternInv, DaemonsOK
  <2> QED BY <2>3, <2>4
<1>5. CASE term_proxy_daemon_get("con")
  <2>1. UNCHANGED fifo /\ p.at = "get" /\ q.failed = p.failed
    BY <1>0, <1>1, <1>5, GetStep
  <2>2. p.left = 0 /\ ~ p.failed
    BY <1>0, <2>1 DEF PatternInv, DaemonsOK
  <2>3. CASE p.patterns = 1 /\ Becomes("con", "poll", 0, K) /\ q.done = FALSE
    <3>1. thread.asked = "expect"
      BY <2>3 DEF PatternInv, VMInv, AskedOK
    <3> QED BY <1>3, <1>4, <2>1, <2>2, <2>3, <3>1 DEF Announced
  <2>4. CASE p.patterns = 0 /\ complete["con"] /\ Becomes("con", "ended", 0, p.left) /\ q.done = p.done
    BY <1>3, <1>4, <2>1, <2>2, <2>4 DEF Announced
  <2> QED BY <1>0, <1>1, <1>5, <2>3, <2>4, GetStep
<1>6. CASE con_poll \/ con_decide
  <2>1. UNCHANGED fifo
    BY <1>1, <1>6, ConStep
  <2>2. CASE /\ p.at = "poll" /\ q.failed = p.failed /\ (q.done <=> p.done \/ complete["con"])
             /\ fifo["con"] > 0 /\ Becomes("con", "read", p.patterns, p.left)
    <3>1. p.left > 0 /\ ~ p.failed /\ (q.done => complete["con"]) /\ (thread.asked # "expect" => p.left = 0)
      BY <1>0, <2>2 DEF PatternInv, DaemonsOK, BytesOK
    <3> QED BY <1>0, <1>3, <1>4, <2>1, <2>2, <3>1 DEF Announced
  <2>3. CASE /\ p.at = "poll" /\ q.failed = p.failed /\ (q.done <=> p.done \/ complete["con"])
             /\ fifo["con"] = 0 /\ Becomes("con", "decide", p.patterns, p.left)
    <3>1. p.left > 0 /\ ~ p.failed /\ (q.done => complete["con"]) /\ (thread.asked # "expect" => p.left = 0)
      BY <1>0, <2>3 DEF PatternInv, DaemonsOK, BytesOK
    <3>2. ~ complete["con"]
      BY <1>0, <1>1, <1>3, <2>3, <3>1, AfterTheThread, ByteTypes
    <3> QED BY <1>0, <1>3, <1>4, <2>1, <2>3, <3>1, <3>2 DEF Announced
  <2>4. CASE /\ p.at = "decide" /\ q.done = p.done
             /\ p.done \/ complete["con"]
    BY <1>0, <2>4 DEF PatternInv, DaemonsOK
  <2>5. CASE /\ p.at = "decide" /\ q.done = p.done /\ Becomes("con", "poll", p.patterns, p.left)
             /\ q.failed <=> p.failed
    <3>1. p.left > 0 /\ ~ p.failed /\ (p.done => complete["con"]) /\ (thread.asked # "expect" => p.left = 0)
      BY <1>0, <2>5 DEF PatternInv, DaemonsOK, BytesOK
    <3> QED BY <1>0, <1>3, <1>4, <2>1, <2>5, <3>1 DEF Announced
  <2> QED BY <1>1, <1>6, <2>2, <2>3, <2>4, <2>5, ConStep
<1>7. ASSUME NEW n \in 1 .. K, con_read(n) PROVE BytesOK' /\ DaemonsOK'
  <2>1. /\ p.at = "read" /\ n <= p.left /\ n <= fifo["con"] /\ fifo' = [fifo EXCEPT !["con"] = @ - n]
        /\ q.done = p.done /\ q.failed = p.failed /\ fifo \in [Devices -> Nat]
        /\ Becomes("con", IF p.left = n THEN "get" ELSE "poll", p.patterns, p.left - n)
    BY <1>0, <1>1, <1>7, ReadStep, DaemonTypes
  <2>2. ~ p.failed /\ (p.done => complete["con"]) /\ (thread.asked # "expect" => p.left = 0)
    BY <1>0 DEF PatternInv, DaemonsOK, BytesOK
  <2>3. fifo'["con"] = fifo["con"] - n /\ fifo'["kbd"] = fifo["kbd"]
    BY <1>0, <2>1
  <2> QED BY <1>0, <1>3, <1>4, <2>1, <2>2, <2>3 DEF Announced
<1> QED BY <1>5, <1>6, <1>7

(* The steps of the keyboard's daemon.                                     *)
LEMMA KeyboardDaemonInv ==
  ASSUME PatternInv, term_proxy_daemon_get("kbd") \/ kbd_poll \/ kbd_write
  PROVE  BytesOK' /\ DaemonsOK'
<1>0. "kbd" \in Devices /\ "con" \in Devices /\ \A e \in Devices : e \in {"kbd", "con"}
  BY DEF Devices
<1>1. DaemonStep /\ VMInv
  BY <1>0 DEF DaemonStep, PatternInv
<1>2. UNCHANGED <<thread, complete, tester>>
  BY <1>1, DaemonFrame
<1> DEFINE p == proxy["kbd"]
           q == proxy'["kbd"]
<1>3. /\ \A e \in Devices : proxy[e].left \in 0 .. K /\ proxy[e].patterns \in 0 .. 1
      /\ fifo["con"] \in Nat /\ fifo["kbd"] \in Nat /\ K \in Nat /\ K > 0 /\ thread.got \in 0 .. K /\ thread.put \in 0 .. K
  BY <1>0, <1>1, ByteTypes, DaemonTypes
<1>4. ASSUME NEW at, NEW patterns, NEW left, Becomes("kbd", at, patterns, left), fifo'["con"] = fifo["con"],
             left + (IF patterns = 1 THEN K ELSE 0) + fifo'["kbd"] = p.left + Announced("kbd") + fifo["kbd"],
             left \in 0 .. K, patterns \in 0 .. 1, fifo'["kbd"] \in Nat,
             ~ q.failed, q.done => complete["kbd"], at \in {"get", "ended"} => left = 0
      PROVE  BytesOK' /\ DaemonsOK'
  <2>1. proxy'["con"] = proxy["con"] /\ q.at = at /\ q.patterns = patterns /\ q.left = left
    BY <1>0, <1>4 DEF Becomes
  <2>2. Announced("con")' = Announced("con") /\ Announced("kbd")' = IF patterns = 1 THEN K ELSE 0
    BY <2>1 DEF Announced
  <2>3. BytesOK'
    <3> DEFINE w == IF patterns = 1 THEN K ELSE 0
               a == IF thread.asked = "none" THEN 0 ELSE K
    <3>1. w \in Nat /\ a \in Nat /\ Announced("kbd") \in Nat
      BY <1>1, <1>3, ByteTypes
    <3>2. thread.got + fifo["kbd"] + p.left + Announced("kbd") = a
      BY DEF PatternInv, BytesOK
    <3>3. left + w + fifo'["kbd"] = p.left + Announced("kbd") + fifo["kbd"]
      BY <1>4
    <3> HIDE DEF w, a
    <3>4. thread.got + fifo'["kbd"] + left + w = a
      BY <1>0, <1>3, <1>4, <3>1, <3>2, <3>3
    <3>5. thread'.got + fifo'["kbd"] + q.left + Announced("kbd")' = IF thread'.asked = "none" THEN 0 ELSE K
      BY <1>2, <2>1, <2>2, <3>4 DEF w, a
    <3>6. fifo'["con"] + (IF thread'.asked = "expect" THEN K ELSE 0) = thread'.put + proxy'["con"].left + Announced("con")'
      BY <1>2, <1>4, <2>1, <2>2 DEF PatternInv, BytesOK
    <3> QED BY <1>2, <1>4, <2>1, <3>5, <3>6 DEF PatternInv, BytesOK
  <2>4. DaemonsOK'
    BY <1>0, <1>2, <1>4, <2>1 DEF PatternInv, DaemonsOK
  <2> QED BY <2>3, <2>4
<1>5. CASE term_proxy_daemon_get("kbd")
  <2>1. UNCHANGED fifo /\ p.at = "get" /\ q.failed = p.failed
    BY <1>0, <1>1, <1>5, GetStep
  <2>2. p.left = 0 /\ ~ p.failed /\ (p.done => complete["kbd"])
    BY <1>0, <2>1 DEF PatternInv, DaemonsOK
  <2>3. CASE p.patterns = 1 /\ Becomes("kbd", "poll", 0, K) /\ q.done = FALSE
    BY <1>3, <1>4, <2>1, <2>2, <2>3 DEF Announced
  <2>4. CASE p.patterns = 0 /\ complete["kbd"] /\ Becomes("kbd", "ended", 0, p.left) /\ q.done = p.done
    BY <1>3, <1>4, <2>1, <2>2, <2>4 DEF Announced
  <2> QED BY <1>0, <1>1, <1>5, <2>3, <2>4, GetStep
<1>6. CASE kbd_poll
  <2>1. /\ p.at = "poll" /\ UNCHANGED fifo /\ q.done = complete["kbd"] /\ q.failed = p.failed
        /\ Becomes("kbd", "write", p.patterns, p.left)
    BY <1>1, <1>6, TypeStep
  <2>2. ~ p.failed
    BY <1>0 DEF PatternInv, DaemonsOK
  <2> QED BY <1>0, <1>3, <1>4, <2>1, <2>2 DEF Announced
<1>7. CASE kbd_write
  <2>1. PICK n \in 0 .. K :
           /\ p.at = "write" /\ n <= p.left
           /\ fifo' = [fifo EXCEPT !["kbd"] = @ + n]
           /\ q.done = p.done /\ (n = p.left => q.failed = p.failed) /\ (~ p.done => q.failed = p.failed)
           /\ Becomes("kbd", IF n = p.left \/ p.done THEN "get" ELSE "poll", p.patterns, p.left - n)
    BY <1>1, <1>7, WriteStep
  <2>2. ~ p.failed /\ (p.done => complete["kbd"]) /\ fifo \in [Devices -> Nat]
    BY <1>0, <1>1, DaemonTypes DEF PatternInv, DaemonsOK
  <2>3. p.done => p.left = 0
    BY <1>0, <2>2, AfterTheThread
  <2>4. p.done => n = p.left
    BY <1>0, <1>3, <2>1, <2>3
  <2>5. ~ q.failed
    BY <2>1, <2>2, <2>4
  <2>6. fifo'["kbd"] = fifo["kbd"] + n /\ fifo'["con"] = fifo["con"]
    BY <1>0, <2>1, <2>2
  <2>7. CASE n = p.left
    <3>1. Becomes("kbd", "get", p.patterns, 0)
      BY <1>0, <1>3, <2>1, <2>7
    <3>2. p.left \in 0 .. K /\ p.patterns \in 0 .. 1 /\ fifo["kbd"] \in Nat /\ K \in Nat
      BY <1>0, <1>3
    <3>3. fifo'["kbd"] = fifo["kbd"] + p.left /\ fifo'["kbd"] \in Nat
      BY <2>6, <2>7, <3>2
    <3>4. 0 + (IF p.patterns = 1 THEN K ELSE 0) + fifo'["kbd"] = p.left + Announced("kbd") + fifo["kbd"]
      BY <3>2, <3>3 DEF Announced
    <3>5. q.done => complete["kbd"]
      BY <2>1, <2>2
    <3> QED BY <1>4, <2>5, <2>6, <3>1, <3>2, <3>3, <3>4, <3>5
  <2>8. CASE n # p.left /\ ~ p.done
    <3>1. Becomes("kbd", "poll", p.patterns, p.left - n)
      BY <2>1, <2>8
    <3> QED BY <1>0, <1>3, <1>4, <2>1, <2>2, <2>5, <2>6, <2>8, <3>1 DEF Announced
  <2> QED BY <2>4, <2>7, <2>8
<1> QED BY <1>5, <1>6, <1>7

(* The steps of the thread.                                                *)
LEMMA ThreadBytesInv ==
  ASSUME PatternInv, tester = "boot", UNCHANGED <<proxy, complete, tester>>,
         \/ SleepRx
         \/ \E c \in Cores : Handle(c) \/ RunThread(c) \/ serial_read(c) \/ serial_write(c) \/ ThreadExits(c)
  PROVE  BytesOK' /\ DaemonsOK'
<1>0. "kbd" \in Devices /\ "con" \in Devices /\ fifo \in [Devices -> Nat] /\ thread \in ThreadState
  BY DEF Devices, PatternInv, VMInv, VMTypes
<1>1. DaemonsOK' /\ Announced("kbd")' = Announced("kbd") /\ Announced("con")' = Announced("con")
  BY DEF PatternInv, DaemonsOK, Announced
<1>2. VMInv /\ BytesOK
  BY DEF PatternInv
<1>3. ASSUME UNCHANGED fifo, thread'.got = thread.got, thread'.put = thread.put, thread'.asked = thread.asked,
             thread'.at = "gone" => thread'.put = K
      PROVE  BytesOK'
  BY <1>1, <1>2, <1>3 DEF BytesOK
<1>4. CASE SleepRx \/ \E c \in Cores : Handle(c) \/ RunThread(c)
  <2>1. UNCHANGED fifo
    BY <1>4 DEF SleepRx, Handle, sigusr1_handler, RunThread, biosVars
  <2>2. /\ thread'.got = thread.got /\ thread'.put = thread.put /\ thread'.asked = thread.asked
        /\ thread'.at = "gone" => thread.at = "gone"
    <3>1. CASE \E c \in Cores : Handle(c)
      <4>1. thread' = thread \/ thread' = [thread EXCEPT !.at = "ready"]
        BY <3>1 DEF Handle, serial_rx_handler
      <4> QED BY <1>0, <4>1 DEF ThreadState
    <3>2. CASE SleepRx \/ \E c \in Cores : RunThread(c)
      BY <1>0, <3>2 DEF SleepRx, RunThread, ThreadState
    <3> QED BY <1>4, <3>1, <3>2
  <2> QED BY <1>1, <1>2, <1>3, <2>1, <2>2 DEF BytesOK
<1>5. ASSUME NEW c \in Cores, serial_read(c) PROVE BytesOK'
  <2>1. CASE io_ready("kbd")
    <3>1. /\ fifo' = [fifo EXCEPT !["kbd"] = @ - 1] /\ fifo["kbd"] > 0 /\ thread.asked = "sendme"
          /\ thread' = [thread EXCEPT !.got = @ + 1] /\ thread.at = "user"
      BY <1>5, <2>1 DEF serial_read, TryTransfer, Transfer, io_ready, MayRead
    <3>2. /\ fifo'["kbd"] = fifo["kbd"] - 1 /\ fifo'["con"] = fifo["con"] /\ thread'.got = thread.got + 1
          /\ thread'.put = thread.put /\ thread'.asked = thread.asked /\ thread'.at = "user"
      BY <1>0, <3>1 DEF ThreadState
    <3> QED BY <1>1, <1>2, <3>1, <3>2, ByteTypes DEF BytesOK
  <2>2. CASE ~ io_ready("kbd")
    <3>1. UNCHANGED fifo /\ thread' = [thread EXCEPT !.at = "failed"]
      BY <1>5, <2>2 DEF serial_read, TryTransfer, FailedTransfer
    <3> QED BY <1>0, <1>3, <3>1 DEF ThreadState
  <2> QED BY <2>1, <2>2
<1>6. ASSUME NEW c \in Cores, serial_write(c) PROVE BytesOK'
  <2>1. CASE io_ready("con")
    <3>1. /\ fifo' = [fifo EXCEPT !["con"] = @ + 1] /\ thread.asked = "expect"
          /\ thread' = [thread EXCEPT !.put = @ + 1] /\ thread.at = "user"
      BY <1>6, <2>1 DEF serial_write, TryTransfer, Transfer, MayWrite
    <3>2. /\ fifo'["con"] = fifo["con"] + 1 /\ fifo'["kbd"] = fifo["kbd"] /\ thread'.put = thread.put + 1
          /\ thread'.got = thread.got /\ thread'.asked = thread.asked /\ thread'.at = "user"
      BY <1>0, <3>1 DEF ThreadState
    <3> QED BY <1>1, <1>2, <3>1, <3>2, ByteTypes DEF BytesOK
  <2>2. CASE ~ io_ready("con")
    <3>1. UNCHANGED fifo /\ thread' = [thread EXCEPT !.at = "ready"]
      BY <1>6, <2>2 DEF serial_write, TryTransfer, FailedTransfer
    <3> QED BY <1>0, <1>3, <3>1 DEF ThreadState
  <2> QED BY <2>1, <2>2
<1>7. ASSUME NEW c \in Cores, ThreadExits(c) PROVE BytesOK'
  <2>1. UNCHANGED fifo /\ thread' = [thread EXCEPT !.at = "gone"] /\ thread.put = K
    BY <1>7 DEF ThreadExits
  <2> QED BY <1>0, <1>3, <2>1 DEF ThreadState
<1> QED BY <1>1, <1>4, <1>5, <1>6, <1>7

(* The tester asks for bytes to be typed or expected.                      *)
LEMMA AskBytesInv ==
  ASSUME PatternInv, NEW c \in Cores, Sendme(c) \/ Expect(c)
  PROVE  BytesOK' /\ DaemonsOK'
<1>0. /\ "kbd" \in Devices /\ "con" \in Devices /\ \A e \in Devices : e \in {"kbd", "con"}
      /\ thread \in ThreadState /\ proxy \in [Devices -> ProxyState]
  BY DEF Devices, PatternInv, VMInv, VMTypes
<1>1. UNCHANGED <<fifo, complete, tester>> /\ VMInv /\ BytesOK
  BY DEF Sendme, Expect, Ask, biosVars, PatternInv
<1>2. ASSUME NEW d \in Devices, NEW what \in {"sendme", "expect"},
             thread' = [thread EXCEPT !.asked = what], proxy' = [proxy EXCEPT ![d].patterns = @ + 1],
             proxy[d].patterns = 0
      PROVE  /\ thread'.got = thread.got /\ thread'.put = thread.put /\ thread'.at = thread.at /\ thread'.asked = what
             /\ \A e \in Devices : e # d => proxy'[e] = proxy[e]
             /\ proxy'[d].patterns = 1 /\ proxy'[d].left = proxy[d].left /\ proxy'[d].at = proxy[d].at
             /\ proxy'[d].done = proxy[d].done /\ proxy'[d].failed = proxy[d].failed
  <2>1. /\ thread'.got = thread.got /\ thread'.put = thread.put /\ thread'.at = thread.at /\ thread'.asked = what
    BY <1>0, <1>2 DEF ThreadState
  <2>2. \A e \in Devices : e # d => proxy'[e] = proxy[e]
    BY <1>0, <1>2
  <2>3. proxy[d] \in ProxyState
    BY <1>0
  <2>4. proxy'[d] = [proxy[d] EXCEPT !.patterns = @ + 1]
    BY <1>0, <1>2
  <2>5. /\ proxy'[d].patterns = 1 /\ proxy'[d].left = proxy[d].left /\ proxy'[d].at = proxy[d].at
        /\ proxy'[d].done = proxy[d].done /\ proxy'[d].failed = proxy[d].failed
    BY <1>2, <2>3, <2>4 DEF ProxyState
  <2> QED BY <2>1, <2>2, <2>5
<1>3. CASE Sendme(c)
  <2>1. /\ thread' = [thread EXCEPT !.asked = "sendme"] /\ proxy' = [proxy EXCEPT !["kbd"].patterns = @ + 1]
        /\ thread.asked = "none" /\ proxy["kbd"].patterns = 0
    BY <1>1, <1>3 DEF Sendme, Ask, term_proxy_daemon_add, VMInv, AskedOK
  <2>2. Announced("kbd") = 0 /\ Announced("kbd")' = K /\ Announced("con")' = Announced("con")
    BY <1>0, <1>2, <2>1 DEF Announced
  <2>3. BytesOK'
    BY <1>0, <1>1, <1>2, <2>1, <2>2, ByteTypes DEF BytesOK
  <2>4. DaemonsOK'
    BY <1>0, <1>1, <1>2, <2>1 DEF PatternInv, DaemonsOK
  <2> QED BY <2>3, <2>4
<1>4. CASE Expect(c)
  <2>1. /\ thread' = [thread EXCEPT !.asked = "expect"] /\ proxy' = [proxy EXCEPT !["con"].patterns = @ + 1]
        /\ thread.asked = "sendme" /\ proxy["con"].patterns = 0 /\ thread.got = K
    BY <1>1, <1>4 DEF Expect, Ask, term_proxy_daemon_add, VMInv, AskedOK
  <2>2. Announced("con") = 0 /\ Announced("con")' = K /\ Announced("kbd")' = Announced("kbd")
    BY <1>0, <1>2, <2>1 DEF Announced
  <2>3. BytesOK'
    BY <1>0, <1>1, <1>2, <2>1, <2>2, ByteTypes DEF BytesOK
  <2>4. DaemonsOK'
    BY <1>0, <1>1, <1>2, <2>1 DEF PatternInv, DaemonsOK
  <2> QED BY <2>3, <2>4
<1> QED BY <1>3, <1>4

(* The tester closes the terminal after its daemon is done.                *)
LEMMA CloseBytesInv ==
  ASSUME PatternInv, TestCloses, ~ SlowDaemon
  PROVE  BytesOK' /\ DaemonsOK'
<1>1. UNCHANGED <<thread, fifo, proxy>> /\ BytesOK /\ complete \in [Devices -> BOOLEAN]
  BY DEF TestCloses, term_proxy_daemon_close, JoinDaemon, serialVars, biosVars, PatternInv, VMInv, VMTypes
<1>2. BytesOK'
  BY <1>1 DEF BytesOK, Announced
<1>3. /\ tester' \notin {"off", "boot"}
      /\ \A d \in Devices : complete[d] => complete'[d]
      /\ complete'["con"] => complete["con"] \/ proxy["con"].at # "decide"
  BY <1>1 DEF TestCloses, term_proxy_daemon_close, JoinDaemon, Told, Devices
<1>4. DaemonsOK'
  BY <1>1, <1>3 DEF PatternInv, DaemonsOK
<1> QED BY <1>2, <1>4

(* Every step keeps the inductive invariant.                               *)
LEMMA PatternInvStep ==
  ASSUME PatternInv, ~ SlowDaemon, [TerminalMove]_terminalVars
  PROVE  PatternInv'
<1>0. VMInv'
  BY VMInvStep DEF PatternInv
<1> SUFFICES BytesOK' /\ DaemonsOK'
  BY <1>0 DEF PatternInv
<1>1. CASE UNCHANGED <<thread, fifo, proxy, complete>> /\ (UNCHANGED tester \/ (tester = "off" /\ tester' = "boot"))
  <2>1. DaemonsOK'
    BY <1>1 DEF PatternInv, DaemonsOK
  <2>2. BytesOK'
    BY <1>1 DEF PatternInv, BytesOK, Announced
  <2> QED BY <2>1, <2>2
<1>2. CASE tester = "boot" /\ VMStep /\ UNCHANGED <<proxy, complete, tester>>
  <2>1. CASE \/ (SystemStarts \/ SystemStops \/ PIC_check \/ PIC_select) /\ UNCHANGED thread
             \/ \E c \in Cores : CoreStep(c) /\ UNCHANGED thread
             \/ \E late \in SUBSET Devices, alarms \in SUBSET Cores : PIC_process(late, alarms) /\ UNCHANGED thread
    <3>1. UNCHANGED <<thread, fifo>>
      BY <2>1 DEF SystemStarts, SystemStops, PIC_check, PIC_select, CoreStep, BootCore, EnterScheduler, LeaveScheduler,
                  StopPIC, PIC_process
    <3> QED BY <1>1, <1>2, <3>1
  <2> QED BY <1>2, <2>1, ThreadBytesInv DEF VMStep
<1>3. CASE DaemonStep
  BY <1>3, ConsoleDaemonInv, KeyboardDaemonInv DEF DaemonStep, Devices
<1>4. CASE TestStarts \/ UNCHANGED terminalVars
  BY <1>1, <1>4 DEF TestStarts, vm_boot, terminalVars, serialVars, biosVars
<1> QED BY <1>2, <1>3, <1>4, AskBytesInv, CloseBytesInv DEF TerminalMove, TerminalNext

(* A console daemon that is not slow misses nothing: what the program      *)
(* writes is seen by expect and what sendme promises is typed, for FIFOs   *)
(* and patterns of any size.                                               *)
THEOREM ExpectationsMet ==
  ASSUME ~ SlowDaemon
  PROVE  Spec => []ExpectsMet
<1>1. Init => PatternInv
  BY PatternInvInit DEF Init
<1>2. PatternInv /\ [Next]_vars => PatternInv'
  BY PatternInvStep, PartsMove
<1> QED BY <1>1, <1>2, PatternInvSound, PTL DEF Spec

-----------------------------------------------------------------------------
(* The lines of the shell.                                                 *)

(* A table with six fids in use at most.                                   *)
Row(a, b, c, d, e, g) ==
  [f \in Fids |-> IF f = 0 THEN a ELSE IF f = 1 THEN b ELSE IF f = 2 THEN c
                  ELSE IF f = 3 THEN d ELSE IF f = 4 THEN e ELSE IF f = 5 THEN g ELSE NOSTREAM]

(* The input and the output of fragment i, and what its child has besides: *)
(* saveout, which the last child has not, and the read end of its pipe.    *)
In(i, s)   == IF i = 1 THEN s ELSE ReadEnd(i - 1)
Prev(i, s) == IF i = 1 THEN s ELSE WriteEnd(i - 1)
Out(i, s)  == IF i = frag THEN s ELSE WriteEnd(i)
Keep(i, s) == IF i = frag THEN NOSTREAM ELSE s
Rd(i)      == IF i = frag THEN NOSTREAM ELSE ReadEnd(i)
Wr(i)      == IF i = frag THEN NOSTREAM ELSE WriteEnd(i)

AtStd     == {"prompt", "savein", "wait", "program", "last"}
Quiet    == {"off", "prompt", "savein", "saveout", "program", "last", "exited"}
Building == {"pipe", "dupout", "closeout", "execute", "dupin", "closein"}
Started  == {"dupin", "closein"}

ChildTable(i, s) == Row(In(i, s), Out(i, s), s, Keep(i, s), Rd(i), NOSTREAM)

(* What the shell's table holds at each of its steps.                      *)
ShellTable(s) ==
  LET i == shell.i IN
  /\ shell.at \in {"off", "exited"} => fid[0] = NoFiles
  /\ shell.at \in AtStd => fid[0] = Row(s, s, NOSTREAM, NOSTREAM, NOSTREAM, NOSTREAM)
  /\ shell.at = "saveout" => fid[0] = Row(s, s, s, NOSTREAM, NOSTREAM, NOSTREAM) /\ saved.in = 2
  /\ shell.at \in Building => saved.in = 2 /\ saved.out = 3
  /\ shell.at = "pipe" => fid[0] = Row(In(i, s), Prev(i, s), s, s, NOSTREAM, NOSTREAM)
  /\ shell.at = "dupout" => fid[0] = Row(In(i, s), Prev(i, s), s, s, Rd(i), Wr(i))
  /\ shell.at = "closeout" => fid[0] = Row(In(i, s), Out(i, s), s, s, Rd(i), Wr(i))
  /\ shell.at \in {"execute", "dupin"} => fid[0] = ChildTable(i, s)
  /\ shell.at = "closein" =>
       fid[0] = Row(IF i = frag THEN s ELSE ReadEnd(i), Out(i, s), s, Keep(i, s), Rd(i), NOSTREAM)

(* A child has its own table from its Execute to its end.                  *)
ChildTables(s) ==
  \A i \in Fragments : fid[i] = IF child[i].at = "runs" THEN ChildTable(i, s) ELSE NoFiles

(* Fragment i has been executed, or could not be; it has been waited for.  *)
Executed(i) ==
  \/ shell.at \in Building /\ i < shell.i
  \/ shell.at \in Started /\ i = shell.i
  \/ shell.at = "wait" /\ i <= frag
Waited(i) == shell.at = "wait" /\ i < shell.i

(* The shell has read a line and is not done with it.                      *)
InLine == shell.at \notin {"off", "prompt", "program", "last", "exited"}

ChildOK(i) ==
  /\ child[i].at # "none" <=> Executed(i)
  /\ child[i].at = "none" => child[i] = NoChild
  /\ Waited(i) => child[i].at \in {"reaped", "failed"}
  /\ prog[i] = "echo" /\ child[i].at = "runs" => child[i].eof
  /\ i <= frag /\ InLine => prog[i] # "none"

Zero == [in |-> 0, out |-> 0]

PipeOK(i) ==
  /\ ~ Executed(i) => moved[i] = Zero /\ pipe[i] = 0
  /\ i >= frag => pipe[i] = 0
  /\ i < frag => moved[i].out = moved[i + 1].in + pipe[i]
  /\ i < frag /\ prog[i + 1] # "echo" /\ child[i + 1].eof => child[i].at # "runs" /\ pipe[i] = 0

LineOK ==
  /\ shell.i <= frag
  /\ shell.at \in Quiet => shell.i = 1
  /\ shell.at \in {"off", "prompt"} => frag = 1

ShellPlace == {"off", "prompt", "savein", "saveout", "pipe", "dupout", "closeout", "execute",
               "dupin", "closein", "wait", "program", "last", "exited"}
ChildState == [at : {"none", "runs", "exited", "reaped", "failed"}, eof : BOOLEAN, pending : 0 .. MaxBytes + 1]

LineTypes ==
  /\ shell \in [at : ShellPlace, i : Fragments]
  /\ frag \in Fragments
  /\ DOMAIN fid = 0 .. MaxFragments
  /\ saved \in [in : Fids, out : Fids]
  /\ prog \in [Fragments -> Programs \cup {"none"}]
  /\ child \in [Fragments -> ChildState]
  /\ pipe \in [Fragments -> 0 .. PipeSize]
  /\ moved \in [Fragments -> [in : Nat, out : Nat]]
  /\ keys \in 0 .. MaxBytes

(* The pipeline with its standard streams on s.                            *)
LinesInv(s) ==
  /\ LineTypes /\ LineOK /\ ShellTable(s) /\ ChildTables(s)
  /\ \A i \in Fragments : ChildOK(i) /\ PipeOK(i)

Terminals == {Terminal(0), Console}

PipelineInv == \E s \in Terminals : LinesInv(s)

(* A step of the machine as one of the shell and its children.             *)
ShellMove ==
  \/ ShellNext
  \/ \E r \in Terminals : ShellStarts(StdTable(r))
  \/ ShellRuns("prompt", "program") \/ ShellRuns("program", "last")

(* The shell starts on the standard streams that init gave it.             *)
LEMMA ShellMoves ==
  ASSUME InitTaskInv, [Next]_vars
  PROVE  [ShellMove]_shellVars
<1>1. ASSUME KidBegins PROVE [ShellMove]_shellVars
  <2>1. CASE machine.task = "boot_shell" /\ ShellStarts(kid[0].fid)
    <3>1. 0 \in Kids
      BY TermsAssumption DEF Kids
    <3>2. kid[0].fid = Std(0)
      BY <1>1, <3>1 DEF KidBegins, InitTaskInv
    <3>3. PICK r \in Terminals : Std(0) = StdTable(r)
      BY DEF Std, Terminals
    <3> QED BY <2>1, <3>2, <3>3, Zenon DEF ShellMove
  <2>2. CASE NotSymposium
    BY <2>2, Zenon DEF NotSymposium
  <2> QED BY <1>1, <2>1, <2>2, Zenon DEF KidBegins
<1>2. ASSUME RunProgram \/ ProgramReturns PROVE [ShellMove]_shellVars
  BY <1>2, Zenon DEF RunProgram, ProgramReturns, ShellMove
<1>3. ASSUME Next, ~ (KidBegins \/ RunProgram \/ ProgramReturns) PROVE [ShellMove]_shellVars
  BY <1>3, Zenon DEF Next, Start, NotSymposium, NotServer, NotShell, NotInit, NotBarrier, NotRunner, NotTerminal,
       NotLists, NotExceptions, ServerInputEnds, KidExits, bootVars, testVars, ShellMove
<1> QED BY <1>1, <1>2, <1>3, Zenon DEF vars, bootVars

(* What a table holds, and what the calls of the shell make of it.         *)
LEMMA RowAt ==
  ASSUME NEW a, NEW b, NEW c, NEW d, NEW e, NEW g
  PROVE  LET t == Row(a, b, c, d, e, g) IN
         /\ t[0] = a /\ t[1] = b /\ t[2] = c /\ t[3] = d /\ t[4] = e /\ t[5] = g
         /\ \A f \in Fids : f > 5 => t[f] = NOSTREAM
         /\ {0, 1, 2, 3, 4, 5} \subseteq Fids
BY FidAssumption, LineAssumption DEF Row, Fids

(* Any call that changes a table changes one fid.                          *)
SetFid(t, f, x) == [t EXCEPT ![f] = x]

(* A change of one of the six.                                             *)
LEMMA RowPut ==
  ASSUME NEW a, NEW b, NEW c, NEW d, NEW e, NEW g, NEW x
  PROVE  LET t == Row(a, b, c, d, e, g) IN
         /\ SetFid(t, 0, x) = Row(x, b, c, d, e, g)
         /\ SetFid(t, 1, x) = Row(a, x, c, d, e, g)
         /\ SetFid(t, 2, x) = Row(a, b, x, d, e, g)
         /\ SetFid(t, 3, x) = Row(a, b, c, x, e, g)
         /\ SetFid(t, 4, x) = Row(a, b, c, d, x, g)
         /\ SetFid(t, 5, x) = Row(a, b, c, d, e, x)
<1> USE FidAssumption, LineAssumption DEF Fids
<1> DEFINE t == Row(a, b, c, d, e, g)
<1>1. SetFid(t, 0, x) = Row(x, b, c, d, e, g)
  <2>1. \A f \in Fids : [t EXCEPT ![0] = x][f] = Row(x, b, c, d, e, g)[f]
    BY DEF Row
  <2>2. DOMAIN t = Fids /\ Row(x, b, c, d, e, g) = [f \in Fids |-> Row(x, b, c, d, e, g)[f]]
    BY DEF Row
  <2> HIDE DEF t
  <2> QED BY <2>1, <2>2 DEF SetFid
<1>2. SetFid(t, 1, x) = Row(a, x, c, d, e, g)
  <2>1. \A f \in Fids : [t EXCEPT ![1] = x][f] = Row(a, x, c, d, e, g)[f]
    BY DEF Row
  <2>2. DOMAIN t = Fids /\ Row(a, x, c, d, e, g) = [f \in Fids |-> Row(a, x, c, d, e, g)[f]]
    BY DEF Row
  <2> HIDE DEF t
  <2> QED BY <2>1, <2>2 DEF SetFid
<1>3. SetFid(t, 2, x) = Row(a, b, x, d, e, g)
  <2>1. \A f \in Fids : [t EXCEPT ![2] = x][f] = Row(a, b, x, d, e, g)[f]
    BY DEF Row
  <2>2. DOMAIN t = Fids /\ Row(a, b, x, d, e, g) = [f \in Fids |-> Row(a, b, x, d, e, g)[f]]
    BY DEF Row
  <2> HIDE DEF t
  <2> QED BY <2>1, <2>2 DEF SetFid
<1>4. SetFid(t, 3, x) = Row(a, b, c, x, e, g)
  <2>1. \A f \in Fids : [t EXCEPT ![3] = x][f] = Row(a, b, c, x, e, g)[f]
    BY DEF Row
  <2>2. DOMAIN t = Fids /\ Row(a, b, c, x, e, g) = [f \in Fids |-> Row(a, b, c, x, e, g)[f]]
    BY DEF Row
  <2> HIDE DEF t
  <2> QED BY <2>1, <2>2 DEF SetFid
<1>5. SetFid(t, 4, x) = Row(a, b, c, d, x, g)
  <2>1. \A f \in Fids : [t EXCEPT ![4] = x][f] = Row(a, b, c, d, x, g)[f]
    BY DEF Row
  <2>2. DOMAIN t = Fids /\ Row(a, b, c, d, x, g) = [f \in Fids |-> Row(a, b, c, d, x, g)[f]]
    BY DEF Row
  <2> HIDE DEF t
  <2> QED BY <2>1, <2>2 DEF SetFid
<1>6. SetFid(t, 5, x) = Row(a, b, c, d, e, x)
  <2>1. \A f \in Fids : [t EXCEPT ![5] = x][f] = Row(a, b, c, d, e, x)[f]
    BY DEF Row
  <2>2. DOMAIN t = Fids /\ Row(a, b, c, d, e, x) = [f \in Fids |-> Row(a, b, c, d, e, x)[f]]
    BY DEF Row
  <2> HIDE DEF t
  <2> QED BY <2>1, <2>2 DEF SetFid
<1> QED BY <1>1, <1>2, <1>3, <1>4, <1>5, <1>6

(* The streams are told apart by their ends.                               *)
LEMMA StreamsDiffer ==
  ASSUME NEW s \in Terminals, NEW i, NEW j
  PROVE  /\ s # NOSTREAM /\ ReadEnd(i) # NOSTREAM /\ WriteEnd(i) # NOSTREAM
         /\ s # ReadEnd(i) /\ s # WriteEnd(i) /\ ReadEnd(i) # WriteEnd(j)
         /\ (ReadEnd(i) = ReadEnd(j) => i = j) /\ (WriteEnd(i) = WriteEnd(j) => i = j)
         /\ ~ IsPipe(s) /\ s.end # "read" /\ s.end # "write"
         /\ ReadEnd(i).end = "read" /\ ReadEnd(i).n = i /\ WriteEnd(i).end = "write" /\ WriteEnd(i).n = i
         /\ NOSTREAM.end = "none"
BY DEF Terminals, Terminal, Console, NOSTREAM, ReadEnd, WriteEnd, IsPipe

(* The calls.                                                              *)
LEMMA Puts ==
  ASSUME NEW t, NEW x, NEW f, NEW h
  PROVE  /\ OpenStream(t, x) = SetFid(t, FreeFid(t), x)
         /\ Dup2(t, f, h) = SetFid(t, h, t[f])
         /\ Close(t, f) = SetFid(t, f, NOSTREAM)
BY Zenon DEF OpenStream, Dup2, Close, SetFid

(* Opening a stream in a table without gaps puts it after the others.      *)
LEMMA RowOpen ==
  ASSUME NEW a, NEW b, NEW c, NEW d, NEW e, NEW x,
         a # NOSTREAM, b # NOSTREAM
  PROVE  LET N0 == NOSTREAM IN
         /\ FreeFid(Row(a, b, N0, N0, N0, N0)) = 2
         /\ OpenStream(Row(a, b, N0, N0, N0, N0), x) = Row(a, b, x, N0, N0, N0)
         /\ c # N0 =>
              /\ FreeFid(Row(a, b, c, N0, N0, N0)) = 3
              /\ OpenStream(Row(a, b, c, N0, N0, N0), x) = Row(a, b, c, x, N0, N0)
         /\ c # N0 /\ d # N0 => OpenStream(Row(a, b, c, d, N0, N0), x) = Row(a, b, c, d, x, N0)
         /\ c # N0 /\ d # N0 /\ e # N0 => OpenStream(Row(a, b, c, d, e, N0), x) = Row(a, b, c, d, e, x)
<1> DEFINE n == NOSTREAM
<1>1. FreeFid(Row(a, b, n, n, n, n)) = 2
  <2> DEFINE t == Row(a, b, n, n, n, n)
  <2>1. t[2] = NOSTREAM /\ t[0] # NOSTREAM /\ t[1] # NOSTREAM /\ 2 \in Fids
    BY RowAt
  <2> HIDE DEF t
  <2>2. FreeFid(t) = 2
    BY <2>1, LowestFid
  <2> QED BY <2>2 DEF t
<1>2. ASSUME c # NOSTREAM PROVE FreeFid(Row(a, b, c, n, n, n)) = 3
  <2> DEFINE t == Row(a, b, c, n, n, n)
  <2>1. t[3] = NOSTREAM /\ t[0] # NOSTREAM /\ t[1] # NOSTREAM /\ t[2] # NOSTREAM /\ 3 \in Fids
    BY <1>2, RowAt
  <2> HIDE DEF t
  <2>2. FreeFid(t) = 3
    BY <2>1, LowestFid
  <2> QED BY <2>2 DEF t
<1>3. ASSUME c # NOSTREAM, d # NOSTREAM PROVE FreeFid(Row(a, b, c, d, n, n)) = 4
  <2> DEFINE t == Row(a, b, c, d, n, n)
  <2>1. t[4] = NOSTREAM /\ t[0] # NOSTREAM /\ t[1] # NOSTREAM /\ t[2] # NOSTREAM /\ t[3] # NOSTREAM /\ 4 \in Fids
    BY <1>3, RowAt
  <2> HIDE DEF t
  <2>2. FreeFid(t) = 4
    BY <2>1, LowestFid
  <2> QED BY <2>2 DEF t
<1>4. ASSUME c # NOSTREAM, d # NOSTREAM, e # NOSTREAM PROVE FreeFid(Row(a, b, c, d, e, n)) = 5
  <2> DEFINE t == Row(a, b, c, d, e, n)
  <2>1. /\ t[5] = NOSTREAM /\ t[0] # NOSTREAM /\ t[1] # NOSTREAM /\ t[2] # NOSTREAM /\ t[3] # NOSTREAM
        /\ t[4] # NOSTREAM /\ 5 \in Fids
    BY <1>4, RowAt
  <2> HIDE DEF t
  <2>2. FreeFid(t) = 5
    BY <2>1, LowestFid
  <2> QED BY <2>2 DEF t
<1> HIDE DEF n
<1>5. OpenStream(Row(a, b, n, n, n, n), x) = Row(a, b, x, n, n, n)
  BY <1>1, RowPut, Puts
<1>6. c # NOSTREAM => OpenStream(Row(a, b, c, n, n, n), x) = Row(a, b, c, x, n, n)
  BY <1>2, RowPut, Puts
<1>7. c # NOSTREAM /\ d # NOSTREAM => OpenStream(Row(a, b, c, d, n, n), x) = Row(a, b, c, d, x, n)
  BY <1>3, RowPut, Puts
<1>8. c # NOSTREAM /\ d # NOSTREAM /\ e # NOSTREAM => OpenStream(Row(a, b, c, d, e, n), x) = Row(a, b, c, d, e, x)
  BY <1>4, RowPut, Puts
<1> QED BY <1>1, <1>2, <1>5, <1>6, <1>7, <1>8, Zenon DEF n

(* The fid that alone has the stream.                                      *)
LEMMA OnlyFid ==
  ASSUME NEW t, NEW x, NEW f \in Fids, t[f] = x, \A h \in Fids : t[h] = x => h = f
  PROVE  FidOf(t, x) = f
BY Zenon DEF FidOf

(* The ends of a new pipe are found where Pipe put them.                   *)
LEMMA PipeEnds ==
  ASSUME NEW s \in Terminals, NEW a, NEW b, NEW d, NEW g, NEW i,
         d \in {s, NOSTREAM}, g \in {WriteEnd(i), NOSTREAM}
  PROVE  /\ a # WriteEnd(i) => FidOf(Row(a, NOSTREAM, s, s, ReadEnd(i), WriteEnd(i)), WriteEnd(i)) = 5
         /\ b # ReadEnd(i) => FidOf(Row(NOSTREAM, b, s, d, ReadEnd(i), g), ReadEnd(i)) = 4
<1>1. ASSUME a # WriteEnd(i) PROVE FidOf(Row(a, NOSTREAM, s, s, ReadEnd(i), WriteEnd(i)), WriteEnd(i)) = 5
  <2> DEFINE t == Row(a, NOSTREAM, s, s, ReadEnd(i), WriteEnd(i))
  <2>1. /\ t[0] # WriteEnd(i) /\ t[1] # WriteEnd(i) /\ t[2] # WriteEnd(i) /\ t[3] # WriteEnd(i) /\ t[4] # WriteEnd(i)
        /\ t[5] = WriteEnd(i) /\ 5 \in Fids /\ \A f \in Fids : f > 5 => t[f] # WriteEnd(i)
    BY <1>1, RowAt, StreamsDiffer
  <2> HIDE DEF t
  <2>2. \A h \in Fids : t[h] = WriteEnd(i) => h = 5
    BY <2>1, FidAssumption DEF Fids
  <2>3. FidOf(t, WriteEnd(i)) = 5
    BY <2>1, <2>2, OnlyFid
  <2> QED BY <2>3 DEF t
<1>2. ASSUME b # ReadEnd(i) PROVE FidOf(Row(NOSTREAM, b, s, d, ReadEnd(i), g), ReadEnd(i)) = 4
  <2> DEFINE t == Row(NOSTREAM, b, s, d, ReadEnd(i), g)
  <2>1. /\ t[0] # ReadEnd(i) /\ t[1] # ReadEnd(i) /\ t[2] # ReadEnd(i) /\ t[3] # ReadEnd(i) /\ t[5] # ReadEnd(i)
        /\ t[4] = ReadEnd(i) /\ 4 \in Fids /\ \A f \in Fids : f > 5 => t[f] # ReadEnd(i)
    BY <1>2, RowAt, StreamsDiffer
  <2> HIDE DEF t
  <2>2. \A h \in Fids : t[h] = ReadEnd(i) => h = 4
    BY <2>1, FidAssumption DEF Fids
  <2>3. FidOf(t, ReadEnd(i)) = 4
    BY <2>1, <2>2, OnlyFid
  <2> QED BY <2>3 DEF t
<1> QED BY <1>1, <1>2

(* A step of the shell that changes no more than its table, its place and  *)
(* the saved fids.                                                         *)
ShellAlone ==
  /\ UNCHANGED <<frag, prog, child, pipe, moved, keys>>
  /\ \A i \in Fragments : fid'[i] = fid[i]
  /\ InLine' => InLine
  /\ \A i \in Nat \ {0} : (Executed(i)' <=> Executed(i)) /\ (Waited(i)' <=> Waited(i))

(* Such a step leaves the children as they are.                            *)
LEMMA ShellFrame ==
  ASSUME NEW s, LinesInv(s), ShellAlone, LineTypes', LineOK', ShellTable(s)'
  PROVE  LinesInv(s)'
<1>1. \A i \in Fragments : i \in Nat \ {0} /\ i + 1 \in Nat \ {0}
  BY LineAssumption DEF Fragments
<1>2. ASSUME NEW i \in Fragments PROVE ChildTable(i, s)' = ChildTable(i, s)
  BY DEF ShellAlone, ChildTable, In, Out, Keep, Rd
<1>3. ChildTables(s)'
  BY <1>2 DEF ShellAlone, ChildTables, LinesInv
<1>4. ASSUME NEW i \in Fragments PROVE ChildOK(i)'
  BY <1>1, Zenon DEF ShellAlone, ChildOK, LinesInv
<1>5. ASSUME NEW i \in Fragments PROVE PipeOK(i)'
  BY <1>1, Zenon DEF ShellAlone, PipeOK, LinesInv
<1> QED BY <1>3, <1>4, <1>5, Zenon DEF LinesInv

(* The fragments are numbered from 1.                                      *)
LEMMA Numbers ==
  ASSUME LineTypes
  PROVE  /\ frag \in Fragments /\ shell.i \in Fragments /\ 1 \in Fragments /\ MaxFragments \in Nat
         /\ \A j \in Fragments :
              /\ j \in Nat \ {0} /\ j + 1 \in Nat \ {0} /\ j <= MaxFragments
              /\ j < frag => j + 1 \in Fragments
              /\ j # 1 => j - 1 \in Fragments
<1>1. frag \in Fragments /\ shell.i \in Fragments
  BY DEF LineTypes
<1> QED BY <1>1, LineAssumption DEF Fragments

(* A change of the shell's own table.                                      *)
LEMMA ShellPut ==
  ASSUME LineTypes, NEW t, fid' = [fid EXCEPT ![0] = t]
  PROVE  fid'[0] = t /\ DOMAIN fid' = 0 .. MaxFragments /\ \A i \in Fragments : fid'[i] = fid[i]
BY LineAssumption DEF LineTypes, Fragments

(* The shell's step to another place.                                      *)
LEMMA ShellAt ==
  ASSUME LineTypes, NEW at \in ShellPlace, shell' = [shell EXCEPT !.at = at]
  PROVE  shell' \in [at : ShellPlace, i : Fragments] /\ shell'.at = at /\ shell'.i = shell.i
BY DEF LineTypes

(* SaveStdin and SaveStdout keep the inductive invariant.                  *)
LEMMA SaveInv ==
  ASSUME NEW s \in Terminals, LinesInv(s), SaveStdin \/ SaveStdout
  PROVE  LinesInv(s)'
<1>0. LineTypes /\ ShellTable(s) /\ LineOK
  BY DEF LinesInv
<1>1. CASE SaveStdin
  <2>1. /\ shell'.at = "saveout" /\ shell'.i = shell.i /\ shell' \in [at : ShellPlace, i : Fragments]
        /\ shell.at = "savein" /\ UNCHANGED <<frag, prog, child, pipe, moved, keys>>
    BY <1>0, <1>1, ShellAt DEF SaveStdin, ShellPlace
  <2>2. fid[0] = Row(s, s, NOSTREAM, NOSTREAM, NOSTREAM, NOSTREAM)
    BY <1>0, <2>1 DEF ShellTable, AtStd
  <2>3. /\ savefid(fid[0], 0) = Row(s, s, s, NOSTREAM, NOSTREAM, NOSTREAM) /\ FreeFid(fid[0]) = 2
    BY <2>2, RowAt, RowOpen, StreamsDiffer DEF savefid
  <2>4. /\ fid'[0] = Row(s, s, s, NOSTREAM, NOSTREAM, NOSTREAM)
        /\ DOMAIN fid' = 0 .. MaxFragments /\ \A i \in Fragments : fid'[i] = fid[i]
    BY <1>0, <1>1, <2>3, ShellPut DEF SaveStdin
  <2>5. saved' \in [in : Fids, out : Fids] /\ saved'.in = 2
    BY <1>0, <1>1, <2>3, RowAt DEF SaveStdin, LineTypes
  <2>6. LineTypes'
    BY <1>0, <2>1, <2>4, <2>5 DEF LineTypes
  <2>7. LineOK'
    BY <1>0, <2>1 DEF LineOK, Quiet
  <2>8. ShellTable(s)'
    BY <2>1, <2>4, <2>5 DEF ShellTable, AtStd, Building
  <2>9. ShellAlone
    BY <2>1, <2>4 DEF ShellAlone, Executed, Waited, Building, Started, InLine
  <2> QED BY <2>6, <2>7, <2>8, <2>9, ShellFrame
<1>2. CASE SaveStdout
  <2>1. /\ shell'.at = "pipe" /\ shell'.i = shell.i /\ shell' \in [at : ShellPlace, i : Fragments] /\ shell.i = 1
        /\ shell.at = "saveout" /\ UNCHANGED <<frag, prog, child, pipe, moved, keys>>
    BY <1>0, <1>2, ShellAt DEF SaveStdout, ShellPlace, LineOK, Quiet
  <2>2. fid[0] = Row(s, s, s, NOSTREAM, NOSTREAM, NOSTREAM) /\ saved.in = 2
    BY <1>0, <2>1 DEF ShellTable
  <2>3. /\ savefid(fid[0], 1) = Row(s, s, s, s, NOSTREAM, NOSTREAM) /\ FreeFid(fid[0]) = 3
    BY <2>2, RowAt, RowOpen, StreamsDiffer DEF savefid
  <2>4. /\ fid'[0] = Row(s, s, s, s, NOSTREAM, NOSTREAM)
        /\ DOMAIN fid' = 0 .. MaxFragments /\ \A i \in Fragments : fid'[i] = fid[i]
    BY <1>0, <1>2, <2>3, ShellPut DEF SaveStdout
  <2>5. saved' \in [in : Fids, out : Fids] /\ saved'.in = 2 /\ saved'.out = 3
    BY <1>0, <1>2, <2>2, <2>3, RowAt DEF SaveStdout, LineTypes
  <2>6. LineTypes'
    BY <1>0, <2>1, <2>4, <2>5 DEF LineTypes
  <2>7. LineOK'
    BY <1>0, <2>1 DEF LineOK, Quiet
  <2>8. ShellTable(s)'
    BY <2>1, <2>4, <2>5 DEF ShellTable, AtStd, Building, In, Prev
  <2>9. ShellAlone
    BY <2>1, <2>4 DEF ShellAlone, Executed, Waited, Building, Started, InLine
  <2> QED BY <2>6, <2>7, <2>8, <2>9, ShellFrame
<1> QED BY <1>1, <1>2

(* A system call of the shell while it builds the line.                    *)
LEMMA BuildInv ==
  ASSUME NEW s, LinesInv(s), NEW at \in Building, NEW t,
         shell.at \in Building, shell.at \in Started <=> at \in Started,
         shell' = [shell EXCEPT !.at = at], fid' = [fid EXCEPT ![0] = t],
         UNCHANGED <<frag, saved, prog, child, pipe, moved, keys>>, ShellTable(s)'
  PROVE  LinesInv(s)'
<1>0. LineTypes /\ LineOK
  BY DEF LinesInv
<1>1. shell'.at = at /\ shell'.i = shell.i /\ shell' \in [at : ShellPlace, i : Fragments]
  <2>1. at \in ShellPlace
    BY DEF Building, ShellPlace
  <2> QED BY <1>0, <2>1, ShellAt
<1>2. DOMAIN fid' = 0 .. MaxFragments /\ \A i \in Fragments : fid'[i] = fid[i]
  BY <1>0, ShellPut
<1>3. LineTypes'
  BY <1>0, <1>1, <1>2 DEF LineTypes
<1>4. LineOK'
  BY <1>0, <1>1 DEF LineOK, Quiet, Building
<1>5. ShellAlone
  BY <1>1, <1>2 DEF ShellAlone, Executed, Waited, Building, Started, InLine
<1> QED BY <1>3, <1>4, <1>5, ShellFrame

(* MakePipe keeps the inductive invariant: the pipe of a fragment that is  *)
(* not executed yet is empty.                                              *)
LEMMA MakePipeInv ==
  ASSUME NEW s \in Terminals, LinesInv(s), MakePipe
  PROVE  LinesInv(s)'
<1> DEFINE i == shell.i
           n == NOSTREAM
           t == IF LastFragment THEN fid[0] ELSE OpenStream(OpenStream(fid[0], ReadEnd(i)), WriteEnd(i))
<1>0. LineTypes /\ ShellTable(s) /\ LineOK /\ i \in Fragments /\ PipeOK(i)
  BY DEF LinesInv, LineTypes
<1>1. /\ shell.at = "pipe" /\ shell' = [shell EXCEPT !.at = "dupout"] /\ fid' = [fid EXCEPT ![0] = t]
      /\ UNCHANGED <<frag, saved, prog, child, moved, keys>>
  BY DEF MakePipe
<1>2. pipe' = pipe
  <2>1. ~ Executed(i)
    BY <1>0, <1>1, LineAssumption DEF Executed, Started, Fragments
  <2>2. pipe[i] = 0
    BY <1>0, <2>1 DEF PipeOK
  <2> QED BY <1>0, <2>2 DEF MakePipe, LineTypes
<1>3. fid[0] = Row(In(i, s), Prev(i, s), s, s, n, n) /\ saved.in = 2 /\ saved.out = 3
  BY <1>0, <1>1 DEF ShellTable, Building
<1>4. t = Row(In(i, s), Prev(i, s), s, s, Rd(i), Wr(i))
  <2>1. CASE LastFragment
    BY <1>3, <2>1 DEF LastFragment, Rd, Wr
  <2>2. CASE ~ LastFragment
    <3>1. In(i, s) # NOSTREAM /\ Prev(i, s) # NOSTREAM /\ s # NOSTREAM /\ ReadEnd(i) # NOSTREAM
      BY StreamsDiffer DEF In, Prev
    <3>2. Rd(i) = ReadEnd(i) /\ Wr(i) = WriteEnd(i)
      BY <2>2 DEF LastFragment, Rd, Wr
    <3> HIDE DEF i
    <3>3. OpenStream(fid[0], ReadEnd(i)) = Row(In(i, s), Prev(i, s), s, s, ReadEnd(i), n)
      BY <1>3, <3>1, RowOpen
    <3>4. OpenStream(Row(In(i, s), Prev(i, s), s, s, ReadEnd(i), n), WriteEnd(i))
            = Row(In(i, s), Prev(i, s), s, s, ReadEnd(i), WriteEnd(i))
      BY <3>1, RowOpen
    <3> QED BY <2>2, <3>2, <3>3, <3>4
  <2> QED BY <2>1, <2>2
<1>5. shell'.at = "dupout" /\ shell'.i = i /\ fid'[0] = t
  BY <1>0, <1>1, ShellPut DEF LineTypes
<1>6. ShellTable(s)'
  BY <1>1, <1>3, <1>4, <1>5 DEF ShellTable, AtStd, Building, In, Prev, Rd, Wr
<1> HIDE DEF t
<1>7. "dupout" \in Building /\ shell.at \in Building /\ (shell.at \in Started <=> "dupout" \in Started)
  BY <1>1 DEF Building, Started
<1> QED BY <1>1, <1>2, <1>6, <1>7, BuildInv

(* The fids the shell moves are the ends of the pipe it has just made, or  *)
(* the fids it saved.                                                      *)
LEMMA MovedFids ==
  ASSUME NEW s \in Terminals, LinesInv(s)
  PROVE  /\ shell.at \in {"dupout", "closeout"} => OutFid(fid[0]) = IF LastFragment THEN 3 ELSE 5
         /\ shell.at \in {"dupin", "closein"} => InFid(fid[0]) = IF LastFragment THEN 2 ELSE 4
<1> DEFINE i == shell.i
           n == NOSTREAM
           t == fid[0]
<1>0. LineTypes /\ ShellTable(s) /\ LineOK /\ i \in Fragments
  BY DEF LinesInv, LineTypes
<1>1. shell.at \in {"dupout", "closeout", "dupin", "closein"} => saved.in = 2 /\ saved.out = 3
  BY <1>0 DEF ShellTable, Building
<1>2. CASE LastFragment
  BY <1>1, <1>2 DEF OutFid, InFid
<1>3. CASE ~ LastFragment
  <2>1. /\ Out(i, s) = WriteEnd(i) /\ Keep(i, s) = s /\ Rd(i) = ReadEnd(i) /\ Wr(i) = WriteEnd(i) /\ i # frag
    BY <1>3 DEF LastFragment, Out, Keep, Rd, Wr
  <2>2. In(i, s) # WriteEnd(i) /\ WriteEnd(i) # ReadEnd(i)
    BY StreamsDiffer DEF In
  <2>3. ASSUME shell.at \in {"dupout", "closeout"} PROVE OutFid(t) = 5
    <3>1. PICK b : t = Row(In(i, s), b, s, s, ReadEnd(i), WriteEnd(i))
      BY <1>0, <2>1, <2>3 DEF ShellTable
    <3>2. SetFid(t, 1, n) = Row(In(i, s), n, s, s, ReadEnd(i), WriteEnd(i))
      BY <3>1, RowPut
    <3>3. FidOf(Row(In(i, s), n, s, s, ReadEnd(i), WriteEnd(i)), WriteEnd(i)) = 5
      <4> HIDE DEF i
      <4> QED BY <2>2, PipeEnds
    <3> QED BY <1>3, <3>2, <3>3, Zenon DEF OutFid, SetFid
  <2>4. ASSUME shell.at \in {"dupin", "closein"} PROVE InFid(t) = 4
    <3>1. PICK a : t = Row(a, WriteEnd(i), s, s, ReadEnd(i), n)
      BY <1>0, <2>1, <2>4 DEF ShellTable, ChildTable
    <3>2. SetFid(t, 0, n) = Row(n, WriteEnd(i), s, s, ReadEnd(i), n)
      BY <3>1, RowPut
    <3>3. FidOf(Row(n, WriteEnd(i), s, s, ReadEnd(i), n), ReadEnd(i)) = 4
      <4> HIDE DEF i
      <4> QED BY <2>2, PipeEnds
    <3> QED BY <1>3, <3>2, <3>3, Zenon DEF InFid, SetFid
  <2> QED BY <1>3, <2>3, <2>4
<1> QED BY <1>2, <1>3

(* The Dup2 and Close around the Execute keep the inductive invariant.     *)
LEMMA ShellCallsInv ==
  ASSUME NEW s \in Terminals, LinesInv(s),
         \/ ShellCall("dupout", "closeout", Dup2(fid[0], OutFid(fid[0]), 1))
         \/ ShellCall("closeout", "execute", CloseOut(fid[0]))
         \/ ShellCall("dupin", "closein", Dup2(fid[0], InFid(fid[0]), 0))
  PROVE  LinesInv(s)'
<1> DEFINE i == shell.i
           n == NOSTREAM
<1>0. LineTypes /\ ShellTable(s) /\ LineOK /\ i \in Fragments
  BY DEF LinesInv, LineTypes
<1>1. ASSUME NEW at \in Building, NEW next \in Building, NEW t, ShellCall(at, next, t)
      PROVE  /\ shell.at = at /\ shell'.at = next /\ shell'.i = i /\ fid'[0] = t
             /\ shell' = [shell EXCEPT !.at = next] /\ fid' = [fid EXCEPT ![0] = t]
             /\ UNCHANGED <<frag, saved, prog, child, pipe, moved, keys>>
             /\ saved.in = 2 /\ saved.out = 3
  <2>1. /\ shell.at = at /\ shell' = [shell EXCEPT !.at = next] /\ fid' = [fid EXCEPT ![0] = t]
        /\ UNCHANGED <<frag, saved, prog, child, pipe, moved, keys>>
    BY <1>1, Zenon DEF ShellCall
  <2>2. shell'.at = next /\ shell'.i = i /\ fid'[0] = t
    BY <1>0, <2>1, ShellPut DEF LineTypes
  <2>3. saved.in = 2 /\ saved.out = 3
    BY <1>0, <2>1 DEF ShellTable
  <2> QED BY <2>1, <2>2, <2>3
<1>2. ASSUME NEW at \in Building, NEW next \in Building, NEW t, ShellCall(at, next, t),
             at \in Started <=> next \in Started, ShellTable(s)'
      PROVE  LinesInv(s)'
  BY <1>1, <1>2, BuildInv
<1>3. CASE ShellCall("dupout", "closeout", Dup2(fid[0], OutFid(fid[0]), 1))
  <2> DEFINE t == Dup2(fid[0], OutFid(fid[0]), 1)
  <2>1. "dupout" \in Building /\ "closeout" \in Building /\ ("dupout" \in Started <=> "closeout" \in Started)
    BY DEF Building, Started
  <2>2. /\ shell.at = "dupout" /\ shell'.at = "closeout" /\ shell'.i = i /\ fid'[0] = t
        /\ saved.in = 2 /\ saved.out = 3 /\ UNCHANGED <<frag, saved>>
    BY <1>1, <1>3, <2>1
  <2>3. t = Row(In(i, s), Out(i, s), s, s, Rd(i), Wr(i))
    <3>1. fid[0] = Row(In(i, s), Prev(i, s), s, s, Rd(i), Wr(i))
      BY <1>0, <2>2 DEF ShellTable
    <3>2. OutFid(fid[0]) = IF LastFragment THEN 3 ELSE 5
      BY <2>2, MovedFids
    <3>3. t = SetFid(fid[0], 1, fid[0][OutFid(fid[0])])
      BY Zenon DEF Dup2, SetFid
    <3>4. fid[0][OutFid(fid[0])] = Out(i, s)
      BY <3>1, <3>2, RowAt DEF LastFragment, Wr, Out
    <3> QED BY <3>1, <3>3, <3>4, RowPut
  <2>4. ShellTable(s)'
    BY <2>2, <2>3 DEF ShellTable, AtStd, Building, In, Out, Rd, Wr
  <2> HIDE DEF t
  <2> QED BY <1>2, <1>3, <2>1, <2>4 DEF t
<1>4. CASE ShellCall("closeout", "execute", CloseOut(fid[0]))
  <2> DEFINE t == CloseOut(fid[0])
  <2>1. "closeout" \in Building /\ "execute" \in Building /\ ("closeout" \in Started <=> "execute" \in Started)
    BY DEF Building, Started
  <2>2. /\ shell.at = "closeout" /\ shell'.at = "execute" /\ shell'.i = i /\ fid'[0] = t
        /\ saved.in = 2 /\ saved.out = 3 /\ UNCHANGED <<frag, saved>>
    BY <1>1, <1>4, <2>1
  <2>3. t = ChildTable(i, s)
    <3>1. fid[0] = Row(In(i, s), Out(i, s), s, s, Rd(i), Wr(i))
      BY <1>0, <2>2 DEF ShellTable
    <3>2. OutFid(fid[0]) = IF LastFragment THEN 3 ELSE 5
      BY <2>2, MovedFids
    <3>3. t = SetFid(fid[0], OutFid(fid[0]), n)
      BY Zenon DEF CloseOut, Close, SetFid
    <3>4. CASE LastFragment
      BY <3>1, <3>2, <3>3, <3>4, RowPut DEF LastFragment, Keep, Wr, ChildTable
    <3>5. CASE ~ LastFragment
      BY <3>1, <3>2, <3>3, <3>5, RowPut DEF LastFragment, Keep, Wr, ChildTable
    <3> QED BY <3>4, <3>5
  <2>4. ShellTable(s)'
    BY <2>2, <2>3 DEF ShellTable, ChildTable, AtStd, Building, In, Out, Keep, Rd
  <2> HIDE DEF t
  <2> QED BY <1>2, <1>4, <2>1, <2>4 DEF t
<1>5. CASE ShellCall("dupin", "closein", Dup2(fid[0], InFid(fid[0]), 0))
  <2> DEFINE t == Dup2(fid[0], InFid(fid[0]), 0)
  <2>1. "dupin" \in Building /\ "closein" \in Building /\ ("dupin" \in Started <=> "closein" \in Started)
    BY DEF Building, Started
  <2>2. /\ shell.at = "dupin" /\ shell'.at = "closein" /\ shell'.i = i /\ fid'[0] = t
        /\ saved.in = 2 /\ saved.out = 3 /\ UNCHANGED <<frag, saved>>
    BY <1>1, <1>5, <2>1
  <2>3. t = Row(IF i = frag THEN s ELSE ReadEnd(i), Out(i, s), s, Keep(i, s), Rd(i), n)
    <3>1. fid[0] = Row(In(i, s), Out(i, s), s, Keep(i, s), Rd(i), n)
      BY <1>0, <2>2 DEF ShellTable, ChildTable
    <3>2. InFid(fid[0]) = IF LastFragment THEN 2 ELSE 4
      BY <2>2, MovedFids
    <3>3. t = SetFid(fid[0], 0, fid[0][InFid(fid[0])])
      BY Zenon DEF Dup2, SetFid
    <3>4. fid[0][InFid(fid[0])] = IF i = frag THEN s ELSE ReadEnd(i)
      BY <3>1, <3>2, RowAt DEF LastFragment, Rd
    <3> QED BY <3>1, <3>3, <3>4, RowPut
  <2>4. ShellTable(s)'
    BY <2>2, <2>3 DEF ShellTable, AtStd, Building, Out, Keep, Rd
  <2> HIDE DEF t
  <2> QED BY <1>2, <1>5, <2>1, <2>4 DEF t
<1> QED BY <1>3, <1>4, <1>5

(* CloseInput keeps the inductive invariant: the next fragment begins with *)
(* the read end as its input, and after the last the table is as before    *)
(* the line.                                                               *)
LEMMA CloseInputInv ==
  ASSUME NEW s \in Terminals, LinesInv(s), CloseInput
  PROVE  LinesInv(s)'
<1> DEFINE i == shell.i
           n == NOSTREAM
           t == CloseIn(fid[0])
<1>0. LineTypes /\ ShellTable(s) /\ LineOK /\ i \in Fragments /\ frag \in Fragments
  BY DEF LinesInv, LineTypes
<1>1. /\ shell.at = "closein" /\ UNCHANGED <<frag, saved, prog, child, pipe, moved, keys>>
      /\ fid' = [fid EXCEPT ![0] = t]
      /\ shell' = IF LastFragment THEN [at |-> "wait", i |-> 1] ELSE [at |-> "pipe", i |-> i + 1]
  BY DEF CloseInput
<1>2. fid'[0] = t /\ DOMAIN fid' = 0 .. MaxFragments /\ \A j \in Fragments : fid'[j] = fid[j]
  BY <1>0, <1>1, ShellPut
<1>3. fid[0] = Row(IF i = frag THEN s ELSE ReadEnd(i), Out(i, s), s, Keep(i, s), Rd(i), n) /\ saved.in = 2 /\ saved.out = 3
  BY <1>0, <1>1 DEF ShellTable, Building
<1>4. t = SetFid(fid[0], IF LastFragment THEN 2 ELSE 4, n)
  BY <1>1, MovedFids DEF CloseIn, Close, SetFid
<1>5. i \in Nat \ {0} /\ i <= frag /\ frag \in Nat /\ frag <= MaxFragments /\ 1 \in Fragments
  BY <1>0, LineAssumption DEF LineOK, Fragments
<1>6. CASE LastFragment
  <2>1. shell'.at = "wait" /\ shell'.i = 1 /\ shell' \in [at : ShellPlace, i : Fragments] /\ i = frag
    BY <1>1, <1>5, <1>6 DEF ShellPlace, LastFragment
  <2>2. t = Row(s, s, n, n, n, n)
    BY <1>3, <1>4, <1>6, <2>1, RowPut DEF Out, Keep, Rd
  <2>3. LineTypes'
    BY <1>0, <1>1, <1>2, <2>1 DEF LineTypes
  <2>4. LineOK'
    BY <1>1, <1>5, <2>1 DEF LineOK, Quiet
  <2>5. ShellTable(s)'
    BY <1>2, <2>1, <2>2 DEF ShellTable, AtStd, Building
  <2>6. ShellAlone
    BY <1>1, <1>2, <1>5, <2>1 DEF ShellAlone, Executed, Waited, Building, Started, InLine
  <2> QED BY <2>3, <2>4, <2>5, <2>6, ShellFrame
<1>7. CASE ~ LastFragment
  <2>1. i + 1 \in Fragments /\ i + 1 <= frag /\ i # frag
    BY <1>5, <1>7, LineAssumption DEF LastFragment, Fragments
  <2>2. shell'.at = "pipe" /\ shell'.i = i + 1 /\ shell' \in [at : ShellPlace, i : Fragments]
    BY <1>1, <1>7, <2>1 DEF ShellPlace
  <2>3. t = Row(ReadEnd(i), WriteEnd(i), s, s, n, n)
    BY <1>3, <1>4, <1>7, <2>1, RowPut DEF Out, Keep, Rd
  <2>4. LineTypes'
    BY <1>0, <1>1, <1>2, <2>2 DEF LineTypes
  <2>5. LineOK'
    BY <1>1, <1>5, <2>1, <2>2 DEF LineOK, Quiet
  <2>6. ShellTable(s)'
    <3>1. In(shell'.i, s) = ReadEnd(i) /\ Prev(shell'.i, s) = WriteEnd(i)
      BY <1>5, <2>2 DEF In, Prev
    <3> QED BY <1>1, <1>2, <1>3, <2>2, <2>3, <3>1 DEF ShellTable, AtStd, Building
  <2>7. ShellAlone
    BY <1>1, <1>2, <1>5, <2>2 DEF ShellAlone, Executed, Waited, Building, Started, InLine
  <2> QED BY <2>4, <2>5, <2>6, <2>7, ShellFrame
<1> QED BY <1>6, <1>7

(* ExecuteFragment keeps the inductive invariant.                          *)
LEMMA ExecuteInv ==
  ASSUME NEW s \in Terminals, LinesInv(s), ExecuteFragment
  PROVE  LinesInv(s)'
<1> DEFINE i == shell.i
<1>0. LineTypes /\ ShellTable(s) /\ ChildTables(s) /\ LineOK /\ \A j \in Fragments : ChildOK(j) /\ PipeOK(j)
  BY DEF LinesInv
<1>1. /\ shell.at = "execute" /\ shell' = [shell EXCEPT !.at = "dupin"]
      /\ UNCHANGED <<frag, saved, prog, pipe, moved, keys>>
  BY DEF ExecuteFragment
<1>3. /\ i \in Fragments /\ i \in Nat \ {0} /\ i <= frag /\ frag \in Nat /\ frag <= MaxFragments
      /\ \A j \in Fragments : j \in Nat \ {0}
  BY <1>0, Numbers DEF LineOK
<1>4. /\ shell'.at = "dupin" /\ shell'.i = i /\ shell' \in [at : ShellPlace, i : Fragments]
  BY <1>0, <1>1 DEF LineTypes, ShellPlace
<1>5. fid[0] = ChildTable(i, s) /\ saved.in = 2 /\ saved.out = 3
  BY <1>0, <1>1 DEF ShellTable, Building
<1>6. /\ \A j \in Nat \ {0} : Executed(j)' <=> Executed(j) \/ j = i
      /\ \A j \in Nat \ {0} : ~ Waited(j)' /\ ~ Waited(j)
      /\ ~ Executed(i) /\ child[i] = NoChild /\ fid[i] = NoFiles
  <2>1. /\ \A j \in Nat \ {0} : Executed(j)' <=> Executed(j) \/ j = i
        /\ \A j \in Nat \ {0} : ~ Waited(j)' /\ ~ Waited(j)
        /\ ~ Executed(i)
    BY <1>1, <1>3, <1>4 DEF Executed, Waited, Building, Started
  <2>2. child[i] = NoChild
    BY <1>0, <1>3, <2>1 DEF ChildOK
  <2>3. fid[i] = NoFiles
    BY <1>0, <1>3, <2>2 DEF ChildTables, NoChild
  <2> QED BY <2>1, <2>2, <2>3
<1>7. /\ child' \in [Fragments -> ChildState] /\ child'[i].at \in {"runs", "failed"}
      /\ child'[i].eof => prog[i] = "echo"
      /\ child'[i].at = "runs" /\ prog[i] = "echo" => child'[i].eof
      /\ \A j \in Fragments : j # i => child'[j] = child[j] /\ fid'[j] = fid[j]
      /\ DOMAIN fid' = 0 .. MaxFragments /\ fid'[0] = fid[0]
      /\ fid'[i] = IF child'[i].at = "runs" THEN ChildTable(i, s) ELSE NoFiles
  <2>1. ASSUME NEW r \in ChildState, child' = [child EXCEPT ![i] = r]
        PROVE  child' \in [Fragments -> ChildState] /\ child'[i] = r /\ \A j \in Fragments : j # i => child'[j] = child[j]
    BY <1>0, <1>3, <2>1 DEF LineTypes
  <2>2. CASE /\ fid' = Execute(i)
             /\ \E k \in IF prog[i] = "echo" THEN 0 .. MaxBytes ELSE {0} :
                  child' = [child EXCEPT ![i] = [at |-> "runs", eof |-> prog[i] = "echo", pending |-> k]]
    <3>1. PICK k \in IF prog[i] = "echo" THEN 0 .. MaxBytes ELSE {0} :
            child' = [child EXCEPT ![i] = [at |-> "runs", eof |-> prog[i] = "echo", pending |-> k]]
      BY <2>2
    <3> DEFINE e == prog[i] = "echo"
               r == [at |-> "runs", eof |-> e, pending |-> k]
    <3>2. k \in 0 .. MaxBytes + 1 /\ e \in BOOLEAN
      BY LineAssumption
    <3>3. child' = [child EXCEPT ![i] = r] /\ (e <=> prog[i] = "echo")
      BY <3>1
    <3> HIDE DEF e
    <3>4. r \in ChildState /\ r.at = "runs" /\ r.eof = e
      BY <3>2, Zenon DEF ChildState
    <3> HIDE DEF r
    <3>5. /\ child' \in [Fragments -> ChildState] /\ child'[i] = r
          /\ \A j \in Fragments : j # i => child'[j] = child[j]
      BY <2>1, <3>3, <3>4
    <3>6. /\ DOMAIN fid' = 0 .. MaxFragments /\ fid'[0] = fid[0] /\ fid'[i] = fid[0]
          /\ \A j \in Fragments : j # i => fid'[j] = fid[j]
      BY <1>0, <1>3, <2>2 DEF LineTypes, Fragments, Execute
    <3> QED BY <1>5, <3>3, <3>4, <3>5, <3>6
  <2>3. CASE child' = [child EXCEPT ![i].at = "failed"] /\ UNCHANGED fid
    <3> DEFINE r == [child[i] EXCEPT !.at = "failed"]
    <3>1. child[i] \in ChildState
      BY <1>0, <1>3 DEF LineTypes
    <3>2. child[i].eof = FALSE
      BY <1>6 DEF NoChild
    <3>3. r \in ChildState /\ r.at = "failed" /\ r.eof = FALSE
      BY <3>1, <3>2 DEF ChildState
    <3>4. child' = [child EXCEPT ![i] = r]
      BY <2>3
    <3> HIDE DEF r
    <3>5. /\ child' \in [Fragments -> ChildState] /\ child'[i] = r
          /\ \A j \in Fragments : j # i => child'[j] = child[j]
      BY <2>1, <3>3, <3>4
    <3> QED BY <1>0, <1>6, <2>3, <3>3, <3>5 DEF LineTypes
  <2> QED BY <2>2, <2>3 DEF ExecuteFragment
<1>8. LineTypes' /\ LineOK'
  BY <1>0, <1>1, <1>4, <1>7 DEF LineTypes, LineOK, Quiet
<1>9. \A j : ChildTable(j, s)' = ChildTable(j, s)
  BY <1>1 DEF ChildTable, In, Out, Keep, Rd
<1>10. ShellTable(s)'
  BY <1>1, <1>4, <1>5, <1>7 DEF ShellTable, ChildTable, AtStd, Building, In, Out, Keep, Rd
<1>11. ChildTables(s)'
  <2>1. ASSUME NEW j \in Fragments
        PROVE  fid'[j] = IF child'[j].at = "runs" THEN ChildTable(j, s) ELSE NoFiles
    BY <1>0, <1>7 DEF ChildTables
  <2> QED BY <1>9, <2>1 DEF ChildTables
<1>12. ASSUME NEW j \in Fragments PROVE ChildOK(j)'
  <2>1. ChildOK(j) /\ j \in Nat \ {0} /\ UNCHANGED <<prog, frag>> /\ (InLine' => InLine)
    BY <1>0, <1>1, <1>3 DEF InLine
  <2>2. CASE j = i
    BY <1>6, <1>7, <2>1, <2>2 DEF ChildOK
  <2>3. CASE j # i
    BY <1>6, <1>7, <2>1, <2>3, Zenon DEF ChildOK
  <2> QED BY <2>2, <2>3
<1>13. ASSUME NEW j \in Fragments PROVE PipeOK(j)'
  <2>1. /\ PipeOK(j) /\ j \in Nat \ {0} /\ j + 1 \in Nat \ {0} /\ UNCHANGED <<prog, frag, moved, pipe>>
        /\ (j < frag => j + 1 \in Fragments)
    BY <1>0, <1>1, <1>3, LineAssumption DEF Fragments
  <2>2. CASE j < frag /\ j = i
    <3>1. ~ Executed(j + 1) /\ child'[j + 1] = child[j + 1] /\ ChildOK(j + 1) /\ j + 1 # i
      BY <1>0, <1>1, <1>3, <1>7, <2>1, <2>2 DEF Executed, Building, Started
    <3>2. ~ child'[j + 1].eof
      BY <3>1 DEF ChildOK, NoChild
    <3> QED BY <1>6, <2>1, <2>2, <3>2 DEF PipeOK
  <2>3. CASE j < frag /\ j + 1 = i
    <3>1. prog[j + 1] = "echo" \/ ~ child'[j + 1].eof
      BY <1>7, <2>3
    <3> QED BY <1>6, <2>1, <2>3, <3>1 DEF PipeOK
  <2>4. CASE j < frag /\ j # i /\ j + 1 # i
    BY <1>6, <1>7, <2>1, <2>4 DEF PipeOK
  <2>5. CASE ~ (j < frag)
    BY <1>6, <2>1, <2>5 DEF PipeOK
  <2> QED BY <2>2, <2>3, <2>4, <2>5
<1> QED BY <1>8, <1>10, <1>11, <1>12, <1>13, Zenon DEF LinesInv

(* The shell with no line to run.                                          *)
LEMMA AtPrompt ==
  ASSUME NEW s \in Terminals, LinesInv(s), shell.at \in Quiet
  PROVE  \A i \in Fragments : child[i] = NoChild /\ fid[i] = NoFiles /\ moved[i] = Zero /\ pipe[i] = 0
<1>1. ASSUME NEW i \in Fragments PROVE child[i] = NoChild /\ fid[i] = NoFiles /\ moved[i] = Zero /\ pipe[i] = 0
  <2>1. ~ Executed(i)
    BY DEF Executed, Quiet, Building, Started
  <2>2. child[i] = NoChild /\ moved[i] = Zero /\ pipe[i] = 0
    BY <2>1 DEF LinesInv, ChildOK, PipeOK
  <2> QED BY <2>2 DEF LinesInv, ChildTables, NoChild
<1> QED BY <1>1

(* With no child and empty pipes the rest is what the shell's place says.  *)
LEMMA QuietInv ==
  ASSUME NEW s \in Terminals, LineTypes', LineOK', ShellTable(s)', shell'.at \in Quiet,
         \A i \in Fragments : child'[i] = NoChild /\ fid'[i] = NoFiles /\ moved'[i] = Zero /\ pipe'[i] = 0,
         InLine' => \A i \in Fragments : i <= frag' => prog'[i] # "none"
  PROVE  LinesInv(s)'
<1>1. \A i \in Nat : ~ Executed(i)' /\ ~ Waited(i)'
  BY DEF Executed, Waited, Quiet, Building, Started
<1>2. \A i \in Fragments : i \in Nat /\ i + 1 \in Nat /\ (i < frag' => i + 1 \in Fragments)
  BY LineAssumption DEF Fragments, LineTypes
<1>3. ChildTables(s)'
  BY DEF ChildTables, NoChild
<1>4. ASSUME NEW i \in Fragments PROVE ChildOK(i)'
  BY <1>1, <1>2 DEF ChildOK, NoChild
<1>5. ASSUME NEW i \in Fragments PROVE PipeOK(i)'
  <2>1. i < frag' => moved'[i + 1].in = 0 /\ ~ child'[i + 1].eof
    BY <1>2 DEF NoChild, Zero
  <2>2. moved'[i] = Zero /\ moved'[i].out = 0 /\ pipe'[i] = 0
    BY DEF Zero
  <2> QED BY <1>1, <1>2, <2>1, <2>2 DEF PipeOK
<1> QED BY <1>3, <1>4, <1>5, Zenon DEF LinesInv

(* A new line, the end of the shell, and a program of another module keep  *)
(* the inductive invariant.                                                *)
LEMMA PromptInv ==
  ASSUME NEW s \in Terminals, LinesInv(s),
         ReadLine \/ ExitShell \/ ShellRuns("prompt", "program") \/ ShellRuns("program", "last")
  PROVE  LinesInv(s)'
<1>0. LineTypes /\ ShellTable(s) /\ LineOK /\ \A i \in Fragments : i \in Nat \ {0}
  BY LineAssumption DEF LinesInv, Fragments
<1>1. shell.at \in Quiet /\ UNCHANGED <<child, pipe, moved, saved>> /\ \A i \in Fragments : fid'[i] = fid[i]
  <2>1. shell.at \in Quiet /\ UNCHANGED <<child, pipe, moved, saved>>
    BY DEF ReadLine, ExitShell, ShellRuns, Quiet
  <2>2. fid' = fid \/ fid' = [fid EXCEPT ![0] = NoFiles]
    BY DEF ReadLine, ExitShell, ShellRuns
  <2> QED BY <1>0, <2>1, <2>2, ShellPut
<1>2. \A i \in Fragments : child'[i] = NoChild /\ fid'[i] = NoFiles /\ moved'[i] = Zero /\ pipe'[i] = 0
  BY <1>1, AtPrompt
<1>3. CASE ReadLine
  <2>1. /\ shell.at = "prompt" /\ shell'.at = "savein" /\ shell'.i = 1 /\ shell' \in [at : ShellPlace, i : Fragments]
        /\ frag' \in Fragments /\ keys' \in 0 .. MaxBytes /\ fid' = fid
    BY <1>3, LineAssumption DEF ReadLine, ShellPlace, Fragments
  <2>2. PICK p \in [1 .. frag' -> Programs] : prog' = [i \in Fragments |-> IF i <= frag' THEN p[i] ELSE "none"]
    BY <1>3 DEF ReadLine
  <2>3. \A i \in Fragments : prog'[i] \in Programs \cup {"none"} /\ (i <= frag' => prog'[i] # "none")
    BY <1>0, <2>1, <2>2 DEF Programs, Fragments
  <2>4. prog' \in [Fragments -> Programs \cup {"none"}]
    BY <2>2, <2>3
  <2>5. LineTypes'
    BY <1>0, <1>1, <2>1, <2>4 DEF LineTypes
  <2>6. LineOK' /\ shell'.at \in Quiet
    BY <1>0, <2>1 DEF LineOK, Quiet
  <2>7. ShellTable(s)'
    BY <1>0, <2>1 DEF ShellTable, AtStd, Building
  <2> QED BY <1>2, <2>3, <2>5, <2>6, <2>7, QuietInv
<1>4. CASE ~ ReadLine
  <2>1. /\ UNCHANGED <<frag, prog, keys>>
        /\ \/ shell' = [shell EXCEPT !.at = "exited"] /\ fid' = [fid EXCEPT ![0] = NoFiles]
           \/ shell' = [shell EXCEPT !.at = "program"] /\ fid' = fid /\ shell.at = "prompt"
           \/ shell' = [shell EXCEPT !.at = "last"] /\ fid' = fid /\ shell.at = "program"
    BY <1>4 DEF ExitShell, ShellRuns
  <2>2. /\ shell'.i = shell.i /\ shell' \in [at : ShellPlace, i : Fragments] /\ DOMAIN fid' = 0 .. MaxFragments
        /\ \/ shell'.at = "exited" /\ fid'[0] = NoFiles
           \/ shell'.at \in {"program", "last"} /\ fid' = fid /\ shell.at \in {"prompt", "program"}
    BY <1>0, <2>1, LineAssumption DEF LineTypes, ShellPlace
  <2>3. LineTypes'
    BY <1>0, <1>1, <2>1, <2>2 DEF LineTypes
  <2>4. LineOK' /\ shell'.at \in Quiet /\ ~ InLine'
    BY <1>0, <1>1, <2>1, <2>2 DEF LineOK, Quiet, InLine
  <2>5. ShellTable(s)'
    BY <1>0, <2>2 DEF ShellTable, AtStd, Building
  <2> QED BY <1>2, <2>3, <2>4, <2>5, QuietInv
<1> QED BY <1>3, <1>4

(* The table a shell starts with.                                          *)
LEMMA StdRow ==
  ASSUME NEW s
  PROVE  StdTable(s) = Row(s, s, NOSTREAM, NOSTREAM, NOSTREAM, NOSTREAM)
<1>1. \A f \in Fids : (IF f \in {0, 1} THEN s ELSE NOSTREAM) = Row(s, s, NOSTREAM, NOSTREAM, NOSTREAM, NOSTREAM)[f]
  BY DEF Row
<1>2. Row(s, s, NOSTREAM, NOSTREAM, NOSTREAM, NOSTREAM) = [f \in Fids |-> Row(s, s, NOSTREAM, NOSTREAM, NOSTREAM, NOSTREAM)[f]]
  BY DEF Row
<1> QED BY <1>1, <1>2 DEF StdTable

(* A shell starts, on any of the terminals.                                *)
LEMMA ShellStartsInv ==
  ASSUME NEW r \in Terminals, LinesInv(r), NEW s \in Terminals, ShellStarts(StdTable(s))
  PROVE  LinesInv(s)'
<1>0. LineTypes /\ LineOK
  BY DEF LinesInv
<1>1. /\ shell.at = "off" /\ shell' = [shell EXCEPT !.at = "prompt"] /\ fid' = [fid EXCEPT ![0] = StdTable(s)]
      /\ UNCHANGED <<frag, saved, prog, child, pipe, moved, keys>>
  BY DEF ShellStarts
<1>2. /\ shell'.i = shell.i /\ shell'.at = "prompt" /\ shell' \in [at : ShellPlace, i : Fragments]
      /\ shell.at \in Quiet
  BY <1>0, <1>1 DEF LineTypes, ShellPlace, Quiet
<1>3. fid'[0] = StdTable(s) /\ DOMAIN fid' = 0 .. MaxFragments /\ \A i \in Fragments : fid'[i] = fid[i]
  BY <1>0, <1>1, ShellPut
<1>4. \A i \in Fragments : child'[i] = NoChild /\ fid'[i] = NoFiles /\ moved'[i] = Zero /\ pipe'[i] = 0
  BY <1>1, <1>2, <1>3, AtPrompt
<1>5. LineTypes'
  BY <1>0, <1>1, <1>2, <1>3 DEF LineTypes
<1>6. LineOK' /\ shell'.at \in Quiet /\ ~ InLine'
  BY <1>0, <1>1, <1>2 DEF LineOK, Quiet, InLine
<1>7. ShellTable(s)'
  BY <1>2, <1>3, StdRow DEF ShellTable, AtStd, Building
<1> QED BY <1>4, <1>5, <1>6, <1>7, QuietInv

(* WaitChild reaps a child that has exited or none, and the child waited   *)
(* for is gone after it, or there never was one.                           *)
LEMMA WaitChildReaps ==
  ASSUME LineTypes, NEW i \in Fragments, NEW c \in WaitChild(i)
  PROVE  /\ c \in [Fragments -> ChildState] /\ c[i].at \in {"reaped", "failed"}
         /\ \A j \in Fragments :
              \/ c[j] = child[j]
              \/ child[j].at = "exited" /\ c[j].at = "reaped" /\ c[j].eof = child[j].eof
<1>1. child \in [Fragments -> ChildState]
  BY DEF LineTypes
<1>2. ASSUME NEW j \in Fragments, child[j].at = "exited", c = [child EXCEPT ![j].at = "reaped"]
      PROVE  /\ c \in [Fragments -> ChildState] /\ c[j].at = "reaped" /\ c[j].eof = child[j].eof
             /\ \A k \in Fragments : k # j => c[k] = child[k]
  <2> DEFINE r == [child[j] EXCEPT !.at = "reaped"]
  <2>1. child[j] \in ChildState
    BY <1>1
  <2>2. r \in ChildState /\ r.at = "reaped" /\ r.eof = child[j].eof
    BY <2>1 DEF ChildState
  <2>3. c = [child EXCEPT ![j] = r]
    BY <1>2
  <2> HIDE DEF r
  <2> QED BY <1>1, <2>2, <2>3
<1>3. CASE child[i].at = "exited"
  <2>1. c = [child EXCEPT ![i].at = "reaped"]
    BY <1>3, Zenon DEF WaitChild
  <2> QED BY <1>2, <1>3, <2>1
<1>4. CASE child[i].at = "reaped"
  BY <1>1, <1>4 DEF WaitChild
<1>5. CASE child[i].at = "failed"
  <2>1. c = child \/ \E j \in Fragments : child[j].at = "exited" /\ c = [child EXCEPT ![j].at = "reaped"]
    BY <1>5 DEF WaitChild
  <2>2. CASE c = child
    BY <1>1, <1>5, <2>2
  <2>3. CASE \E j \in Fragments : child[j].at = "exited" /\ c = [child EXCEPT ![j].at = "reaped"]
    <3>1. PICK j \in Fragments : child[j].at = "exited" /\ c = [child EXCEPT ![j].at = "reaped"]
      BY <2>3
    <3>2. j # i
      BY <1>5, <3>1
    <3> QED BY <1>2, <1>5, <3>1, <3>2
  <2> QED BY <2>1, <2>2, <2>3
<1> QED BY <1>3, <1>4, <1>5 DEF WaitChild

(* WaitFragment keeps the inductive invariant: after the last no child is  *)
(* left that has not been reaped.                                          *)
LEMMA WaitInv ==
  ASSUME NEW s \in Terminals, LinesInv(s), WaitFragment
  PROVE  LinesInv(s)'
<1> DEFINE i == shell.i
<1>0. LineTypes /\ ShellTable(s) /\ ChildTables(s) /\ LineOK /\ \A j \in Fragments : ChildOK(j) /\ PipeOK(j)
  BY DEF LinesInv
<1>1. PICK c \in WaitChild(i) :
        \/ /\ ~ LastFragment
           /\ child' = c /\ shell' = [shell EXCEPT !.i = @ + 1]
           /\ UNCHANGED <<frag, saved, prog, pipe, moved, keys>>
        \/ /\ LastFragment
           /\ child' = [j \in Fragments |-> IF c[j].at \in {"reaped", "failed"} THEN NoChild ELSE c[j]]
           /\ shell' = [at |-> "prompt", i |-> 1] /\ frag' = 1 /\ saved' = Zero
           /\ prog' = [j \in Fragments |-> "none"] /\ keys' = 0
           /\ pipe' = [j \in Fragments |-> 0]
           /\ moved' = [j \in Fragments |-> Zero]
  BY DEF WaitFragment, Zero
<1>2. shell.at = "wait" /\ UNCHANGED fid
  BY DEF WaitFragment
<1>3. /\ i \in Fragments /\ i \in Nat \ {0} /\ i <= frag /\ frag \in Nat /\ frag \in Fragments /\ 1 \in Fragments
      /\ \A j \in Fragments : j \in Nat \ {0} /\ j + 1 \in Nat \ {0} /\ (j < frag => j + 1 \in Fragments)
  BY <1>0, Numbers DEF LineOK
<1>4. /\ c \in [Fragments -> ChildState] /\ c[i].at \in {"reaped", "failed"}
      /\ \A j \in Fragments :
           \/ c[j] = child[j]
           \/ child[j].at = "exited" /\ c[j].at = "reaped" /\ c[j].eof = child[j].eof
  BY <1>0, <1>3, WaitChildReaps
<1>5. CASE ~ LastFragment
  <2>1. /\ child' = c /\ shell' = [shell EXCEPT !.i = @ + 1] /\ UNCHANGED <<frag, saved, prog, pipe, moved, keys>>
        /\ i < frag
    BY <1>1, <1>3, <1>5 DEF LastFragment
  <2>2. shell'.at = "wait" /\ shell'.i = i + 1 /\ shell' \in [at : ShellPlace, i : Fragments]
    BY <1>0, <1>2, <1>3, <2>1 DEF LineTypes, ShellPlace
  <2>3. LineTypes'
    BY <1>0, <1>2, <1>4, <2>1, <2>2 DEF LineTypes
  <2>4. LineOK'
    BY <1>3, <2>1, <2>2 DEF LineOK, Quiet
  <2>5. ShellTable(s)'
    BY <1>0, <1>2, <2>2 DEF ShellTable, AtStd, Building
  <2>6. /\ \A j \in Nat \ {0} : Executed(j)' <=> Executed(j)
        /\ \A j \in Nat \ {0} : Waited(j)' <=> Waited(j) \/ j = i
    BY <1>2, <1>3, <2>1, <2>2 DEF Executed, Waited, Building, Started
  <2>7. ChildTables(s)'
    <3>1. \A j : ChildTable(j, s)' = ChildTable(j, s)
      BY <2>1 DEF ChildTable, In, Out, Keep, Rd
    <3>2. ASSUME NEW j \in Fragments
          PROVE  fid[j] = IF child'[j].at = "runs" THEN ChildTable(j, s) ELSE NoFiles
      BY <1>0, <1>4, <2>1 DEF ChildTables
    <3> QED BY <1>2, <3>1, <3>2 DEF ChildTables
  <2>8. ASSUME NEW j \in Fragments PROVE ChildOK(j)'
    <3>1. ChildOK(j) /\ j \in Nat \ {0} /\ InLine
      BY <1>0, <1>2, <1>3 DEF InLine
    <3>2. Waited(j)' => child'[j].at \in {"reaped", "failed"}
      BY <1>4, <2>1, <2>6, <3>1 DEF ChildOK
    <3>3. (child'[j].at # "none" <=> child[j].at # "none") /\ (child'[j].at = "none" => child'[j] = child[j])
      BY <1>4, <2>1
    <3>4. child'[j].at = "runs" => child[j].at = "runs" /\ child'[j].eof = child[j].eof
      BY <1>4, <2>1
    <3> QED BY <2>1, <2>6, <3>1, <3>2, <3>3, <3>4 DEF ChildOK
  <2>9. ASSUME NEW j \in Fragments PROVE PipeOK(j)'
    <3>1. PipeOK(j) /\ j \in Nat \ {0} /\ (j < frag => j + 1 \in Fragments)
      BY <1>0, <1>3
    <3>2. child'[j].at = "runs" => child[j].at = "runs"
      BY <1>4, <2>1
    <3>3. j < frag => child'[j + 1].eof = child[j + 1].eof
      BY <1>4, <2>1, <3>1
    <3> QED BY <2>1, <2>6, <3>1, <3>2, <3>3 DEF PipeOK
  <2> QED BY <2>3, <2>4, <2>5, <2>7, <2>8, <2>9, Zenon DEF LinesInv
<1>6. CASE LastFragment
  <2>1. /\ child' = [j \in Fragments |-> IF c[j].at \in {"reaped", "failed"} THEN NoChild ELSE c[j]]
        /\ shell' = [at |-> "prompt", i |-> 1] /\ frag' = 1 /\ saved' = Zero
        /\ prog' = [j \in Fragments |-> "none"] /\ keys' = 0
        /\ pipe' = [j \in Fragments |-> 0] /\ moved' = [j \in Fragments |-> Zero] /\ i = frag
    BY <1>1, <1>6 DEF LastFragment
  <2>2. ASSUME NEW j \in Fragments PROVE child'[j] = NoChild /\ fid'[j] = NoFiles /\ moved'[j] = Zero /\ pipe'[j] = 0
    <3>1. ChildOK(j) /\ j \in Nat \ {0}
      BY <1>0, <1>3
    <3>2. c[j].at \in {"reaped", "failed"} \/ (c[j] = NoChild /\ child[j] = NoChild)
      <4>1. CASE j < i
        BY <1>2, <1>4, <3>1, <4>1 DEF ChildOK, Waited
      <4>2. CASE j = i
        BY <1>4, <4>2
      <4>3. CASE j > i
        <5>1. ~ Executed(j)
          BY <1>2, <1>3, <2>1, <3>1, <4>3 DEF Executed, Building, Started
        <5> QED BY <1>4, <3>1, <5>1 DEF ChildOK, NoChild
      <4> QED BY <1>3, <3>1, <4>1, <4>2, <4>3
    <3>3. child[j].at # "runs"
      BY <1>4, <3>2 DEF NoChild
    <3> QED BY <1>0, <1>2, <2>1, <3>2, <3>3 DEF ChildTables
  <2>3. LineTypes'
    <3>1. 0 \in Fids /\ shell' \in [at : ShellPlace, i : Fragments] /\ moved' \in [Fragments -> [in : Nat, out : Nat]]
      BY <1>3, <2>1, FidAssumption DEF Fids, ShellPlace, Zero
    <3>2. NoChild \in ChildState
      BY LineAssumption DEF NoChild, ChildState
    <3>3. child' \in [Fragments -> ChildState]
      BY <1>4, <2>1, <3>2
    <3>4. pipe' \in [Fragments -> 0 .. PipeSize] /\ keys' \in 0 .. MaxBytes
      BY <2>1, LineAssumption
    <3>5. prog' \in [Fragments -> Programs \cup {"none"}] /\ frag' \in Fragments /\ saved' \in [in : Fids, out : Fids]
      BY <1>3, <2>1, <3>1 DEF Zero
    <3> QED BY <1>0, <1>2, <3>1, <3>3, <3>4, <3>5 DEF LineTypes
  <2>4. LineOK' /\ shell'.at \in Quiet /\ ~ InLine'
    BY <2>1 DEF LineOK, Quiet, InLine
  <2>5. ShellTable(s)'
    BY <1>0, <1>2, <2>1 DEF ShellTable, AtStd, Building
  <2> QED BY <2>2, <2>3, <2>4, <2>5, QuietInv
<1> QED BY <1>5, <1>6

(* A child that runs has the streams of its fragment.                      *)
LEMMA ChildStreams ==
  ASSUME NEW s \in Terminals, LinesInv(s), NEW i \in Fragments, child[i].at = "runs"
  PROVE  /\ Fin(i) = In(i, s) /\ Fout(i) = Out(i, s) /\ i <= frag /\ Executed(i)
         /\ prog[i] \in Programs /\ (~ child[i].eof => prog[i] # "echo")
<1>1. fid[i] = ChildTable(i, s) /\ ChildOK(i) /\ LineOK /\ LineTypes
  BY DEF LinesInv, ChildTables
<1>2. Executed(i)
  BY <1>1 DEF ChildOK
<1>3. i <= frag /\ InLine
  <2>1. shell.i \in Int /\ frag \in Int /\ i \in Int /\ shell.i <= frag
    BY <1>1, LineAssumption DEF LineOK, LineTypes, Fragments
  <2>2. i <= frag
    BY <1>2, <2>1 DEF Executed
  <2>3. InLine
    BY <1>2 DEF Executed, Building, Started, InLine
  <2> QED BY <2>2, <2>3
<1>4. Fin(i) = In(i, s) /\ Fout(i) = Out(i, s)
  BY <1>1, RowAt DEF ChildTable, Fin, Fout
<1> QED BY <1>1, <1>2, <1>3, <1>4 DEF ChildOK, LineTypes

(* A step of a child.                                                      *)
ChildAlone(i) ==
  /\ UNCHANGED <<shell, frag, saved, prog>>
  /\ fid'[0] = fid[0]
  /\ \A j \in Fragments : j # i => child'[j] = child[j] /\ fid'[j] = fid[j]

(* What a step of a child leaves alone.                                    *)
LEMMA ChildFrame ==
  ASSUME NEW s \in Terminals, LinesInv(s), NEW i \in Fragments, ChildAlone(i), LineTypes',
         fid'[i] = IF child'[i].at = "runs" THEN fid[i] ELSE NoFiles, child[i].at = "runs",
         child'[i].at # "none", child[i].eof => child'[i].eof,
         \A j \in Fragments : PipeOK(j)'
  PROVE  LinesInv(s)'
<1>0. /\ LineTypes /\ ShellTable(s) /\ ChildTables(s) /\ LineOK /\ \A j \in Fragments : ChildOK(j) /\ PipeOK(j)
      /\ UNCHANGED <<shell, frag, saved, prog>> /\ fid'[0] = fid[0]
      /\ \A j \in Fragments : j # i => child'[j] = child[j] /\ fid'[j] = fid[j]
  BY DEF LinesInv, ChildAlone
<1>1. LineOK'
  BY <1>0 DEF LineOK
<1>2. \A j : ChildTable(j, s)' = ChildTable(j, s)
  BY <1>0 DEF ChildTable, In, Out, Keep, Rd
<1>3. ShellTable(s)'
  BY <1>0, Zenon DEF ShellTable, ChildTable, In, Out, Prev, Keep, Rd, Wr
<1>4. ChildTables(s)'
  <2>1. ASSUME NEW j \in Fragments
        PROVE  fid'[j] = IF child'[j].at = "runs" THEN ChildTable(j, s) ELSE NoFiles
    BY <1>0 DEF ChildTables
  <2> QED BY <1>2, <2>1 DEF ChildTables
<1>5. /\ \A j \in Fragments : (Executed(j)' <=> Executed(j)) /\ (Waited(j)' <=> Waited(j))
      /\ InLine' <=> InLine
  BY <1>0, Zenon DEF Executed, Waited, InLine
<1>6. ASSUME NEW j \in Fragments PROVE ChildOK(j)'
  <2>1. CASE j = i
    <3>1. ChildOK(i) /\ (Executed(i)' <=> Executed(i)) /\ (Waited(i)' <=> Waited(i)) /\ UNCHANGED <<prog, frag>>
      BY <1>0, <1>5
    <3>2. (InLine' <=> InLine) /\ child[i].at # "none" /\ ~ Waited(i)
      BY <1>5, <3>1 DEF ChildOK
    <3>3. ChildOK(i)'
      BY <3>1, <3>2, Zenon DEF ChildOK
    <3> QED BY <2>1, <3>3
  <2>2. CASE j # i
    <3>1. ChildOK(j) /\ (Executed(j)' <=> Executed(j)) /\ (Waited(j)' <=> Waited(j)) /\ child'[j] = child[j]
      BY <1>0, <1>5, <2>2
    <3> QED BY <1>0, <1>5, <3>1, Zenon DEF ChildOK
  <2> QED BY <2>1, <2>2
<1> QED BY <1>1, <1>3, <1>4, <1>6, Zenon DEF LinesInv

OneIn(m, i)  == [m EXCEPT ![i].in = @ + 1]
OneOut(m, i) == [m EXCEPT ![i].out = @ + 1]

(* A byte more is counted.                                                 *)
LEMMA ByteMoved ==
  ASSUME NEW m \in [Fragments -> [in : Nat, out : Nat]], NEW i \in Fragments, NEW w
  PROVE  /\ w = OneIn(m, i) =>
              /\ w \in [Fragments -> [in : Nat, out : Nat]] /\ w[i].in = m[i].in + 1 /\ w[i].out = m[i].out
              /\ \A j \in Fragments : j # i => w[j] = m[j]
         /\ w = OneOut(m, i) =>
              /\ w \in [Fragments -> [in : Nat, out : Nat]] /\ w[i].out = m[i].out + 1 /\ w[i].in = m[i].in
              /\ \A j \in Fragments : j # i => w[j] = m[j]
<1>1. m[i] \in [in : Nat, out : Nat] /\ m[i].in + 1 \in Nat /\ m[i].out + 1 \in Nat
  OBVIOUS
<1>2. ASSUME w = OneIn(m, i)
      PROVE  /\ w \in [Fragments -> [in : Nat, out : Nat]] /\ w[i].in = m[i].in + 1 /\ w[i].out = m[i].out
             /\ \A j \in Fragments : j # i => w[j] = m[j]
  <2> DEFINE r == [m[i] EXCEPT !.in = m[i].in + 1]
  <2>1. r \in [in : Nat, out : Nat] /\ r.in = m[i].in + 1 /\ r.out = m[i].out
    BY <1>1
  <2>2. w = [m EXCEPT ![i] = r]
    BY <1>2 DEF OneIn
  <2> HIDE DEF r
  <2> QED BY <2>1, <2>2
<1>3. ASSUME w = OneOut(m, i)
      PROVE  /\ w \in [Fragments -> [in : Nat, out : Nat]] /\ w[i].out = m[i].out + 1 /\ w[i].in = m[i].in
             /\ \A j \in Fragments : j # i => w[j] = m[j]
  <2> DEFINE r == [m[i] EXCEPT !.out = m[i].out + 1]
  <2>1. r \in [in : Nat, out : Nat] /\ r.out = m[i].out + 1 /\ r.in = m[i].in
    BY <1>1
  <2>2. w = [m EXCEPT ![i] = r]
    BY <1>3 DEF OneOut
  <2> HIDE DEF r
  <2> QED BY <2>1, <2>2
<1> QED BY <1>2, <1>3

(* ReadByte keeps the inductive invariant.                                 *)
LEMMA ReadByteInv ==
  ASSUME NEW s \in Terminals, LinesInv(s), NEW i \in Fragments, ReadByte(i)
  PROVE  LinesInv(s)'
<1>0. LineTypes /\ LineOK /\ \A j \in Fragments : ChildOK(j) /\ PipeOK(j)
  BY DEF LinesInv
<1>1. /\ child[i].at = "runs" /\ ~ child[i].eof /\ child[i].pending = 0
      /\ UNCHANGED <<shell, frag, fid, saved, prog>> /\ moved' = [moved EXCEPT ![i].in = @ + 1]
  BY DEF ReadByte
<1>2. Fin(i) = In(i, s) /\ i <= frag /\ Executed(i) /\ prog[i] \in Programs /\ prog[i] # "echo"
  BY <1>1, ChildStreams
<1>3. /\ i \in Nat \ {0} /\ frag \in Nat
      /\ \A j \in Fragments : j \in Nat \ {0} /\ (j < frag => j + 1 \in Fragments) /\ (j # 1 => j - 1 \in Fragments)
  BY <1>0, Numbers
<1>4. PICK k \in 0 .. MaxBytes + 1 : child' = [child EXCEPT ![i].pending = k]
  <2>1. PICK k \in AfterByte(prog[i]) : child' = [child EXCEPT ![i].pending = k]
    BY DEF ReadByte
  <2>2. k \in {0, 1, 2}
    BY <1>2, <2>1 DEF AfterByte, Programs
  <2>3. k \in 0 .. MaxBytes + 1
    BY <2>2, LineAssumption
  <2> QED BY <2>1, <2>3
<1>5. /\ child' \in [Fragments -> ChildState] /\ child'[i].at = "runs" /\ child'[i].eof = child[i].eof
      /\ \A j \in Fragments : j # i => child'[j] = child[j]
  <2> DEFINE r == [child[i] EXCEPT !.pending = k]
  <2>1. child[i] \in ChildState
    BY <1>0 DEF LineTypes
  <2>2. r \in ChildState /\ r.at = "runs" /\ r.eof = child[i].eof
    BY <1>1, <1>4, <2>1 DEF ChildState
  <2>3. child' = [child EXCEPT ![i] = r]
    BY <1>4
  <2> HIDE DEF r
  <2> QED BY <1>0, <2>2, <2>3 DEF LineTypes
<1>6. /\ moved' \in [Fragments -> [in : Nat, out : Nat]] /\ moved'[i].in = moved[i].in + 1 /\ moved'[i].out = moved[i].out
      /\ \A j \in Fragments : j # i => moved'[j] = moved[j]
  <2>1. moved \in [Fragments -> [in : Nat, out : Nat]]
    BY <1>0 DEF LineTypes
  <2>2. moved' = OneIn(moved, i)
    BY <1>1, Zenon DEF OneIn
  <2> QED BY <2>1, <2>2, ByteMoved
<1>7. /\ pipe' \in [Fragments -> 0 .. PipeSize] /\ keys' \in 0 .. MaxBytes
      /\ i # 1 => pipe'[i - 1] = pipe[i - 1] - 1
      /\ \A j \in Fragments : (i = 1 \/ j # i - 1) => pipe'[j] = pipe[j]
  <2>1. CASE i = 1
    <3>1. Fin(i).end # "read"
      BY <1>2, <2>1, StreamsDiffer DEF In
    <3>2. pipe' = pipe /\ keys > 0 /\ keys' = keys - 1
      BY <3>1 DEF ReadByte
    <3> QED BY <1>0, <2>1, <3>2, LineAssumption DEF LineTypes
  <2>2. CASE i # 1
    <3>1. IsPipe(Fin(i)) /\ Fin(i).n = i - 1 /\ i - 1 \in Fragments
      BY <1>2, <1>3, <2>2, StreamsDiffer DEF In, IsPipe
    <3>2. pipe[i - 1] > 0 /\ pipe' = [pipe EXCEPT ![i - 1] = pipe[i - 1] - 1] /\ keys' = keys
      BY <3>1 DEF ReadByte
    <3>3. pipe \in [Fragments -> 0 .. PipeSize] /\ keys \in 0 .. MaxBytes
      BY <1>0 DEF LineTypes
    <3>4. pipe[i - 1] - 1 \in 0 .. PipeSize
      BY <3>1, <3>2, <3>3, LineAssumption
    <3> QED BY <2>2, <3>1, <3>2, <3>3, <3>4
  <2> QED BY <2>1, <2>2
<1>8. LineTypes'
  BY <1>0, <1>1, <1>5, <1>6, <1>7 DEF LineTypes
<1>9. ASSUME NEW j \in Fragments PROVE PipeOK(j)'
  <2>1. /\ PipeOK(j) /\ UNCHANGED <<frag, prog>> /\ (Executed(j)' <=> Executed(j))
    BY <1>0, <1>1, Zenon DEF Executed
  <2>2. moved[j] \in [in : Nat, out : Nat] /\ pipe[j] \in Nat /\ (j < frag => moved[j + 1] \in [in : Nat, out : Nat])
    BY <1>0, <1>3, LineAssumption DEF LineTypes
  <2>3. CASE j = i
    <3>1. pipe'[j] = pipe[j] /\ (j < frag => moved'[j + 1] = moved[j + 1] /\ child'[j + 1] = child[j + 1])
      BY <1>3, <1>5, <1>6, <1>7, <2>3
    <3> QED BY <1>1, <1>2, <1>3, <1>6, <2>1, <2>2, <2>3, <3>1 DEF PipeOK
  <2>4. CASE j + 1 = i
    <3>1. /\ pipe'[j] = pipe[j] - 1 /\ moved'[j] = moved[j] /\ moved'[j + 1].in = moved[j + 1].in + 1
          /\ child'[j + 1].eof = child[j + 1].eof /\ child'[j] = child[j] /\ j < frag /\ i # 1
      <4>1. j \in Nat \ {0} /\ j # i /\ j = i - 1 /\ i # 1 /\ j < frag
        BY <1>2, <1>3, <2>4
      <4> QED BY <1>5, <1>6, <1>7, <2>4, <4>1
    <3>2. Executed(j)
      <4>1. j \in Nat /\ shell.i \in Nat /\ j < i
        BY <1>0, <1>3, <2>4, LineAssumption DEF LineTypes, Fragments
      <4> QED BY <1>2, <1>3, <4>1 DEF Executed, Building, Started
    <3> QED BY <1>1, <1>2, <1>3, <2>1, <2>2, <2>4, <3>1, <3>2 DEF PipeOK
  <2>5. CASE j # i /\ j + 1 # i
    <3>1. /\ pipe'[j] = pipe[j] /\ moved'[j] = moved[j] /\ child'[j] = child[j]
          /\ j < frag => moved'[j + 1] = moved[j + 1] /\ child'[j + 1] = child[j + 1]
      BY <1>3, <1>5, <1>6, <1>7, <2>5
    <3> QED BY <2>1, <3>1, Zenon DEF PipeOK
  <2> QED BY <2>3, <2>4, <2>5
<1> QED
  <2>1. ChildAlone(i)
    BY <1>1, <1>5 DEF ChildAlone
  <2>2. fid'[i] = IF child'[i].at = "runs" THEN fid[i] ELSE NoFiles
    BY <1>1, <1>5
  <2>3. child'[i].at # "none" /\ (child[i].eof => child'[i].eof)
    BY <1>1, <1>5
  <2> QED BY <1>1, <1>8, <1>9, <2>1, <2>2, <2>3, ChildFrame

(* WriteByte keeps the inductive invariant: nobody who reads has met the   *)
(* end while the writer runs.                                              *)
LEMMA WriteByteInv ==
  ASSUME NEW s \in Terminals, LinesInv(s), NEW i \in Fragments, WriteByte(i)
  PROVE  LinesInv(s)'
<1>0. LineTypes /\ LineOK /\ \A j \in Fragments : ChildOK(j) /\ PipeOK(j)
  BY DEF LinesInv
<1>1. /\ child[i].at = "runs" /\ child[i].pending > 0 /\ child' = [child EXCEPT ![i].pending = @ - 1]
      /\ UNCHANGED <<shell, frag, fid, saved, prog, keys>> /\ moved' = [moved EXCEPT ![i].out = @ + 1]
  BY DEF WriteByte
<1>2. Fout(i) = Out(i, s) /\ i <= frag /\ Executed(i)
  BY <1>1, ChildStreams
<1>3. /\ i \in Nat \ {0} /\ frag \in Nat
      /\ \A j \in Fragments : j \in Nat \ {0} /\ (j < frag => j + 1 \in Fragments)
  BY <1>0, Numbers
<1>4. /\ child' \in [Fragments -> ChildState] /\ child'[i].at = "runs" /\ child'[i].eof = child[i].eof
      /\ \A j \in Fragments : j # i => child'[j] = child[j]
  <2>0. child[i] \in ChildState
    BY <1>0 DEF LineTypes
  <2>1. child[i].pending - 1 \in 0 .. MaxBytes + 1
    BY <1>1, <2>0, LineAssumption DEF ChildState
  <2> QED BY <1>0, <1>1, <2>0, <2>1 DEF LineTypes, ChildState
<1>5. /\ moved' \in [Fragments -> [in : Nat, out : Nat]] /\ moved'[i].out = moved[i].out + 1 /\ moved'[i].in = moved[i].in
      /\ \A j \in Fragments : j # i => moved'[j] = moved[j]
  <2>1. moved \in [Fragments -> [in : Nat, out : Nat]]
    BY <1>0 DEF LineTypes
  <2>2. moved' = OneOut(moved, i)
    BY <1>1, Zenon DEF OneOut
  <2> QED BY <2>1, <2>2, ByteMoved
<1>6. /\ pipe' \in [Fragments -> 0 .. PipeSize]
      /\ i < frag => pipe'[i] = pipe[i] + 1
      /\ \A j \in Fragments : (i = frag \/ j # i) => pipe'[j] = pipe[j]
  <2>1. CASE i = frag
    <3>1. Fout(i).end # "write"
      BY <1>2, <2>1, StreamsDiffer DEF Out
    <3>2. pipe' = pipe
      BY <3>1 DEF WriteByte
    <3> QED BY <1>0, <2>1, <3>2, <1>3 DEF LineTypes
  <2>2. CASE i # frag
    <3>1. IsPipe(Fout(i)) /\ Fout(i).n = i
      BY <1>2, <2>2, StreamsDiffer DEF Out, IsPipe
    <3>2. pipe[i] < PipeSize /\ pipe' = [pipe EXCEPT ![i] = @ + 1]
      BY <3>1 DEF WriteByte
    <3> QED BY <1>0, <2>2, <3>1, <3>2, LineAssumption DEF LineTypes
  <2> QED BY <2>1, <2>2
<1>7. LineTypes'
  BY <1>0, <1>1, <1>4, <1>5, <1>6 DEF LineTypes
<1>8. ASSUME NEW j \in Fragments PROVE PipeOK(j)'
  <2>1. /\ PipeOK(j) /\ UNCHANGED <<frag, prog>> /\ (Executed(j)' <=> Executed(j))
    BY <1>0, <1>1, Zenon DEF Executed
  <2>2. moved[j] \in [in : Nat, out : Nat] /\ pipe[j] \in Nat /\ (j < frag => moved[j + 1] \in [in : Nat, out : Nat])
    BY <1>0, <1>3, LineAssumption DEF LineTypes
  <2>3. CASE j = i
    <3>1. /\ i = frag => pipe'[j] = pipe[j]
          /\ j < frag => moved'[j + 1] = moved[j + 1] /\ child'[j + 1] = child[j + 1] /\ pipe'[j] = pipe[j] + 1
      BY <1>3, <1>4, <1>5, <1>6, <2>3
    <3> QED BY <1>1, <1>2, <1>3, <1>5, <2>1, <2>2, <2>3, <3>1 DEF PipeOK
  <2>4. CASE j # i
    <3>1. /\ pipe'[j] = pipe[j] /\ moved'[j] = moved[j] /\ child'[j] = child[j]
          /\ j < frag => moved'[j + 1].in = moved[j + 1].in /\ child'[j + 1].eof = child[j + 1].eof
      BY <1>3, <1>4, <1>5, <1>6, <2>4
    <3> QED BY <2>1, <3>1, Zenon DEF PipeOK
  <2> QED BY <2>3, <2>4
<1> QED
  <2>1. ChildAlone(i)
    BY <1>1, <1>4 DEF ChildAlone
  <2>2. fid'[i] = IF child'[i].at = "runs" THEN fid[i] ELSE NoFiles
    BY <1>1, <1>4
  <2>3. child'[i].at # "none" /\ (child[i].eof => child'[i].eof)
    BY <1>1, <1>4
  <2> QED BY <1>1, <1>7, <1>8, <2>1, <2>2, <2>3, ChildFrame

(* ReadEnds keeps the inductive invariant: the end is met when no table    *)
(* has the write end any more, so the writer, whose standard output it is, *)
(* has ended.                                                              *)
LEMMA ReadEndsInv ==
  ASSUME NEW s \in Terminals, LinesInv(s), NEW i \in Fragments, ReadEnds(i)
  PROVE  LinesInv(s)'
<1> DEFINE r == [child[i] EXCEPT !.eof = TRUE, !.pending = AfterEnd(prog[i])]
<1>0. LineTypes /\ LineOK /\ ChildTables(s) /\ \A j \in Fragments : ChildOK(j) /\ PipeOK(j)
  BY DEF LinesInv
<1>1. /\ child[i].at = "runs" /\ ~ child[i].eof /\ UNCHANGED <<shell, frag, fid, saved, prog, pipe, moved, keys>>
      /\ child' = [child EXCEPT ![i].eof = TRUE, ![i].pending = AfterEnd(prog[i])]
  BY DEF ReadEnds
<1>2. Fin(i) = In(i, s) /\ i <= frag
  BY <1>1, ChildStreams
<1>3. /\ i \in Nat \ {0} /\ frag \in Nat /\ \A j \in Fragments : j \in Nat \ {0} /\ j \in DOMAIN fid
      /\ \A j \in Fragments : j < frag => j + 1 \in Fragments
  <2>1. DOMAIN fid = 0 .. MaxFragments
    BY <1>0 DEF LineTypes
  <2> QED BY <1>0, <2>1, Numbers
<1>4. /\ child' \in [Fragments -> ChildState] /\ child'[i].at = "runs" /\ child'[i].eof
      /\ \A j \in Fragments : j # i => child'[j] = child[j]
  <2>1. child[i] \in ChildState /\ AfterEnd(prog[i]) \in 0 .. MaxBytes + 1
    BY <1>0, LineAssumption DEF LineTypes, AfterEnd
  <2>2. r \in ChildState /\ r.at = "runs" /\ r.eof
    BY <1>1, <2>1 DEF ChildState
  <2>3. child' = [child EXCEPT ![i] = r]
    BY <1>0, <1>1 DEF LineTypes
  <2> HIDE DEF r
  <2> QED BY <1>0, <2>2, <2>3 DEF LineTypes
<1>5. ASSUME i # 1 PROVE i - 1 \in Fragments /\ child[i - 1].at # "runs" /\ pipe[i - 1] = 0
  <2>1. i - 1 \in Fragments /\ i - 1 < frag
    BY <1>2, <1>3, <1>5, LineAssumption DEF Fragments
  <2>2. Fin(i) # Console /\ Fin(i).n = i - 1
    BY <1>2, <1>5, StreamsDiffer DEF In, Terminals
  <2>3. AtEnd(i - 1)
    BY <2>2 DEF ReadEnds
  <2>4. ASSUME child[i - 1].at = "runs" PROVE FALSE
    <3>1. Fout(i - 1) = WriteEnd(i - 1)
      BY <2>1, <2>4, <1>3, ChildStreams DEF Out
    <3>2. IsOpen(fid, WriteEnd(i - 1))
      BY <1>3, <2>1, <3>1, RowAt DEF IsOpen, Fout
    <3> QED BY <2>3, <3>2 DEF AtEnd
  <2> QED BY <2>1, <2>3, <2>4 DEF AtEnd
<1>6. LineTypes'
  BY <1>0, <1>1, <1>4 DEF LineTypes
<1>7. ASSUME NEW j \in Fragments PROVE PipeOK(j)'
  <2>1. /\ PipeOK(j) /\ UNCHANGED <<frag, prog, moved, pipe>> /\ (Executed(j)' <=> Executed(j))
        /\ (child'[j].at = "runs" <=> child[j].at = "runs")
    BY <1>0, <1>1, <1>4, Zenon DEF Executed
  <2>2. CASE j + 1 = i
    <3>1. child[j].at # "runs" /\ pipe[j] = 0
      <4>1. i # 1 /\ i - 1 = j
        BY <1>3, <2>2
      <4> QED BY <1>5, <4>1
    <3> QED BY <2>1, <2>2, <3>1 DEF PipeOK
  <2>3. CASE j + 1 # i
    <3>1. j < frag => child'[j + 1] = child[j + 1]
      BY <1>3, <1>4, <2>3
    <3> QED BY <2>1, <3>1, Zenon DEF PipeOK
  <2> QED BY <2>2, <2>3
<1> QED
  <2>1. ChildAlone(i)
    BY <1>1, <1>4 DEF ChildAlone
  <2>2. fid'[i] = IF child'[i].at = "runs" THEN fid[i] ELSE NoFiles
    BY <1>1, <1>4
  <2>3. child'[i].at # "none" /\ (child[i].eof => child'[i].eof)
    BY <1>1, <1>4
  <2> QED BY <1>1, <1>6, <1>7, <2>1, <2>2, <2>3, ChildFrame

(* ProgramEnds keeps the inductive invariant.                              *)
LEMMA ProgramEndsInv ==
  ASSUME NEW s \in Terminals, LinesInv(s), NEW i \in Fragments, ProgramEnds(i)
  PROVE  LinesInv(s)'
<1>0. LineTypes /\ \A j \in Fragments : PipeOK(j)
  BY DEF LinesInv
<1>1. /\ child[i].at = "runs" /\ child[i].eof /\ UNCHANGED <<shell, frag, saved, prog, pipe, moved, keys>>
      /\ child' = [child EXCEPT ![i].at = "exited"] /\ fid' = [fid EXCEPT ![i] = NoFiles]
  BY DEF ProgramEnds
<1>2. /\ i \in 0 .. MaxFragments /\ i # 0 /\ \A j \in Fragments : j \in 0 .. MaxFragments
  BY LineAssumption DEF Fragments
<1>3. /\ child' \in [Fragments -> ChildState] /\ child'[i].at = "exited" /\ child'[i].eof = child[i].eof
      /\ \A j \in Fragments : j # i => child'[j] = child[j]
  <2> DEFINE r == [child[i] EXCEPT !.at = "exited"]
  <2>1. child[i] \in ChildState
    BY <1>0 DEF LineTypes
  <2>2. r \in ChildState /\ r.at = "exited" /\ r.eof = child[i].eof
    BY <2>1 DEF ChildState
  <2>3. child' = [child EXCEPT ![i] = r]
    BY <1>1
  <2> HIDE DEF r
  <2> QED BY <1>0, <2>2, <2>3 DEF LineTypes
<1>4. DOMAIN fid' = 0 .. MaxFragments /\ fid'[0] = fid[0] /\ fid'[i] = NoFiles /\ \A j \in Fragments : j # i => fid'[j] = fid[j]
  BY <1>0, <1>1, <1>2 DEF LineTypes
<1>5. LineTypes'
  BY <1>0, <1>1, <1>3, <1>4 DEF LineTypes
<1>6. ASSUME NEW j \in Fragments PROVE PipeOK(j)'
  <2>1. /\ PipeOK(j) /\ UNCHANGED <<frag, prog, moved, pipe>> /\ (Executed(j)' <=> Executed(j))
        /\ (child'[j].at = "runs" => child[j].at = "runs")
    BY <1>0, <1>1, <1>3, Zenon DEF Executed
  <2>2. j < frag => child'[j + 1].eof = child[j + 1].eof
    <3>1. j < frag => j + 1 \in Fragments
      BY <1>0, LineAssumption DEF LineTypes, Fragments
    <3> QED BY <1>3, <3>1
  <2> QED BY <2>1, <2>2, Zenon DEF PipeOK
<1> QED
  <2>1. ChildAlone(i)
    BY <1>1, <1>3, <1>4 DEF ChildAlone
  <2>2. fid'[i] = IF child'[i].at = "runs" THEN fid[i] ELSE NoFiles
    BY <1>3, <1>4
  <2>3. child'[i].at # "none" /\ (child[i].eof => child'[i].eof)
    BY <1>1, <1>3
  <2> QED BY <1>1, <1>5, <1>6, <2>1, <2>2, <2>3, ChildFrame

(* The inductive invariant implies the property the run checks.            *)
LEMMA PipelineInvSound == PipelineInv => PipelineInvariant
<1> SUFFICES ASSUME NEW s \in Terminals, LinesInv(s) PROVE PipelineInvariant
  BY DEF PipelineInv
<1>0. LineTypes /\ ShellTable(s) /\ ChildTables(s) /\ LineOK /\ \A j \in Fragments : ChildOK(j) /\ PipeOK(j)
  BY DEF LinesInv
<1>1. ShellTypeOK
  BY <1>0 DEF LineTypes, ShellTypeOK, ShellPlace, ChildState
<1>2. ASSUME NEW i \in Fragments, fid[i][1].end = "write"
      PROVE  \E f \in Fids : fid[i][f] = ReadEnd(fid[i][1].n)
  <2>1. child[i].at = "runs"
    <3>1. 1 \in Fids /\ NOSTREAM.end = "none"
      BY RowAt DEF NOSTREAM
    <3> QED BY <1>0, <1>2, <3>1 DEF ChildTables, NoFiles
  <2>2. fid[i] = ChildTable(i, s) /\ fid[i][1] = Out(i, s)
    BY <1>0, <2>1, ChildStreams DEF ChildTables, Fout
  <2>3. i # frag /\ fid[i][1].n = i
    BY <1>2, <2>2, StreamsDiffer DEF Out
  <2>4. fid[i][4] = ReadEnd(i) /\ 4 \in Fids
    BY <2>2, <2>3, RowAt DEF ChildTable, Rd
  <2> QED BY <2>3, <2>4
<1>3. ASSUME shell.at = "prompt"
      PROVE  /\ fid[0] = StdTable(fid[0][0]) /\ ~ IsPipe(fid[0][0])
             /\ \A i \in Fragments : child[i] = NoChild /\ fid[i] = NoFiles
  <2>1. fid[0] = StdTable(s) /\ fid[0][0] = s
    BY <1>0, <1>3, StdRow, RowAt DEF ShellTable, AtStd
  <2>2. ~ IsPipe(s)
    BY StreamsDiffer
  <2> QED BY <1>3, <2>1, <2>2, AtPrompt DEF Quiet
<1>4. ASSUME NEW i \in Fragments \ {MaxFragments}, i < frag
      PROVE  /\ moved[i].out = moved[i + 1].in + pipe[i]
             /\ child[i + 1].eof /\ prog[i + 1] # "echo" => child[i].at # "runs" /\ pipe[i] = 0
  BY <1>0, <1>4 DEF PipeOK
<1> QED BY <1>1, <1>2, <1>3, <1>4 DEF PipelineInvariant

(* The inductive invariant holds initially.                                *)
LEMMA PipelineInvInit == ShellInit => PipelineInv
<1> SUFFICES ASSUME ShellInit PROVE LinesInv(Console)
  BY DEF PipelineInv, Terminals
<1> USE DEF ShellInit
<1>1. 1 \in Fragments /\ 0 \in Fids /\ \A i \in Fragments : i \in Nat \ {0} /\ i \in 0 .. MaxFragments /\ ~ (i < 1)
  BY LineAssumption, FidAssumption DEF Fragments, Fids
<1>2. LineTypes
  <2>1. shell \in [at : ShellPlace, i : Fragments] /\ frag \in Fragments /\ saved \in [in : Fids, out : Fids]
    BY <1>1 DEF ShellPlace
  <2>2. NoChild \in ChildState
    BY LineAssumption DEF NoChild, ChildState
  <2>3. child \in [Fragments -> ChildState]
    BY <2>2
  <2> QED BY <2>1, <2>3, LineAssumption DEF LineTypes
<1>3. LineOK
  BY DEF LineOK
<1>4. ShellTable(Console)
  BY LineAssumption DEF ShellTable, AtStd, Building
<1>5. ChildTables(Console)
  BY <1>1 DEF ChildTables, NoChild
<1>6. \A i \in Nat : ~ Executed(i) /\ ~ Waited(i)
  BY DEF Executed, Waited, Building, Started
<1>7. ASSUME NEW i \in Fragments PROVE ChildOK(i) /\ PipeOK(i)
  BY <1>1, <1>6 DEF ChildOK, PipeOK, NoChild, Zero, InLine
<1> QED BY <1>2, <1>3, <1>4, <1>5, <1>7 DEF LinesInv

(* Every step keeps the inductive invariant.                               *)
LEMMA PipelineInvStep ==
  ASSUME PipelineInv, [ShellMove]_shellVars
  PROVE  PipelineInv'
<1>0. PICK s \in Terminals : LinesInv(s)
  BY DEF PipelineInv
<1>1. CASE UNCHANGED shellVars
  <2>0. UNCHANGED <<shell, frag, fid, saved, prog, child, pipe, moved, keys>>
    BY <1>1, Zenon DEF shellVars
  <2>1. LineTypes' /\ LineOK'
    BY <1>0, <2>0, Zenon DEF LinesInv, LineTypes, LineOK
  <2>2. ShellTable(s)'
    BY <1>0, <2>0, Zenon DEF LinesInv, ShellTable, ChildTable, In, Out, Prev, Keep, Rd, Wr
  <2>3. ShellAlone
    BY <2>0, Zenon DEF ShellAlone, Executed, Waited, InLine
  <2> QED BY <1>0, <2>1, <2>2, <2>3, ShellFrame DEF PipelineInv
<1>2. ASSUME NEW r \in Terminals, ShellStarts(StdTable(r)) PROVE PipelineInv'
  BY <1>0, <1>2, ShellStartsInv DEF PipelineInv
<1>3. ASSUME ReadLine \/ ExitShell \/ ShellRuns("prompt", "program") \/ ShellRuns("program", "last") PROVE PipelineInv'
  BY <1>0, <1>3, PromptInv DEF PipelineInv
<1>4. ASSUME process_line PROVE LinesInv(s)'
  BY <1>0, <1>4, SaveInv, MakePipeInv, ShellCallsInv, ExecuteInv, CloseInputInv, WaitInv, Zenon DEF process_line
<1>5. ASSUME NEW i \in Fragments, Program(i) PROVE LinesInv(s)'
  BY <1>0, <1>5, ReadByteInv, ReadEndsInv, WriteByteInv, ProgramEndsInv, Zenon DEF Program
<1>6. ASSUME ShellMove PROVE PipelineInv'
  BY <1>2, <1>3, <1>4, <1>5, <1>6, Zenon DEF ShellMove, ShellNext, PipelineInv
<1> QED BY <1>1, <1>6

(* However long the line, however large the pipes, whatever the order in   *)
(* which the programs run and whichever of them could not be started: the  *)
(* shell has its own streams back at the prompt and no child, every byte a *)
(* program writes is read by the next or still in the pipe between them,   *)
(* and a program meets the end of its input only when the program before   *)
(* it has ended, or never began, and all it wrote is read.                 *)
THEOREM PipelinesSafe == Spec => []PipelineInvariant
<1>1. Init => InitTaskInv /\ PipelineInv
  BY InitTaskInvInit, PipelineInvInit DEF Init
<1>2. (InitTaskInv /\ PipelineInv) /\ [Next]_vars => (InitTaskInv /\ PipelineInv)'
  BY InitTaskInvStep, PipelineInvStep, PartsMove, ShellMoves
<1> QED BY <1>1, <1>2, PipelineInvSound, PTL DEF Spec

-----------------------------------------------------------------------------
(* The lists of util.h.                                                    *)

(* The next pointers nx lead from l through s and back to l.               *)
Linked(nx, l, s) ==
  /\ nx[l] = IF Len(s) = 0 THEN l ELSE s[1]
  /\ \A k \in 1 .. Len(s) : nx[s[k]] = IF k = Len(s) THEN l ELSE s[k + 1]

(* l and the elements of s are different nodes.                            *)
Chain(l, s) == l \in Nodes /\ s \in Seq(Nodes) /\ IsInjective(s) /\ l \notin ToSet(s)

(* The node before the one at p, and the last one.                         *)
NodeBefore(l, s, p) == IF p = 1 THEN l ELSE s[p - 1]
LastNode(l, s) == IF Len(s) = 0 THEN l ELSE s[Len(s)]

(* The prev pointers are the inverse of the next pointers.                 *)
Sound(r) ==
  /\ r = [next |-> r.next, prev |-> r.prev]
  /\ r.next \in [Nodes -> Nodes] /\ r.prev \in [Nodes -> Nodes]
  /\ \A n \in Nodes : r.prev[r.next[n]] = n /\ r.next[r.prev[n]] = n

Swap(nx, a, b) == [nx EXCEPT ![a] = nx[b], ![b] = nx[a]]

(* rl_splice swaps two next pointers and keeps the prev pointers right.    *)
LEMMA SpliceSwaps ==
  ASSUME NEW r, Sound(r), NEW a \in Nodes, NEW b \in Nodes
  PROVE  Sound(rl_splice(r, a, b)) /\ rl_splice(r, a, b).next = Swap(r.next, a, b)
<1> DEFINE an == r.next[a]
           bn == r.next[b]
           q == rl_splice(r, a, b)
<1>1. an \in Nodes /\ bn \in Nodes /\ r.prev[an] = a /\ r.prev[bn] = b /\ (an = bn <=> a = b)
  BY DEF Sound
<1>2. q.next = Swap(r.next, a, b) /\ q.prev = [r.prev EXCEPT ![an] = b, ![bn] = a]
      /\ q = [next |-> q.next, prev |-> q.prev]
  BY <1>1 DEF rl_splice, Swap
<1> HIDE DEF q
<1>3. q.next \in [Nodes -> Nodes] /\ q.prev \in [Nodes -> Nodes]
  <2>1. r.next \in [Nodes -> Nodes] /\ r.prev \in [Nodes -> Nodes]
    BY DEF Sound
  <2>2. q.next \in [Nodes -> Nodes]
    BY <1>1, <1>2, <2>1 DEF Swap
  <2>3. q.prev \in [Nodes -> Nodes]
    BY <1>2, <2>1
  <2> QED BY <2>2, <2>3
<1>4. ASSUME NEW n \in Nodes PROVE q.next[n] = IF n = a THEN bn ELSE IF n = b THEN an ELSE r.next[n]
  BY <1>2 DEF Swap, Sound
<1>5. ASSUME NEW n \in Nodes PROVE q.prev[n] = IF n = bn THEN a ELSE IF n = an THEN b ELSE r.prev[n]
  BY <1>1, <1>2 DEF Sound
<1> HIDE DEF an, bn
<1>6. ASSUME NEW n \in Nodes PROVE q.prev[q.next[n]] = n
  <2>1. r.next[n] \in Nodes /\ r.prev[r.next[n]] = n
    BY DEF Sound
  <2>2. CASE n = a \/ n = b
    BY <1>1, <1>4, <1>5, <2>2
  <2>3. CASE n # a /\ n # b
    <3>1. r.next[n] # an /\ r.next[n] # bn
      BY <1>1, <2>1, <2>3
    <3> QED BY <1>4, <1>5, <2>1, <2>3, <3>1
  <2> QED BY <2>2, <2>3
<1>7. ASSUME NEW n \in Nodes PROVE q.next[q.prev[n]] = n
  <2>1. r.prev[n] \in Nodes /\ r.next[r.prev[n]] = n
    BY DEF Sound
  <2>2. CASE n = an \/ n = bn
    BY <1>1, <1>4, <1>5, <2>2
  <2>3. CASE n # an /\ n # bn
    <3>1. r.prev[n] # a /\ r.prev[n] # b
      BY <1>1, <2>1, <2>3 DEF an, bn
    <3> QED BY <1>4, <1>5, <2>1, <2>3, <3>1
  <2> QED BY <2>2, <2>3
<1>8. Sound(q)
  BY <1>2, <1>3, <1>6, <1>7 DEF Sound
<1> QED BY <1>2, <1>8 DEF q

(* The new pointers, one by one.                                           *)
LEMMA SwapAt ==
  ASSUME NEW nx \in [Nodes -> Nodes], NEW a \in Nodes, NEW b \in Nodes
  PROVE  /\ Swap(nx, a, b)[a] = nx[b] /\ Swap(nx, a, b)[b] = nx[a]
         /\ \A n \in Nodes : n # a /\ n # b => Swap(nx, a, b)[n] = nx[n]
  BY DEF Swap

(* What is known of a chain.                                               *)
LEMMA ChainNodes ==
  ASSUME NEW l, NEW s, Chain(l, s)
  PROVE  /\ l \in Nodes /\ Len(s) \in Nat /\ DOMAIN s = 1 .. Len(s)
         /\ \A k \in 1 .. Len(s) : s[k] \in Nodes /\ s[k] # l /\ s[k] \in ToSet(s)
         /\ \A j, k \in 1 .. Len(s) : s[j] = s[k] => j = k
  BY LenProperties DEF Chain, IsInjective, ToSet

(* The splice of two nodes elsewhere does not touch a ring.                *)
LEMMA LinkedElsewhere ==
  ASSUME NEW nx \in [Nodes -> Nodes], NEW a \in Nodes, NEW b \in Nodes, NEW l, NEW s, Chain(l, s),
         Linked(nx, l, s), a # l, b # l, a \notin ToSet(s), b \notin ToSet(s)
  PROVE  Linked(Swap(nx, a, b), l, s)
<1>1. /\ l \in Nodes /\ Len(s) \in Nat
      /\ \A k \in 1 .. Len(s) : s[k] \in Nodes /\ s[k] # a /\ s[k] # b
  BY ChainNodes
<1> QED BY <1>1, SwapAt DEF Linked

(* The prev pointers of a ring.                                            *)
LEMMA LinkedBack ==
  ASSUME NEW r, Sound(r), NEW l, NEW s, Chain(l, s), Linked(r.next, l, s)
  PROVE  /\ r.prev[l] = LastNode(l, s)
         /\ \A p \in 1 .. Len(s) : r.prev[s[p]] = NodeBefore(l, s, p)
<1>1. /\ l \in Nodes /\ Len(s) \in Nat
      /\ \A k \in 1 .. Len(s) : s[k] \in Nodes
  BY ChainNodes
<1>2. \A m, n \in Nodes : r.next[m] = n => r.prev[n] = m
  BY DEF Sound
<1>3. r.prev[l] = LastNode(l, s)
  <2>1. CASE Len(s) = 0
    BY <1>1, <1>2, <2>1 DEF Linked, LastNode
  <2>2. CASE Len(s) # 0
    <3>1. Len(s) \in 1 .. Len(s)
      BY <1>1, <2>2
    <3> QED BY <1>1, <1>2, <2>2, <3>1 DEF Linked, LastNode
  <2> QED BY <2>1, <2>2
<1>4. ASSUME NEW p \in 1 .. Len(s) PROVE r.prev[s[p]] = NodeBefore(l, s, p)
  <2>1. CASE p = 1
    BY <1>1, <1>2, <2>1 DEF Linked, NodeBefore
  <2>2. CASE p # 1
    <3>1. p - 1 \in 1 .. Len(s) /\ (p - 1) + 1 = p /\ p - 1 # Len(s)
      BY <1>1, <2>2
    <3>2. r.next[s[p - 1]] = s[p]
      BY <3>1 DEF Linked
    <3> QED BY <1>1, <1>2, <2>2, <3>1, <3>2 DEF NodeBefore
  <2> QED BY <2>1, <2>2
<1> QED BY <1>3, <1>4

(* Two rings without a common node.                                        *)
TwoRings(l, s, m, t) ==
  /\ Chain(l, s) /\ Chain(m, t) /\ l # m /\ l \notin ToSet(t) /\ m \notin ToSet(s)
  /\ ToSet(s) \cap ToSet(t) = {}

(* u is s, t and m one after the other; or t, m and s.                     *)
JoinsBack(u, s, t, m) ==
  /\ Len(u) = Len(s) + Len(t) + 1
  /\ \A i \in 1 .. Len(s) : u[i] = s[i]
  /\ \A i \in 1 .. Len(t) : u[Len(s) + i] = t[i]
  /\ u[Len(s) + Len(t) + 1] = m

JoinsFront(u, s, t, m) ==
  /\ Len(u) = Len(s) + Len(t) + 1
  /\ \A i \in 1 .. Len(t) : u[i] = t[i]
  /\ u[Len(t) + 1] = m
  /\ \A i \in 1 .. Len(s) : u[Len(t) + 1 + i] = s[i]

(* rlist_push_back of a ring.                                              *)
LEMMA LinkedPushBack ==
  ASSUME NEW nx \in [Nodes -> Nodes], NEW l, NEW s, NEW m, NEW t, TwoRings(l, s, m, t),
         Linked(nx, l, s), Linked(nx, m, t), NEW u, JoinsBack(u, s, t, m)
  PROVE  Linked(Swap(nx, LastNode(l, s), m), l, u)
<1>0. Chain(l, s) /\ Chain(m, t)
  BY DEF TwoRings
<1>1. /\ l \in Nodes /\ Len(s) \in Nat
      /\ \A k \in 1 .. Len(s) : s[k] \in Nodes /\ s[k] # l /\ s[k] \in ToSet(s)
      /\ \A j, k \in 1 .. Len(s) : s[j] = s[k] => j = k
  BY <1>0, ChainNodes
<1>2. /\ m \in Nodes /\ Len(t) \in Nat
      /\ \A k \in 1 .. Len(t) : t[k] \in Nodes /\ t[k] # m /\ t[k] \in ToSet(t)
  BY <1>0, ChainNodes
<1>3. PICK z \in Nodes : z = LastNode(l, s)
  BY <1>1 DEF LastNode
<1>4. PICK f : f = Swap(nx, z, m)
  OBVIOUS
<1>5. f[z] = nx[m] /\ f[m] = nx[z] /\ \A n \in Nodes : n # z /\ n # m => f[n] = nx[n]
  BY <1>2, <1>3, <1>4, SwapAt
<1>6. nx[z] = l /\ m # l
  <2>1. CASE Len(s) = 0
    BY <1>3, <2>1 DEF LastNode, Linked, TwoRings
  <2>2. CASE Len(s) # 0
    <3>1. Len(s) \in 1 .. Len(s)
      BY <1>1, <2>2
    <3> QED BY <1>3, <2>2, <3>1 DEF LastNode, Linked, TwoRings
  <2> QED BY <2>1, <2>2
<1>7. f[z] = u[Len(s) + 1]
  <2>1. CASE Len(t) = 0
    BY <1>1, <1>5, <2>1 DEF Linked, JoinsBack
  <2>2. CASE Len(t) # 0
    <3>1. 1 \in 1 .. Len(t)
      BY <1>2, <2>2
    <3> QED BY <1>5, <2>2, <3>1 DEF Linked, JoinsBack
  <2> QED BY <2>1, <2>2
<1>8. f[l] = IF Len(u) = 0 THEN l ELSE u[1]
  <2>1. Len(u) # 0
    BY <1>1, <1>2 DEF JoinsBack
  <2>2. CASE Len(s) = 0
    BY <1>3, <1>7, <2>1, <2>2 DEF LastNode
  <2>3. CASE Len(s) # 0
    <3>1. 1 \in 1 .. Len(s) /\ Len(s) \in 1 .. Len(s)
      BY <1>1, <2>3
    <3>2. l # z /\ l # m
      BY <1>1, <1>3, <1>6, <2>3, <3>1 DEF LastNode
    <3> QED BY <1>1, <1>5, <2>1, <2>3, <3>1, <3>2 DEF Linked, JoinsBack
  <2> QED BY <2>2, <2>3
<1>9. ASSUME NEW k \in 1 .. Len(u) PROVE f[u[k]] = IF k = Len(u) THEN l ELSE u[k + 1]
  <2>1. CASE k < Len(s)
    <3>1. k \in 1 .. Len(s) /\ k + 1 \in 1 .. Len(s) /\ Len(s) \in 1 .. Len(s) /\ k # Len(u)
      BY <1>1, <1>2, <2>1 DEF JoinsBack
    <3>2. u[k] = s[k] /\ u[k + 1] = s[k + 1] /\ nx[s[k]] = s[k + 1]
      BY <2>1, <3>1, <1>1 DEF JoinsBack, Linked
    <3>3. s[k] # z /\ s[k] # m
      BY <1>1, <1>3, <2>1, <3>1 DEF LastNode, TwoRings
    <3> QED BY <1>1, <1>5, <3>1, <3>2, <3>3
  <2>2. CASE k = Len(s)
    <3>1. k \in 1 .. Len(s) /\ Len(s) # 0 /\ k # Len(u)
      BY <1>1, <1>2, <2>2 DEF JoinsBack
    <3>2. u[k] = z
      BY <1>3, <2>2, <3>1 DEF LastNode, JoinsBack
    <3> QED BY <1>7, <2>2, <3>1, <3>2
  <2>3. CASE k > Len(s) /\ k < Len(u)
    <3>1. PICK i \in 1 .. Len(t) : k = Len(s) + i
      <4>1. k - Len(s) \in 1 .. Len(t) /\ k = Len(s) + (k - Len(s))
        BY <1>1, <1>2, <2>3 DEF JoinsBack
      <4> QED BY <4>1
    <3>2. u[k] = t[i] /\ nx[t[i]] = IF i = Len(t) THEN m ELSE t[i + 1]
      BY <3>1 DEF JoinsBack, Linked
    <3>3. t[i] # z /\ t[i] # m
      <4>1. z \in ToSet(s) \cup {l}
        <5>1. CASE Len(s) = 0
          BY <1>3, <5>1 DEF LastNode
        <5>2. CASE Len(s) # 0
          <6>1. Len(s) \in 1 .. Len(s)
            BY <1>1, <5>2
          <6> QED BY <1>1, <1>3, <5>2, <6>1 DEF LastNode
        <5> QED BY <5>1, <5>2
      <4> QED BY <1>2, <4>1 DEF TwoRings
    <3>4. CASE i = Len(t)
      <4>1. u[k + 1] = m
        BY <1>1, <1>2, <3>1, <3>4 DEF JoinsBack
      <4> QED BY <1>2, <1>5, <2>3, <3>2, <3>3, <3>4, <4>1
    <3>5. CASE i # Len(t)
      <4>1. i + 1 \in 1 .. Len(t) /\ k + 1 = Len(s) + (i + 1)
        BY <1>1, <1>2, <3>1, <3>5
      <4>2. u[k + 1] = t[i + 1]
        BY <4>1 DEF JoinsBack
      <4> QED BY <1>2, <1>5, <2>3, <3>2, <3>3, <3>5, <4>2
    <3> QED BY <3>4, <3>5
  <2>4. CASE k = Len(u)
    BY <1>5, <1>6, <2>4 DEF JoinsBack
  <2> QED BY <1>1, <1>2, <2>1, <2>2, <2>3, <2>4 DEF JoinsBack
<1>10. Linked(f, l, u)
  BY <1>8, <1>9 DEF Linked
<1> QED BY <1>3, <1>4, <1>10

(* rlist_push_front of a ring.                                             *)
LEMMA LinkedPushFront ==
  ASSUME NEW nx \in [Nodes -> Nodes], NEW l, NEW s, NEW m, NEW t, TwoRings(l, s, m, t),
         Linked(nx, l, s), Linked(nx, m, t), NEW u, JoinsFront(u, s, t, m)
  PROVE  Linked(Swap(nx, l, m), l, u)
<1>0. Chain(l, s) /\ Chain(m, t) /\ l # m
  BY DEF TwoRings
<1>1. /\ l \in Nodes /\ Len(s) \in Nat
      /\ \A k \in 1 .. Len(s) : s[k] \in Nodes /\ s[k] # l /\ s[k] \in ToSet(s)
  BY <1>0, ChainNodes
<1>2. /\ m \in Nodes /\ Len(t) \in Nat
      /\ \A k \in 1 .. Len(t) : t[k] \in Nodes /\ t[k] # m /\ t[k] \in ToSet(t)
  BY <1>0, ChainNodes
<1>3. PICK f : f = Swap(nx, l, m)
  OBVIOUS
<1>4. f[l] = nx[m] /\ f[m] = nx[l] /\ \A n \in Nodes : n # l /\ n # m => f[n] = nx[n]
  BY <1>1, <1>2, <1>3, SwapAt
<1>5. f[l] = IF Len(u) = 0 THEN l ELSE u[1]
  <2>1. Len(u) # 0
    BY <1>1, <1>2 DEF JoinsFront
  <2>2. CASE Len(t) = 0
    BY <1>4, <2>1, <2>2 DEF Linked, JoinsFront
  <2>3. CASE Len(t) # 0
    <3>1. 1 \in 1 .. Len(t)
      BY <1>2, <2>3
    <3> QED BY <1>4, <2>1, <2>3, <3>1 DEF Linked, JoinsFront
  <2> QED BY <2>2, <2>3
<1>6. ASSUME NEW k \in 1 .. Len(u) PROVE f[u[k]] = IF k = Len(u) THEN l ELSE u[k + 1]
  <2>1. CASE k <= Len(t)
    <3>1. k \in 1 .. Len(t) /\ k # Len(u)
      BY <1>1, <1>2, <2>1 DEF JoinsFront
    <3>2. u[k] = t[k] /\ t[k] # l /\ t[k] # m /\ t[k] \in Nodes
      BY <1>2, <3>1 DEF JoinsFront, TwoRings
    <3>3. nx[t[k]] = IF k = Len(t) THEN m ELSE t[k + 1]
      BY <3>1 DEF Linked
    <3>4. u[k + 1] = IF k = Len(t) THEN m ELSE t[k + 1]
      <4>1. CASE k = Len(t)
        BY <4>1 DEF JoinsFront
      <4>2. CASE k # Len(t)
        <5>1. k + 1 \in 1 .. Len(t)
          BY <1>2, <3>1, <4>2
        <5> QED BY <4>2, <5>1 DEF JoinsFront
      <4> QED BY <4>1, <4>2
    <3> QED BY <1>4, <3>1, <3>2, <3>3, <3>4
  <2>2. CASE k = Len(t) + 1
    <3>1. u[k] = m
      BY <2>2 DEF JoinsFront
    <3>2. CASE Len(s) = 0
      BY <1>2, <1>4, <2>2, <3>1, <3>2 DEF JoinsFront, Linked
    <3>3. CASE Len(s) # 0
      <4>1. 1 \in 1 .. Len(s) /\ k # Len(u) /\ k + 1 = Len(t) + 1 + 1
        BY <1>1, <1>2, <2>2, <3>3 DEF JoinsFront
      <4>2. u[k + 1] = s[1]
        BY <4>1 DEF JoinsFront
      <4> QED BY <1>4, <3>1, <3>3, <4>1, <4>2 DEF Linked
    <3> QED BY <3>2, <3>3
  <2>3. CASE k > Len(t) + 1
    <3>1. PICK i \in 1 .. Len(s) : k = Len(t) + 1 + i
      <4>1. k - Len(t) - 1 \in 1 .. Len(s) /\ k = Len(t) + 1 + (k - Len(t) - 1)
        BY <1>1, <1>2, <2>3 DEF JoinsFront
      <4> QED BY <4>1
    <3>2. u[k] = s[i] /\ s[i] # l /\ s[i] # m /\ s[i] \in Nodes
      BY <1>1, <3>1 DEF JoinsFront, TwoRings
    <3>3. nx[s[i]] = IF i = Len(s) THEN l ELSE s[i + 1]
      BY DEF Linked
    <3>4. CASE i = Len(s)
      <4>1. k = Len(u)
        BY <1>1, <1>2, <3>1, <3>4 DEF JoinsFront
      <4> QED BY <1>4, <3>2, <3>3, <3>4, <4>1
    <3>5. CASE i # Len(s)
      <4>1. i + 1 \in 1 .. Len(s) /\ k + 1 = Len(t) + 1 + (i + 1) /\ k # Len(u)
        BY <1>1, <1>2, <3>1, <3>5 DEF JoinsFront
      <4>2. u[k + 1] = s[i + 1]
        BY <4>1 DEF JoinsFront
      <4> QED BY <1>4, <3>2, <3>3, <3>5, <4>1, <4>2
    <3> QED BY <3>4, <3>5
  <2> QED BY <1>1, <1>2, <2>1, <2>2, <2>3 DEF JoinsFront
<1>7. Linked(f, l, u)
  BY <1>5, <1>6 DEF Linked
<1> QED BY <1>3, <1>7

(* u is s without its element at p.                                        *)
LeavesOut(u, s, p) ==
  /\ p \in 1 .. Len(s) /\ Len(u) = Len(s) - 1
  /\ \A i \in 1 .. Len(s) - 1 : u[i] = IF i < p THEN s[i] ELSE s[i + 1]

(* rlist_remove.                                                           *)
LEMMA LinkedRemove ==
  ASSUME NEW nx \in [Nodes -> Nodes], NEW l, NEW s, Chain(l, s), Linked(nx, l, s), NEW p \in 1 .. Len(s),
         NEW u, LeavesOut(u, s, p), NEW a, a = s[p], NEW b, b = NodeBefore(l, s, p)
  PROVE  Linked(Swap(nx, a, b), l, u) /\ Swap(nx, a, b)[a] = a
<1>0. p \in 1 .. Len(s) /\ Len(u) = Len(s) - 1
  BY DEF LeavesOut
<1>1. /\ l \in Nodes /\ Len(s) \in Nat /\ Len(u) \in Nat
      /\ \A k \in 1 .. Len(s) : s[k] \in Nodes /\ s[k] # l
      /\ \A j, k \in 1 .. Len(s) : s[j] = s[k] => j = k
  BY <1>0, ChainNodes
<1>2. PICK z \in Nodes : z = NodeBefore(l, s, p)
  <2>1. p # 1 => p - 1 \in 1 .. Len(s)
    BY <1>0, <1>1
  <2> QED BY <1>1, <2>1 DEF NodeBefore
<1>3. PICK n \in Nodes : n = s[p]
  BY <1>0, <1>1
<1>4. PICK f : f = Swap(nx, n, z)
  OBVIOUS
<1>5. f[n] = nx[z] /\ f[z] = nx[n] /\ \A x \in Nodes : x # n /\ x # z => f[x] = nx[x]
  BY <1>2, <1>3, <1>4, SwapAt
<1>6. nx[z] = n /\ z # n /\ nx[n] = IF p = Len(s) THEN l ELSE s[p + 1]
  <2>1. CASE p = 1
    BY <1>0, <1>1, <1>2, <1>3, <2>1 DEF NodeBefore, Linked
  <2>2. CASE p # 1
    <3>1. p - 1 \in 1 .. Len(s) /\ (p - 1) + 1 = p /\ p - 1 # Len(s) /\ p - 1 # p
      BY <1>0, <1>1, <2>2
    <3>2. z = s[p - 1]
      BY <1>2, <2>2 DEF NodeBefore
    <3>3. nx[s[p - 1]] = s[p]
      BY <3>1 DEF Linked
    <3> QED BY <1>0, <1>1, <1>3, <3>1, <3>2, <3>3 DEF Linked
  <2> QED BY <2>1, <2>2
<1>7. f[l] = IF Len(u) = 0 THEN l ELSE u[1]
  <2>1. CASE p = 1
    <3>1. z = l
      BY <1>2, <2>1 DEF NodeBefore
    <3>2. CASE Len(s) = 1
      BY <1>0, <1>5, <1>6, <2>1, <3>1, <3>2
    <3>3. CASE Len(s) # 1
      <4>1. Len(u) # 0 /\ 1 \in 1 .. Len(s) - 1
        BY <1>0, <1>1, <2>1, <3>3
      <4>2. u[1] = s[2]
        BY <2>1, <4>1 DEF LeavesOut
      <4> QED BY <1>5, <1>6, <2>1, <3>1, <3>3, <4>1, <4>2
    <3> QED BY <3>2, <3>3
  <2>2. CASE p # 1
    <3>1. 1 \in 1 .. Len(s) - 1 /\ 1 < p /\ Len(u) # 0 /\ p - 1 \in 1 .. Len(s)
      BY <1>0, <1>1, <2>2
    <3>2. u[1] = s[1]
      BY <3>1 DEF LeavesOut
    <3>3. l # n /\ l # z
      BY <1>0, <1>1, <1>2, <1>3, <2>2, <3>1 DEF NodeBefore
    <3> QED BY <1>1, <1>5, <3>1, <3>2, <3>3 DEF Linked
  <2> QED BY <2>1, <2>2
<1>8. ASSUME NEW k \in 1 .. Len(u) PROVE f[u[k]] = IF k = Len(u) THEN l ELSE u[k + 1]
  <2>0. k \in 1 .. Len(s) - 1
    BY <1>0
  <2>1. CASE k < p - 1
    <3>1. k \in 1 .. Len(s) /\ k + 1 \in 1 .. Len(s) - 1 /\ k + 1 < p /\ k < p /\ k # Len(u) /\ k # Len(s)
          /\ p - 1 \in 1 .. Len(s) /\ k # p /\ k # p - 1 /\ p # 1
      BY <1>0, <1>1, <2>0, <2>1
    <3>2. u[k] = s[k] /\ u[k + 1] = s[k + 1]
      BY <2>0, <3>1 DEF LeavesOut
    <3>3. s[k] # n /\ s[k] # z
      BY <1>0, <1>1, <1>2, <1>3, <3>1 DEF NodeBefore
    <3>4. f[u[k]] = nx[s[k]]
      BY <1>1, <1>5, <3>1, <3>2, <3>3
    <3>5. nx[s[k]] = s[k + 1]
      BY <3>1 DEF Linked
    <3> QED BY <3>1, <3>2, <3>4, <3>5
  <2>2. CASE k = p - 1
    <3>1. k \in 1 .. Len(s) /\ k < p /\ p # 1 /\ k + 1 = p
      BY <1>0, <1>1, <2>0, <2>2
    <3>2. u[k] = z
      BY <1>2, <2>0, <2>2, <3>1 DEF LeavesOut, NodeBefore
    <3>3. CASE p = Len(s)
      BY <1>0, <1>5, <1>6, <2>2, <3>2, <3>3
    <3>4. CASE p # Len(s)
      <4>1. p \in 1 .. Len(s) - 1 /\ k # Len(u)
        BY <1>0, <1>1, <2>2, <3>4
      <4>2. u[p] = s[p + 1]
        BY <4>1 DEF LeavesOut
      <4> QED BY <1>5, <1>6, <3>1, <3>2, <3>4, <4>1, <4>2
    <3> QED BY <3>3, <3>4
  <2>3. CASE k >= p
    <3>1. k + 1 \in 1 .. Len(s) /\ ~ (k < p) /\ k + 1 # p /\ (p # 1 => p - 1 \in 1 .. Len(s) /\ k + 1 # p - 1)
      BY <1>0, <1>1, <2>0, <2>3
    <3>2. u[k] = s[k + 1]
      BY <2>0, <3>1 DEF LeavesOut
    <3>3. s[k + 1] # n /\ s[k + 1] # z
      BY <1>0, <1>1, <1>2, <1>3, <3>1 DEF NodeBefore
    <3>4. f[u[k]] = IF k + 1 = Len(s) THEN l ELSE s[k + 1 + 1]
      <4>1. f[u[k]] = nx[s[k + 1]]
        BY <1>1, <1>5, <3>1, <3>2, <3>3
      <4> QED BY <3>1, <4>1 DEF Linked
    <3>5. CASE k = Len(u)
      BY <1>0, <1>1, <3>4, <3>5
    <3>6. CASE k # Len(u)
      <4>1. k + 1 \in 1 .. Len(s) - 1 /\ ~ (k + 1 < p) /\ k + 1 # Len(s)
        BY <1>0, <1>1, <2>0, <2>3, <3>6
      <4>2. u[k + 1] = s[k + 1 + 1]
        BY <4>1 DEF LeavesOut
      <4> QED BY <3>4, <3>6, <4>1, <4>2
    <3> QED BY <3>5, <3>6
  <2> QED BY <1>0, <2>0, <2>1, <2>2, <2>3
<1>9. Linked(f, l, u) /\ f[n] = n
  BY <1>5, <1>6, <1>7, <1>8 DEF Linked
<1> QED BY <1>2, <1>3, <1>4, <1>9

(* A splice does not care about the order of its nodes.                    *)
LEMMA SwapSymmetric ==
  ASSUME NEW nx \in [Nodes -> Nodes], NEW a \in Nodes, NEW b \in Nodes
  PROVE  Swap(nx, a, b) = Swap(nx, b, a)
<1>1. ASSUME NEW n \in Nodes PROVE Swap(nx, a, b)[n] = Swap(nx, b, a)[n]
  BY SwapAt
<1>2. Swap(nx, a, b) \in [Nodes -> Nodes] /\ Swap(nx, b, a) \in [Nodes -> Nodes]
  BY DEF Swap
<1> HIDE DEF Swap
<1> QED BY <1>1, <1>2

(* The lists are c, and the items that F does not hold are in one of them  *)
(* or alone.                                                               *)
Shape(r, c, F) ==
  /\ Sound(r) /\ c \in [Heads -> Seq(Items)] /\ F \subseteq Items
  /\ \A h \in Heads : IsInjective(c[h]) /\ Linked(r.next, h, c[h]) /\ ToSet(c[h]) \cap F = {}
  /\ \A g, h \in Heads : g # h => ToSet(c[g]) \cap ToSet(c[h]) = {}
  /\ \A n \in Items \ F : (\A h \in Heads : n \notin ToSet(c[h])) => r.next[n] = n

(* The pointers of T have changed: h has become u, and G is adrift.        *)
Reshaped(r, q, c, h, u, F, G, T) ==
  /\ Sound(q) /\ u \in Seq(Items) /\ IsInjective(u) /\ Linked(q.next, h, u)
  /\ G \subseteq Items /\ ToSet(u) \cap G = {}
  /\ \A n \in Nodes \ T : q.next[n] = r.next[n]
  /\ \A g \in Heads : g # h => /\ g \notin T /\ ToSet(c[g]) \cap T = {}
                               /\ ToSet(c[g]) \cap ToSet(u) = {} /\ ToSet(c[g]) \cap G = {}
  /\ \A n \in Items : n \notin G /\ n \notin ToSet(u) /\ n \in T \cup F \cup ToSet(c[h]) => q.next[n] = n

(* The head and the elements of a list.                                    *)
LEMMA ShapeChain ==
  ASSUME NEW r, NEW c, NEW F, Shape(r, c, F), NEW h \in Heads
  PROVE  Chain(h, c[h]) /\ Linked(r.next, h, c[h]) /\ ToSet(c[h]) \subseteq Items /\ c[h] \in Seq(Items)
<1>1. c[h] \in Seq(Items) /\ IsInjective(c[h]) /\ Linked(r.next, h, c[h])
  BY DEF Shape
<1>2. ToSet(c[h]) \subseteq Items
  BY <1>1, LenProperties DEF ToSet
<1>3. h \in Nodes /\ h \notin Items /\ c[h] \in Seq(Nodes)
  BY <1>1, ListAssumption DEF Nodes
<1> QED BY <1>1, <1>2, <1>3 DEF Chain

(* A ring whose pointers have not changed.                                 *)
LEMMA LinkedSame ==
  ASSUME NEW f, NEW g, NEW l, NEW s, Linked(f, l, s), g[l] = f[l], \A n \in ToSet(s) : g[n] = f[n],
         s \in Seq(Nodes)
  PROVE  Linked(g, l, s)
<1>1. \A k \in 1 .. Len(s) : s[k] \in ToSet(s)
  BY LenProperties DEF ToSet
<1> QED BY <1>1 DEF Linked

(* A step that changes one list.                                           *)
LEMMA ShapeOne ==
  ASSUME NEW r, NEW c, NEW F, Shape(r, c, F), NEW h \in Heads, NEW q, NEW u, NEW G, NEW T,
         Reshaped(r, q, c, h, u, F, G, T)
  PROVE  Shape(q, [c EXCEPT ![h] = u], G)
<1> DEFINE d == [c EXCEPT ![h] = u]
<1>1. /\ c \in [Heads -> Seq(Items)] /\ u \in Seq(Items)
  BY DEF Shape, Reshaped
<1>2. d \in [Heads -> Seq(Items)] /\ d[h] = u /\ \A g \in Heads : g # h => d[g] = c[g]
  BY <1>1
<1> HIDE DEF d
<1>3. ASSUME NEW g \in Heads PROVE IsInjective(d[g]) /\ Linked(q.next, g, d[g]) /\ ToSet(d[g]) \cap G = {}
  <2>1. CASE g = h
    BY <1>2, <2>1 DEF Reshaped
  <2>2. CASE g # h
    <3>1. Chain(g, c[g]) /\ Linked(r.next, g, c[g]) /\ ToSet(c[g]) \subseteq Items
      BY ShapeChain
    <3>2. q.next[g] = r.next[g] /\ \A n \in ToSet(c[g]) : q.next[n] = r.next[n]
      BY <2>2, <3>1 DEF Reshaped, Nodes
    <3>3. Linked(q.next, g, c[g])
      BY <3>1, <3>2, LinkedSame DEF Chain
    <3>4. IsInjective(c[g]) /\ ToSet(c[g]) \cap G = {}
      BY <2>2 DEF Shape, Reshaped
    <3> QED BY <1>2, <2>2, <3>3, <3>4
  <2> QED BY <2>1, <2>2
<1>4. ASSUME NEW f \in Heads, NEW g \in Heads, f # g PROVE ToSet(d[f]) \cap ToSet(d[g]) = {}
  <2>1. CASE f = h
    BY <1>2, <1>4, <2>1 DEF Reshaped
  <2>2. CASE g = h
    BY <1>2, <1>4, <2>2 DEF Reshaped
  <2>3. CASE f # h /\ g # h
    BY <1>2, <1>4, <2>3 DEF Shape
  <2> QED BY <2>1, <2>2, <2>3
<1>5. ASSUME NEW n \in Items \ G, \A g \in Heads : n \notin ToSet(d[g]) PROVE q.next[n] = n
  <2>1. n \notin ToSet(u) /\ \A g \in Heads : g # h => n \notin ToSet(c[g])
    BY <1>2, <1>5
  <2>2. CASE n \in T \cup F \cup ToSet(c[h])
    BY <1>5, <2>1, <2>2 DEF Reshaped
  <2>3. CASE n \notin T \cup F \cup ToSet(c[h])
    <3>1. n \in Nodes \ T /\ n \in Items \ F /\ \A g \in Heads : n \notin ToSet(c[g])
      BY <1>5, <2>1, <2>3 DEF Nodes
    <3>2. r.next[n] = n
      BY <3>1 DEF Shape
    <3>3. q.next[n] = r.next[n]
      BY <3>1 DEF Reshaped
    <3> QED BY <3>2, <3>3
  <2> QED BY <2>2, <2>3
<1>6. Sound(q) /\ G \subseteq Items
  BY DEF Reshaped
<1>7. Shape(q, d, G)
  BY <1>2, <1>3, <1>4, <1>5, <1>6 DEF Shape
<1> QED BY <1>7 DEF d

(* n is in no list.                                                        *)
Unlisted(c, n) == \A h \in Heads : n \notin ToSet(c[h])

(* The last node of a ring is one of its nodes.                            *)
LEMMA LastNodeIn ==
  ASSUME NEW l, NEW s, Chain(l, s)
  PROVE  LastNode(l, s) \in {l} \cup ToSet(s) /\ LastNode(l, s) \in Nodes
<1>1. /\ l \in Nodes /\ Len(s) \in Nat
      /\ \A k \in 1 .. Len(s) : s[k] \in Nodes /\ s[k] \in ToSet(s)
  BY ChainNodes
<1>2. Len(s) # 0 => Len(s) \in 1 .. Len(s)
  BY <1>1
<1> QED BY <1>1, <1>2 DEF LastNode

(* A node alone is a ring.                                                 *)
LEMMA AloneRing ==
  ASSUME NEW r, NEW c, Shape(r, c, {}), NEW h \in Heads, NEW n \in Items, Unlisted(c, n)
  PROVE  /\ r.next[n] = n /\ r.prev[n] = n
         /\ TwoRings(h, c[h], n, << >>) /\ Linked(r.next, n, << >>)
<1>1. r.next[n] = n /\ r.prev[n] = n /\ n \in Nodes
  BY DEF Shape, Unlisted, Sound, Nodes
<1>2. << >> \in Seq(Nodes) /\ IsInjective(<< >>) /\ ToSet(<< >>) = {}
  BY EmptyOnce
<1>3. Chain(h, c[h]) /\ n \notin ToSet(c[h]) /\ h # n
  BY ShapeChain, ListAssumption DEF Unlisted
<1>4. Chain(n, << >>)
  BY <1>1, <1>2 DEF Chain
<1>5. Linked(r.next, n, << >>)
  BY <1>1 DEF Linked
<1> QED BY <1>1, <1>2, <1>3, <1>4, <1>5 DEF TwoRings

(* rlist_push_back of a node that is in no list.                           *)
LEMMA ShapePushBack ==
  ASSUME NEW r, NEW c, Shape(r, c, {}), NEW h \in Heads, NEW n \in Items, Unlisted(c, n)
  PROVE  Shape(rlist_push_back(r, h, n), [c EXCEPT ![h] = Append(c[h], n)], {})
<1>1. PICK s : s = c[h]
  OBVIOUS
<1>2. Chain(h, s) /\ Linked(r.next, h, s) /\ ToSet(s) \subseteq Items /\ s \in Seq(Items) /\ Sound(r)
      /\ IsInjective(s) /\ n \notin ToSet(s) /\ n \in Nodes /\ r.next \in [Nodes -> Nodes]
  BY <1>1, ShapeChain DEF Shape, Unlisted, Nodes, Sound
<1>3. TwoRings(h, s, n, << >>) /\ Linked(r.next, n, << >>)
  BY <1>1, AloneRing
<1>4. PICK z : z = LastNode(h, s)
  OBVIOUS
<1>5. z \in {h} \cup ToSet(s) /\ z \in Nodes /\ r.prev[h] = z
  BY <1>2, <1>4, LastNodeIn, LinkedBack
<1>6. PICK q : q = rl_splice(r, z, n)
  OBVIOUS
<1>7. q = rlist_push_back(r, h, n)
  BY <1>5, <1>6 DEF rlist_push_back
<1>8. Sound(q) /\ q.next = Swap(r.next, z, n)
  BY <1>2, <1>5, <1>6, SpliceSwaps
<1>9. PICK u : u = Append(s, n)
  OBVIOUS
<1>10. u \in Seq(Items) /\ IsInjective(u) /\ ToSet(u) = ToSet(s) \cup {n}
  BY <1>2, <1>9, AppendOnce
<1>11. JoinsBack(u, s, << >>, n)
  <2>1. /\ Len(u) = Len(s) + 1 /\ Len(s) \in Nat
        /\ \A i \in 1 .. Len(s) : u[i] = s[i]
        /\ u[Len(s) + 1] = n
    BY <1>2, <1>9, AppendProperties, LenProperties
  <2>2. Len(<< >>) = 0 /\ 1 .. 0 = {}
    OBVIOUS
  <2> QED BY <2>1, <2>2 DEF JoinsBack
<1>12. Linked(q.next, h, u)
  BY <1>2, <1>3, <1>4, <1>8, <1>11, LinkedPushBack
<1>13. \A x \in Nodes \ {z, n} : q.next[x] = r.next[x]
  BY <1>2, <1>5, <1>8, SwapAt
<1>14. ASSUME NEW g \in Heads, g # h
       PROVE  g \notin {z, n} /\ ToSet(c[g]) \cap {z, n} = {} /\ ToSet(c[g]) \cap ToSet(u) = {}
  <2>1. ToSet(c[g]) \cap ToSet(s) = {} /\ n \notin ToSet(c[g]) /\ ToSet(c[g]) \subseteq Items
    BY <1>1, <1>14, ShapeChain DEF Shape, Unlisted
  <2>2. g \notin Items /\ h \notin Items
    BY ListAssumption
  <2> QED BY <1>2, <1>5, <1>10, <1>14, <2>1, <2>2
<1>15. \A x \in Items : x \notin ToSet(u) => x \notin {z, n} \cup {} \cup ToSet(s)
  BY <1>5, <1>10, ListAssumption
<1>16. Reshaped(r, q, c, h, u, {}, {}, {z, n})
  BY <1>1, <1>8, <1>10, <1>12, <1>13, <1>14, <1>15 DEF Reshaped
<1> QED BY <1>1, <1>7, <1>9, <1>16, ShapeOne

(* rlist_push_front of a node that is in no list.                          *)
LEMMA ShapePushFront ==
  ASSUME NEW r, NEW c, Shape(r, c, {}), NEW h \in Heads, NEW n \in Items, Unlisted(c, n)
  PROVE  Shape(rlist_push_front(r, h, n), [c EXCEPT ![h] = <<n>> \o c[h]], {})
<1>1. PICK s : s = c[h]
  OBVIOUS
<1>2. Chain(h, s) /\ Linked(r.next, h, s) /\ ToSet(s) \subseteq Items /\ s \in Seq(Items) /\ Sound(r)
      /\ IsInjective(s) /\ n \notin ToSet(s) /\ n \in Nodes /\ h \in Nodes /\ r.next \in [Nodes -> Nodes]
  BY <1>1, ShapeChain DEF Shape, Unlisted, Nodes, Sound
<1>3. TwoRings(h, s, n, << >>) /\ Linked(r.next, n, << >>)
  BY <1>1, AloneRing
<1>4. PICK q : q = rlist_push_front(r, h, n)
  OBVIOUS
<1>5. Sound(q) /\ q.next = Swap(r.next, h, n)
  BY <1>2, <1>4, SpliceSwaps DEF rlist_push_front
<1>6. PICK u : u = <<n>> \o s
  OBVIOUS
<1>7. /\ u \in Seq(Items) /\ Len(u) = Len(s) + 1 /\ u[1] = n /\ Len(s) \in Nat
      /\ \A i \in 1 .. Len(s) : u[i + 1] = s[i]
  <2>1. <<n>> \in Seq(Items) /\ Len(<<n>>) = 1 /\ <<n>>[1] = n
    OBVIOUS
  <2>2. /\ u \in Seq(Items) /\ Len(u) = 1 + Len(s) /\ Len(s) \in Nat
        /\ \A i \in 1 .. 1 + Len(s) : u[i] = IF i <= 1 THEN <<n>>[i] ELSE s[i - 1]
    BY <1>2, <1>6, <2>1, ConcatProperties, LenProperties
  <2>3. ASSUME NEW i \in 1 .. Len(s) PROVE u[i + 1] = s[i]
    <3>1. i + 1 \in 1 .. 1 + Len(s) /\ ~ (i + 1 <= 1) /\ (i + 1) - 1 = i
      BY <2>2
    <3> QED BY <2>2, <3>1
  <2> QED BY <2>1, <2>2, <2>3
<1>8. IsInjective(u) /\ ToSet(u) = ToSet(s) \cup {n}
  <2>1. PICK b : b = <<n>>
    OBVIOUS
  <2>2. b \in Seq(Items) /\ IsInjective(b) /\ ToSet(b) = {n}
    BY <2>1 DEF IsInjective, ToSet
  <2>3. ToSet(b) \cap ToSet(s) = {} /\ u = b \o s /\ s \in Seq(Items) /\ IsInjective(s)
    BY <1>2, <1>6, <2>1, <2>2
  <2>4. IsInjective(b \o s) /\ ToSet(b \o s) = ToSet(b) \cup ToSet(s)
    BY <2>2, <2>3, ConcatOnce
  <2> QED BY <2>2, <2>3, <2>4
<1>9. JoinsFront(u, s, << >>, n)
  <2>1. Len(<< >>) = 0 /\ 1 .. 0 = {}
    OBVIOUS
  <2>2. \A i \in 1 .. Len(s) : u[0 + 1 + i] = s[i]
    <3>1. \A i \in 1 .. Len(s) : 0 + 1 + i = i + 1
      BY <1>7
    <3> QED BY <1>7, <3>1
  <2> QED BY <1>7, <2>1, <2>2 DEF JoinsFront
<1>10. Linked(q.next, h, u)
  BY <1>2, <1>3, <1>5, <1>9, LinkedPushFront
<1>11. \A x \in Nodes \ {h, n} : q.next[x] = r.next[x]
  BY <1>2, <1>5, SwapAt
<1>12. ASSUME NEW g \in Heads, g # h
       PROVE  g \notin {h, n} /\ ToSet(c[g]) \cap {h, n} = {} /\ ToSet(c[g]) \cap ToSet(u) = {}
  <2>1. ToSet(c[g]) \cap ToSet(s) = {} /\ n \notin ToSet(c[g]) /\ ToSet(c[g]) \subseteq Items
    BY <1>1, <1>12, ShapeChain DEF Shape, Unlisted
  <2>2. g \notin Items /\ h \notin Items
    BY ListAssumption
  <2> QED BY <1>2, <1>8, <1>12, <2>1, <2>2
<1>13. \A x \in Items : x \notin ToSet(u) => x \notin {h, n} \cup {} \cup ToSet(s)
  BY <1>8, ListAssumption
<1>14. Reshaped(r, q, c, h, u, {}, {}, {h, n})
  BY <1>1, <1>5, <1>7, <1>8, <1>10, <1>11, <1>12, <1>13 DEF Reshaped
<1> QED BY <1>1, <1>4, <1>6, <1>14, ShapeOne

(* Only the next pointers matter.                                          *)
LEMMA ShapeSame ==
  ASSUME NEW r, NEW q, NEW c, NEW F, Shape(r, c, F), Sound(q), q.next = r.next
  PROVE  Shape(q, c, F)
  BY DEF Shape

(* rlist_remove of a node that is in a list.                               *)
LEMMA ShapeRemove ==
  ASSUME NEW r, NEW c, Shape(r, c, {}), NEW h \in Heads, NEW p \in 1 .. Len(c[h]), NEW n, n = c[h][p]
  PROVE  /\ Shape(rlist_remove(r, n), [c EXCEPT ![h] = RemoveFirst(c[h], n)], {})
         /\ Unlisted([c EXCEPT ![h] = RemoveFirst(c[h], n)], n)
         /\ r.prev[n] = NodeBefore(h, c[h], p)
<1>1. PICK s : s = c[h]
  OBVIOUS
<1>2. Chain(h, s) /\ Linked(r.next, h, s) /\ ToSet(s) \subseteq Items /\ s \in Seq(Items) /\ Sound(r)
      /\ IsInjective(s) /\ h \in Nodes /\ r.next \in [Nodes -> Nodes] /\ c \in [Heads -> Seq(Items)]
  BY <1>1, ShapeChain DEF Shape, Nodes, Sound
<1>3. /\ Len(s) \in Nat /\ p \in 1 .. Len(s)
      /\ \A k \in 1 .. Len(s) : s[k] \in ToSet(s) /\ s[k] \in Nodes
  BY <1>1, <1>2, ChainNodes
<1>4. PICK z : z = NodeBefore(h, s, p)
  OBVIOUS
<1>5. z \in {h} \cup ToSet(s) /\ z \in Nodes /\ n \in ToSet(s) /\ n \in Nodes /\ n \in Items /\ n = s[p]
  <2>1. p # 1 => p - 1 \in 1 .. Len(s)
    BY <1>3
  <2> QED BY <1>1, <1>2, <1>3, <1>4, <2>1 DEF NodeBefore
<1>6. r.prev[n] = z
  BY <1>2, <1>3, <1>4, <1>5, LinkedBack
<1>7. PICK q : q = rlist_remove(r, n)
  OBVIOUS
<1>8. Sound(q) /\ q.next = Swap(r.next, n, z)
  BY <1>2, <1>5, <1>6, <1>7, SpliceSwaps DEF rlist_remove
<1>9. PICK u : u = RemoveFirst(s, n)
  OBVIOUS
<1>10. u \in Seq(Items) /\ IsInjective(u) /\ ToSet(u) = ToSet(s) \ {n}
  BY <1>2, <1>9, RemoveFirstOnce
<1>11. LeavesOut(u, s, p)
  <2>1. u = RemoveAt(s, p)
    BY <1>2, <1>3, <1>5, <1>9, RemoveFirstAt
  <2> QED BY <1>2, <1>3, <2>1, RemoveAtElements DEF LeavesOut
<1>12. Linked(q.next, h, u) /\ q.next[n] = n
  BY <1>2, <1>3, <1>4, <1>5, <1>8, <1>11, LinkedRemove
<1>13. \A x \in Nodes \ {z, n} : q.next[x] = r.next[x]
  BY <1>2, <1>5, <1>8, SwapAt
<1>14. ASSUME NEW g \in Heads, g # h
       PROVE  g \notin {z, n} /\ ToSet(c[g]) \cap {z, n} = {} /\ ToSet(c[g]) \cap ToSet(u) = {} /\ n \notin ToSet(c[g])
  <2>1. ToSet(c[g]) \cap ToSet(s) = {} /\ ToSet(c[g]) \subseteq Items
    BY <1>1, <1>14, ShapeChain DEF Shape
  <2>2. g \notin Items /\ h \notin Items
    BY ListAssumption
  <2> QED BY <1>2, <1>5, <1>10, <1>14, <2>1, <2>2
<1>15. \A x \in Items : x \notin ToSet(u) /\ x \in {z, n} \cup {} \cup ToSet(s) => q.next[x] = x
  BY <1>5, <1>10, <1>12, ListAssumption
<1>16. Reshaped(r, q, c, h, u, {}, {}, {z, n})
  BY <1>1, <1>8, <1>10, <1>12, <1>13, <1>14, <1>15 DEF Reshaped
<1>17. Shape(q, [c EXCEPT ![h] = u], {})
  BY <1>16, ShapeOne
<1>18. Unlisted([c EXCEPT ![h] = u], n)
  BY <1>2, <1>10, <1>14 DEF Unlisted
<1> QED BY <1>1, <1>4, <1>6, <1>7, <1>9, <1>17, <1>18

(* rlist_remove of a node that is alone.                                   *)
LEMMA ShapeRemoveAlone ==
  ASSUME NEW r, NEW c, Shape(r, c, {}), NEW n \in Items, Unlisted(c, n)
  PROVE  Shape(rlist_remove(r, n), c, {})
<1>1. Sound(r) /\ r.next \in [Nodes -> Nodes] /\ n \in Nodes /\ r.next[n] = n /\ r.prev[n] = n
  BY DEF Shape, Unlisted, Sound, Nodes
<1>2. PICK q : q = rlist_remove(r, n)
  OBVIOUS
<1>3. Sound(q) /\ q.next = Swap(r.next, n, n)
  BY <1>1, <1>2, SpliceSwaps DEF rlist_remove
<1>4. Swap(r.next, n, n) = r.next
  BY <1>1 DEF Swap
<1> QED BY <1>2, <1>3, <1>4, ShapeSame

(* RemoveItem.                                                             *)
LEMMA ShapeRemoveItem ==
  ASSUME NEW r, NEW c, Shape(r, c, {}), NEW n \in Items
  PROVE  Shape(rlist_remove(r, n), [h \in Heads |-> RemoveFirst(c[h], n)], {})
<1>0. c \in [Heads -> Seq(Items)] /\ \A h \in Heads : c[h] \in Seq(Items)
  BY DEF Shape
<1>1. PICK d : d = [h \in Heads |-> RemoveFirst(c[h], n)]
  OBVIOUS
<1>2. \A h \in Heads : n \notin ToSet(c[h]) => d[h] = c[h]
  BY <1>0, <1>1, RemoveFirstNot
<1>3. CASE Unlisted(c, n)
  <2>1. d = c
    BY <1>0, <1>1, <1>2, <1>3 DEF Unlisted
  <2> QED BY <1>1, <1>3, <2>1, ShapeRemoveAlone
<1>4. CASE ~ Unlisted(c, n)
  <2>1. PICK h \in Heads : n \in ToSet(c[h])
    BY <1>4 DEF Unlisted
  <2>2. PICK p \in 1 .. Len(c[h]) : n = c[h][p]
    BY <1>0, <2>1, LenProperties DEF ToSet
  <2>3. \A g \in Heads : g # h => n \notin ToSet(c[g])
    BY <2>1 DEF Shape
  <2>4. PICK e : e = [c EXCEPT ![h] = RemoveFirst(c[h], n)]
    OBVIOUS
  <2>5. Shape(rlist_remove(r, n), e, {})
    BY <2>2, <2>4, ShapeRemove
  <2>6. ASSUME NEW g \in Heads PROVE e[g] = d[g]
    <3>1. CASE g = h
      BY <1>0, <1>1, <2>4, <3>1
    <3>2. CASE g # h
      BY <1>0, <1>2, <2>3, <2>4, <3>2
    <3> QED BY <3>1, <3>2
  <2>7. e = [g \in Heads |-> e[g]] /\ d = [g \in Heads |-> d[g]]
    BY <1>0, <1>1, <2>4
  <2>8. e = d
    BY <2>6, <2>7
  <2> QED BY <1>1, <2>5, <2>8
<1> QED BY <1>3, <1>4

(* The list is empty when its head points to itself.                       *)
LEMMA EmptyList ==
  ASSUME NEW r, NEW c, NEW F, Shape(r, c, F), NEW h \in Heads
  PROVE  is_rlist_empty(r, h) <=> Len(c[h]) = 0
<1>1. Chain(h, c[h]) /\ Linked(r.next, h, c[h])
  BY ShapeChain
<1>2. Len(c[h]) \in Nat /\ \A k \in 1 .. Len(c[h]) : c[h][k] # h
  BY <1>1, ChainNodes
<1>3. Len(c[h]) # 0 => 1 \in 1 .. Len(c[h])
  BY <1>2
<1> QED BY <1>1, <1>2, <1>3 DEF Linked, is_rlist_empty

(* rlist_pop_front is the removal of the first node.                       *)
LEMMA ShapePop ==
  ASSUME NEW r, NEW c, Shape(r, c, {}), NEW h \in Heads, Len(c[h]) # 0
  PROVE  Shape(rlist_pop_front(r, h), [c EXCEPT ![h] = Tail(c[h])], {})
<1>1. /\ c[h] \in Seq(Items) /\ IsInjective(c[h]) /\ Sound(r) /\ h \in Nodes /\ r.next \in [Nodes -> Nodes]
  BY DEF Shape, Nodes, Sound
<1>2. 1 \in 1 .. Len(c[h])
  BY <1>1, LenProperties
<1>3. PICK n : n = c[h][1]
  OBVIOUS
<1>4. Shape(rlist_remove(r, n), [c EXCEPT ![h] = RemoveFirst(c[h], n)], {}) /\ r.prev[n] = h
  BY <1>2, <1>3, ShapeRemove DEF NodeBefore
<1>5. RemoveFirst(c[h], n) = Tail(c[h])
  BY <1>1, <1>3, RemoveFirstHead
<1>6. r.next[h] = n /\ n \in Nodes
  BY <1>1, <1>3 DEF Shape, Linked, Sound
<1>7. Sound(rlist_remove(r, n)) /\ rlist_remove(r, n).next = Swap(r.next, n, h)
  BY <1>1, <1>4, <1>6, SpliceSwaps DEF rlist_remove
<1>8. Sound(rlist_pop_front(r, h)) /\ rlist_pop_front(r, h).next = Swap(r.next, h, n)
  BY <1>1, <1>6, SpliceSwaps DEF rlist_pop_front
<1>9. Swap(r.next, h, n) = Swap(r.next, n, h)
  BY <1>1, <1>6, SwapSymmetric
<1> QED BY <1>4, <1>5, <1>7, <1>8, <1>9, ShapeSame

(* The first element and the others of a list without repetition.          *)
LEMMA TailChain ==
  ASSUME NEW a \in Seq(Items), IsInjective(a), a # << >>
  PROVE  /\ Chain(a[1], Tail(a)) /\ a[1] \in Items /\ ToSet(a) = {a[1]} \cup ToSet(Tail(a))
         /\ Len(a) \in Nat \ {0} /\ Len(Tail(a)) = Len(a) - 1
         /\ \A i \in 1 .. Len(a) - 1 : Tail(a)[i] = a[i + 1]
<1>1. /\ Tail(a) \in Seq(Items) /\ Head(a) \in Items /\ IsInjective(Tail(a)) /\ Head(a) \in ToSet(a)
      /\ ToSet(Tail(a)) = ToSet(a) \ {Head(a)}
  BY TailOnce
<1>2. /\ Len(a) \in Nat \ {0} /\ Len(Tail(a)) = Len(a) - 1
      /\ \A i \in 1 .. Len(a) - 1 : Tail(a)[i] = a[i + 1]
      /\ Head(a) = a[1]
  BY LenProperties, HeadTailProperties, EmptySeq
<1>3. Tail(a) \in Seq(Nodes) /\ a[1] \in Nodes
  BY <1>1, <1>2 DEF Nodes
<1> QED BY <1>1, <1>2, <1>3 DEF Chain

(* What rlist_pop_back leaves behind.                                      *)
Left(s) == IF Len(s) > 1 THEN s ELSE << >>

(* rlist_pop_back: the list is empty, and its nodes are a ring.            *)
LEMMA ShapePopBack ==
  ASSUME NEW r, NEW c, Shape(r, c, {}), NEW h \in Heads, Len(c[h]) # 0
  PROVE  /\ Shape(rlist_pop_back(r, h), [c EXCEPT ![h] = << >>], ToSet(Left(c[h])))
         /\ Left(c[h]) # << >> => Linked(rlist_pop_back(r, h).next, Left(c[h])[1], Tail(Left(c[h])))
         /\ Left(c[h]) \in Seq(Items) /\ IsInjective(Left(c[h]))
<1>1. PICK s : s = c[h]
  OBVIOUS
<1>2. Chain(h, s) /\ Linked(r.next, h, s) /\ ToSet(s) \subseteq Items /\ s \in Seq(Items) /\ Sound(r)
      /\ IsInjective(s) /\ h \in Nodes /\ r.next \in [Nodes -> Nodes] /\ h \notin Items
  BY <1>1, ShapeChain, ListAssumption DEF Shape, Nodes, Sound
<1>3. /\ Len(s) \in Nat /\ Len(s) # 0 /\ 1 \in 1 .. Len(s) /\ Len(s) \in 1 .. Len(s) /\ s # << >>
      /\ DOMAIN s = 1 .. Len(s)
      /\ \A k \in 1 .. Len(s) : s[k] \in ToSet(s) /\ s[k] \in Nodes /\ s[k] # h
      /\ \A j, k \in 1 .. Len(s) : s[j] = s[k] => j = k
  BY <1>1, <1>2, ChainNodes, EmptySeq
<1>4. PICK z : z = s[Len(s)]
  OBVIOUS
<1>5. z \in ToSet(s) /\ z \in Nodes /\ r.prev[h] = z /\ r.next[z] = h /\ r.next[h] = s[1] /\ z # h
  <2>1. r.prev[h] = z
    BY <1>2, <1>3, <1>4, LinkedBack DEF LastNode
  <2> QED BY <1>2, <1>3, <1>4, <2>1 DEF Linked
<1>6. PICK q : q = rlist_pop_back(r, h)
  OBVIOUS
<1>7. Sound(q) /\ q.next = Swap(r.next, h, z)
  BY <1>2, <1>5, <1>6, SpliceSwaps DEF rlist_pop_back
<1>8. q.next[h] = h /\ q.next[z] = s[1] /\ \A x \in Nodes \ {h, z} : q.next[x] = r.next[x]
  BY <1>2, <1>5, <1>7, SwapAt
<1>9. PICK a : a = Left(s)
  OBVIOUS
<1>10. a \in Seq(Items) /\ IsInjective(a) /\ ToSet(a) \subseteq ToSet(s) /\ (Len(s) > 1 => a = s)
  BY <1>2, <1>9, EmptyOnce DEF Left
<1>11. a # << >> => Linked(q.next, a[1], Tail(a))
  <2> SUFFICES ASSUME a # << >> PROVE Linked(q.next, a[1], Tail(a))
    OBVIOUS
  <2>1. Len(s) > 1 /\ a = s
    BY <1>9 DEF Left
  <2>2. PICK t : t = Tail(s)
    OBVIOUS
  <2>3. Len(t) = Len(s) - 1 /\ \A i \in 1 .. Len(s) - 1 : t[i] = s[i + 1]
    BY <1>2, <1>3, <2>2, TailChain
  <2>4. q.next[s[1]] = IF Len(t) = 0 THEN s[1] ELSE t[1]
    <3>1. 1 # Len(s) /\ s[1] # z /\ s[1] # h /\ Len(t) # 0 /\ 1 \in 1 .. Len(s) - 1
      BY <1>3, <1>4, <2>1, <2>3
    <3>2. r.next[s[1]] = s[1 + 1]
      BY <1>2, <1>3, <3>1 DEF Linked
    <3> QED BY <1>3, <1>8, <2>3, <3>1, <3>2
  <2>5. ASSUME NEW k \in 1 .. Len(t) PROVE q.next[t[k]] = IF k = Len(t) THEN s[1] ELSE t[k + 1]
    <3>1. k \in 1 .. Len(s) - 1 /\ k + 1 \in 1 .. Len(s) /\ t[k] = s[k + 1]
      BY <1>3, <2>3
    <3>2. CASE k = Len(t)
      BY <1>3, <1>4, <1>8, <2>3, <3>1, <3>2
    <3>3. CASE k # Len(t)
      <4>1. k + 1 \in 1 .. Len(s) - 1 /\ k + 1 # Len(s)
        <5>1. Len(s) \in Nat /\ Len(t) = Len(s) - 1 /\ Len(t) \in Nat
          BY <1>3, <2>3
        <5> QED BY <3>3, <5>1
      <4>2. s[k + 1] # z /\ s[k + 1] # h
        BY <1>3, <1>4, <3>1, <4>1
      <4>3. r.next[s[k + 1]] = s[k + 1 + 1]
        BY <1>2, <3>1, <4>1 DEF Linked
      <4> QED BY <1>3, <1>8, <2>3, <3>1, <3>3, <4>1, <4>2, <4>3
    <3> QED BY <3>2, <3>3
  <2>6. Linked(q.next, s[1], t)
    BY <2>4, <2>5 DEF Linked
  <2> QED BY <2>1, <2>2, <2>6
<1>12. << >> \in Seq(Items) /\ IsInjective(<< >>) /\ ToSet(<< >>) = {} /\ Linked(q.next, h, << >>)
  BY <1>8, EmptyOnce DEF Linked
<1>13. ASSUME NEW g \in Heads, g # h
       PROVE  g \notin {h, z} /\ ToSet(c[g]) \cap {h, z} = {} /\ ToSet(c[g]) \cap ToSet(a) = {}
  <2>1. ToSet(c[g]) \cap ToSet(s) = {} /\ ToSet(c[g]) \subseteq Items
    BY <1>1, <1>13, ShapeChain DEF Shape
  <2>2. g \notin Items
    BY ListAssumption
  <2> QED BY <1>2, <1>5, <1>10, <1>13, <2>1, <2>2
<1>14. ASSUME NEW x \in Items, x \notin ToSet(a), x \in {h, z} \cup {} \cup ToSet(s) PROVE q.next[x] = x
  <2>1. Len(s) = 1
    <3>1. x \in ToSet(s)
      BY <1>2, <1>5, <1>14
    <3> QED BY <1>3, <1>10, <1>14, <3>1
  <2>2. x = s[1] /\ z = s[1]
    <3>1. x \in ToSet(s)
      BY <1>2, <1>5, <1>14
    <3>2. PICK k \in 1 .. Len(s) : x = s[k]
      BY <1>3, <3>1 DEF ToSet
    <3> QED BY <1>4, <2>1, <3>2
  <2> QED BY <1>8, <2>2
<1>15. Reshaped(r, q, c, h, << >>, {}, ToSet(a), {h, z})
  BY <1>1, <1>2, <1>7, <1>8, <1>10, <1>12, <1>13, <1>14 DEF Reshaped
<1>16. Shape(q, [c EXCEPT ![h] = << >>], ToSet(a))
  BY <1>15, ShapeOne
<1> QED BY <1>1, <1>6, <1>9, <1>10, <1>11, <1>16

(* The pointers after rlnode_new on the nodes of F.                        *)
Renewed(r, F) ==
  [next |-> [n \in Nodes |-> IF n \in F THEN n ELSE r.next[n]],
   prev |-> [n \in Nodes |-> IF n \in F THEN n ELSE r.prev[n]]]

(* A ring that is dissolved.                                               *)
LEMMA ShapeRenew ==
  ASSUME NEW r, NEW c, NEW a \in Seq(Items), IsInjective(a), a # << >>, Shape(r, c, ToSet(a)),
         Linked(r.next, a[1], Tail(a))
  PROVE  Shape(Renewed(r, ToSet(a)), c, {})
<1>1. PICK l, t : l = a[1] /\ t = Tail(a)
  OBVIOUS
<1>2. Chain(l, t) /\ Linked(r.next, l, t) /\ ToSet(a) = {l} \cup ToSet(t) /\ Sound(r)
  BY <1>1, TailChain DEF Shape
<1>3. PICK F : F = ToSet(a)
  OBVIOUS
<1>4. /\ Len(t) \in Nat /\ DOMAIN t = 1 .. Len(t) /\ F = {l} \cup ToSet(t)
      /\ \A k \in 1 .. Len(t) : t[k] \in ToSet(t)
  BY <1>2, <1>3, ChainNodes
<1>5. ASSUME NEW n \in F PROVE r.next[n] \in F /\ r.prev[n] \in F
  <2>1. CASE n = l
    <3>1. r.prev[l] = LastNode(l, t) /\ LastNode(l, t) \in F
      BY <1>2, <1>4, LinkedBack, LastNodeIn
    <3>2. Len(t) # 0 => 1 \in 1 .. Len(t)
      BY <1>4
    <3> QED BY <1>2, <1>4, <2>1, <3>1, <3>2 DEF Linked
  <2>2. CASE n # l
    <3>1. PICK k \in 1 .. Len(t) : n = t[k]
      BY <1>4, <2>2 DEF ToSet
    <3>2. r.prev[n] = NodeBefore(l, t, k)
      BY <1>2, <3>1, LinkedBack
    <3>3. (k # 1 => k - 1 \in 1 .. Len(t)) /\ (k # Len(t) => k + 1 \in 1 .. Len(t))
      <4>1. Len(t) \in Nat
        BY <1>4
      <4>2. k # 1 => k - 1 \in 1 .. Len(t)
        BY <4>1
      <4>3. k # Len(t) => k + 1 \in 1 .. Len(t)
        BY <4>1
      <4> QED BY <4>2, <4>3
    <3>4. r.prev[n] \in F
      BY <1>4, <3>2, <3>3 DEF NodeBefore
    <3>5. r.next[n] \in F
      BY <1>2, <1>4, <3>1, <3>3 DEF Linked
    <3> QED BY <3>4, <3>5
  <2> QED BY <2>1, <2>2
<1>6. PICK q : q = Renewed(r, F)
  OBVIOUS
<1>7. /\ q = [next |-> q.next, prev |-> q.prev]
      /\ q.next = [n \in Nodes |-> IF n \in F THEN n ELSE r.next[n]]
      /\ q.prev = [n \in Nodes |-> IF n \in F THEN n ELSE r.prev[n]]
  BY <1>6 DEF Renewed
<1>8. /\ r.next \in [Nodes -> Nodes] /\ r.prev \in [Nodes -> Nodes]
      /\ \A n \in Nodes : r.prev[r.next[n]] = n /\ r.next[r.prev[n]] = n
  BY <1>2 DEF Sound
<1>9. ASSUME NEW n \in Nodes PROVE q.prev[q.next[n]] = n /\ q.next[q.prev[n]] = n
  <2>1. CASE n \in F
    BY <1>7, <2>1
  <2>2. CASE n \notin F
    <3>1. r.next[n] \notin F /\ r.prev[n] \notin F /\ r.next[n] \in Nodes /\ r.prev[n] \in Nodes
      BY <1>5, <1>8, <2>2
    <3> QED BY <1>7, <1>8, <2>2, <3>1
  <2> QED BY <2>1, <2>2
<1>10. q.next \in [Nodes -> Nodes] /\ q.prev \in [Nodes -> Nodes]
  BY <1>7, <1>8
<1>11. Sound(q)
  BY <1>7, <1>9, <1>10 DEF Sound
<1>12. ASSUME NEW h \in Heads PROVE Linked(q.next, h, c[h])
  <2>1. Chain(h, c[h]) /\ Linked(r.next, h, c[h]) /\ ToSet(c[h]) \subseteq Items /\ ToSet(c[h]) \cap F = {}
    BY <1>3, ShapeChain DEF Shape
  <2>2. h \notin F /\ h \in Nodes
    BY <1>3, ListAssumption DEF Shape, Nodes
  <2>3. q.next[h] = r.next[h] /\ \A n \in ToSet(c[h]) : q.next[n] = r.next[n]
    BY <1>7, <2>1, <2>2 DEF Nodes
  <2> QED BY <2>1, <2>3, LinkedSame DEF Chain
<1>13. ASSUME NEW n \in Items \ {}, \A h \in Heads : n \notin ToSet(c[h]) PROVE q.next[n] = n
  <2>1. n \in Nodes /\ (n \notin F => r.next[n] = n)
    BY <1>3, <1>13 DEF Shape, Nodes
  <2> QED BY <1>7, <2>1
<1>14. Shape(q, c, {})
  BY <1>11, <1>12, <1>13 DEF Shape
<1> QED BY <1>3, <1>6, <1>14

(* The node k steps after l.                                               *)
LEMMA WalkSteps ==
  ASSUME NEW nx \in [Nodes -> Nodes], NEW r, nx = r.next, NEW l \in Nodes, NEW many \in Nat, many = Cardinality(Nodes)
  PROVE  Walk(r, l)[0] = l /\ \A k \in 1 .. many : Walk(r, l)[k] = nx[Walk(r, l)[k - 1]]
<1> DEFINE w == CHOOSE w : w = [k \in 0 .. many |-> IF k = 0 THEN l ELSE nx[w[k - 1]]]
<1>1. Walk(r, l) = w
  BY DEF Walk
<1>2. w = [k \in 0 .. many |-> IF k = 0 THEN l ELSE nx[w[k - 1]]]
  <2> DEFINE step == [q \in (1 .. many) \X Nodes |-> nx[q[2]]]
  <2>1. step \in [(1 .. many) \X Nodes -> Nodes] /\ \A n \in 1 .. many, m \in Nodes : step[<<n, m>>] = nx[m]
    OBVIOUS
  <2> HIDE DEF step
  <2>2. Loop(many, Nodes, l, step) # {}
    BY <2>1, RecursionExists
  <2>3. PICK f \in [0 .. many -> Nodes] : f[0] = l /\ \A n \in 1 .. many : f[n] = step[<<n, f[n - 1]>>]
    BY <2>2 DEF Loop
  <2>4. ASSUME NEW n \in 0 .. many PROVE f[n] = IF n = 0 THEN l ELSE nx[f[n - 1]]
    <3>1. CASE n = 0
      BY <3>1, <2>3
    <3>2. CASE n # 0
      <4>1. n \in 1 .. many /\ n - 1 \in 0 .. many
        BY <3>2
      <4>2. f[n - 1] \in Nodes /\ f[n] = step[<<n, f[n - 1]>>]
        BY <2>3, <4>1
      <4>3. step[<<n, f[n - 1]>>] = nx[f[n - 1]]
        BY <2>1, <4>1, <4>2
      <4> QED BY <3>2, <4>2, <4>3
    <3> QED BY <3>1, <3>2
  <2>5. f = [k \in 0 .. many |-> IF k = 0 THEN l ELSE nx[f[k - 1]]]
    BY <2>4
  <2> QED BY <2>5
<1> HIDE DEF w
<1>3. w[0] = l /\ \A k \in 1 .. many : w[k] = nx[w[k - 1]]
  <2>1. 0 \in 0 .. many /\ \A k \in 1 .. many : k \in 0 .. many /\ k # 0
    OBVIOUS
  <2> QED BY <1>2, <2>1
<1> QED BY <1>1, <1>3

(* There are not more nodes in a ring than nodes.                          *)
LEMMA ChainFits ==
  ASSUME NEW l, NEW s, Chain(l, s)
  PROVE  Len(s) + 1 <= Cardinality(Nodes) /\ Cardinality(Nodes) \in Nat
<1>1. s \in Seq(Nodes) /\ IsInjective(s) /\ l \in Nodes /\ l \notin ToSet(s) /\ ToSet(s) \subseteq Nodes
  BY LenProperties DEF Chain, ToSet
<1>2. IsFiniteSet(ToSet(s)) /\ Cardinality(ToSet(s)) = Len(s)
  BY <1>1, LengthCounts
<1>3. PICK T : T = ToSet(s) \cup {l}
  OBVIOUS
<1>4. T \in SUBSET Nodes /\ Cardinality(T) = Len(s) + 1
  BY <1>1, <1>2, <1>3, FS_AddElement
<1>5. Cardinality(T) <= Cardinality(Nodes) /\ Cardinality(Nodes) \in Nat
  BY <1>4, ListAssumption, FS_Subset, FS_CardinalityType
<1> QED BY <1>4, <1>5

(* The loop that goes round a ring finds its nodes in their order.         *)
LEMMA ListIs ==
  ASSUME NEW r, NEW l, NEW s, Chain(l, s), Linked(r.next, l, s), r.next \in [Nodes -> Nodes]
  PROVE  rlist_len(r, l) = Len(s) /\ ListOf(r, l) = s
<1>1. /\ l \in Nodes /\ Len(s) \in Nat /\ DOMAIN s = 1 .. Len(s)
      /\ \A k \in 1 .. Len(s) : s[k] \in Nodes /\ s[k] # l
  BY ChainNodes
<1>2. PICK many \in Nat : many = Cardinality(Nodes) /\ Len(s) + 1 <= many
  BY ChainFits
<1>3. PICK nx \in [Nodes -> Nodes] : nx = r.next
  OBVIOUS
<1>4. PICK w : w = Walk(r, l)
  OBVIOUS
<1>5. w[0] = l /\ \A k \in 1 .. many : w[k] = nx[w[k - 1]]
  BY <1>1, <1>2, <1>3, <1>4, WalkSteps
<1>6. PICK m \in Nat : m = Len(s)
  BY <1>1
<1> DEFINE T == {k \in 0 .. m : k = 0 \/ w[k] = s[k]}
<1>7. ASSUME NEW n \in 0 .. m, n < m, n \in T PROVE n + 1 \in T
  <2>1. n + 1 \in 1 .. many /\ (n + 1) - 1 = n /\ n + 1 \in 0 .. m /\ (n # 0 => n \in 1 .. m)
    BY <1>2, <1>6, <1>7
  <2>2. w[n + 1] = nx[w[n]]
    BY <1>5, <2>1
  <2>3. CASE n = 0
    BY <1>3, <1>5, <1>6, <1>7, <2>1, <2>2, <2>3 DEF Linked
  <2>4. CASE n # 0
    <3>1. w[n] = s[n] /\ n # Len(s)
      BY <1>6, <1>7, <2>4
    <3>2. nx[s[n]] = s[n + 1]
      BY <1>3, <1>6, <2>1, <2>4, <3>1 DEF Linked
    <3> QED BY <2>1, <2>2, <3>1, <3>2
  <2> QED BY <2>3, <2>4
<1>8. 0 .. m \subseteq T
  <2>1. 0 \in T
    OBVIOUS
  <2> HIDE DEF T
  <2> QED BY <1>7, <2>1, UpTo
<1>9. \A k \in 1 .. m : w[k] = s[k]
  <2>1. \A k \in 1 .. m : k \in 0 .. m /\ k # 0
    OBVIOUS
  <2> QED BY <1>8, <2>1
<1>10. w[m + 1] = l
  <2>1. m + 1 \in 1 .. many /\ (m + 1) - 1 = m
    BY <1>2, <1>6
  <2>2. w[m + 1] = nx[w[m]]
    BY <1>5, <2>1
  <2>3. CASE m = 0
    BY <1>3, <1>5, <1>6, <2>2, <2>3 DEF Linked
  <2>4. CASE m # 0
    <3>1. m \in 1 .. m
      BY <2>4
    <3> QED BY <1>3, <1>6, <1>9, <2>2, <3>1 DEF Linked
  <2> QED BY <2>3, <2>4
<1> DEFINE B == {k \in 1 .. many : w[k] = l}
<1>11. Min(B) = m + 1
  <2>1. m + 1 \in B
    BY <1>2, <1>6, <1>10
  <2>2. \A k \in B : m + 1 <= k
    <3>1. ASSUME NEW k \in B, ~ (m + 1 <= k) PROVE FALSE
      <4>1. k \in 1 .. m
        BY <3>1
      <4>2. w[k] = s[k] /\ s[k] # l /\ w[k] = l
        BY <1>1, <1>6, <1>9, <4>1
      <4> QED BY <4>2
    <3> QED BY <3>1
  <2>3. B \subseteq Int
    OBVIOUS
  <2> HIDE DEF B
  <2>4. \A x \in B : (\A y \in B : x <= y) => x = m + 1
    BY <2>1, <2>2, <2>3
  <2>5. PICK x : x = Min(B)
    OBVIOUS
  <2>6. x \in B /\ \A y \in B : x <= y
    BY <2>1, <2>2, <2>5 DEF Min
  <2> QED BY <2>4, <2>5, <2>6
<1>12. rlist_len(r, l) = m
  BY <1>2, <1>4, <1>11 DEF rlist_len
<1>13. ListOf(r, l) = [k \in 1 .. m |-> s[k]]
  BY <1>4, <1>9, <1>12 DEF ListOf
<1>14. s = [k \in 1 .. Len(s) |-> s[k]]
  BY SeqAsFunction DEF Chain
<1> QED BY <1>6, <1>12, <1>13, <1>14

(* rlist_reverse exchanges the pointers of one ring.                       *)
LEMMA ShapeReverse ==
  ASSUME NEW r, NEW c, Shape(r, c, {}), NEW h \in Heads
  PROVE  Shape(rlist_reverse(r, h), [c EXCEPT ![h] = Reverse(c[h])], {})
<1>1. PICK s : s = c[h]
  OBVIOUS
<1>2. Chain(h, s) /\ Linked(r.next, h, s) /\ ToSet(s) \subseteq Items /\ s \in Seq(Items) /\ Sound(r)
      /\ IsInjective(s) /\ h \in Nodes /\ r.next \in [Nodes -> Nodes] /\ r.prev \in [Nodes -> Nodes]
  BY <1>1, ShapeChain DEF Shape, Nodes, Sound
<1>3. /\ Len(s) \in Nat /\ DOMAIN s = 1 .. Len(s)
      /\ \A k \in 1 .. Len(s) : s[k] \in ToSet(s) /\ s[k] \in Nodes
  BY <1>2, ChainNodes
<1>4. PICK T : T = {h} \cup ToSet(s)
  OBVIOUS
<1>5. PICK q : q = rlist_reverse(r, h)
  OBVIOUS
<1>6. /\ q = [next |-> q.next, prev |-> q.prev]
      /\ q.next = [n \in Nodes |-> IF n \in T THEN r.prev[n] ELSE r.next[n]]
      /\ q.prev = [n \in Nodes |-> IF n \in T THEN r.next[n] ELSE r.prev[n]]
  <2>1. rlist_len(r, h) = Len(s) /\ ListOf(r, h) = s
    BY <1>2, ListIs
  <2>2. {h} \cup {ListOf(r, h)[k] : k \in 1 .. rlist_len(r, h)} = T
    BY <1>3, <1>4, <2>1 DEF ToSet
  <2> QED BY <1>5, <2>2 DEF rlist_reverse
<1>7. /\ r.prev[h] = LastNode(h, s) /\ LastNode(h, s) \in T
      /\ \A p \in 1 .. Len(s) : r.prev[s[p]] = NodeBefore(h, s, p)
  BY <1>2, <1>4, LinkedBack, LastNodeIn
<1>8. ASSUME NEW n \in T PROVE r.next[n] \in T /\ r.prev[n] \in T
  <2>1. CASE n = h
    <3>1. Len(s) # 0 => 1 \in 1 .. Len(s)
      BY <1>3
    <3> QED BY <1>2, <1>3, <1>4, <1>7, <2>1, <3>1 DEF Linked
  <2>2. CASE n # h
    <3>1. PICK k \in 1 .. Len(s) : n = s[k]
      BY <1>3, <1>4, <2>2 DEF ToSet
    <3>2. r.prev[n] = NodeBefore(h, s, k)
      BY <1>7, <3>1
    <3>3. (k # 1 => k - 1 \in 1 .. Len(s)) /\ (k # Len(s) => k + 1 \in 1 .. Len(s))
      <4>1. Len(s) \in Nat
        BY <1>3
      <4>2. k # 1 => k - 1 \in 1 .. Len(s)
        BY <4>1
      <4>3. k # Len(s) => k + 1 \in 1 .. Len(s)
        BY <4>1
      <4> QED BY <4>2, <4>3
    <3>4. r.prev[n] \in T
      BY <1>3, <1>4, <3>2, <3>3 DEF NodeBefore
    <3>5. r.next[n] \in T
      BY <1>2, <1>3, <1>4, <3>1, <3>3 DEF Linked
    <3> QED BY <3>4, <3>5
  <2> QED BY <2>1, <2>2
<1>9. \A n \in Nodes : r.prev[r.next[n]] = n /\ r.next[r.prev[n]] = n
  BY <1>2 DEF Sound
<1>10. ASSUME NEW n \in Nodes PROVE q.prev[q.next[n]] = n /\ q.next[q.prev[n]] = n
  <2>0. r.next[n] \in Nodes /\ r.prev[n] \in Nodes
    BY <1>2
  <2>1. CASE n \in T
    <3>1. r.next[n] \in T /\ r.prev[n] \in T
      BY <1>8, <2>1
    <3> QED BY <1>6, <1>9, <2>0, <2>1, <3>1
  <2>2. CASE n \notin T
    <3>1. r.next[n] \notin T /\ r.prev[n] \notin T
      BY <1>8, <1>9, <2>0, <2>2
    <3> QED BY <1>6, <1>9, <2>0, <2>2, <3>1
  <2> QED BY <2>1, <2>2
<1>11. q.next \in [Nodes -> Nodes] /\ q.prev \in [Nodes -> Nodes]
  BY <1>2, <1>6
<1>12. Sound(q)
  BY <1>6, <1>10, <1>11 DEF Sound
<1>13. PICK u : u = Reverse(s)
  OBVIOUS
<1>14. u \in Seq(Items) /\ IsInjective(u) /\ ToSet(u) = ToSet(s)
  BY <1>2, <1>13, ReverseOnce
<1>15. Len(u) = Len(s) /\ \A i \in 1 .. Len(s) : u[i] = s[(Len(s) - i) + 1]
  <2>1. DOMAIN u = 1 .. Len(s) /\ \A i \in 1 .. Len(s) : u[i] = s[(Len(s) - i) + 1]
    BY <1>13 DEF Reverse
  <2>2. Len(u) = Len(s)
    BY <1>3, <1>14, <2>1, LenProperties
  <2> QED BY <2>1, <2>2
<1>16. q.next[h] = IF Len(u) = 0 THEN h ELSE u[1]
  <2>1. q.next[h] = LastNode(h, s)
    BY <1>2, <1>4, <1>6, <1>7
  <2>2. Len(s) # 0 => 1 \in 1 .. Len(s) /\ (Len(s) - 1) + 1 = Len(s)
    BY <1>3
  <2> QED BY <1>15, <2>1, <2>2 DEF LastNode
<1>17. ASSUME NEW k \in 1 .. Len(u) PROVE q.next[u[k]] = IF k = Len(u) THEN h ELSE u[k + 1]
  <2>1. PICK m \in Nat : m = Len(s)
    BY <1>3
  <2>2. k \in 1 .. m
    BY <1>15, <2>1
  <2>3. PICK p \in 1 .. m : p = (m - k) + 1
    BY <2>2
  <2>4. u[k] = s[p] /\ s[p] \in T /\ s[p] \in Nodes
    BY <1>3, <1>4, <1>15, <2>1, <2>2, <2>3
  <2>5. q.next[u[k]] = NodeBefore(h, s, p)
    BY <1>6, <1>7, <2>1, <2>4
  <2>6. CASE k = m
    <3>1. p = 1
      BY <2>3, <2>6
    <3> QED BY <1>15, <2>1, <2>5, <2>6, <3>1 DEF NodeBefore
  <2>7. CASE k # m
    <3>1. k + 1 \in 1 .. m /\ (m - (k + 1)) + 1 = p - 1 /\ p # 1
      BY <2>2, <2>3, <2>7
    <3>2. u[k + 1] = s[p - 1]
      BY <1>15, <2>1, <3>1
    <3> QED BY <1>15, <2>1, <2>5, <2>7, <3>1, <3>2 DEF NodeBefore
  <2> QED BY <2>6, <2>7
<1>18. Linked(q.next, h, u)
  BY <1>16, <1>17 DEF Linked
<1>19. \A x \in Nodes \ T : q.next[x] = r.next[x]
  BY <1>6
<1>20. ASSUME NEW g \in Heads, g # h
       PROVE  g \notin T /\ ToSet(c[g]) \cap T = {} /\ ToSet(c[g]) \cap ToSet(u) = {}
  <2>1. ToSet(c[g]) \cap ToSet(s) = {} /\ ToSet(c[g]) \subseteq Items
    BY <1>1, <1>20, ShapeChain DEF Shape
  <2>2. g \notin Items /\ h \notin Items
    BY ListAssumption
  <2> QED BY <1>2, <1>4, <1>14, <1>20, <2>1, <2>2
<1>21. \A x \in Items : x \notin ToSet(u) => x \notin T \cup {} \cup ToSet(s)
  BY <1>4, <1>14, ListAssumption
<1>22. Reshaped(r, q, c, h, u, {}, {}, T)
  BY <1>1, <1>12, <1>14, <1>18, <1>19, <1>20, <1>21 DEF Reshaped
<1> QED BY <1>1, <1>5, <1>13, <1>22, ShapeOne

(* The list s of c has been put into the list d, with its head, at p of v. *)
Joined(r, q, c, d, s, v, p, u) ==
  /\ Sound(q) /\ Chain(d, v) /\ Linked(q.next, d, v) /\ v[p] = s /\ LeavesOut(u, v, p)
  /\ u \in Seq(Items) /\ IsInjective(u) /\ ToSet(u) = ToSet(c[d]) \cup ToSet(c[s]) /\ ToSet(v) \subseteq ToSet(u) \cup {s}
  /\ \A n \in Nodes : n \notin {d, s} \cup ToSet(u) => q.next[n] = r.next[n]

(* The removal of the head s, which ends rlist_append and rlist_prepend.   *)
LEMMA ShapeMove ==
  ASSUME NEW r, NEW c, Shape(r, c, {}), NEW d \in Heads, NEW s \in Heads, d # s,
         NEW q, NEW v, NEW p \in 1 .. Len(v), NEW u, Joined(r, q, c, d, s, v, p, u)
  PROVE  Shape(rlist_remove(q, s), [c EXCEPT ![d] = u, ![s] = << >>], {})
<1>1. /\ Sound(q) /\ Chain(d, v) /\ Linked(q.next, d, v) /\ s = v[p] /\ LeavesOut(u, v, p)
      /\ u \in Seq(Items) /\ IsInjective(u) /\ ToSet(u) = ToSet(c[d]) \cup ToSet(c[s])
      /\ ToSet(v) \subseteq ToSet(u) \cup {s}
      /\ \A n \in Nodes : n \notin {d, s} \cup ToSet(u) => q.next[n] = r.next[n]
  BY DEF Joined
<1>2. /\ s \in Nodes /\ d \in Nodes /\ q.next \in [Nodes -> Nodes] /\ c \in [Heads -> Seq(Items)]
      /\ \A g \in Heads : g \notin Items
  BY <1>1, ListAssumption DEF Nodes, Sound, Shape
<1>3. PICK z : z = NodeBefore(d, v, p)
  OBVIOUS
<1>4. z \in {d, s} \cup ToSet(u) /\ z \in Nodes /\ q.prev[s] = z
  <2>1. Len(v) \in Nat /\ \A k \in 1 .. Len(v) : v[k] \in ToSet(v) /\ v[k] \in Nodes
    BY <1>1, ChainNodes
  <2>2. p # 1 => p - 1 \in 1 .. Len(v)
    BY <2>1
  <2>3. q.prev[s] = z
    BY <1>1, <1>3, LinkedBack
  <2> QED BY <1>1, <1>2, <1>3, <2>1, <2>2, <2>3 DEF NodeBefore
<1>5. PICK w : w = rlist_remove(q, s)
  OBVIOUS
<1>6. Sound(w) /\ w.next = Swap(q.next, s, z)
  <2>1. w = rl_splice(q, s, z) /\ Sound(q) /\ s \in Nodes /\ z \in Nodes
    BY <1>1, <1>2, <1>4, <1>5 DEF rlist_remove
  <2> QED BY <2>1, SpliceSwaps
<1>7. Linked(w.next, d, u) /\ w.next[s] = s
  <2>1. /\ q.next \in [Nodes -> Nodes] /\ Chain(d, v) /\ Linked(q.next, d, v) /\ LeavesOut(u, v, p)
        /\ s = v[p] /\ z = NodeBefore(d, v, p)
    BY <1>1, <1>2, <1>3
  <2>2. PICK nx \in [Nodes -> Nodes] : nx = q.next
    BY <2>1
  <2>3. Linked(Swap(nx, s, z), d, u) /\ Swap(nx, s, z)[s] = s
    <3>1. Chain(d, v) /\ Linked(nx, d, v) /\ LeavesOut(u, v, p) /\ s = v[p] /\ z = NodeBefore(d, v, p)
      BY <2>1, <2>2
    <3> QED BY <3>1, LinkedRemove
  <2> QED BY <1>6, <2>2, <2>3
<1>8. ASSUME NEW n \in Nodes, n \notin {d, s} \cup ToSet(u) PROVE w.next[n] = r.next[n]
  <2>1. n # s /\ n # z
    BY <1>4, <1>8
  <2>2. w.next[n] = q.next[n]
    <3>1. \A x \in Nodes : x # s /\ x # z => Swap(q.next, s, z)[x] = q.next[x]
      <4>1. q.next \in [Nodes -> Nodes] /\ s \in Nodes /\ z \in Nodes
        BY <1>2, <1>4
      <4> QED BY <4>1, SwapAt
    <3> QED BY <1>6, <2>1, <3>1
  <2> QED BY <1>1, <1>8, <2>2
<1>9. PICK e : e = [c EXCEPT ![d] = u, ![s] = << >>]
  OBVIOUS
<1>10. << >> \in Seq(Items) /\ IsInjective(<< >>) /\ ToSet(<< >>) = {} /\ Linked(w.next, s, << >>)
  BY <1>7, EmptyOnce DEF Linked
<1>11. /\ e \in [Heads -> Seq(Items)] /\ e[d] = u /\ e[s] = << >>
       /\ \A g \in Heads : g # d /\ g # s => e[g] = c[g]
  BY <1>1, <1>2, <1>9, <1>10
<1>12. ASSUME NEW g \in Heads, g # d, g # s
       PROVE  /\ IsInjective(c[g]) /\ Linked(w.next, g, c[g]) /\ ToSet(c[g]) \cap ToSet(u) = {}
  <2>1. /\ Chain(g, c[g]) /\ Linked(r.next, g, c[g]) /\ ToSet(c[g]) \subseteq Items /\ IsInjective(c[g])
        /\ ToSet(c[g]) \cap ToSet(c[d]) = {} /\ ToSet(c[g]) \cap ToSet(c[s]) = {}
    BY <1>12, ShapeChain DEF Shape
  <2>2. ToSet(c[g]) \cap ToSet(u) = {} /\ ToSet(u) \subseteq Items
    BY <1>1, <2>1, ShapeChain
  <2>3. w.next[g] = r.next[g] /\ \A n \in ToSet(c[g]) : w.next[n] = r.next[n]
    BY <1>2, <1>8, <1>12, <2>1, <2>2 DEF Nodes
  <2> QED BY <2>1, <2>2, <2>3, LinkedSame DEF Chain
<1>13. ASSUME NEW g \in Heads PROVE IsInjective(e[g]) /\ Linked(w.next, g, e[g]) /\ ToSet(e[g]) \cap {} = {}
  <2>1. CASE g = d
    BY <1>1, <1>7, <1>11, <2>1
  <2>2. CASE g = s
    BY <1>10, <1>11, <2>2
  <2>3. CASE g # d /\ g # s
    BY <1>11, <1>12, <2>3
  <2> QED BY <2>1, <2>2, <2>3
<1>14. ASSUME NEW f \in Heads, NEW g \in Heads, f # g PROVE ToSet(e[f]) \cap ToSet(e[g]) = {}
  <2>1. CASE f = s \/ g = s
    BY <1>10, <1>11, <2>1
  <2>2. CASE f = d /\ g # s
    BY <1>11, <1>12, <1>14, <2>2
  <2>3. CASE g = d /\ f # s
    BY <1>11, <1>12, <1>14, <2>3
  <2>4. CASE f \notin {d, s} /\ g \notin {d, s}
    BY <1>11, <1>14, <2>4 DEF Shape
  <2> QED BY <2>1, <2>2, <2>3, <2>4
<1>15. ASSUME NEW n \in Items \ {}, \A g \in Heads : n \notin ToSet(e[g]) PROVE w.next[n] = n
  <2>1. n \notin ToSet(u) /\ n \in Nodes /\ n # d /\ n # s
    BY <1>2, <1>11, <1>15 DEF Nodes
  <2>2. \A g \in Heads : n \notin ToSet(c[g])
    BY <1>1, <1>11, <1>15, <2>1
  <2>3. r.next[n] = n
    BY <2>2 DEF Shape
  <2> QED BY <1>8, <2>1, <2>3
<1>16. Shape(w, e, {})
  BY <1>6, <1>11, <1>13, <1>14, <1>15 DEF Shape
<1> QED BY <1>5, <1>9, <1>16

(* The rings of two heads.                                                 *)
LEMMA HeadRings ==
  ASSUME NEW r, NEW c, Shape(r, c, {}), NEW d \in Heads, NEW s \in Heads, d # s
  PROVE  /\ TwoRings(d, c[d], s, c[s]) /\ Linked(r.next, d, c[d]) /\ Linked(r.next, s, c[s])
         /\ Sound(r) /\ r.next \in [Nodes -> Nodes] /\ c[d] \in Seq(Items) /\ c[s] \in Seq(Items)
         /\ IsInjective(c[d]) /\ IsInjective(c[s]) /\ ToSet(c[d]) \cap ToSet(c[s]) = {}
         /\ ToSet(c[d]) \subseteq Items /\ ToSet(c[s]) \subseteq Items
<1>1. /\ Chain(d, c[d]) /\ Chain(s, c[s]) /\ ToSet(c[d]) \subseteq Items /\ ToSet(c[s]) \subseteq Items
      /\ Linked(r.next, d, c[d]) /\ Linked(r.next, s, c[s])
      /\ c[d] \in Seq(Items) /\ c[s] \in Seq(Items)
  BY ShapeChain
<1>2. d \notin Items /\ s \notin Items
  BY ListAssumption
<1>3. /\ IsInjective(c[d]) /\ IsInjective(c[s]) /\ ToSet(c[d]) \cap ToSet(c[s]) = {}
      /\ Sound(r) /\ r.next \in [Nodes -> Nodes]
  BY DEF Shape, Sound
<1> QED BY <1>1, <1>2, <1>3 DEF TwoRings

(* rlist_append.                                                           *)
LEMMA ShapeAppend ==
  ASSUME NEW r, NEW c, Shape(r, c, {}), NEW d \in Heads, NEW s \in Heads, d # s
  PROVE  Shape(rlist_append(r, d, s), [c EXCEPT ![d] = c[d] \o c[s], ![s] = << >>], {})
<1>1. PICK a, t : a = c[d] /\ t = c[s]
  OBVIOUS
<1>2. /\ TwoRings(d, a, s, t) /\ Linked(r.next, d, a) /\ Linked(r.next, s, t)
      /\ Sound(r) /\ r.next \in [Nodes -> Nodes] /\ a \in Seq(Items) /\ t \in Seq(Items)
      /\ IsInjective(a) /\ IsInjective(t) /\ ToSet(a) \cap ToSet(t) = {}
      /\ ToSet(a) \subseteq Items /\ ToSet(t) \subseteq Items
  BY <1>1, HeadRings
<1>3. d \in Nodes /\ s \in Nodes /\ d \notin Items /\ s \notin Items /\ Chain(d, a) /\ Items \subseteq Nodes
  BY <1>2, ListAssumption DEF Nodes, TwoRings
<1>4. PICK u : u = a \o t
  OBVIOUS
<1>5. /\ u \in Seq(Items) /\ IsInjective(u) /\ ToSet(u) = ToSet(a) \cup ToSet(t)
      /\ Len(u) = Len(a) + Len(t)
      /\ \A i \in 1 .. Len(a) : u[i] = a[i]
      /\ \A i \in 1 .. Len(t) : u[Len(a) + i] = t[i]
  BY <1>2, <1>4, ConcatOnce
<1>6. PICK v : v = Append(u, s)
  OBVIOUS
<1>7. PICK k \in Nat, m \in Nat : k = Len(a) /\ m = Len(t)
  BY <1>2, LenProperties
<1>8. u \in Seq(Nodes) /\ s \notin ToSet(u) /\ Len(u) = k + m /\ ToSet(u) \subseteq Items
  BY <1>2, <1>3, <1>5, <1>7
<1>9. v \in Seq(Nodes) /\ IsInjective(v) /\ ToSet(v) = ToSet(u) \cup {s}
  BY <1>3, <1>5, <1>6, <1>8, AppendOnce
<1>10. Len(v) = k + m + 1 /\ v[k + m + 1] = s /\ \A i \in 1 .. k + m : v[i] = u[i]
  BY <1>3, <1>6, <1>8, AppendProperties
<1>11. JoinsBack(v, a, t, s)
  <2>1. \A i \in 1 .. k : v[i] = a[i]
    <3>1. \A i \in 1 .. k : i \in 1 .. k + m
      OBVIOUS
    <3> QED BY <1>5, <1>7, <1>10, <3>1
  <2>2. \A i \in 1 .. m : v[k + i] = t[i]
    <3>1. \A i \in 1 .. m : k + i \in 1 .. k + m
      OBVIOUS
    <3> QED BY <1>5, <1>7, <1>10, <3>1
  <2> QED BY <1>7, <1>10, <2>1, <2>2 DEF JoinsBack
<1>12. PICK z : z = LastNode(d, a)
  OBVIOUS
<1>13. z \in {d} \cup ToSet(a) /\ z \in Nodes /\ r.prev[d] = z
  BY <1>2, <1>3, <1>12, LastNodeIn, LinkedBack
<1>14. PICK q : q = rlist_push_back(r, d, s)
  OBVIOUS
<1>15. Sound(q) /\ q.next = Swap(r.next, z, s)
  BY <1>2, <1>3, <1>13, <1>14, SpliceSwaps DEF rlist_push_back
<1>16. Linked(q.next, d, v)
  BY <1>2, <1>11, <1>12, <1>15, LinkedPushBack
<1>17. Chain(d, v)
  BY <1>2, <1>3, <1>8, <1>9 DEF Chain, TwoRings
<1>18. PICK p \in 1 .. Len(v) : p = k + m + 1
  BY <1>10
<1>19. LeavesOut(u, v, p)
  <2>1. Len(v) - 1 = k + m /\ Len(u) = Len(v) - 1
    BY <1>8, <1>10
  <2>2. \A i \in 1 .. k + m : i < p
    BY <1>18
  <2>3. \A i \in 1 .. Len(v) - 1 : u[i] = IF i < p THEN v[i] ELSE v[i + 1]
    BY <1>10, <2>1, <2>2
  <2> QED BY <2>1, <2>3 DEF LeavesOut
<1>20. ASSUME NEW n \in Nodes, n \notin {d, s} \cup ToSet(u) PROVE q.next[n] = r.next[n]
  <2>1. n # z /\ n # s
    BY <1>5, <1>13, <1>20
  <2>2. \A x \in Nodes : x # z /\ x # s => Swap(r.next, z, s)[x] = r.next[x]
    BY <1>2, <1>3, <1>13, SwapAt
  <2> QED BY <1>15, <2>1, <2>2
<1>21. Joined(r, q, c, d, s, v, p, u)
  <2>1. v[p] = s
    BY <1>10, <1>18
  <2>2. ToSet(u) = ToSet(c[d]) \cup ToSet(c[s])
    BY <1>1, <1>5
  <2>3. ToSet(v) \subseteq ToSet(u) \cup {s}
    BY <1>9
  <2> QED BY <1>5, <1>15, <1>16, <1>17, <1>19, <1>20, <2>1, <2>2, <2>3 DEF Joined
<1>22. Shape(rlist_remove(q, s), [c EXCEPT ![d] = u, ![s] = << >>], {})
  BY <1>21, ShapeMove
<1> QED BY <1>1, <1>4, <1>14, <1>22 DEF rlist_append

(* rlist_prepend.                                                          *)
LEMMA ShapePrepend ==
  ASSUME NEW r, NEW c, Shape(r, c, {}), NEW d \in Heads, NEW s \in Heads, d # s
  PROVE  Shape(rlist_prepend(r, d, s), [c EXCEPT ![d] = c[s] \o c[d], ![s] = << >>], {})
<1>1. PICK a, t : a = c[d] /\ t = c[s]
  OBVIOUS
<1>2. /\ TwoRings(d, a, s, t) /\ Linked(r.next, d, a) /\ Linked(r.next, s, t)
      /\ Sound(r) /\ r.next \in [Nodes -> Nodes] /\ a \in Seq(Items) /\ t \in Seq(Items)
      /\ IsInjective(a) /\ IsInjective(t) /\ ToSet(t) \cap ToSet(a) = {}
      /\ ToSet(a) \subseteq Items /\ ToSet(t) \subseteq Items
  BY <1>1, HeadRings
<1>3. d \in Nodes /\ s \in Nodes /\ d \notin Items /\ s \notin Items /\ Chain(d, a) /\ Items \subseteq Nodes
  BY <1>2, ListAssumption DEF Nodes, TwoRings
<1>4. PICK u : u = t \o a
  OBVIOUS
<1>5. /\ u \in Seq(Items) /\ IsInjective(u) /\ ToSet(u) = ToSet(t) \cup ToSet(a)
      /\ Len(u) = Len(t) + Len(a)
      /\ \A i \in 1 .. Len(t) : u[i] = t[i]
      /\ \A i \in 1 .. Len(a) : u[Len(t) + i] = a[i]
  BY <1>2, <1>4, ConcatOnce
<1>6. PICK b : b = Append(t, s)
  OBVIOUS
<1>7. PICK k \in Nat, m \in Nat : k = Len(a) /\ m = Len(t)
  BY <1>2, LenProperties
<1>8. t \in Seq(Nodes) /\ a \in Seq(Nodes) /\ s \notin ToSet(t) /\ s \notin ToSet(a)
  BY <1>2, <1>3
<1>9. /\ b \in Seq(Nodes) /\ IsInjective(b) /\ ToSet(b) = ToSet(t) \cup {s}
  BY <1>2, <1>3, <1>6, <1>8, AppendOnce
<1>10. Len(b) = m + 1 /\ b[m + 1] = s /\ \A i \in 1 .. m : b[i] = t[i]
  BY <1>3, <1>6, <1>7, <1>8, AppendProperties
<1>11. PICK v : v = b \o a
  OBVIOUS
<1>12. /\ v \in Seq(Nodes) /\ IsInjective(v) /\ ToSet(v) = ToSet(b) \cup ToSet(a)
       /\ Len(v) = Len(b) + Len(a)
       /\ \A i \in 1 .. Len(b) : v[i] = b[i]
       /\ \A i \in 1 .. Len(a) : v[Len(b) + i] = a[i]
  <2>1. ToSet(b) \cap ToSet(a) = {}
    BY <1>2, <1>8, <1>9
  <2> QED BY <1>2, <1>8, <1>9, <1>11, <2>1, ConcatOnce
<1>13. /\ Len(v) = k + m + 1 /\ v[m + 1] = s
       /\ \A i \in 1 .. m : v[i] = t[i]
       /\ \A i \in 1 .. k : v[m + 1 + i] = a[i]
  <2>1. m + 1 \in 1 .. m + 1 /\ \A i \in 1 .. m : i \in 1 .. m + 1
    OBVIOUS
  <2> QED BY <1>7, <1>10, <1>12, <2>1
<1>14. JoinsFront(v, a, t, s)
  BY <1>7, <1>13 DEF JoinsFront
<1>15. PICK q : q = rlist_push_front(r, d, s)
  OBVIOUS
<1>16. Sound(q) /\ q.next = Swap(r.next, d, s)
  BY <1>2, <1>3, <1>15, SpliceSwaps DEF rlist_push_front
<1>17. Linked(q.next, d, v)
  BY <1>2, <1>14, <1>16, LinkedPushFront
<1>18. Chain(d, v)
  BY <1>2, <1>3, <1>9, <1>12 DEF Chain, TwoRings
<1>19. PICK p \in 1 .. Len(v) : p = m + 1
  BY <1>13
<1>20. LeavesOut(u, v, p)
  <2>1. Len(v) - 1 = k + m /\ Len(u) = Len(v) - 1
    BY <1>5, <1>7, <1>13
  <2>2. ASSUME NEW i \in 1 .. k + m PROVE u[i] = IF i < p THEN v[i] ELSE v[i + 1]
    <3>1. CASE i < p
      <4>1. i \in 1 .. m
        BY <1>19, <3>1
      <4> QED BY <1>5, <1>7, <1>13, <3>1, <4>1
    <3>2. CASE ~ (i < p)
      <4>1. PICK j \in 1 .. k : i = m + j
        <5>1. i - m \in 1 .. k /\ i = m + (i - m)
          BY <1>19, <3>2
        <5> QED BY <5>1
      <4>2. i + 1 = m + 1 + j
        BY <4>1
      <4> QED BY <1>5, <1>7, <1>13, <3>2, <4>1, <4>2
    <3> QED BY <3>1, <3>2
  <2>3. \A i \in 1 .. Len(v) - 1 : u[i] = IF i < p THEN v[i] ELSE v[i + 1]
    BY <2>1, <2>2
  <2> QED BY <2>1, <2>3 DEF LeavesOut
<1>21. ASSUME NEW n \in Nodes, n \notin {d, s} \cup ToSet(u) PROVE q.next[n] = r.next[n]
  <2>1. \A x \in Nodes : x # d /\ x # s => Swap(r.next, d, s)[x] = r.next[x]
    BY <1>2, <1>3, SwapAt
  <2> QED BY <1>16, <1>21, <2>1
<1>22. Joined(r, q, c, d, s, v, p, u)
  <2>1. v[p] = s
    BY <1>13, <1>19
  <2>2. ToSet(u) = ToSet(c[d]) \cup ToSet(c[s])
    BY <1>1, <1>5
  <2>3. ToSet(v) \subseteq ToSet(u) \cup {s}
    BY <1>5, <1>9, <1>12
  <2> QED BY <1>5, <1>16, <1>17, <1>18, <1>20, <1>21, <2>1, <2>2, <2>3 DEF Joined
<1>23. Shape(rlist_remove(q, s), [c EXCEPT ![d] = u, ![s] = << >>], {})
  BY <1>22, ShapeMove
<1> QED BY <1>1, <1>4, <1>15, <1>23 DEF rlist_prepend

(* The elements in S of a sequence, one after the other.                   *)
LEMMA AmongSteps ==
  ASSUME NEW x \in Seq(Items), NEW S, NEW many \in Nat, many = Len(x)
  PROVE  /\ Among(x, S)[0] = << >>
         /\ \A k \in 0 .. many : Among(x, S)[k] \in Seq(Items)
         /\ \A k \in 1 .. many :
              Among(x, S)[k] = IF x[k] \in S THEN Append(Among(x, S)[k - 1], x[k]) ELSE Among(x, S)[k - 1]
<1> DEFINE w == CHOOSE w : w = [k \in 0 .. many |->
                  IF k = 0 THEN << >> ELSE IF x[k] \in S THEN Append(w[k - 1], x[k]) ELSE w[k - 1]]
<1>1. Among(x, S) = w
  BY DEF Among
<1>2. \A k \in 1 .. many : x[k] \in Items
  BY LenProperties
<1>3. PICK Q : Q = Seq(Items)
  OBVIOUS
<1>4. << >> \in Q /\ \A t \in Q, n \in Items : Append(t, n) \in Q
  BY <1>3, AppendProperties, EmptySeq
<1> DEFINE step == [q \in (1 .. many) \X Q |-> IF x[q[1]] \in S THEN Append(q[2], x[q[1]]) ELSE q[2]]
<1>5. step \in [(1 .. many) \X Q -> Q]
  <2>1. ASSUME NEW n \in 1 .. many, NEW t \in Q PROVE (IF x[n] \in S THEN Append(t, x[n]) ELSE t) \in Q
    BY <1>2, <1>4
  <2> QED BY <2>1
<1>6. \A n \in 1 .. many, t \in Q : step[<<n, t>>] = IF x[n] \in S THEN Append(t, x[n]) ELSE t
  OBVIOUS
<1> HIDE DEF step
<1>7. Loop(many, Q, << >>, step) # {}
  BY <1>4, <1>5, RecursionExists
<1>8. PICK f \in [0 .. many -> Q] : f[0] = << >> /\ \A n \in 1 .. many : f[n] = step[<<n, f[n - 1]>>]
  BY <1>7 DEF Loop
<1>9. ASSUME NEW n \in 0 .. many
      PROVE  f[n] = IF n = 0 THEN << >> ELSE IF x[n] \in S THEN Append(f[n - 1], x[n]) ELSE f[n - 1]
  <2>1. CASE n = 0
    BY <2>1, <1>8
  <2>2. CASE n # 0
    <3>1. n \in 1 .. many /\ n - 1 \in 0 .. many
      BY <2>2
    <3> QED BY <1>6, <1>8, <2>2, <3>1
  <2> QED BY <2>1, <2>2
<1>10. f = [k \in 0 .. many |->
             IF k = 0 THEN << >> ELSE IF x[k] \in S THEN Append(f[k - 1], x[k]) ELSE f[k - 1]]
  BY <1>9
<1>11. w = [k \in 0 .. many |->
             IF k = 0 THEN << >> ELSE IF x[k] \in S THEN Append(w[k - 1], x[k]) ELSE w[k - 1]]
  BY <1>10
<1> HIDE DEF w
<1>12. /\ w[0] = << >>
       /\ \A k \in 1 .. many : w[k] = IF x[k] \in S THEN Append(w[k - 1], x[k]) ELSE w[k - 1]
  <2>1. 0 \in 0 .. many /\ \A k \in 1 .. many : k \in 0 .. many /\ k # 0
    OBVIOUS
  <2> QED BY <1>11, <2>1
<1> DEFINE T == {k \in 0 .. many : w[k] \in Q}
<1>13. ASSUME NEW n \in 0 .. many, n < many, n \in T PROVE n + 1 \in T
  <2>1. n + 1 \in 1 .. many /\ (n + 1) - 1 = n /\ n + 1 \in 0 .. many /\ w[n] \in Q
    BY <1>13
  <2>2. w[n + 1] = IF x[n + 1] \in S THEN Append(w[n], x[n + 1]) ELSE w[n]
    BY <1>12, <2>1
  <2> QED BY <1>2, <1>4, <2>1, <2>2
<1>14. 0 .. many \subseteq T
  <2>1. 0 \in T
    BY <1>4, <1>12
  <2> HIDE DEF T
  <2> QED BY <1>13, <2>1, UpTo
<1> QED BY <1>1, <1>3, <1>12, <1>14

(* The pointers and the node I in the loop of rlist_select.                *)
Looping == {q \in [ring : [next : [Nodes -> Nodes], prev : [Nodes -> Nodes]], at : Nodes] : Sound(q.ring)}

(* A round of the loop keeps the pointers right.                           *)
LEMMA RoundSound ==
  ASSUME NEW q \in Looping, NEW s \in Nodes, NEW d \in Nodes
  PROVE  SelectRound(q, s, d) \in Looping
<1>1. \A r : Sound(r) => r \in [next : [Nodes -> Nodes], prev : [Nodes -> Nodes]]
  BY DEF Sound
<1>2. PICK r, n : r = q.ring /\ n = r.next[q.at]
  OBVIOUS
<1>3. Sound(r) /\ q.at \in Nodes /\ n \in Nodes /\ r.prev[n] \in Nodes
  BY <1>2 DEF Looping, Sound
<1>4. PICK p : p = rlist_remove(r, n)
  OBVIOUS
<1>5. Sound(p)
  BY <1>3, <1>4, SpliceSwaps DEF rlist_remove
<1>6. p.prev[d] \in Nodes
  BY <1>5 DEF Sound
<1>7. PICK t : t = rlist_push_back(p, d, n)
  OBVIOUS
<1>8. Sound(t)
  BY <1>3, <1>5, <1>6, <1>7, SpliceSwaps DEF rlist_push_back
<1>9. \A u, k : Sound(u) /\ k \in Nodes => [ring |-> u, at |-> k] \in Looping
  BY <1>1 DEF Looping
<1>10. SelectRound(q, s, d) =
         IF n = s THEN q ELSE IF n \in Chosen THEN [ring |-> t, at |-> q.at] ELSE [ring |-> r, at |-> n]
  BY <1>2, <1>4, <1>7 DEF SelectRound
<1> QED BY <1>3, <1>8, <1>9, <1>10

(* The rounds of the loop, one after the other.                            *)
LEMMA RoundSteps ==
  ASSUME NEW r, Sound(r), NEW s \in Nodes, NEW d \in Nodes, NEW many \in Nat, many = Cardinality(Nodes)
  PROVE  /\ SelectRounds(r, s, d)[0] = [ring |-> r, at |-> s]
         /\ \A k \in 1 .. many : SelectRounds(r, s, d)[k] = SelectRound(SelectRounds(r, s, d)[k - 1], s, d)
<1> DEFINE w == CHOOSE w : w = [k \in 0 .. many |->
                  IF k = 0 THEN [ring |-> r, at |-> s] ELSE SelectRound(w[k - 1], s, d)]
<1>1. SelectRounds(r, s, d) = w
  BY DEF SelectRounds
<1>2. PICK a : a = [ring |-> r, at |-> s]
  OBVIOUS
<1>3. a \in Looping
  BY <1>2 DEF Looping, Sound
<1> DEFINE step == [q \in (1 .. many) \X Looping |-> SelectRound(q[2], s, d)]
<1>4. step \in [(1 .. many) \X Looping -> Looping]
  <2>1. \A t \in Looping : SelectRound(t, s, d) \in Looping
    BY RoundSound
  <2> QED BY <2>1
<1>5. \A n \in 1 .. many, t \in Looping : step[<<n, t>>] = SelectRound(t, s, d)
  OBVIOUS
<1> HIDE DEF step
<1>6. Loop(many, Looping, a, step) # {}
  BY <1>3, <1>4, RecursionExists
<1>7. PICK f \in [0 .. many -> Looping] : f[0] = a /\ \A n \in 1 .. many : f[n] = step[<<n, f[n - 1]>>]
  BY <1>6 DEF Loop
<1>8. ASSUME NEW n \in 0 .. many PROVE f[n] = IF n = 0 THEN a ELSE SelectRound(f[n - 1], s, d)
  <2>1. CASE n = 0
    BY <2>1, <1>7
  <2>2. CASE n # 0
    <3>1. n \in 1 .. many /\ n - 1 \in 0 .. many
      BY <2>2
    <3> QED BY <1>5, <1>7, <2>2, <3>1
  <2> QED BY <2>1, <2>2
<1>9. f = [k \in 0 .. many |-> IF k = 0 THEN [ring |-> r, at |-> s] ELSE SelectRound(f[k - 1], s, d)]
  BY <1>2, <1>8
<1>10. w = [k \in 0 .. many |-> IF k = 0 THEN [ring |-> r, at |-> s] ELSE SelectRound(w[k - 1], s, d)]
  BY <1>9
<1> HIDE DEF w
<1>11. 0 \in 0 .. many /\ \A k \in 1 .. many : k \in 0 .. many /\ k # 0
  OBVIOUS
<1>12. w[0] = [ring |-> r, at |-> s] /\ \A k \in 1 .. many : w[k] = SelectRound(w[k - 1], s, d)
  BY <1>10, <1>11
<1> QED BY <1>1, <1>12

(* y is what is kept of the first k elements of x, and the rest of x.      *)
Rest(y, kept, x, k) ==
  /\ Len(y) = Len(kept) + (Len(x) - k)
  /\ \A i \in 1 .. Len(kept) : y[i] = kept[i]
  /\ \A j \in 1 .. Len(x) - k : y[Len(kept) + j] = x[k + j]

(* The next element is taken out.                                          *)
LEMMA RestTaken ==
  ASSUME NEW x \in Seq(Items), NEW y \in Seq(Items), IsInjective(y), NEW kept \in Seq(Items),
         NEW k \in Nat, k < Len(x), Rest(y, kept, x, k)
  PROVE  /\ Len(kept) + 1 \in 1 .. Len(y) /\ y[Len(kept) + 1] = x[k + 1]
         /\ Rest(RemoveFirst(y, x[k + 1]), kept, x, k + 1)
<1>1. PICK m \in Nat, a \in Nat : m = Len(x) /\ a = Len(kept)
  BY LenProperties
<1>2. /\ Len(y) = a + (m - k) /\ k < m
      /\ \A i \in 1 .. a : y[i] = kept[i]
      /\ \A j \in 1 .. m - k : y[a + j] = x[k + j]
  BY <1>1 DEF Rest
<1>3. PICK p \in 1 .. Len(y) : p = a + 1
  BY <1>2
<1>4. y[p] = x[k + 1]
  <2>1. 1 \in 1 .. m - k
    BY <1>2
  <2> QED BY <1>2, <1>3, <2>1
<1>5. PICK u : u = RemoveAt(y, p)
  OBVIOUS
<1>6. /\ Len(u) = Len(y) - 1
      /\ \A i \in 1 .. Len(y) - 1 : u[i] = IF i < p THEN y[i] ELSE y[i + 1]
  BY <1>3, <1>5, RemoveAtElements
<1>7. RemoveFirst(y, y[p]) = u
  BY <1>3, <1>5, RemoveFirstAt
<1>8. Len(u) = a + (m - (k + 1))
  BY <1>2, <1>6
<1>9. ASSUME NEW i \in 1 .. a PROVE u[i] = kept[i]
  <2>1. i \in 1 .. Len(y) - 1 /\ i < p
    BY <1>2, <1>3
  <2> QED BY <1>2, <1>6, <2>1
<1>10. ASSUME NEW j \in 1 .. m - (k + 1) PROVE u[a + j] = x[(k + 1) + j]
  <2>1. /\ a + j \in 1 .. Len(y) - 1 /\ ~ (a + j < p) /\ j + 1 \in 1 .. m - k
        /\ (a + j) + 1 = a + (j + 1) /\ k + (j + 1) = (k + 1) + j
    BY <1>2, <1>3
  <2>2. u[a + j] = y[a + (j + 1)]
    BY <1>6, <2>1
  <2>3. y[a + (j + 1)] = x[k + (j + 1)]
    BY <1>2, <2>1
  <2> QED BY <2>1, <2>2, <2>3
<1>11. Rest(u, kept, x, k + 1)
  BY <1>1, <1>8, <1>9, <1>10 DEF Rest
<1> QED BY <1>1, <1>3, <1>4, <1>7, <1>11

(* The next element is kept.                                               *)
LEMMA RestKept ==
  ASSUME NEW x \in Seq(Items), NEW y \in Seq(Items), NEW kept \in Seq(Items),
         NEW k \in Nat, k < Len(x), Rest(y, kept, x, k)
  PROVE  Rest(y, Append(kept, x[k + 1]), x, k + 1)
<1>1. PICK m \in Nat, a \in Nat : m = Len(x) /\ a = Len(kept)
  BY LenProperties
<1>2. /\ Len(y) = a + (m - k) /\ k < m
      /\ \A i \in 1 .. a : y[i] = kept[i]
      /\ \A j \in 1 .. m - k : y[a + j] = x[k + j]
  BY <1>1 DEF Rest
<1>3. x[k + 1] \in Items
  <2>1. k + 1 \in 1 .. Len(x)
    BY <1>1, <1>2
  <2> QED BY <2>1, LenProperties
<1>4. PICK u : u = Append(kept, x[k + 1])
  OBVIOUS
<1>5. Len(u) = a + 1 /\ u[a + 1] = x[k + 1] /\ \A i \in 1 .. a : u[i] = kept[i]
  BY <1>1, <1>3, <1>4, AppendProperties
<1>6. Len(y) = (a + 1) + (m - (k + 1))
  BY <1>2
<1>7. ASSUME NEW i \in 1 .. a + 1 PROVE y[i] = u[i]
  <2>1. CASE i = a + 1
    <3>1. 1 \in 1 .. m - k
      BY <1>2
    <3> QED BY <1>2, <1>5, <2>1, <3>1
  <2>2. CASE i # a + 1
    <3>1. i \in 1 .. a
      BY <2>2
    <3> QED BY <1>2, <1>5, <3>1
  <2> QED BY <2>1, <2>2
<1>8. ASSUME NEW j \in 1 .. m - (k + 1) PROVE y[(a + 1) + j] = x[(k + 1) + j]
  <2>1. j + 1 \in 1 .. m - k /\ (a + 1) + j = a + (j + 1) /\ k + (j + 1) = (k + 1) + j
    BY <1>2
  <2>2. y[a + (j + 1)] = x[k + (j + 1)]
    BY <1>2, <2>1
  <2> QED BY <2>1, <2>2
<1>9. Rest(y, u, x, k + 1)
  BY <1>1, <1>5, <1>6, <1>7, <1>8 DEF Rest
<1> QED BY <1>4, <1>9

(* The end of the loop.                                                    *)
LEMMA RestEnds ==
  ASSUME NEW x \in Seq(Items), NEW y \in Seq(Items), NEW kept \in Seq(Items), Rest(y, kept, x, Len(x))
  PROVE  y = kept
<1>1. Len(x) \in Nat /\ Len(kept) \in Nat
  BY LenProperties
<1>2. Len(y) = Len(kept) /\ \A i \in 1 .. Len(y) : y[i] = kept[i]
  BY <1>1 DEF Rest
<1> QED BY <1>2, SeqEqual

(* Two lists, one after the other.                                         *)
Joint(s, t) == s \o t

(* An element appended to the second of two lists.                         *)
LEMMA JointAppend ==
  ASSUME NEW s \in Seq(Items), NEW t \in Seq(Items), NEW n \in Items, NEW u, u = Joint(s, t)
  PROVE  Append(u, n) = Joint(s, Append(t, n))
<1>1. PICK b : b = <<n>>
  OBVIOUS
<1>2. b \in Seq(Items)
  BY <1>1
<1>3. s \o t \in Seq(Items)
  BY ConcatProperties
<1>4. Append(s \o t, n) = (s \o t) \o b
  BY <1>1, <1>3, AppendIsConcat
<1>5. Append(t, n) = t \o b
  BY <1>1, AppendIsConcat
<1>6. (s \o t) \o b = s \o (t \o b)
  BY <1>2, ConcatAssociative
<1> QED BY <1>4, <1>5, <1>6 DEF Joint

(* The lists e and the loop variables q after k rounds of rlist_select.    *)
Selecting(c, d, s, q, k, e) ==
  /\ Shape(q.ring, e, {})
  /\ e[d] = Joint(c[d], Among(c[s], Chosen)[k])
  /\ Rest(e[s], Among(c[s], Items \ Chosen)[k], c[s], k)
  /\ \A g \in Heads : g # d /\ g # s => e[g] = c[g]
  /\ q.at = LastNode(s, Among(c[s], Items \ Chosen)[k])

(* The node after the last one that was kept.                              *)
LEMMA NextNode ==
  ASSUME NEW nx, NEW s, NEW y, Linked(nx, s, y), NEW x, NEW kept \in Seq(Items), NEW k, Rest(y, kept, x, k),
         Len(y) \in Nat, Len(kept) <= Len(y)
  PROVE  nx[LastNode(s, kept)] = IF Len(y) = Len(kept) THEN s ELSE y[Len(kept) + 1]
<1>1. PICK a \in Nat : a = Len(kept)
  BY LenProperties
<1>2. CASE a = 0
  BY <1>1, <1>2 DEF Linked, LastNode
<1>3. CASE a # 0
  <2>1. a \in 1 .. a /\ LastNode(s, kept) = kept[a]
    BY <1>1, <1>3 DEF LastNode
  <2>2. y[a] = kept[a]
    BY <1>1, <2>1 DEF Rest
  <2>3. a \in 1 .. Len(y)
    BY <1>1, <1>3
  <2> QED BY <1>1, <2>1, <2>2, <2>3 DEF Linked
<1> QED BY <1>2, <1>3

(* A round of rlist_select.                                                *)
LEMMA SelectNext ==
  ASSUME NEW r, NEW c, Shape(r, c, {}), NEW d \in Heads, NEW s \in Heads, d # s,
         NEW q, NEW k \in Nat, k < Len(c[s]), NEW e, Selecting(c, d, s, q, k, e)
  PROVE  \E f : Selecting(c, d, s, SelectRound(q, s, d), k + 1, f)
<1>1. PICK x, y : x = c[s] /\ y = e[s]
  OBVIOUS
<1>2. PICK taken, kept : taken = Among(x, Chosen)[k] /\ kept = Among(x, Items \ Chosen)[k]
  OBVIOUS
<1>3. PICK taken2, kept2 : taken2 = Among(x, Chosen)[k + 1] /\ kept2 = Among(x, Items \ Chosen)[k + 1]
  OBVIOUS
<1>4. c \in [Heads -> Seq(Items)] /\ x \in Seq(Items) /\ c[d] \in Seq(Items)
  BY <1>1 DEF Shape
<1>5. PICK m \in Nat : m = Len(x) /\ k < m
  BY <1>1, <1>4, LenProperties
<1>6. k \in 0 .. m /\ k + 1 \in 1 .. m /\ (k + 1) - 1 = k
  BY <1>5
<1>7. PICK n : n = x[k + 1]
  OBVIOUS
<1>8. n \in Items
  BY <1>4, <1>5, <1>6, <1>7, LenProperties
<1>9. ASSUME NEW S
      PROVE  /\ Among(x, S)[k] \in Seq(Items)
             /\ Among(x, S)[k + 1] = IF n \in S THEN Append(Among(x, S)[k], n) ELSE Among(x, S)[k]
  <2>1. PICK f : f = Among(x, S)
    OBVIOUS
  <2>2. /\ \A j \in 0 .. m : f[j] \in Seq(Items)
        /\ \A j \in 1 .. m : f[j] = IF x[j] \in S THEN Append(f[j - 1], x[j]) ELSE f[j - 1]
    <3>1. x \in Seq(Items) /\ m = Len(x)
      BY <1>4, <1>5
    <3>2. \A j \in 0 .. m : f[j] \in Seq(Items)
      BY <2>1, <3>1, AmongSteps
    <3>3. \A j \in 1 .. m : f[j] = IF x[j] \in S THEN Append(f[j - 1], x[j]) ELSE f[j - 1]
      BY <2>1, <3>1, AmongSteps
    <3> QED BY <3>2, <3>3
  <2> QED BY <1>6, <1>7, <2>1, <2>2
<1>10. /\ taken \in Seq(Items) /\ taken2 = IF n \in Chosen THEN Append(taken, n) ELSE taken
       /\ kept \in Seq(Items) /\ kept2 = IF n \in Chosen THEN kept ELSE Append(kept, n)
  BY <1>2, <1>3, <1>8, <1>9
<1>11. PICK p : p = q.ring
  OBVIOUS
<1>12. /\ Shape(p, e, {}) /\ e[d] = Joint(c[d], taken) /\ Rest(y, kept, x, k)
       /\ \A g \in Heads : g # d /\ g # s => e[g] = c[g]
       /\ q.at = LastNode(s, kept)
  BY <1>1, <1>2, <1>11 DEF Selecting
<1>13. Chain(s, y) /\ Linked(p.next, s, y) /\ y \in Seq(Items) /\ IsInjective(y) /\ e \in [Heads -> Seq(Items)]
  BY <1>1, <1>12, ShapeChain DEF Shape
<1>14. PICK a \in Nat : a = Len(kept)
  BY <1>10, LenProperties
<1>15. a + 1 \in 1 .. Len(y) /\ y[a + 1] = n /\ Rest(RemoveFirst(y, n), kept, x, k + 1)
  <2>1. x \in Seq(Items) /\ y \in Seq(Items) /\ IsInjective(y) /\ kept \in Seq(Items) /\ k < Len(x) /\ Rest(y, kept, x, k)
    BY <1>4, <1>5, <1>10, <1>12, <1>13
  <2>2. /\ Len(kept) + 1 \in 1 .. Len(y) /\ y[Len(kept) + 1] = x[k + 1]
        /\ Rest(RemoveFirst(y, x[k + 1]), kept, x, k + 1)
    BY <2>1, RestTaken
  <2> QED BY <1>7, <1>14, <2>2
<1>16. p.next[q.at] = n /\ n # s
  <2>1. Len(y) \in Nat /\ Len(kept) <= Len(y) /\ Len(y) # Len(kept)
    BY <1>13, <1>14, <1>15, LenProperties
  <2>2. p.next[LastNode(s, kept)] = y[Len(kept) + 1]
    BY <1>10, <1>12, <1>13, <2>1, NextNode
  <2>3. n # s
    BY <1>8, ListAssumption
  <2> QED BY <1>12, <1>14, <1>15, <2>2, <2>3
<1>17. CASE n \in Chosen
  <2>1. PICK t : t = rlist_push_back(rlist_remove(p, n), d, n)
    OBVIOUS
  <2>2. SelectRound(q, s, d) = [ring |-> t, at |-> q.at]
    BY <1>11, <1>16, <1>17, <2>1 DEF SelectRound
  <2>3. PICK b : b = [e EXCEPT ![s] = RemoveFirst(y, n)]
    OBVIOUS
  <2>4. Shape(rlist_remove(p, n), b, {}) /\ Unlisted(b, n)
    <3>1. PICK i \in 1 .. Len(e[s]) : n = e[s][i]
      BY <1>1, <1>15
    <3> QED BY <1>1, <1>12, <2>3, <3>1, ShapeRemove
  <2>5. PICK f : f = [b EXCEPT ![d] = Append(b[d], n)]
    OBVIOUS
  <2>6. Shape(t, f, {})
    BY <1>8, <2>1, <2>4, <2>5, ShapePushBack
  <2>7. b \in [Heads -> Seq(Items)]
    BY <2>4 DEF Shape
  <2>8. /\ b[d] = e[d] /\ f[d] = Append(b[d], n) /\ f[s] = RemoveFirst(y, n)
        /\ \A g \in Heads : g # d /\ g # s => f[g] = e[g]
    BY <1>13, <2>3, <2>5, <2>7
  <2>9. f[d] = Joint(c[d], taken2)
    <3>1. taken2 = Append(taken, n) /\ c[d] \in Seq(Items) /\ taken \in Seq(Items) /\ f[d] = Append(e[d], n)
      BY <1>4, <1>10, <1>17, <2>8
    <3> QED BY <1>8, <1>12, <3>1, JointAppend
  <2>10. Selecting(c, d, s, [ring |-> t, at |-> q.at], k + 1, f)
    <3>1. kept2 = kept
      BY <1>10, <1>17
    <3>2. Rest(f[s], kept2, x, k + 1)
      BY <1>15, <2>8, <3>1
    <3>3. \A g \in Heads : g # d /\ g # s => f[g] = c[g]
      BY <1>12, <2>8
    <3>4. q.at = LastNode(s, kept2)
      BY <1>12, <3>1
    <3>5. PICK v : v = [ring |-> t, at |-> q.at]
      OBVIOUS
    <3>6. v.ring = t /\ v.at = q.at
      BY <3>5
    <3> QED BY <1>1, <1>3, <2>6, <2>9, <3>2, <3>3, <3>4, <3>5, <3>6 DEF Selecting
  <2> QED BY <2>2, <2>10
<1>18. CASE n \notin Chosen
  <2>1. SelectRound(q, s, d) = [ring |-> p, at |-> n]
    BY <1>11, <1>16, <1>18 DEF SelectRound
  <2>2. taken2 = taken /\ kept2 = Append(kept, n)
    BY <1>10, <1>18
  <2>3. Rest(y, kept2, x, k + 1)
    BY <1>4, <1>5, <1>7, <1>10, <1>12, <1>13, <2>2, RestKept
  <2>4. n = LastNode(s, kept2)
    <3>1. Len(kept2) = a + 1 /\ kept2[a + 1] = n
      BY <1>8, <1>10, <1>14, <2>2, AppendProperties
    <3> QED BY <3>1 DEF LastNode
  <2>5. PICK v : v = [ring |-> p, at |-> n]
    OBVIOUS
  <2>6. v.ring = p /\ v.at = n
    BY <2>5
  <2>7. Selecting(c, d, s, v, k + 1, e)
    BY <1>1, <1>3, <1>12, <2>2, <2>3, <2>4, <2>6 DEF Selecting
  <2> QED BY <2>1, <2>5, <2>7
<1> QED BY <1>17, <1>18

(* rlist_select.                                                           *)
LEMMA ShapeSelect ==
  ASSUME NEW r, NEW c, Shape(r, c, {}), NEW d \in Heads, NEW s \in Heads, d # s
  PROVE  Shape(rlist_select(r, s, d),
               [c EXCEPT ![d] = c[d] \o Only(c[s], Chosen), ![s] = Only(c[s], Items \ Chosen)], {})
<1>1. PICK x : x = c[s]
  OBVIOUS
<1>2. c \in [Heads -> Seq(Items)] /\ x \in Seq(Items) /\ c[d] \in Seq(Items) /\ Chain(s, x) /\ Sound(r)
      /\ s \in Nodes /\ d \in Nodes
  BY <1>1, ShapeChain DEF Shape, Nodes
<1>3. PICK m \in Nat, many \in Nat : m = Len(x) /\ many = Cardinality(Nodes) /\ m + 1 <= many
  <2>1. Len(x) \in Nat /\ Len(x) + 1 <= Cardinality(Nodes) /\ Cardinality(Nodes) \in Nat
    BY <1>2, ChainFits, LenProperties
  <2> QED BY <2>1
<1>4. PICK w : w = SelectRounds(r, s, d)
  OBVIOUS
<1>5. w[0] = [ring |-> r, at |-> s] /\ \A k \in 1 .. many : w[k] = SelectRound(w[k - 1], s, d)
  <2>1. /\ SelectRounds(r, s, d)[0] = [ring |-> r, at |-> s]
        /\ \A k \in 1 .. many : SelectRounds(r, s, d)[k] = SelectRound(SelectRounds(r, s, d)[k - 1], s, d)
    BY <1>2, <1>3, RoundSteps
  <2> QED BY <1>4, <2>1
<1> DEFINE T == {k \in 0 .. m : \E e : Selecting(c, d, s, w[k], k, e)}
<1>6. 0 \in T
  <2>1. Among(x, Chosen)[0] = << >> /\ Among(x, Items \ Chosen)[0] = << >>
    BY <1>2, <1>3, AmongSteps
  <2>2. c[d] = Joint(c[d], << >>)
    BY <1>2 DEF Joint
  <2>3. Rest(x, << >>, x, 0)
    <3>1. Len(<< >>) = 0 /\ m - 0 = m /\ 0 + m = m /\ 1 .. 0 = {} /\ \A j \in 1 .. m : 0 + j = j
      OBVIOUS
    <3> QED BY <1>3, <3>1 DEF Rest
  <2>4. w[0].ring = r /\ w[0].at = s
    BY <1>5
  <2>5. s = LastNode(s, << >>)
    BY DEF LastNode
  <2>6. Selecting(c, d, s, w[0], 0, c)
    BY <1>1, <2>1, <2>2, <2>3, <2>4, <2>5 DEF Selecting
  <2> QED BY <2>6
<1>7. ASSUME NEW n \in 0 .. m, n < m, n \in T PROVE n + 1 \in T
  <2>1. PICK e : Selecting(c, d, s, w[n], n, e)
    BY <1>7
  <2>2. n \in Nat /\ n + 1 \in 1 .. many /\ (n + 1) - 1 = n /\ n + 1 \in 0 .. m /\ n < Len(c[s])
    BY <1>1, <1>3, <1>7
  <2>3. \E f : Selecting(c, d, s, SelectRound(w[n], s, d), n + 1, f)
    BY <2>1, <2>2, SelectNext
  <2>4. w[n + 1] = SelectRound(w[n], s, d)
    BY <1>5, <2>2
  <2> QED BY <2>2, <2>3, <2>4
<1>8. PICK e : Selecting(c, d, s, w[m], m, e)
  <2>1. 0 .. m \subseteq T
    <3> HIDE DEF T
    <3> QED BY <1>6, <1>7, UpTo
  <2>2. m \in T
    BY <2>1
  <2> QED BY <2>2
<1>9. PICK q, kept : q = w[m] /\ kept = Among(x, Items \ Chosen)[m]
  OBVIOUS
<1>10. /\ Shape(q.ring, e, {}) /\ e[d] = Joint(c[d], Among(x, Chosen)[m]) /\ Rest(e[s], kept, x, Len(x))
       /\ \A g \in Heads : g # d /\ g # s => e[g] = c[g]
       /\ q.at = LastNode(s, kept)
  BY <1>1, <1>3, <1>8, <1>9 DEF Selecting
<1>11. kept \in Seq(Items)
  <2>1. m \in 0 .. m
    OBVIOUS
  <2> QED BY <1>2, <1>3, <1>9, <2>1, AmongSteps
<1>12. e[s] \in Seq(Items) /\ Linked(q.ring.next, s, e[s]) /\ e \in [Heads -> Seq(Items)]
  BY <1>10, ShapeChain DEF Shape
<1>13. e[s] = kept
  BY <1>2, <1>10, <1>11, <1>12, RestEnds
<1>14. q.ring.next[q.at] = s
  <2>1. Len(e[s]) \in Nat /\ Len(kept) <= Len(e[s])
    BY <1>11, <1>13, LenProperties
  <2> QED BY <1>10, <1>11, <1>12, <1>13, <2>1, NextNode
<1>15. SelectRound(q, s, d) = q
  BY <1>14 DEF SelectRound
<1>16. w[many] = q
  <2>1. PICK z \in Nat : z = many - m
    BY <1>3
  <2> DEFINE U == {k \in 0 .. z : w[m + k] = q}
  <2>2. 0 \in U
    BY <1>9
  <2>3. ASSUME NEW n \in 0 .. z, n < z, n \in U PROVE n + 1 \in U
    <3>1. m + (n + 1) \in 1 .. many /\ (m + (n + 1)) - 1 = m + n /\ n + 1 \in 0 .. z
      BY <1>3, <2>1, <2>3
    <3>2. w[m + (n + 1)] = SelectRound(w[m + n], s, d)
      BY <1>5, <3>1
    <3> QED BY <1>15, <2>3, <3>1, <3>2
  <2>4. 0 .. z \subseteq U
    <3> HIDE DEF U
    <3> QED BY <2>2, <2>3, UpTo
  <2>5. z \in U /\ m + z = many
    BY <1>3, <2>1, <2>4
  <2> QED BY <2>5
<1>17. PICK f : f = [c EXCEPT ![d] = c[d] \o Only(c[s], Chosen), ![s] = Only(c[s], Items \ Chosen)]
  OBVIOUS
<1>18. ASSUME NEW g \in Heads PROVE e[g] = f[g]
  <2>1. Only(c[s], Chosen) = Among(x, Chosen)[m] /\ Only(c[s], Items \ Chosen) = kept
    BY <1>1, <1>3, <1>9 DEF Only
  <2>2. f[d] = c[d] \o Among(x, Chosen)[m] /\ f[s] = kept
    BY <1>2, <1>17, <2>1
  <2>3. g # d /\ g # s => f[g] = c[g]
    BY <1>2, <1>17
  <2> QED BY <1>10, <1>13, <2>2, <2>3 DEF Joint
<1>19. e = [g \in Heads |-> e[g]] /\ f = [g \in Heads |-> f[g]]
  BY <1>2, <1>12, <1>17
<1>20. e = f
  BY <1>18, <1>19
<1>21. rlist_select(r, s, d) = q.ring
  BY <1>3, <1>4, <1>16 DEF rlist_select
<1> QED BY <1>10, <1>17, <1>20, <1>21

(* The lists are their contents, and what rlist_pop_back has left behind   *)
(* is one ring.                                                            *)
ListInv ==
  /\ Shape(ring, content, ToSet(adrift))
  /\ adrift \in Seq(Items) /\ IsInjective(adrift)
  /\ adrift # << >> => Linked(ring.next, adrift[1], Tail(adrift))

(* A node that points to itself is in no list.                             *)
LEMMA AloneUnlisted ==
  ASSUME NEW r, NEW c, NEW F, Shape(r, c, F), NEW n \in Items, r.next[n] = n
  PROVE  Unlisted(c, n)
<1> SUFFICES ASSUME NEW h \in Heads, n \in ToSet(c[h]) PROVE FALSE
  BY DEF Unlisted
<1>1. Chain(h, c[h]) /\ Linked(r.next, h, c[h])
  BY ShapeChain
<1>2. PICK s : s = c[h]
  OBVIOUS
<1>3. /\ Len(s) \in Nat /\ DOMAIN s = 1 .. Len(s)
      /\ \A k \in 1 .. Len(s) : s[k] # h
      /\ \A j, k \in 1 .. Len(s) : s[j] = s[k] => j = k
  BY <1>1, <1>2, ChainNodes
<1>4. PICK k \in 1 .. Len(s) : n = s[k]
  BY <1>2, <1>3 DEF ToSet
<1>5. CASE k = Len(s)
  BY <1>1, <1>2, <1>3, <1>4, <1>5 DEF Linked
<1>6. CASE k # Len(s)
  <2>1. k + 1 \in 1 .. Len(s) /\ k + 1 # k
    <3>1. Len(s) \in Nat
      BY <1>3
    <3> QED BY <1>6, <3>1
  <2>2. s[k] = s[k + 1]
    BY <1>1, <1>2, <1>4, <1>6 DEF Linked
  <2> QED BY <1>3, <2>1, <2>2
<1> QED BY <1>5, <1>6

(* At the start all nodes are alone.                                       *)
LEMMA ListsStart == ListInit => ListInv
<1> SUFFICES ASSUME ListInit PROVE ListInv
  OBVIOUS
<1>1. << >> \in Seq(Items) /\ IsInjective(<< >>) /\ ToSet(<< >>) = {}
  BY EmptyOnce
<1>2. \A n \in Nodes : ring.next[n] = n /\ ring.prev[n] = n
  BY DEF ListInit
<1>3. Sound(ring)
  BY DEF ListInit, Sound
<1>4. \A h \in Heads : content[h] = << >> /\ Linked(ring.next, h, << >>)
  BY <1>2 DEF ListInit, Linked, Nodes
<1>5. content \in [Heads -> Seq(Items)]
  BY <1>1 DEF ListInit
<1>6. Shape(ring, content, {})
  BY <1>1, <1>2, <1>3, <1>4, <1>5 DEF Shape, Nodes
<1> QED BY <1>1, <1>6 DEF ListInv, ListInit

(* A step that leaves no ring without a head.                              *)
LEMMA ListsDo ==
  ASSUME adrift = << >>, NEW r, NEW c, ring' = r, content' = c, adrift' = adrift, Shape(r, c, {})
  PROVE  ListInv'
<1>1. << >> \in Seq(Items) /\ IsInjective(<< >>) /\ ToSet(<< >>) = {}
  BY EmptyOnce
<1> QED BY <1>1 DEF ListInv

(* Every operation keeps the lists.                                        *)
LEMMA ListsStep ==
  ASSUME ListInv, ListNext
  PROVE  ListInv'
<1>0. /\ Shape(ring, content, ToSet(adrift)) /\ content \in [Heads -> Seq(Items)]
      /\ (adrift = << >> => Shape(ring, content, {}))
  BY EmptyOnce DEF ListInv, Shape
<1>1. ASSUME NEW h \in Heads, NEW n \in Items, Push(h, n) PROVE ListInv'
  <2>1. adrift = << >> /\ Shape(ring, content, {}) /\ Unlisted(content, n)
    BY <1>0, <1>1, AloneUnlisted DEF Push, Do, Free
  <2>2. CASE Do(rlist_push_front(ring, h, n), [content EXCEPT ![h] = <<n>> \o @])
    BY <2>1, <2>2, ShapePushFront, ListsDo DEF Do
  <2>3. CASE Do(rlist_push_back(ring, h, n), [content EXCEPT ![h] = Append(@, n)])
    BY <2>1, <2>3, ShapePushBack, ListsDo DEF Do
  <2> QED BY <1>1, <2>2, <2>3 DEF Push
<1>2. ASSUME NEW h \in Heads, Pop(h) PROVE ListInv'
  <2>1. adrift = << >> /\ Shape(ring, content, {}) /\ Len(content[h]) # 0
    BY <1>0, <1>2, EmptyList DEF Pop, Do
  <2> QED BY <1>2, <2>1, ShapePop, ListsDo DEF Pop, Do
<1>3. ASSUME NEW h \in Heads, PopBack(h) PROVE ListInv'
  <2>1. adrift = << >> /\ Shape(ring, content, {}) /\ Len(content[h]) # 0
    BY <1>0, <1>3, EmptyList DEF PopBack
  <2>2. adrift' = Left(content[h]) /\ ring' = rlist_pop_back(ring, h) /\ content' = [content EXCEPT ![h] = << >>]
    BY <1>3 DEF PopBack, Left
  <2>3. PICK q, c, a : q = rlist_pop_back(ring, h) /\ c = [content EXCEPT ![h] = << >>] /\ a = Left(content[h])
    OBVIOUS
  <2>4. Shape(q, c, ToSet(a)) /\ (a # << >> => Linked(q.next, a[1], Tail(a))) /\ a \in Seq(Items) /\ IsInjective(a)
    BY <2>1, <2>3, ShapePopBack
  <2> QED BY <2>2, <2>3, <2>4 DEF ListInv
<1>4. ASSUME NEW h \in Heads, Turn(h) PROVE ListInv'
  BY <1>0, <1>4, ShapeReverse, ListsDo DEF Turn, Do
<1>5. ASSUME NEW n \in Items, RemoveItem(n) PROVE ListInv'
  BY <1>0, <1>5, ShapeRemoveItem, ListsDo DEF RemoveItem, Do
<1>6. ASSUME NEW d \in Heads, NEW s \in Heads, Move(d, s) PROVE ListInv'
  <2>1. d # s /\ adrift = << >> /\ Shape(ring, content, {})
    BY <1>0, <1>6 DEF Move, Do
  <2>2. CASE Do(rlist_append(ring, d, s), [content EXCEPT ![d] = @ \o content[s], ![s] = <<>>])
    BY <2>1, <2>2, ShapeAppend, ListsDo DEF Do
  <2>3. CASE Do(rlist_prepend(ring, d, s), [content EXCEPT ![d] = content[s] \o @, ![s] = <<>>])
    BY <2>1, <2>3, ShapePrepend, ListsDo DEF Do
  <2>4. CASE Do(rlist_select(ring, s, d),
           [content EXCEPT ![d] = @ \o Only(content[s], Chosen), ![s] = Only(@, Items \ Chosen)])
    <3>1. PICK c : c = [content EXCEPT ![d] = content[d] \o Only(content[s], Chosen),
                                       ![s] = Only(content[s], Items \ Chosen)]
      OBVIOUS
    <3>2. content' = c
      BY <1>0, <2>1, <2>4, <3>1 DEF Do
    <3>3. Shape(rlist_select(ring, s, d), c, {})
      BY <2>1, <3>1, ShapeSelect
    <3> QED BY <2>1, <2>4, <3>2, <3>3, ListsDo DEF Do
  <2> QED BY <1>6, <2>2, <2>3, <2>4 DEF Move
<1>7. ASSUME Renew PROVE ListInv'
  <2>1. /\ adrift \in Seq(Items) /\ IsInjective(adrift) /\ adrift # << >>
        /\ Linked(ring.next, adrift[1], Tail(adrift)) /\ Shape(ring, content, ToSet(adrift))
    BY <1>7 DEF ListInv, Renew
  <2>2. Shape(Renewed(ring, ToSet(adrift)), content, {})
    BY <2>1, ShapeRenew
  <2>3. {adrift[k] : k \in 1 .. Len(adrift)} = ToSet(adrift)
    BY <2>1, LenProperties DEF ToSet
  <2>4. ring' = Renewed(ring, ToSet(adrift)) /\ content' = content /\ adrift' = << >>
    BY <1>7, <2>3 DEF Renew, Renewed
  <2>5. << >> \in Seq(Items) /\ IsInjective(<< >>) /\ ToSet(<< >>) = {}
    BY EmptyOnce
  <2>6. Shape(ring', content', ToSet(adrift'))
    BY <2>2, <2>4, <2>5
  <2> QED BY <2>4, <2>5, <2>6 DEF ListInv
<1> QED BY <1>1, <1>2, <1>3, <1>4, <1>5, <1>6, <1>7 DEF ListNext

(* The pointers are what the header promises.                              *)
LEMMA ListsAre == ListInv => ListInvariant
<1> SUFFICES ASSUME ListInv PROVE ListInvariant
  OBVIOUS
<1>1. Shape(ring, content, ToSet(adrift)) /\ Sound(ring) /\ ring.next \in [Nodes -> Nodes]
  BY DEF ListInv, Shape, Sound
<1>2. \A h \in Heads : ListOf(ring, h) = content[h]
  BY <1>1, ShapeChain, ListIs
<1>3. \A n \in Nodes : ring.prev[ring.next[n]] = n
  BY <1>1 DEF Sound
<1>4. ASSUME NEW n \in Items
      PROVE  \/ \E h \in Heads : \E k \in 1 .. Len(content[h]) : content[h][k] = n
             \/ \E k \in 1 .. Len(adrift) : adrift[k] = n
             \/ Free(n)
  <2>1. CASE n \in ToSet(adrift)
    <3>1. DOMAIN adrift = 1 .. Len(adrift)
      BY LenProperties DEF ListInv
    <3> QED BY <2>1, <3>1 DEF ToSet
  <2>2. CASE \E h \in Heads : n \in ToSet(content[h])
    <3>1. PICK h \in Heads : n \in ToSet(content[h])
      BY <2>2
    <3>2. DOMAIN content[h] = 1 .. Len(content[h])
      BY <1>1, LenProperties DEF Shape
    <3> QED BY <3>1, <3>2 DEF ToSet
  <2>3. CASE n \notin ToSet(adrift) /\ \A h \in Heads : n \notin ToSet(content[h])
    BY <1>1, <2>3 DEF Shape, Free
  <2> QED BY <2>1, <2>2, <2>3
<1>5. ASSUME adrift # << >> PROVE ListOf(ring, adrift[1]) = Tail(adrift)
  <2>1. adrift \in Seq(Items) /\ IsInjective(adrift) /\ Linked(ring.next, adrift[1], Tail(adrift))
    BY <1>5 DEF ListInv
  <2>2. Chain(adrift[1], Tail(adrift))
    BY <1>5, <2>1, TailChain
  <2> QED BY <1>1, <2>1, <2>2, ListIs
<1> QED BY <1>2, <1>3, <1>4, <1>5 DEF ListInvariant

(* A step of the machine is an operation on the lists or leaves them       *)
(* alone.                                                                  *)
LEMMA ListsMove ==
  ASSUME [Next]_vars
  PROVE  [ListNext]_listVars
  BY Zenon DEF Next, Start, NotSymposium, NotServer, NotShell, NotInit, NotBarrier, NotRunner, NotTerminal,
       NotLists, NotExceptions, KidBegins, RunProgram, ServerInputEnds, ProgramReturns, KidExits, vars, bootVars, testVars

(* Every step keeps the inductive invariant of the lists.                  *)
LEMMA ListInvStep ==
  ASSUME ListInv, [ListNext]_listVars
  PROVE  ListInv'
<1>1. CASE ListNext
  BY <1>1, ListsStep
<1>2. CASE UNCHANGED listVars
  BY <1>2, Zenon DEF listVars, ListInv
<1> QED BY <1>1, <1>2

(* However many nodes and lists there are, and whatever the operations     *)
(* done: a loop over a list meets its nodes in their order and ends at the *)
(* head, the prev pointers are the inverse of the next pointers, and a     *)
(* node that was removed, popped or renewed is a ring by itself.           *)
THEOREM ListsSafe == Spec => []ListInvariant
<1>1. Init => ListInv
  BY ListsStart DEF Init
<1>2. ListInv /\ [Next]_vars => ListInv'
  BY ListsMove, ListInvStep
<1> QED BY <1>1, <1>2, ListsAre, PTL DEF Spec
=============================================================================
