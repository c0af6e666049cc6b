----------------------------- MODULE Symposium ------------------------------
(***************************************************************************)
(* The dining philosophers (symposium.c): a monitor with one mutex and one *)
(* condition variable for each philosopher, and the process that starts    *)
(* the philosophers, waits for them and destroys their table.              *)
(*                                                                         *)
(* What happens under the mutex between two waits is one step.  Cond_Wait  *)
(* and Cond_Signal are those of KernelCC: a signal finds the sleeper.      *)
(***************************************************************************)
EXTENDS Integers, FiniteSets

CONSTANTS
  N,           \* philosophers
  Bites,
  MaxChildren  \* PCBs left for the philosophers, when they are processes

ASSUME SymposiumAssumption == N \in Nat \ {0} /\ Bites \in Nat /\ MaxChildren \in Nat

Phils == 0 .. N - 1

VARIABLES
  kind,        \* SymposiumOfThreads or SymposiumOfProcesses
  host,        \* where the process that runs the symposium is
  phil,        \* where each philosopher is
  state,       \* the table: what each philosopher does
  bites,       \* the bites each has still to take
  hungry,      \* those asleep on their condition variable
  waited       \* those whose end the host has waited for

symposiumVars == <<kind, host, phil, state, bites, hungry, waited>>

SymposiumTypeOK ==
  /\ kind \in {"threads", "processes"}
  /\ host \in [at : {"off", "start", "wait", "destroyed"}, i : 0 .. N]
  /\ phil \in [Phils -> {"absent", "arrives", "thinks", "waits", "eats", "leaves", "gone"}]
  /\ state \in [Phils -> {"NOTHERE", "THINKING", "HUNGRY", "EATING"}]
  /\ bites \in [Phils -> 0 .. Bites]
  /\ hungry \subseteq Phils /\ waited \subseteq Phils

SymposiumInit ==
  /\ kind = "threads"
  /\ host = [at |-> "off", i |-> 0]
  /\ phil = [i \in Phils |-> "absent"]
  /\ state = [i \in Phils |-> "NOTHERE"]
  /\ bites = [i \in Phils |-> Bites]
  /\ hungry = {} /\ waited = {}

-----------------------------------------------------------------------------
(* Mutants.                                                                *)
TryLeftOnly(s, i)   == s[i] = "HUNGRY" /\ s[(i + 1) % N] # "EATING"
TryNobody(s, i)     == s

-----------------------------------------------------------------------------
LEFT(i)  == (i + 1) % N
RIGHT(i) == (i + N - 1) % N

MayEat(s, i) == s[i] = "HUNGRY" /\ s[LEFT(i)] # "EATING" /\ s[RIGHT(i)] # "EATING"

(* trytoeat: the table after it.  It signals i exactly if it let i eat.    *)
trytoeat(s, i) == IF MayEat(s, i) THEN [s EXCEPT ![i] = "EATING"] ELSE s

(* Both neighbours of a philosopher who puts down the forks.               *)
TryNeighbours(s, i) == trytoeat(trytoeat(s, LEFT(i)), RIGHT(i))

(* Cond_Signal in trytoeat, for those who have begun to eat.               *)
Signalled == {j \in Phils : state[j] # "EATING" /\ state'[j] = "EATING"}

Arrive(i) ==
  /\ phil[i] = "arrives"
  /\ state' = [state EXCEPT ![i] = "THINKING"]
  /\ phil' = [phil EXCEPT ![i] = IF Bites > 0 THEN "thinks" ELSE "leaves"]
  /\ UNCHANGED <<kind, host, bites, hungry, waited>>

(* After think(): hungry, and asleep until a neighbour lets the            *)
(* philosopher eat, unless it can eat at once.                             *)
GetHungry(i) ==
  /\ phil[i] = "thinks"
  /\ state' = trytoeat([state EXCEPT ![i] = "HUNGRY"], i)
  /\ \/ state'[i] = "EATING" /\ phil' = [phil EXCEPT ![i] = "eats"] /\ UNCHANGED hungry
     \/ state'[i] # "EATING" /\ phil' = [phil EXCEPT ![i] = "waits"] /\ hungry' = hungry \cup {i}
  /\ UNCHANGED <<kind, host, bites, waited>>

(* Cond_Wait returns: the loop tests the state again.                      *)
WakeUp(i) ==
  /\ phil[i] = "waits" /\ i \notin hungry
  /\ phil' = [phil EXCEPT ![i] = IF state[i] = "HUNGRY" THEN "waits" ELSE "eats"]
  /\ hungry' = IF state[i] = "HUNGRY" THEN hungry \cup {i} ELSE hungry
  /\ UNCHANGED <<kind, host, state, bites, waited>>

(* After eat(): the forks are put down, and both neighbours may take them. *)
StopEating(i) ==
  /\ phil[i] = "eats"
  /\ state' = TryNeighbours([state EXCEPT ![i] = "THINKING"], i)
  /\ hungry' = hungry \ Signalled
  /\ bites' = [bites EXCEPT ![i] = @ - 1]
  /\ phil' = [phil EXCEPT ![i] = IF bites[i] > 1 THEN "thinks" ELSE "leaves"]
  /\ UNCHANGED <<kind, host, waited>>

Leave(i) ==
  /\ phil[i] = "leaves"
  /\ state' = [state EXCEPT ![i] = "NOTHERE"]
  /\ phil' = [phil EXCEPT ![i] = "gone"]
  /\ UNCHANGED <<kind, host, bites, hungry, waited>>

SymposiumTable_philosopher(i) ==
  Arrive(i) \/ GetHungry(i) \/ WakeUp(i) \/ StopEating(i) \/ Leave(i)

-----------------------------------------------------------------------------
(* The host: SymposiumOfThreads and SymposiumOfProcesses.                  *)

Children == {i \in Phils : phil[i] # "absent"} \ waited

HostStep ==
  IF host.i + 1 < N THEN [host EXCEPT !.i = @ + 1]
  ELSE [at |-> IF host.at = "start" THEN "wait" ELSE "destroyed", i |-> 0]

(* The program is started, with the table empty.                           *)
SymposiumStarts(k) ==
  /\ host.at = "off"
  /\ host' = [host EXCEPT !.at = "start"] /\ kind' = k
  /\ UNCHANGED <<phil, state, bites, hungry, waited>>

(* CreateThread, or Exec, which fails without a free PCB.                  *)
StartPhilosopher ==
  /\ host.at = "start"
  /\ phil' = [phil EXCEPT ![host.i] =
                IF kind = "threads" \/ Cardinality(Children) < MaxChildren
                THEN "arrives" ELSE "absent"]
  /\ host' = HostStep
  /\ UNCHANGED <<kind, state, bites, hungry, waited>>

(* ThreadJoin takes the threads in their order.                            *)
JoinPhilosopher ==
  /\ host.at = "wait" /\ kind = "threads"
  /\ phil[host.i] = "gone"
  /\ waited' = waited \cup {host.i}
  /\ host' = HostStep
  /\ UNCHANGED <<kind, phil, state, bites, hungry>>

(* WaitChild(NOPROC) takes any that has ended, and fails at once when no   *)
(* child is left.                                                          *)
WaitPhilosopher ==
  /\ host.at = "wait" /\ kind = "processes"
  /\ \/ \E i \in Children : phil[i] = "gone" /\ waited' = waited \cup {i}
     \/ Children = {} /\ UNCHANGED waited
  /\ host' = HostStep
  /\ UNCHANGED <<kind, phil, state, bites, hungry>>

SymposiumNext ==
  \/ StartPhilosopher \/ JoinPhilosopher \/ WaitPhilosopher
  \/ \E i \in Phils : SymposiumTable_philosopher(i)

(* Every thread is scheduled, and gets the mutex in the end: it is held    *)
(* for a bounded time, and each philosopher takes it a bounded number of   *)
(* times.                                                                  *)
SymposiumFairness ==
  /\ WF_symposiumVars(StartPhilosopher \/ JoinPhilosopher \/ WaitPhilosopher)
  /\ \A i \in Phils : WF_symposiumVars(SymposiumTable_philosopher(i))

-----------------------------------------------------------------------------
(* The monitor works: neighbours never eat at the same time, the assertion *)
(* before eat() holds, and whoever sleeps hungry has a neighbour who eats  *)
(* and will look at it: nobody waits for a signal that is over.  The host  *)
(* destroys the table only after the last philosopher has left it, also    *)
(* when some could not be started.                                         *)
TableInvariant ==
  /\ SymposiumTypeOK
  /\ \A i \in Phils : LEFT(i) # i => ~ (state[i] = "EATING" /\ state[LEFT(i)] = "EATING")
  /\ \A i \in Phils : phil[i] = "eats" => state[i] = "EATING"
  /\ \A i \in hungry :
       state[i] = "HUNGRY" /\ "EATING" \in {state[LEFT(i)], state[RIGHT(i)]}
  /\ host.at = "destroyed" => \A i \in Phils : phil[i] \in {"absent", "gone"}

(* Not over yet, though everybody came to eat and to leave.                *)
SymposiumGoesOn == host.at \in {"start", "wait"}
=============================================================================
