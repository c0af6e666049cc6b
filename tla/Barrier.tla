------------------------------ MODULE Barrier -------------------------------
(***************************************************************************)
(* BarrierSync (tinyoslib.c): threads that go through the same barrier     *)
(* again and again.  A thread that comes last in a round opens the barrier *)
(* for the round and leaves at once; it may be back at the barrier before  *)
(* the others have woken.  The epoch is an unsigned counter that wraps.    *)
(***************************************************************************)
EXTENDS Integers, FiniteSets

CONSTANTS
  Members,     \* the threads that synchronise
  Rounds,      \* how often each calls BarrierSync
  EPOCHS       \* values of the epoch counter before it wraps

ASSUME BarrierAssumption ==
  /\ IsFiniteSet(Members) /\ Members # {}
  /\ Rounds \in Nat
  /\ EPOCHS \in Nat /\ EPOCHS >= 2

VARIABLES
  count,       \* bar->count
  epoch,       \* bar->epoch
  asleep,      \* threads on bar->cv
  member       \* each thread: inside BarrierSync or not, the epoch it read,
               \* and how many calls it has made and left

barrierVars == <<count, epoch, asleep, member>>

Parties == Cardinality(Members)

BarrierTypeOK ==
  /\ count \in 0 .. Parties - 1
  /\ epoch \in 0 .. EPOCHS - 1
  /\ asleep \subseteq Members
  /\ member \in [Members -> [inside : BOOLEAN, epoch : 0 .. EPOCHS - 1,
                             calls : 0 .. Rounds, left : 0 .. Rounds]]

BarrierInit ==
  /\ count = 0 /\ epoch = 0 /\ asleep = {}
  /\ member = [m \in Members |-> [inside |-> FALSE, epoch |-> 0, calls |-> Rounds, left |-> Rounds]]

-----------------------------------------------------------------------------
(* Mutants.                                                                *)
OpenKeepsCount    == count' = count /\ epoch' = (epoch + 1) % EPOCHS
MustWaitForCount(m)  == count > 0

-----------------------------------------------------------------------------
(* The threads begin, with Rounds calls of BarrierSync each to make.       *)
BarrierStarts ==
  /\ \A m \in Members : member[m].calls = Rounds
  /\ member' = [m \in Members |-> [inside |-> FALSE, epoch |-> 0, calls |-> 0, left |-> 0]]
  /\ UNCHANGED <<count, epoch, asleep>>

(* The last to come starts the next epoch, with nobody at the barrier.     *)
OpenBarrier == count' = 0 /\ epoch' = (epoch + 1) % EPOCHS

(* Lock the mutex and read the epoch.  The last thread wakes the others    *)
(* and returns; another one waits.                                         *)
ArriveAtBarrier(m) ==
  /\ ~ member[m].inside /\ member[m].calls < Rounds
  /\ \/ /\ count + 1 = Parties
        /\ OpenBarrier
        /\ asleep' = {}
        /\ member' = [member EXCEPT ![m].calls = @ + 1, ![m].left = @ + 1]
     \/ /\ count + 1 # Parties
        /\ count' = count + 1 /\ UNCHANGED epoch
        /\ asleep' = asleep \cup {m}
        /\ member' = [member EXCEPT ![m].calls = @ + 1, ![m].inside = TRUE, ![m].epoch = epoch]

(* The condition of the loop around Cond_Wait.                             *)
MustWait(m) == member[m].epoch = epoch

(* Cond_Wait has returned, with the mutex.                                 *)
WakeAtBarrier(m) ==
  /\ member[m].inside /\ m \notin asleep
  /\ asleep' = IF MustWait(m) THEN asleep \cup {m} ELSE asleep
  /\ member' = IF MustWait(m) THEN member ELSE [member EXCEPT ![m].inside = FALSE, ![m].left = @ + 1]
  /\ UNCHANGED <<count, epoch>>

BarrierStep(m) == ArriveAtBarrier(m) \/ WakeAtBarrier(m)
BarrierNext == \E m \in Members : BarrierStep(m)

(* Every thread is scheduled and gets the mutex in the end.                *)
BarrierFairness == \A m \in Members : WF_barrierVars(BarrierStep(m))

-----------------------------------------------------------------------------
(* BarrierSync separates the rounds: a thread has left round r only if     *)
(* every thread has come to it; its assertion count < n holds; and who     *)
(* sleeps at the barrier is one of the count threads of this epoch, so the *)
(* broadcast that ends the epoch is still to come, wrapped or not.         *)
BarrierInvariant ==
  /\ BarrierTypeOK
  /\ \A m, k \in Members : member[m].left <= member[k].calls
  /\ \A m \in asleep : MustWait(m)
  /\ count = Cardinality({m \in Members : member[m].inside /\ MustWait(m)})

(* Some thread has rounds to go.                                           *)
BarrierGoesOn == \E m \in Members : member[m].left < Rounds
=============================================================================
