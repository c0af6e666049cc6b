-------------------------------- MODULE Proc --------------------------------
(***************************************************************************)
(* Processes and their threads: the process table, Exec, Exit, WaitChild   *)
(* (kernel_proc.c), CreateThread, ThreadJoin, ThreadDetach and ThreadExit  *)
(* (kernel_threads.c), and the process listing (OpenInfo).                 *)
(*                                                                         *)
(* A system call holds the kernel lock from its start to its return or to  *)
(* a kernel_wait (module KernelMonitor), so that stretch is one action.  A *)
(* thread that kernel_wait has put to sleep is woken up by a broadcast and *)
(* goes through its loop again when it gets the kernel lock, maybe much    *)
(* later.  The file tables that Exec copies and the last ThreadExit closes *)
(* are in module Streams; exit values are left out, no decision is made on *)
(* them.                                                                   *)
(***************************************************************************)
EXTENDS Integers, FiniteSets, SequencesExt

CONSTANTS
  MAX_PROC,                \* size of the process table
  Tids,                    \* addresses of PTCBs
  OneReaperPerChild,       \* TRUE: programs never let two threads wait for one child
  LastInitThreadCallsExit, \* TRUE: the last thread of init leaves through Exit
  Listing,                 \* TRUE: some process reads an information stream
  NULL

ASSUME ProcAssumption ==
  /\ MAX_PROC \in Nat /\ MAX_PROC >= 3
  /\ IsFiniteSet(Tids)
  /\ NULL \notin Tids \cup 0 .. MAX_PROC
  /\ OneReaperPerChild \in BOOLEAN /\ LastInitThreadCallsExit \in BOOLEAN
  /\ Listing \in BOOLEAN

VARIABLES
  pstate,         \* PT[p].pstate
  parent,         \* PT[p].parent, also the link of the free list
  pcb_freelist,
  process_count,
  children_list,
  exited_list,
  thread_count,
  ptcb_list,
  owner,          \* the process of a thread; NULL for memory that is not a PTCB
  exited,         \* the flags of the PTCB
  detached,
  refcount,
  call,           \* the system call the thread is in
  PT_cursor,      \* the cursor of the information stream, NULL when not open
  reported        \* the pids read from the stream, in order

pcbVars  == <<pstate, parent, pcb_freelist, process_count, children_list, exited_list>>
ptcbVars == <<thread_count, ptcb_list, owner, exited, detached, refcount>>
infoVars == <<PT_cursor, reported>>
vars == <<pcbVars, ptcbVars, call, infoVars>>

Pids == 0 .. (MAX_PROC - 1)

(* op is the loop a blocked thread is in: wait_for_specific_child,         *)
(* wait_for_any_child, the loop of sys_Exit in init, or ThreadJoin; arg is *)
(* the child or thread it waits for.                                       *)
Calls == [op : {"none", "waitpid", "waitany", "exit", "join"},
          arg : Pids \cup Tids \cup {NULL}, asleep : BOOLEAN]

NoCall == [op |-> "none", arg |-> NULL, asleep |-> FALSE]

TypeOK ==
  /\ pstate \in [Pids -> {"FREE", "ALIVE", "ZOMBIE"}]
  /\ parent \in [Pids -> Pids \cup {NULL}]
  /\ pcb_freelist \in Pids \cup {NULL}
  /\ process_count \in 0 .. MAX_PROC
  /\ children_list \in [Pids -> Seq(Pids)]
  /\ exited_list \in [Pids -> Seq(Pids)]
  /\ thread_count \in [Pids -> Nat]
  /\ ptcb_list \in [Pids -> Seq(Tids)]
  /\ owner \in [Tids -> Pids \cup {NULL}]
  /\ exited \in [Tids -> BOOLEAN]
  /\ detached \in [Tids -> BOOLEAN]
  /\ refcount \in [Tids -> Nat]
  /\ call \in [Tids -> Calls]
  /\ PT_cursor \in 0 .. MAX_PROC \cup {NULL}
  /\ reported \in Seq(Pids)

(* After the boot: pid 0 is the scheduler process without a thread, pid 1  *)
(* is init with its main thread, the others are on the free list.          *)
Init ==
  \E t0 \in Tids :
    /\ pstate = [p \in Pids |-> IF p <= 1 THEN "ALIVE" ELSE "FREE"]
    /\ parent = [p \in Pids |-> IF p <= 1 \/ p = MAX_PROC - 1 THEN NULL ELSE p + 1]
    /\ pcb_freelist = 2
    /\ process_count = 2
    /\ children_list = [p \in Pids |-> << >>]
    /\ exited_list = [p \in Pids |-> << >>]
    /\ thread_count = [p \in Pids |-> IF p = 1 THEN 1 ELSE 0]
    /\ ptcb_list = [p \in Pids |-> IF p = 1 THEN <<t0>> ELSE << >>]
    /\ owner = [t \in Tids |-> IF t = t0 THEN 1 ELSE NULL]
    /\ exited = [t \in Tids |-> FALSE]
    /\ detached = [t \in Tids |-> FALSE]
    /\ refcount = [t \in Tids |-> 0]
    /\ call = [t \in Tids |-> NoCall]
    /\ PT_cursor = NULL
    /\ reported = << >>

-----------------------------------------------------------------------------
Alive(t)   == owner[t] # NULL /\ ~ exited[t]
Running(t) == Alive(t) /\ call[t].op = "none"
Resumed(t, op) == Alive(t) /\ call[t].op = op /\ ~ call[t].asleep

(* rlist_remove of each node in zs: the list s without them.               *)
Unlink(s, zs) ==
  LET left[n \in 0 .. Len(s)] ==
        IF n = 0 THEN << >>
        ELSE IF s[n] \in zs THEN left[n - 1] ELSE Append(left[n - 1], s[n])
  IN left[Len(s)]

Without(lists, zs) == [q \in Pids |-> Unlink(lists[q], zs)]

(* kernel_broadcast: the sleepers of a condition wake up.                  *)
Awake(sleepers) ==
  [u \in Tids |-> IF u \in sleepers THEN [call[u] EXCEPT !.asleep = FALSE] ELSE call[u]]

OnExitCv(x)    == {u \in Tids : owner[u] # NULL /\ call[u].op = "join" /\ call[u].arg = x}
OnChildExit(p) == {u \in Tids : owner[u] = p /\ call[u].op \in {"waitpid", "waitany", "exit"}}

(* Some thread of t's process other than t is in WaitChild or, in init, in *)
(* Exit; with specific, only those in WaitChild for one child.             *)
OtherReaper(t, specific) ==
  \E u \in Tids \ {t} :
    /\ u \in OnChildExit(owner[t])
    /\ specific => call[u].op = "waitpid"

-----------------------------------------------------------------------------
(* PCB and PTCB allocation.                                                *)

(* Mutant: the new PCB is taken and stays at the head of the free list.    *)
AcquireKeepsHead(p) ==
  /\ pcb_freelist = p
  /\ pstate' = [pstate EXCEPT ![p] = "ALIVE"]
  /\ process_count' = process_count + 1
  /\ UNCHANGED pcb_freelist

acquire_PCB(p) ==
  /\ pcb_freelist = p
  /\ pstate' = [pstate EXCEPT ![p] = "ALIVE"]
  /\ pcb_freelist' = parent[p]
  /\ process_count' = process_count + 1

Freed(zs) == [p \in Pids |-> IF Contains(zs, p) THEN "FREE" ELSE pstate[p]]

(* cleanup_zombie of each pid of zs in turn, but for pstate: out of the    *)
(* parent's lists and back to the head of the free list.                   *)
Recycle(zs) ==
  /\ parent' = [p \in Pids |->
                  IF ~ Contains(zs, p) THEN parent[p]
                  ELSE IF p = zs[1] THEN pcb_freelist
                  ELSE CHOOSE q \in Pids : \E i \in 2 .. Len(zs) : zs[i] = p /\ zs[i - 1] = q]
  /\ pcb_freelist' = IF zs = << >> THEN pcb_freelist ELSE Last(zs)
  /\ process_count' = process_count - Len(zs)
  /\ children_list' = Without(children_list, ToSet(zs))
  /\ exited_list' = Without(exited_list, ToSet(zs))

cleanup_zombie(c) == pstate' = Freed(<<c>>) /\ Recycle(<<c>>)

(* The memory of a new PTCB; the threads in lost lose theirs, because the  *)
(* list that held them is initialised again.                               *)
new_ptcb(x, p, lost) ==
  /\ owner[x] = NULL
  /\ owner' = [u \in Tids |-> IF u = x THEN p ELSE IF u \in lost THEN NULL ELSE owner[u]]
  /\ exited' = [exited EXCEPT ![x] = FALSE]
  /\ detached' = [detached EXCEPT ![x] = FALSE]
  /\ refcount' = [refcount EXCEPT ![x] = 0]

-----------------------------------------------------------------------------
(* Exec and CreateThread.  With no free PCB Exec returns NOPROC and does   *)
(* nothing.  Exec of a NULL task makes a process without a thread; only    *)
(* initialize_processes calls it so, for the idle process, which Init has: *)
(* that programs name a task is a contract (such a child would never end). *)
Exec(t, p, x) ==
  /\ Running(t)
  /\ acquire_PCB(p)
  /\ parent' = [parent EXCEPT ![p] = owner[t]]
  /\ children_list' = [children_list EXCEPT ![owner[t]] = Cons(p, @)]
  /\ new_ptcb(x, p, ToSet(ptcb_list[p]))
  /\ ptcb_list' = [ptcb_list EXCEPT ![p] = <<x>>]
  /\ thread_count' = [thread_count EXCEPT ![p] = 1]
  /\ UNCHANGED <<exited_list, call, infoVars>>

(* Mutant: the new thread is not counted.                                  *)
CountNothing(p) == UNCHANGED thread_count

CountThread(p) == thread_count' = [thread_count EXCEPT ![p] = @ + 1]

CreateThread(t, x) ==
  LET p == owner[t] IN
  /\ Running(t)
  /\ new_ptcb(x, p, {})
  /\ ptcb_list' = [ptcb_list EXCEPT ![p] = Append(@, x)]
  /\ CountThread(p)
  /\ UNCHANGED <<pcbVars, call, infoVars>>

-----------------------------------------------------------------------------
(* WaitChild.                                                              *)

(* The loop of wait_for_specific_child and what follows it.                *)
WaitSpecificLoop(t, c) ==
  \/ /\ pstate[c] = "ALIVE"
     /\ call' = [call EXCEPT ![t] = [op |-> "waitpid", arg |-> c, asleep |-> TRUE]]
     /\ UNCHANGED pcbVars
  \/ /\ pstate[c] # "ALIVE"
     /\ cleanup_zombie(c)
     /\ call' = [call EXCEPT ![t] = NoCall]

(* Mutant: any process can be waited for.                                  *)
AnyPid(t, c) == pstate[c] # "FREE" /\ c > 1

(* The legality checks.                                                    *)
IsMyChild(t, c) == pstate[c] # "FREE" /\ parent[c] = owner[t]

WaitSpecific(t, c) ==
  /\ Running(t)
  /\ IsMyChild(t, c)
  /\ OneReaperPerChild => ~ OtherReaper(t, FALSE)
  /\ WaitSpecificLoop(t, c)
  /\ UNCHANGED <<ptcbVars, infoVars>>

WaitSpecificAgain(t) ==
  /\ Resumed(t, "waitpid")
  /\ WaitSpecificLoop(t, call[t].arg)
  /\ UNCHANGED <<ptcbVars, infoVars>>

(* The loop of wait_for_any_child and what follows it.                     *)
WaitAnyLoop(t) ==
  LET p == owner[t] IN
  \/ /\ children_list[p] = << >>
     /\ call' = [call EXCEPT ![t] = NoCall]
     /\ UNCHANGED pcbVars
  \/ /\ children_list[p] # << >> /\ exited_list[p] # << >>
     /\ cleanup_zombie(Head(exited_list[p]))
     /\ call' = [call EXCEPT ![t] = NoCall]
  \/ /\ children_list[p] # << >> /\ exited_list[p] = << >>
     /\ call' = [call EXCEPT ![t] = [op |-> "waitany", arg |-> NULL, asleep |-> TRUE]]
     /\ UNCHANGED pcbVars

WaitAny(t) ==
  /\ Running(t)
  /\ OneReaperPerChild => ~ OtherReaper(t, TRUE)
  /\ WaitAnyLoop(t)
  /\ UNCHANGED <<ptcbVars, infoVars>>

WaitAnyAgain(t) ==
  /\ Resumed(t, "waitany")
  /\ WaitAnyLoop(t)
  /\ UNCHANGED <<ptcbVars, infoVars>>

-----------------------------------------------------------------------------
(* ThreadExit and Exit.                                                    *)

(* Mutant: the children keep the dead process as their parent.             *)
OrphanChildren(p) == UNCHANGED parent

Reparent(p) == parent' = [c \in Pids |-> IF Contains(children_list[p], c) THEN 1 ELSE parent[c]]

(* Mutant: nobody but the joiners is woken up.                             *)
JoinersOnly(t, p) == Awake(OnExitCv(t))

(* The broadcasts of the last thread of process p: to the joiners of t, to *)
(* the parent, and to init when it inherits exited children.               *)
ExitBroadcasts(t, p) ==
  Awake(OnExitCv(t) \cup OnChildExit(parent[p])
                    \cup (IF exited_list[p] # << >> THEN OnChildExit(1) ELSE {}))

(* The process p ends: its children go to init, its exited children to the *)
(* end of init's list, itself to the front of its parent's.                *)
EndProcess(t, p) ==
  LET inherited == [exited_list EXCEPT ![1] = @ \o exited_list[p], ![p] = << >>] IN
  /\ Reparent(p)
  /\ children_list' = [children_list EXCEPT ![1] = Reverse(children_list[p]) \o @, ![p] = << >>]
  /\ exited_list' = [inherited EXCEPT ![parent[p]] = Cons(p, @)]
  /\ pstate' = [pstate EXCEPT ![p] = "ZOMBIE"]
  /\ call' = ExitBroadcasts(t, p)
  /\ UNCHANGED <<pcb_freelist, process_count>>

(* The thread exits; the last one ends the process.  Init has no parent    *)
(* and only becomes a zombie.                                              *)
sys_ThreadExit(t) ==
  LET p == owner[t] IN
  /\ exited' = [exited EXCEPT ![t] = TRUE]
  /\ thread_count' = [thread_count EXCEPT ![p] = @ - 1]
  /\ \/ /\ thread_count[p] > 1
        /\ call' = Awake(OnExitCv(t))
        /\ UNCHANGED pcbVars
     \/ thread_count[p] = 1 /\ p # 1 /\ EndProcess(t, p)
     \/ /\ thread_count[p] = 1 /\ p = 1
        /\ pstate' = [pstate EXCEPT ![1] = "ZOMBIE"]
        /\ call' = Awake(OnExitCv(t))
        /\ UNCHANGED <<parent, pcb_freelist, process_count, children_list, exited_list>>
  /\ UNCHANGED <<ptcb_list, owner, detached, refcount, infoVars>>

(* ThreadExit, the return of a thread's function, and, outside init, Exit  *)
(* and the return of the main function.                                    *)
ThreadExit(t) ==
  /\ Running(t)
  /\ owner[t] = 1 => (LastInitThreadCallsExit => thread_count[1] > 1)
  /\ sys_ThreadExit(t)

(* Mutant: init leaves as soon as it has reaped some children.             *)
NoneReaped(zs) == zs = << >> /\ children_list[1] # << >>

ChildrenRemain(zs) == ~ (ToSet(children_list[1]) \subseteq ToSet(zs))

(* Exit in init: reap every exited child; sleep if there are others, else  *)
(* ThreadExit.                                                             *)
InitExitLoop(t) ==
  LET zs == exited_list[1] IN
  /\ Recycle(zs)
  /\ \/ /\ ChildrenRemain(zs)
        /\ pstate' = Freed(zs)
        /\ call' = [call EXCEPT ![t] = [op |-> "exit", arg |-> NULL, asleep |-> TRUE]]
        /\ UNCHANGED <<thread_count, exited>>
     \/ /\ ~ ChildrenRemain(zs)
        /\ exited' = [exited EXCEPT ![t] = TRUE]
        /\ thread_count' = [thread_count EXCEPT ![1] = @ - 1]
        /\ pstate' = [Freed(zs) EXCEPT ![1] = IF thread_count[1] = 1 THEN "ZOMBIE" ELSE @]
        /\ call' = [Awake(OnExitCv(t)) EXCEPT ![t] = NoCall]
  /\ UNCHANGED <<ptcb_list, owner, detached, refcount, infoVars>>

InitExit(t) ==
  /\ Running(t)
  /\ owner[t] = 1
  /\ OneReaperPerChild => ~ OtherReaper(t, TRUE)
  /\ InitExitLoop(t)

InitExitAgain(t) == Resumed(t, "exit") /\ InitExitLoop(t)

-----------------------------------------------------------------------------
(* ThreadJoin and ThreadDetach.                                            *)

InMyProcess(t, x) == Contains(ptcb_list[owner[t]], x)

(* Mutant: the PTCB is freed by the first joiner that returns.             *)
FirstJoinerFrees(x) == TRUE

(* The last joiner frees the PTCB.                                         *)
LastJoiner(x) == refcount[x] = 1

(* The loop of sys_ThreadJoin and what follows it; the caller is already   *)
(* counted in refcount[x].                                                 *)
JoinReturns(t, x) ==
  /\ exited[x] \/ detached[x]
  /\ call' = [call EXCEPT ![t] = NoCall]
  /\ refcount' = [refcount EXCEPT ![x] = @ - 1]
  /\ \/ /\ ~ detached[x] /\ LastJoiner(x)
        /\ ptcb_list' = Without(ptcb_list, {x})
        /\ owner' = [owner EXCEPT ![x] = NULL]
     \/ (detached[x] \/ ~ LastJoiner(x)) /\ UNCHANGED <<ptcb_list, owner>>

Joinable(t, x) == InMyProcess(t, x) /\ x # t /\ ~ detached[x]

(* A join that has to wait.                                                *)
ThreadJoin(t, x) ==
  /\ Running(t)
  /\ Joinable(t, x)
  /\ ~ exited[x]
  /\ refcount' = [refcount EXCEPT ![x] = @ + 1]
  /\ call' = [call EXCEPT ![t] = [op |-> "join", arg |-> x, asleep |-> TRUE]]
  /\ UNCHANGED <<pcbVars, thread_count, ptcb_list, owner, exited, detached, infoVars>>

(* A join of a thread that has exited counts itself in and out.            *)
ThreadJoinExited(t, x) ==
  /\ Running(t)
  /\ Joinable(t, x)
  /\ exited[x]
  /\ \/ /\ refcount[x] = 0
        /\ ptcb_list' = Without(ptcb_list, {x})
        /\ owner' = [owner EXCEPT ![x] = NULL]
     \/ refcount[x] # 0 /\ UNCHANGED <<ptcb_list, owner>>
  /\ UNCHANGED <<pcbVars, thread_count, exited, detached, refcount, call, infoVars>>

ThreadJoinAgain(t) ==
  /\ Resumed(t, "join")
  /\ JoinReturns(t, call[t].arg)
  /\ UNCHANGED <<pcbVars, thread_count, exited, detached, infoVars>>

ThreadDetach(t, x) ==
  /\ Running(t)
  /\ InMyProcess(t, x)
  /\ ~ exited[x]
  /\ detached' = [detached EXCEPT ![x] = TRUE]
  /\ call' = Awake(OnExitCv(x))
  /\ UNCHANGED <<pcbVars, thread_count, ptcb_list, owner, exited, refcount, infoVars>>

-----------------------------------------------------------------------------
(* The information stream: OpenInfo, and Read on it.                       *)

OpenInfo ==
  /\ Listing
  /\ \E t \in Tids : Running(t)
  /\ PT_cursor = NULL
  /\ PT_cursor' = 0
  /\ UNCHANGED <<pcbVars, ptcbVars, call, reported>>

(* Mutant: the cursor stays on the entry that was reported.                *)
CursorStays(p) == PT_cursor' = p

CursorAdvance(p) == PT_cursor' = p + 1

(* procinfo_read: report the next entry that is not FREE.                  *)
InfoRead ==
  /\ \E t \in Tids : Running(t)
  /\ PT_cursor # NULL
  /\ \E p \in Pids :
       /\ p >= PT_cursor
       /\ pstate[p] # "FREE"
       /\ \A q \in Pids : PT_cursor <= q /\ q < p => pstate[q] = "FREE"
       /\ reported' = Append(reported, p)
       /\ CursorAdvance(p)
  /\ UNCHANGED <<pcbVars, ptcbVars, call>>

(* No entry is left: the cursor is past the table and Read returns -1.     *)
InfoEnd ==
  /\ \E t \in Tids : Running(t)
  /\ PT_cursor # NULL
  /\ PT_cursor < MAX_PROC
  /\ \A q \in Pids : PT_cursor <= q => pstate[q] = "FREE"
  /\ PT_cursor' = MAX_PROC
  /\ UNCHANGED <<pcbVars, ptcbVars, call, reported>>

-----------------------------------------------------------------------------
SystemCall(t) ==
  \/ \E p \in Pids, x \in Tids : Exec(t, p, x)
  \/ \E c \in Pids : WaitSpecific(t, c)
  \/ \E x \in Tids : CreateThread(t, x) \/ ThreadJoin(t, x) \/ ThreadJoinExited(t, x)
                       \/ ThreadDetach(t, x)
  \/ WaitAny(t) \/ ThreadExit(t) \/ InitExit(t)

Resume(t) ==
  \/ WaitSpecificAgain(t) \/ WaitAnyAgain(t) \/ InitExitAgain(t) \/ ThreadJoinAgain(t)

Next ==
  \/ \E t \in Tids : SystemCall(t) \/ Resume(t)
  \/ OpenInfo \/ InfoRead \/ InfoEnd

Spec == Init /\ [][Next]_vars

(* A thread that was woken up gets the kernel lock.                        *)
FairSpec == Spec /\ \A t \in Tids : WF_vars(Resume(t))
-----------------------------------------------------------------------------
(* Properties.                                                             *)

(* The assertions at the end of sys_ThreadExit (kernel_threads.c:205-206): *)
(* a process that ends, init included, has no children left.               *)
ZombieHasNoChildren ==
  \A p \in Pids : pstate[p] = "ZOMBIE" => children_list[p] = << >> /\ exited_list[p] = << >>

(* children_list and exited_list agree with parent and pstate, through     *)
(* exits, reparenting to init and reaping: a process in use is once in its *)
(* parent's list of children, a zombie also once in its list of exited     *)
(* ones, a living process has a living parent and a zombie no children.    *)
ProcessTree ==
  /\ \A p, q \in Pids :
       /\ Contains(children_list[q], p) <=> p > 1 /\ pstate[p] # "FREE" /\ parent[p] = q
       /\ Contains(exited_list[q], p) <=> p > 1 /\ pstate[p] = "ZOMBIE" /\ parent[p] = q
  /\ \A q \in Pids : IsInjective(children_list[q]) /\ IsInjective(exited_list[q])
  /\ \A p \in Pids : p > 1 /\ pstate[p] # "FREE" => pstate[parent[p]] = "ALIVE"
  /\ ZombieHasNoChildren

(* The n-th entry of the free list.                                        *)
FreeChain ==
  LET chain[n \in 0 .. MAX_PROC] ==
        IF n = 0 THEN pcb_freelist
        ELSE IF chain[n - 1] = NULL THEN NULL ELSE parent[chain[n - 1]]
  IN chain

(* The free list, linked through the parent field, holds exactly the FREE  *)
(* PCBs and ends; process_count is the number of the others.               *)
FreeListSound ==
  /\ {FreeChain[n] : n \in 0 .. MAX_PROC} = {p \in Pids : pstate[p] = "FREE"} \cup {NULL}
  /\ process_count = Cardinality({p \in Pids : pstate[p] # "FREE"})

(* thread_count is the number of living threads of the process, which is a *)
(* zombie exactly when the last one has exited; ptcb_list has each once.   *)
ThreadsCounted ==
  \A p \in Pids \ {0} :
    /\ pstate[p] # "FREE" =>
         /\ thread_count[p] = Cardinality({t \in Tids : owner[t] = p /\ ~ exited[t]})
         /\ ToSet(ptcb_list[p]) = {t \in Tids : owner[t] = p}
         /\ pstate[p] = "ZOMBIE" <=> thread_count[p] = 0
    /\ IsInjective(ptcb_list[p])

(* refcount counts the threads blocked in ThreadJoin, and a PTCB is not    *)
(* freed under any of them, however many join and detach it.               *)
JoinersCounted ==
  /\ \A x \in Tids : owner[x] # NULL =>
       refcount[x] = Cardinality({t \in Tids : Alive(t) /\ t \in OnExitCv(x)})
  /\ \A t \in Tids : Alive(t) /\ call[t].op = "join" => owner[call[t].arg] = owner[t]

(* The two counts that decide when a process becomes a zombie and when a   *)
(* PTCB is freed are exact.                                                *)
CountsExact == ThreadsCounted /\ JoinersCounted

(* Nobody sleeps on a condition that is already true: every exit, detach   *)
(* and reparenting wakes up those it concerns.                             *)
NoMissedWakeup ==
  \A t \in Tids : Alive(t) /\ call[t].asleep =>
    LET arg == call[t].arg
        p == owner[t]
    IN CASE call[t].op = "join"    -> ~ exited[arg] /\ ~ detached[arg]
         [] call[t].op = "waitpid" -> pstate[arg] = "ALIVE"
         [] OTHER                  -> children_list[p] # << >> /\ exited_list[p] = << >>

(* WaitChild's documentation (tinyos.h:274-278): it returns the pid of an  *)
(* exited child, and fails for a process that is not one.  A PCB is given  *)
(* back only by a thread of the parent, and only once.                     *)
ReapsExitedChild ==
  [][process_count' < process_count =>
       \E t \in Tids : \E zs \in SUBSET Pids :
         /\ Alive(t)
         /\ zs = {p \in Pids : pstate[p] = "ZOMBIE" /\ pstate'[p] = "FREE" /\ parent[p] = owner[t]}
         /\ Cardinality(zs) = process_count - process_count']_vars

(* Exit in init returns: once the other processes have ended and init has  *)
(* one thread, which is in Exit, init ends.                                *)
InitEnds ==
  \A t \in Tids :
    /\ Alive(t) /\ owner[t] = 1 /\ call[t].op = "exit" /\ thread_count[1] = 1
    /\ \A p \in Pids : p > 1 => pstate[p] # "ALIVE"
    ~> pstate[1] = "ZOMBIE"

(* A listing reports no pid twice and, when it has ended, every process    *)
(* that existed all along: here pids 0 and 1, whatever others come and go. *)
ListingComplete ==
  /\ IsInjective(reported)
  /\ PT_cursor = MAX_PROC => {0, 1} \subseteq ToSet(reported)

(* The process table is consistent under every order of Exec, exit, wait   *)
(* and join: the tree, the free list, and the counts of threads and of     *)
(* joiners.                                                                *)
TreeInvariant == TypeOK /\ ProcessTree /\ FreeListSound /\ CountsExact

=============================================================================
