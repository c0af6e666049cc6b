------------------------------- MODULE Streams ------------------------------
(***************************************************************************)
(* Streams (kernel_streams.c): the file control blocks with their free     *)
(* list and reference counts, and the file-id tables of the processes,     *)
(* which Exec copies and the exit of a process empties.                    *)
(*                                                                         *)
(* Every system call is atomic in the kernel monitor except Read and       *)
(* Write, which may sleep inside the device's function; meanwhile other    *)
(* threads, of the same process too, open, close and duplicate.  A stream  *)
(* object (a pipe end, a socket, a device or a process list) is a name     *)
(* that is live from its opening to its Close method.  A call that fails   *)
(* and changes nothing is no step.                                         *)
(***************************************************************************)
EXTENDS Integers, FiniteSets, SequencesExt

CONSTANTS
  Pids, Tids,
  InitPid,     \* the process that runs at boot
  InitTid,
  MAX_FILEID,
  MAX_FILES,
  Objects,     \* names for stream objects
  NULL

ASSUME StreamsAssumption ==
  /\ InitPid \in Pids /\ InitTid \in Tids
  /\ IsFiniteSet(Pids) /\ IsFiniteSet(Tids)
  /\ MAX_FILEID \in Nat /\ MAX_FILES \in Nat
  /\ NULL \notin Pids \cup Tids \cup Objects

Fids == 0 .. MAX_FILEID - 1
FCBs == 1 .. MAX_FILES

ASSUME NullAssumption == NULL \notin FCBs /\ NULL \notin [fcb : FCBs, obj : Objects]

VARIABLES
  FIDT,          \* FIDT[pid][fid]: an FCB, or NULL
  refcount,
  streamobj,
  FCB_freelist,  \* the FCBs of the free list, in order
  live,          \* stream objects opened and not yet closed
  proc,          \* the process of each thread, NULL if it does not exist
  io             \* what the thread's Read or Write works on, or NULL

vars == <<FIDT, refcount, streamobj, FCB_freelist, live, proc, io>>

TypeOK ==
  /\ FIDT \in [Pids -> [Fids -> FCBs \cup {NULL}]]
  /\ refcount \in [FCBs -> Nat]
  /\ streamobj \in [FCBs -> Objects \cup {NULL}]
  /\ FCB_freelist \in Seq(FCBs)
  /\ live \subseteq Objects
  /\ proc \in [Tids -> Pids \cup {NULL}]
  /\ io \in [Tids -> [fcb : FCBs, obj : Objects] \cup {NULL}]

Closed == [f \in Fids |-> NULL]

Init ==
  /\ FIDT = [p \in Pids |-> Closed]
  /\ refcount = [c \in FCBs |-> 0]
  /\ streamobj = [c \in FCBs |-> NULL]
  /\ FCB_freelist = [c \in FCBs |-> c]
  /\ live = {}
  /\ proc = [t \in Tids |-> IF t = InitTid THEN InitPid ELSE NULL]
  /\ io = [t \in Tids |-> NULL]

Count(c, table) == Cardinality({f \in DOMAIN table : table[f] = c})

-----------------------------------------------------------------------------
(* Mutants: what a plausible slip in kernel_streams.c or sys_Exec would    *)
(* do.                                                                     *)
NoReference(k, c) == k
NothingInherited(k, p) == k
ForgetReplaced(k, c) == k
KeepAcquired == << >>
FreeWithoutClose(c) == {}

-----------------------------------------------------------------------------
(* The FCBs: their counts, the free list, and the objects they keep alive. *)
FT == [refcount |-> refcount, freelist |-> FCB_freelist, live |-> live]

Become(k) == refcount' = k.refcount /\ FCB_freelist' = k.freelist /\ live' = k.live

FCB_incref(k, c) == [k EXCEPT !.refcount[c] = @ + 1]

(* The object whose Close method is called.                                *)
CloseMethod(c) == {streamobj[c]}

(* The last reference calls Close and frees the FCB.                       *)
FCB_decref(k, c) ==
  [refcount |-> [k.refcount EXCEPT ![c] = @ - 1],
   freelist |-> IF k.refcount[c] = 1 THEN Append(k.freelist, c) ELSE k.freelist,
   live     |-> IF k.refcount[c] = 1 THEN k.live \ CloseMethod(c) ELSE k.live]

FreeFids(p) == {f \in Fids : FIDT[p][f] = NULL}

(* FCB_reserve takes the lowest free file ids, fids, and as many FCBs from *)
(* the front of the free list; objs are the stream objects the caller puts *)
(* in them.                                                                *)
FCB_reserve(p, fids, objs) ==
  LET n == Len(fids)
      taken == {FCB_freelist[i] : i \in 1 .. n}
      place(c) == CHOOSE i \in 1 .. n : FCB_freelist[i] = c
  IN /\ \A i \in 1 .. n : fids[i] \in FreeFids(p)
     /\ \A i \in 1 .. n - 1 : fids[i] < fids[i + 1]
     /\ \A f \in FreeFids(p) : f < fids[n] => f \in Range(fids)
     /\ Len(FCB_freelist) >= n
     /\ FIDT' = [FIDT EXCEPT ![p] =
                   [f \in Fids |-> IF f \in Range(fids)
                                   THEN FCB_freelist[CHOOSE i \in 1 .. n : fids[i] = f] ELSE @[f]]]
     /\ refcount' = [c \in FCBs |-> IF c \in taken THEN 1 ELSE refcount[c]]
     /\ streamobj' = [c \in FCBs |-> IF c \in taken THEN objs[place(c)] ELSE streamobj[c]]
     /\ FCB_freelist' = SubSeq(FCB_freelist, n + 1, Len(FCB_freelist))
     /\ live' = live \cup Range(objs)

(* Names no stream object in use has.                                      *)
Unused == Objects \ (live \cup {io[t].obj : t \in {u \in Tids : io[u] # NULL}})

-----------------------------------------------------------------------------
(* System calls of a thread t that is not inside Read or Write.            *)

Running(t) == proc[t] # NULL /\ io[t] = NULL

(* One stream: OpenNull, OpenTerminal, OpenInfo, Socket, Accept.           *)
OpenStream(t) ==
  /\ Running(t)
  /\ \E f \in Fids, o \in Unused : FCB_reserve(proc[t], <<f>>, <<o>>)
  /\ UNCHANGED <<proc, io>>

(* Two streams at once: sys_Pipe.                                          *)
sys_Pipe(t) ==
  /\ Running(t)
  /\ \E f, g \in Fids, o1, o2 \in Unused : o1 # o2 /\ FCB_reserve(proc[t], <<f, g>>, <<o1, o2>>)
  /\ UNCHANGED <<proc, io>>

(* The roll-back of FCB_reserve pushes what it acquired to the back of the *)
(* list, last one first.                                                   *)
RolledBack == Reverse(FCB_freelist)

PipeFails(t) ==
  /\ Running(t)
  /\ Cardinality(FreeFids(proc[t])) >= 2
  /\ Len(FCB_freelist) = 1
  /\ FCB_freelist' = RolledBack
  /\ refcount' = [c \in FCBs |-> IF c \in Range(FCB_freelist) THEN 0 ELSE refcount[c]]
  /\ UNCHANGED <<FIDT, streamobj, live, proc, io>>

(* open_stream when device_open fails: FCB_reserve, then FCB_unreserve,    *)
(* which returns the FCB to the back of the list with its count at one.    *)
OpenFails(t) ==
  /\ Running(t)
  /\ FreeFids(proc[t]) # {} /\ FCB_freelist # << >>
  /\ refcount' = [refcount EXCEPT ![Head(FCB_freelist)] = 1]
  /\ FCB_freelist' = Append(Tail(FCB_freelist), Head(FCB_freelist))
  /\ UNCHANGED <<FIDT, streamobj, live, proc, io>>

sys_Close(t, f) ==
  /\ Running(t) /\ FIDT[proc[t]][f] # NULL
  /\ FIDT' = [FIDT EXCEPT ![proc[t]][f] = NULL]
  /\ Become(FCB_decref(FT, FIDT[proc[t]][f]))
  /\ UNCHANGED <<streamobj, proc, io>>

(* The stream that newfd had, if any, loses a reference.                   *)
Replaced(k, c) == IF c = NULL THEN k ELSE FCB_decref(k, c)

sys_Dup2(t, oldfd, newfd) ==
  LET old == FIDT[proc[t]][oldfd]
      new == FIDT[proc[t]][newfd]
  IN
  /\ Running(t)
  /\ old # NULL /\ old # new
  /\ FIDT' = [FIDT EXCEPT ![proc[t]][newfd] = old]
  /\ Become(FCB_incref(Replaced(FT, new), old))
  /\ UNCHANGED <<streamobj, proc, io>>

(* sys_Read and sys_Write, up to the device's function, which works on the *)
(* stream object read here, and after it.  A stream without that function  *)
(* returns -1 at once.                                                     *)
HeldDuringIO(k, c) == FCB_incref(k, c)

BeginIO(t, f) ==
  LET c == FIDT[proc[t]][f] IN
  /\ Running(t) /\ c # NULL
  /\ io' = [io EXCEPT ![t] = [fcb |-> c, obj |-> streamobj[c]]]
  /\ Become(HeldDuringIO(FT, c))
  /\ UNCHANGED <<FIDT, streamobj, proc>>

EndIO(t) ==
  /\ io[t] # NULL
  /\ io' = [io EXCEPT ![t] = NULL]
  /\ Become(FCB_decref(FT, io[t].fcb))
  /\ UNCHANGED <<FIDT, streamobj, proc>>

-----------------------------------------------------------------------------
(* Processes and threads, as far as the file tables depend on them.        *)

(* The child has every stream of p: one reference more for each file id.   *)
Inherited(k, p) == [k EXCEPT !.refcount = [c \in FCBs |-> @[c] + Count(c, FIDT[p])]]

Exec(t, p, u) ==
  /\ Running(t) /\ proc[u] = NULL
  /\ p \notin Range(proc)
  /\ proc' = [proc EXCEPT ![u] = p]
  /\ FIDT' = [FIDT EXCEPT ![p] = FIDT[proc[t]]]
  /\ Become(Inherited(FT, proc[t]))
  /\ UNCHANGED <<streamobj, io>>

CreateThread(t, u) ==
  /\ Running(t) /\ proc[u] = NULL
  /\ proc' = [proc EXCEPT ![u] = proc[t]]
  /\ UNCHANGED <<FIDT, refcount, streamobj, FCB_freelist, live, io>>

(* FCB_decref for the streams of a file table, in the order of the fids.   *)
CleanUp(table) ==
  LET k[n \in 0 .. MAX_FILEID] ==
        IF n = 0 THEN FT
        ELSE IF table[n - 1] = NULL THEN k[n - 1] ELSE FCB_decref(k[n - 1], table[n - 1])
  IN k[MAX_FILEID]

(* The last thread of a process cleans up the file table.                  *)
ThreadExit(t) ==
  LET p == proc[t] IN
  /\ Running(t)
  /\ proc' = [proc EXCEPT ![t] = NULL]
  /\ IF \A u \in Tids \ {t} : proc[u] # p
     THEN FIDT' = [FIDT EXCEPT ![p] = Closed] /\ Become(CleanUp(FIDT[p]))
     ELSE UNCHANGED <<FIDT, refcount, FCB_freelist, live>>
  /\ UNCHANGED <<streamobj, io>>

-----------------------------------------------------------------------------
Next ==
  \E t \in Tids :
    \/ OpenStream(t) \/ sys_Pipe(t) \/ PipeFails(t) \/ OpenFails(t)
    \/ \E f \in Fids : sys_Close(t, f) \/ BeginIO(t, f)
    \/ \E f, g \in Fids : sys_Dup2(t, f, g)
    \/ EndIO(t)
    \/ \E u \in Tids : CreateThread(t, u)
    \/ \E u \in Tids, p \in Pids : Exec(t, p, u)
    \/ ThreadExit(t)

Spec == Init /\ [][Next]_vars

-----------------------------------------------------------------------------
References(c) ==
    Cardinality({e \in Pids \X Fids : FIDT[e[1]][e[2]] = c})
  + Cardinality({t \in Tids : io[t] # NULL /\ io[t].fcb = c})

Free == Range(FCB_freelist)

(* FCB_incref and FCB_decref keep the count exact through Dup2, Exec, exit *)
(* and pending I/O: an FCB in use is counted once for each file id in any  *)
(* process and once for each Read or Write under way.                      *)
RefcountExact == \A c \in FCBs \ Free : refcount[c] = References(c)

(* acquire_FCB and release_FCB, with the roll-backs of FCB_reserve and     *)
(* FCB_unreserve: an FCB is in the free list, once, exactly when nothing   *)
(* refers to it.  So none is lost and none is handed out twice.            *)
FreeListExact ==
  /\ IsInjective(FCB_freelist)
  /\ \A c \in FCBs : c \in Free <=> References(c) = 0

(* Every FCB is accounted for: by its count, or by the free list.          *)
FCBsAccounted == RefcountExact /\ FreeListExact

(* The comment in sys_Read: "make sure that the stream will not be closed  *)
(* (by another thread) while we are using it!"  The object a device        *)
(* function works on has not been closed, and its FCB still carries it.    *)
IOOnLiveStream ==
  \A t \in Tids : io[t] # NULL => io[t].obj \in live /\ streamobj[io[t].fcb] = io[t].obj

(* Close is called on a stream object when its last user is gone, once,    *)
(* and never later: the live objects are those of the FCBs in use, one     *)
(* each.  A pipe end left open would keep the other end from seeing the    *)
(* end of the data.                                                        *)
LiveExactlyInUse ==
  /\ live = {streamobj[c] : c \in FCBs \ Free}
  /\ Cardinality(live) = MAX_FILES - Len(FCB_freelist)

(* The file tables and the FCBs agree, whatever Close, Dup2, Exec, exit    *)
(* and failing opens do while Reads and Writes sleep: every FCB is counted *)
(* or free, a stream object is alive exactly as long as something refers   *)
(* to it, and no device function works on a closed one.                    *)
StreamInvariant == TypeOK /\ FCBsAccounted /\ LiveExactlyInUse /\ IOOnLiveStream

=============================================================================
