-------------------------------- MODULE Pipe --------------------------------
(***************************************************************************)
(* A pipe (kernel_pipe.c): a ring of PIPE_BUFFER_SIZE bytes with a read    *)
(* end and a write end, each shared by any number of threads.  It also     *)
(* carries one direction of a connected pair of sockets.                   *)
(*                                                                         *)
(* The code runs in the kernel monitor (module KernelCC): a thread holds   *)
(* it from its system call to its return, except while it sleeps in        *)
(* kernel_wait.  One action is one round of the loop of pipe_write or      *)
(* pipe_read, or the part of it up to the kernel_wait.  Of the caller's    *)
(* buffer the byte at hand is kept.  The result of a call is left out; an  *)
(* end is closed only while no call on it is under way, because sys_Read   *)
(* and sys_Write hold a reference on the stream (module Streams).          *)
(***************************************************************************)
EXTENDS Integers, Sequences, FiniteSetsExt

CONSTANTS
  Threads,
  Data,               \* the values of a byte
  PIPE_BUFFER_SIZE,
  Sizes,              \* the sizes of Read and Write calls
  MaxWriters,         \* bound: threads inside pipe_write at the same time
  NULL

ASSUME PipeAssumption ==
  /\ PIPE_BUFFER_SIZE \in Nat /\ PIPE_BUFFER_SIZE > 1
  /\ Sizes \subseteq Nat \ {0}
  /\ MaxWriters \in Nat
  /\ NULL \notin Threads /\ IsFiniteSet(Threads)

VARIABLES
  buffer, w_position, r_position, word_length,
  reader, writer,  \* the FCB of each end is not NULL
  has_space,       \* threads asleep on each condition variable
  has_data,
  kernel,          \* the thread in the kernel monitor, or NULL
  pc,              \* where each thread is
  left,            \* bytes its call has still to transfer: size - buffer_counter
  got              \* the byte stored last into a reader's buffer

vars == <<buffer, w_position, r_position, word_length, reader, writer,
          has_space, has_data, kernel, pc, left, got>>

ringVars == <<buffer, w_position, r_position, word_length>>
endVars  == <<reader, writer>>

(* user: outside; write, read: at the head of the loop; full, empty: at    *)
(* the kernel_wait on has_space and on has_data.                           *)
Places == {"user", "write", "full", "read", "empty"}

(* The last slot of the buffer is not used: both positions wrap one early. *)
Positions == 0 .. PIPE_BUFFER_SIZE - 1

TypeOK ==
  /\ buffer \in [Positions -> Data]
  /\ w_position \in Positions
  /\ r_position \in 0 .. PIPE_BUFFER_SIZE - 2
  /\ word_length \in 0 .. PIPE_BUFFER_SIZE
  /\ reader \in BOOLEAN
  /\ writer \in BOOLEAN
  /\ has_space \subseteq Threads
  /\ has_data \subseteq Threads
  /\ kernel \in Threads \cup {NULL}
  /\ pc \in [Threads -> Places]
  /\ left \in [Threads -> {0} \cup UNION {0 .. n : n \in Sizes}]
  /\ got \in Data

(* sys_Pipe and pipe_init.  xmalloc leaves the buffer unset: here, any one *)
(* byte all over.                                                          *)
Init ==
  /\ buffer \in {[i \in Positions |-> b] : b \in Data}
  /\ w_position = 0 /\ r_position = 0 /\ word_length = 0
  /\ reader = TRUE /\ writer = TRUE
  /\ has_space = {} /\ has_data = {}
  /\ kernel = NULL
  /\ pc = [t \in Threads |-> "user"]
  /\ left = [t \in Threads |-> 0]
  /\ got \in Data

Writing == {t \in Threads : pc[t] \in {"write", "full"}}
Reading == {t \in Threads : pc[t] \in {"read", "empty"}}

Goto(t, place) == pc' = [pc EXCEPT ![t] = place]

(* kernel_wait gives up the monitor until the broadcast, then re-enters.   *)
Sleep(t, place) == Goto(t, place) /\ kernel' = NULL
Return(t)       == Goto(t, "user") /\ kernel' = NULL /\ left' = [left EXCEPT ![t] = 0]

(* Mutants: what a plausible slip in kernel_pipe.c would do.               *)
WrapAtEnd(p)  == IF p = PIPE_BUFFER_SIZE THEN 0 ELSE p
NoWrap(p)     == p
WakeNobody    == UNCHANGED has_data
WakeAfterFull == has_space

-----------------------------------------------------------------------------
(* pipe_write.  A call with a bad argument or on a closed end returns -1   *)
(* and changes nothing, so it is no step; the same holds for pipe_read.    *)

CallWrite(t, n) ==
  /\ kernel = NULL /\ pc[t] = "user"
  /\ writer /\ reader
  /\ Cardinality(Writing) < MaxWriters
  /\ kernel' = t
  /\ Goto(t, "write")
  /\ left' = [left EXCEPT ![t] = n]
  /\ UNCHANGED <<ringVars, endVars, has_space, has_data, got>>

WrapWrite(p) == IF p = PIPE_BUFFER_SIZE - 1 THEN 0 ELSE p

(* The rest of the loop's body: wrap, wake the readers, count the byte.    *)
Stored(t, p) ==
  /\ w_position' = WrapWrite(p)
  /\ has_data' = {}
  /\ left' = [left EXCEPT ![t] = @ - 1]

(* A store outside the buffer hits other memory; the buffer keeps its      *)
(* contents.                                                               *)
StoreByte(t, b) ==
  /\ kernel = t /\ pc[t] = "write"
  /\ left[t] > 0 /\ reader
  /\ buffer' = IF w_position \in Positions THEN [buffer EXCEPT ![w_position] = b] ELSE buffer
  /\ word_length' = word_length + 1
  /\ IF word_length + 1 = PIPE_BUFFER_SIZE
     THEN /\ w_position' = w_position + 1
          /\ Sleep(t, "full")
          /\ has_space' = has_space \cup {t}
          /\ UNCHANGED <<has_data, left>>
     ELSE /\ Stored(t, w_position + 1)
          /\ UNCHANGED <<kernel, pc, has_space>>
  /\ UNCHANGED <<r_position, endVars, got>>

(* kernel_wait returned: test for space again.                             *)
WokenWriter(t) ==
  /\ kernel = NULL /\ pc[t] = "full" /\ t \notin has_space
  /\ IF word_length = PIPE_BUFFER_SIZE
     THEN /\ has_space' = has_space \cup {t}
          /\ UNCHANGED <<w_position, has_data, left, kernel, pc>>
     ELSE /\ Stored(t, w_position)
          /\ kernel' = t
          /\ Goto(t, "write")
          /\ UNCHANGED has_space
  /\ UNCHANGED <<buffer, r_position, word_length, endVars, got>>

WriteReturns(t) ==
  /\ kernel = t /\ pc[t] = "write"
  /\ left[t] = 0 \/ ~reader
  /\ Return(t)
  /\ UNCHANGED <<ringVars, endVars, has_space, has_data, got>>

-----------------------------------------------------------------------------
(* pipe_read.                                                              *)

CallRead(t, n) ==
  /\ kernel = NULL /\ pc[t] = "user"
  /\ reader
  /\ kernel' = t
  /\ Goto(t, "read")
  /\ left' = [left EXCEPT ![t] = n]
  /\ UNCHANGED <<ringVars, endVars, has_space, has_data, got>>

WrapRead(p) == IF p = PIPE_BUFFER_SIZE - 1 THEN 0 ELSE p

(* The waiting writers are woken once the byte is taken.                   *)
WakeWriters == IF word_length' < PIPE_BUFFER_SIZE THEN {} ELSE has_space

FetchByte(t) ==
  /\ kernel = t /\ pc[t] = "read"
  /\ left[t] > 0 /\ word_length # 0
  /\ got' = buffer[r_position]
  /\ r_position' = WrapRead(r_position + 1)
  /\ word_length' = word_length - 1
  /\ has_space' = WakeWriters
  /\ left' = [left EXCEPT ![t] = @ - 1]
  /\ UNCHANGED <<buffer, w_position, endVars, has_data, kernel, pc>>

WaitForData(t) ==
  /\ kernel = t /\ pc[t] = "read"
  /\ left[t] > 0 /\ word_length = 0 /\ writer
  /\ Sleep(t, "empty")
  /\ has_data' = has_data \cup {t}
  /\ UNCHANGED <<ringVars, endVars, has_space, left, got>>

(* kernel_wait returned: back to the test for data.                        *)
WokenReader(t) ==
  /\ kernel = NULL /\ pc[t] = "empty" /\ t \notin has_data
  /\ kernel' = t
  /\ Goto(t, "read")
  /\ UNCHANGED <<ringVars, endVars, has_space, has_data, left, got>>

ReadReturns(t) ==
  /\ kernel = t /\ pc[t] = "read"
  /\ left[t] = 0 \/ (word_length = 0 /\ ~writer)
  /\ Return(t)
  /\ UNCHANGED <<ringVars, endVars, has_space, has_data, got>>

-----------------------------------------------------------------------------
(* pipe_writer_close and pipe_reader_close, when the last reference to     *)
(* the stream is dropped.  The one that finds the other end closed frees   *)
(* the control block.                                                      *)

WakeReaders == has_data' = {}

pipe_writer_close ==
  /\ kernel = NULL /\ Writing = {}
  /\ writer
  /\ writer' = FALSE
  /\ WakeReaders
  /\ UNCHANGED <<ringVars, reader, has_space, kernel, pc, left, got>>

pipe_reader_close ==
  /\ kernel = NULL /\ Reading = {}
  /\ reader
  /\ reader' = FALSE
  /\ UNCHANGED <<ringVars, writer, has_space, has_data, kernel, pc, left, got>>

-----------------------------------------------------------------------------
Calls == \E t \in Threads, n \in Sizes : CallWrite(t, n) \/ CallRead(t, n)

Step(t) ==
  \/ \E b \in Data : StoreByte(t, b)
  \/ WokenWriter(t) \/ WriteReturns(t)
  \/ FetchByte(t) \/ WaitForData(t) \/ WokenReader(t) \/ ReadReturns(t)

Next ==
  \/ Calls
  \/ \E t \in Threads : Step(t)
  \/ pipe_writer_close \/ pipe_reader_close

Spec == Init /\ [][Next]_vars

(* A thread in the kernel or woken from its wait goes on.  Calls and       *)
(* closes are the programs' choice.                                        *)
FairSpec == Spec /\ \A t \in Threads : WF_vars(Step(t))

-----------------------------------------------------------------------------
(* tinyos.h on Pipe: "Writing bytes to the write end using Write() will    *)
(* make them available at the read end".  The unread bytes are the         *)
(* word_length slots from r_position on, wrapping at the last slot; they   *)
(* are a byte stream.                                                      *)
Slots == PIPE_BUFFER_SIZE - 1
Stream == INSTANCE ByteStream WITH
            queue     <- [i \in 1 .. word_length |-> buffer[(r_position + i - 1) % Slots]],
            delivered <- got,
            readable  <- reader,
            writable  <- writer

StreamSpec == Stream!Spec

(* What pipe_write and pipe_read do implement: every byte is delivered     *)
(* once and in order, through wrap-around, sleeping and closing ends,      *)
(* except the oldest one when a byte is written with all slots unread.     *)
OverwritingStream == Stream!OverwritingSpec

(* pipe_write and pipe_read move the two positions and word_length         *)
(* separately; they must agree on how many bytes are unread, whoever       *)
(* sleeps in the middle of a round.                                        *)
PositionsAgree == (r_position + word_length - w_position) % Slots = 0

(* No wakeup is missed in the ring: a reader sleeps only while the pipe is *)
(* empty and its write end open, a writer only while the pipe is full.     *)
SleepersJustified ==
  /\ has_data # {} => word_length = 0 /\ writer
  /\ has_space # {} => word_length = PIPE_BUFFER_SIZE

(* pipe_writer_close wakes every reader: once the write end is closed and  *)
(* no more calls are made, each pending Read drains the pipe and returns.  *)
CloseEndsReads ==
  <>[][~Calls]_vars =>
    \A t \in Threads : t \in Reading /\ ~writer ~> t \notin Reading

(* tinyos.h on Pipe: "If the read end is closed, the write end becomes     *)
(* unusable: calls on Write to it return error".  So a pending Write       *)
(* returns after pipe_reader_close.                                        *)
CloseEndsWrites ==
  <>[][~Calls]_vars =>
    \A t \in Threads : t \in Writing /\ ~reader ~> t \notin Writing

(* kernel_pipe.c: "The pipe buffer is bounded(ring)."  Every byte is       *)
(* stored inside the buffer.                                               *)
StoresInBuffer ==
  \A t \in Threads :
    kernel = t /\ pc[t] = "write" /\ left[t] > 0 /\ reader => w_position \in Positions

(* The ring is consistent under any number of readers and sleeps in the    *)
(* middle of a call: the two positions and word_length agree, and whoever  *)
(* sleeps still has a reason to.                                           *)
PipeInvariant == TypeOK /\ PositionsAgree /\ SleepersJustified

=============================================================================
