----------------------------- MODULE ByteStream -----------------------------
(***************************************************************************)
(* What a pipe promises (tinyos.h, Pipe): bytes written to the write end   *)
(* become available at the read end, all of them and in order; when the    *)
(* write end is closed the read end works until the buffer is empty; when  *)
(* the read end is closed nothing more is written.  Spec is that promise;  *)
(* OverwritingSpec also lets a byte written while Slots bytes are unread   *)
(* take the place of the oldest of them.                                   *)
(***************************************************************************)
EXTENDS Naturals, Sequences

CONSTANTS
  Data,   \* the values of a byte
  Slots   \* the capacity of the implementation

VARIABLES
  queue,      \* bytes written and not yet read
  delivered,  \* the byte handed to a reader last
  readable,   \* the read end is open
  writable    \* the write end is open

vars == <<queue, delivered, readable, writable>>

TypeOK ==
  /\ queue \in Seq(Data)
  /\ delivered \in Data
  /\ readable \in BOOLEAN
  /\ writable \in BOOLEAN

Init ==
  /\ queue = << >>
  /\ delivered \in Data
  /\ readable = TRUE
  /\ writable = TRUE

Put(b) ==
  /\ readable /\ writable
  /\ queue' = Append(queue, b)
  /\ UNCHANGED <<delivered, readable, writable>>

Get ==
  /\ readable
  /\ queue # << >>
  /\ delivered' = Head(queue)
  /\ queue' = Tail(queue)
  /\ UNCHANGED <<readable, writable>>

CloseRead  == readable /\ readable' = FALSE /\ UNCHANGED <<queue, delivered, writable>>
CloseWrite == writable /\ writable' = FALSE /\ UNCHANGED <<queue, delivered, readable>>

Next == (\E b \in Data : Put(b)) \/ Get \/ CloseRead \/ CloseWrite

Spec == Init /\ [][Next]_vars

Overwrite(b) ==
  /\ readable /\ writable
  /\ Len(queue) = Slots
  /\ queue' = Append([queue EXCEPT ![1] = b], b)
  /\ UNCHANGED <<delivered, readable, writable>>

PutShort(b) == Len(queue) < Slots /\ Put(b)

OverwritingNext ==
  (\E b \in Data : PutShort(b) \/ Overwrite(b)) \/ Get \/ CloseRead \/ CloseWrite

OverwritingSpec == Init /\ [][OverwritingNext]_vars

=============================================================================
