----------------------------- MODULE PipeProofs -----------------------------
(***************************************************************************)
(* Proofs about the pipe, for a ring of any size, any number of readers    *)
(* and calls of any length, with at most one thread inside pipe_write: the *)
(* ring stays consistent, and it implements the byte stream that loses its *)
(* oldest byte when it is written full.                                    *)
(***************************************************************************)
EXTENDS Pipe, ListLemmas, FiniteSetTheorems, TLAPS

-----------------------------------------------------------------------------
(* Arithmetic of the ring.                                                 *)

(* A pipe has at least one slot.                                           *)
LEMMA SlotsType == Slots \in Nat /\ Slots > 0 /\ PIPE_BUFFER_SIZE = Slots + 1
  BY PipeAssumption DEF Slots

(* A position at most twice round the ring.                                *)
LEMMA ModRing ==
  ASSUME NEW S \in Nat \ {0}, NEW x \in 0 .. 2 * S - 1
  PROVE  x % S = IF x < S THEN x ELSE x - S
<1>1. CASE x < S
  <2>1. x \in 0 .. S - 1
    BY <1>1
  <2> QED BY <2>1
<1>2. CASE x >= S
  <2>1. x \in S .. 2 * S - 1
    BY <1>2
  <2> QED BY <2>1
<1> QED BY <1>1, <1>2

(* The multiples of S that the difference of the positions can be.         *)
LEMMA ModZero ==
  ASSUME NEW S \in Nat \ {0}, NEW x \in (0 - S) .. 2 * S
  PROVE  x % S = 0 <=> x \in {0 - S, 0, S, 2 * S}
<1>1. CASE x \in (0 - S) .. (0 - 1)
  <2>1. x % S = x + S
    BY <1>1
  <2> QED BY <2>1, <1>1
<1>2. CASE x \in 0 .. 2 * S - 1
  BY <1>2, ModRing
<1>3. CASE x = 2 * S
  BY <1>3
<1> QED BY <1>1, <1>2, <1>3

-----------------------------------------------------------------------------
(* The inductive invariant.                                                *)

(* Who holds the kernel monitor is at the head of a loop, and nobody else. *)
MonitorHeld ==
  \A t \in Threads : pc[t] \in {"write", "read"} <=> kernel = t

(* A thread asleep is at its kernel_wait, with bytes to transfer.          *)
SleepersPlaced ==
  /\ \A t \in has_space : pc[t] = "full"
  /\ \A t \in has_data : pc[t] = "empty"
  /\ \A t \in Threads : pc[t] = "full" => left[t] > 0

(* The references that calls in progress hold keep their end open.         *)
EndsOpen ==
  /\ Writing # {} => writer
  /\ Reading # {} => reader

OneWriter == \A t, u \in Writing : t = u

(* The difference of the positions, without %.  In the middle of a round,  *)
(* with the writer at its kernel_wait, w_position is not wrapped yet.      *)
Agree == r_position + word_length - w_position \in {0 - Slots, 0, Slots, 2 * Slots}

RoundBounds ==
  /\ (\E t \in Threads : pc[t] = "full") => w_position > 0
  /\ (\A t \in Threads : pc[t] # "full") => w_position < Slots /\ word_length <= Slots

IInv ==
  /\ TypeOK /\ MonitorHeld /\ SleepersPlaced /\ EndsOpen /\ OneWriter
  /\ Agree /\ RoundBounds /\ SleepersJustified

(* The inductive invariant implies the property the run checks.            *)
LEMMA IInvSound == IInv => PipeInvariant
<1> SUFFICES ASSUME IInv PROVE PositionsAgree
  BY DEF IInv, PipeInvariant
<1> DEFINE x == r_position + word_length - w_position
<1>1. x \in (0 - Slots) .. 2 * Slots /\ Slots \in Nat \ {0}
  BY SlotsType DEF IInv, TypeOK, Positions
<1>2. x \in {0 - Slots, 0, Slots, 2 * Slots}
  BY DEF IInv, Agree
<1>3. x % Slots = 0
  <2> HIDE DEF x
  <2> QED BY <1>1, <1>2, ModZero
<1> QED BY <1>3 DEF PositionsAgree

(* The inductive invariant holds initially.                                *)
LEMMA InitIInv == Init => IInv
<1> SUFFICES ASSUME Init PROVE IInv
  OBVIOUS
<1>1. TypeOK
  BY PipeAssumption DEF Init, TypeOK, Positions, Places
<1>2. MonitorHeld /\ SleepersPlaced /\ EndsOpen /\ OneWriter
  BY PipeAssumption DEF Init, MonitorHeld, SleepersPlaced, EndsOpen, OneWriter, Writing, Reading
<1>3. Agree /\ RoundBounds /\ SleepersJustified
  BY SlotsType DEF Init, Agree, RoundBounds, SleepersJustified
<1> QED BY <1>1, <1>2, <1>3 DEF IInv

(* Bytes left to transfer, after one more.                                 *)
LEMMA LeftType ==
  ASSUME TypeOK, NEW t \in Threads, left[t] > 0
  PROVE  [left EXCEPT ![t] = @ - 1] \in [Threads -> {0} \cup UNION {0 .. n : n \in Sizes}]
<1>1. PICK n \in Sizes : left[t] \in 0 .. n
  BY DEF TypeOK
<1>2. n \in Nat /\ left[t] - 1 \in 0 .. n
  BY <1>1, PipeAssumption
<1> QED BY <1>1, <1>2 DEF TypeOK

(* With at most one writer a writer starts only when none is in            *)
(* pipe_write.                                                             *)
LEMMA NoWriter ==
  ASSUME MaxWriters <= 1, Cardinality(Writing) < MaxWriters
  PROVE  Writing = {}
<1>1. IsFiniteSet(Writing) /\ Cardinality(Writing) \in Nat
  BY PipeAssumption, FS_Subset, FS_CardinalityType DEF Writing
<1>2. Cardinality(Writing) = 0
  BY <1>1, PipeAssumption
<1> QED BY <1>1, <1>2, FS_EmptySet

-----------------------------------------------------------------------------
(* One lemma per action.                                                   *)

(* The step CallWrite keeps the inductive invariant.                       *)
LEMMA CallWriteInv ==
  ASSUME IInv, MaxWriters <= 1, NEW t \in Threads, NEW n \in Sizes, CallWrite(t, n)
  PROVE  IInv'
<1> USE DEF IInv, CallWrite, Goto, ringVars, endVars
<1>0. Writing = {}
  BY NoWriter
<1>1. TypeOK'
  <2>1. n \in Nat /\ n \in UNION {0 .. k : k \in Sizes}
    BY PipeAssumption
  <2> QED BY <2>1 DEF TypeOK, Places
<1>2. MonitorHeld'
  BY PipeAssumption DEF TypeOK, MonitorHeld
<1>3. SleepersPlaced'
  BY DEF TypeOK, SleepersPlaced
<1>4. EndsOpen' /\ OneWriter'
  BY <1>0 DEF TypeOK, EndsOpen, OneWriter, Writing, Reading
<1>5. Agree' /\ RoundBounds' /\ SleepersJustified'
  BY DEF TypeOK, Agree, RoundBounds, SleepersJustified, Slots
<1> QED BY <1>1, <1>2, <1>3, <1>4, <1>5

(* The step StoreByte keeps the inductive invariant.                       *)
LEMMA StoreByteInv ==
  ASSUME IInv, NEW t \in Threads, NEW b \in Data, StoreByte(t, b)
  PROVE  IInv'
<1> USE DEF IInv, StoreByte, Goto, Sleep, Stored, ringVars, endVars
<1>0. \A u \in Threads : pc[u] # "full"
  BY DEF OneWriter, Writing
<1>a. w_position \in 0 .. Slots - 1 /\ word_length \in 0 .. Slots
  BY <1>0, SlotsType DEF RoundBounds, TypeOK, Positions
<1>1. TypeOK'
  <2>1. buffer' \in [Positions -> Data]
    BY DEF TypeOK
  <2>2. w_position' \in Positions /\ word_length' \in 0 .. PIPE_BUFFER_SIZE
    BY <1>a, SlotsType DEF WrapWrite, Positions
  <2>3. left' \in [Threads -> {0} \cup UNION {0 .. k : k \in Sizes}]
    BY LeftType DEF TypeOK
  <2> QED BY <2>1, <2>2, <2>3 DEF TypeOK, Places
<1>2. MonitorHeld'
  BY PipeAssumption DEF TypeOK, MonitorHeld
<1>3. SleepersPlaced'
  BY <1>0 DEF TypeOK, SleepersPlaced
<1>4. EndsOpen' /\ OneWriter'
  BY DEF TypeOK, EndsOpen, OneWriter, Writing, Reading
<1>5. Agree'
  BY <1>a, SlotsType DEF TypeOK, Agree, WrapWrite
<1>6. RoundBounds'
  BY <1>0, <1>a, SlotsType DEF TypeOK, RoundBounds, WrapWrite
<1>7. SleepersJustified'
  BY <1>0, <1>a, SlotsType DEF TypeOK, SleepersJustified, SleepersPlaced
<1> QED BY <1>1, <1>2, <1>3, <1>4, <1>5, <1>6, <1>7

(* The step WokenWriter keeps the inductive invariant.                     *)
LEMMA WokenWriterInv ==
  ASSUME IInv, NEW t \in Threads, WokenWriter(t)
  PROVE  IInv'
<1> USE DEF IInv, WokenWriter, Goto, Stored, ringVars, endVars
<1>0. \A u \in Threads : pc[u] = "full" => u = t
  BY DEF OneWriter, Writing
<1>a. w_position \in 1 .. Slots /\ word_length \in 0 .. Slots + 1
  BY SlotsType DEF RoundBounds, TypeOK, Positions
<1>1. TypeOK'
  <2>2. w_position' \in Positions
    BY <1>a, SlotsType DEF WrapWrite, Positions
  <2>3. left' \in [Threads -> {0} \cup UNION {0 .. k : k \in Sizes}]
    BY LeftType DEF TypeOK, SleepersPlaced
  <2> QED BY <2>2, <2>3 DEF TypeOK, Places
<1>2. MonitorHeld'
  BY PipeAssumption DEF TypeOK, MonitorHeld
<1>3. SleepersPlaced'
  BY <1>0 DEF TypeOK, SleepersPlaced
<1>4. EndsOpen' /\ OneWriter'
  BY DEF TypeOK, EndsOpen, OneWriter, Writing, Reading
<1>5. Agree'
  BY <1>a, SlotsType DEF TypeOK, Agree, WrapWrite
<1>6. RoundBounds'
  BY <1>0, <1>a, SlotsType DEF TypeOK, RoundBounds, WrapWrite
<1>7. SleepersJustified'
  BY DEF TypeOK, SleepersJustified, SleepersPlaced
<1> QED BY <1>1, <1>2, <1>3, <1>4, <1>5, <1>6, <1>7

(* The step FetchByte keeps the inductive invariant.                       *)
LEMMA FetchByteInv ==
  ASSUME IInv, NEW t \in Threads, FetchByte(t)
  PROVE  IInv'
<1> USE DEF IInv, FetchByte, WakeWriters, endVars
<1>a. r_position \in 0 .. Slots - 1 /\ word_length \in 1 .. Slots + 1 /\ w_position \in 0 .. Slots
  BY SlotsType DEF TypeOK, Positions
<1>1. TypeOK'
  <2>1. r_position' \in 0 .. PIPE_BUFFER_SIZE - 2 /\ word_length' \in 0 .. PIPE_BUFFER_SIZE
    BY <1>a, SlotsType DEF WrapRead
  <2>2. got' \in Data
    BY <1>a, SlotsType DEF TypeOK, Positions
  <2>3. left' \in [Threads -> {0} \cup UNION {0 .. k : k \in Sizes}]
    BY LeftType DEF TypeOK
  <2> QED BY <2>1, <2>2, <2>3 DEF TypeOK, Places
<1>2. MonitorHeld'
  BY DEF MonitorHeld
<1>3. SleepersPlaced'
  BY DEF TypeOK, SleepersPlaced
<1>4. EndsOpen' /\ OneWriter'
  BY DEF EndsOpen, OneWriter, Writing, Reading
<1>5. Agree'
  BY <1>a, SlotsType DEF Agree, WrapRead
<1>6. RoundBounds'
  BY <1>a, SlotsType DEF RoundBounds
<1>7. SleepersJustified'
  BY <1>a, SlotsType DEF SleepersJustified
<1> QED BY <1>1, <1>2, <1>3, <1>4, <1>5, <1>6, <1>7

(* The step CallRead keeps the inductive invariant.                        *)
LEMMA CallReadInv ==
  ASSUME IInv, NEW t \in Threads, NEW n \in Sizes, CallRead(t, n)
  PROVE  IInv'
<1> USE DEF IInv, CallRead, Goto, ringVars, endVars
<1>1. TypeOK'
  <2>1. n \in Nat /\ n \in UNION {0 .. k : k \in Sizes}
    BY PipeAssumption
  <2> QED BY <2>1 DEF TypeOK, Places
<1>2. MonitorHeld'
  BY PipeAssumption DEF TypeOK, MonitorHeld
<1>3. SleepersPlaced'
  BY DEF TypeOK, SleepersPlaced
<1>4. EndsOpen' /\ OneWriter'
  BY DEF TypeOK, EndsOpen, OneWriter, Writing, Reading
<1>5. Agree' /\ RoundBounds' /\ SleepersJustified'
  BY DEF TypeOK, Agree, RoundBounds, SleepersJustified, Slots
<1> QED BY <1>1, <1>2, <1>3, <1>4, <1>5

(* The other steps of a thread that leave the ring alone.                  *)
LEMMA WaitsAndReturnsInv ==
  ASSUME IInv, NEW t \in Threads,
         WriteReturns(t) \/ WaitForData(t) \/ WokenReader(t) \/ ReadReturns(t)
  PROVE  IInv'
<1> USE DEF IInv, WriteReturns, WaitForData, WokenReader, ReadReturns, Goto, Sleep, Return,
            ringVars, endVars
<1>1. TypeOK'
  BY DEF TypeOK, Places
<1>2. MonitorHeld'
  BY PipeAssumption DEF TypeOK, MonitorHeld
<1>3. SleepersPlaced'
  BY DEF TypeOK, SleepersPlaced
<1>4. EndsOpen' /\ OneWriter'
  BY DEF TypeOK, EndsOpen, OneWriter, Writing, Reading
<1>5. Agree' /\ RoundBounds' /\ SleepersJustified'
  BY DEF TypeOK, Agree, RoundBounds, SleepersJustified, Slots
<1> QED BY <1>1, <1>2, <1>3, <1>4, <1>5

(* Closing an end wakes the other side and touches no byte.                *)
LEMMA ClosesInv ==
  ASSUME IInv, pipe_writer_close \/ pipe_reader_close
  PROVE  IInv'
<1> USE DEF IInv, pipe_writer_close, pipe_reader_close, WakeReaders, ringVars
<1>1. TypeOK' /\ MonitorHeld' /\ SleepersPlaced'
  BY DEF TypeOK, MonitorHeld, SleepersPlaced
<1>2. EndsOpen' /\ OneWriter'
  BY DEF EndsOpen, OneWriter, Writing, Reading
<1>3. Agree' /\ RoundBounds' /\ SleepersJustified'
  BY DEF Agree, RoundBounds, SleepersJustified, Slots
<1> QED BY <1>1, <1>2, <1>3

(* Every step keeps the inductive invariant.                               *)
LEMMA InvStep == MaxWriters <= 1 /\ IInv /\ [Next]_vars => IInv'
<1> SUFFICES ASSUME MaxWriters <= 1, IInv, [Next]_vars PROVE IInv'
  OBVIOUS
<1>1. CASE UNCHANGED vars
  BY <1>1 DEF vars, IInv, TypeOK, MonitorHeld, SleepersPlaced, EndsOpen, OneWriter, Writing, Reading,
              Agree, RoundBounds, SleepersJustified
<1>2. CASE Calls
  BY <1>2, CallWriteInv, CallReadInv DEF Calls
<1>3. ASSUME NEW t \in Threads, Step(t) PROVE IInv'
  BY <1>3, StoreByteInv, WokenWriterInv, FetchByteInv, WaitsAndReturnsInv DEF Step
<1>4. CASE pipe_writer_close \/ pipe_reader_close
  BY <1>4, ClosesInv
<1> QED BY <1>1, <1>2, <1>3, <1>4 DEF Next

(* The ring of kernel_pipe.c is consistent as long as one thread at a time *)
(* is inside pipe_write: its positions and word_length agree, whoever      *)
(* sleeps in the middle of a round, and a sleeper has a reason to sleep.   *)
THEOREM PipeSafe ==
  ASSUME MaxWriters <= 1
  PROVE  Spec => []PipeInvariant
<1>1. Init => IInv
  BY InitIInv
<1>2. IInv /\ [Next]_vars => IInv'
  BY InvStep
<1>3. IInv => PipeInvariant
  BY IInvSound
<1> QED BY <1>1, <1>2, <1>3, PTL DEF Spec

(* A single writer never stores outside the buffer.                        *)
THEOREM SingleWriterInBuffer ==
  ASSUME MaxWriters <= 1
  PROVE  Spec => []StoresInBuffer
<1>1. Init => IInv
  BY InitIInv
<1>2. IInv /\ [Next]_vars => IInv'
  BY InvStep
<1>3. IInv => StoresInBuffer
  BY DEF IInv, TypeOK, StoresInBuffer
<1> QED BY <1>1, <1>2, <1>3, PTL DEF Spec

-----------------------------------------------------------------------------
(* The refinement of the overwriting byte stream.                          *)

(* The unread bytes, oldest first: Stream's queue.                         *)
Unread == [i \in 1 .. word_length |-> buffer[(r_position + i - 1) % Slots]]

(* What is unread is a sequence of bytes, as long as word_length says.     *)
LEMMA UnreadType ==
  ASSUME TypeOK
  PROVE  Unread \in Seq(Data) /\ Len(Unread) = word_length
<1>1. ASSUME NEW i \in 1 .. word_length PROVE (r_position + i - 1) % Slots \in Positions
  <2>1. r_position + i - 1 \in 0 .. 2 * Slots - 1 /\ Slots \in Nat \ {0}
    BY SlotsType DEF TypeOK
  <2> QED BY <2>1, ModRing, SlotsType DEF Positions
<1>2. word_length \in Nat
  BY SlotsType DEF TypeOK
<1>3. Unread \in [1 .. word_length -> Data]
  BY <1>1 DEF TypeOK, Unread
<1> QED BY <1>2, <1>3

(* Where the i-th byte from position r on is.                              *)
LEMMA SlotOf ==
  ASSUME NEW r \in 0 .. Slots - 1, NEW i \in 1 .. Slots + 1
  PROVE  (r + i - 1) % Slots = IF r + i - 1 < Slots THEN r + i - 1 ELSE r + i - 1 - Slots
<1> DEFINE x == r + i - 1
<1>1. x \in 0 .. 2 * Slots - 1 /\ Slots \in Nat \ {0}
  BY SlotsType
<1>2. x % Slots = IF x < Slots THEN x ELSE x - Slots
  <2> HIDE DEF x
  <2> QED BY <1>1, ModRing
<1> QED BY <1>1, <1>2

(* The byte stored goes behind the last unread one; when all the slots are *)
(* unread it also takes the place of the oldest.                           *)
LEMMA StoreByteStream ==
  ASSUME IInv, NEW t \in Threads, NEW b \in Data, StoreByte(t, b)
  PROVE  Stream!PutShort(b) \/ Stream!Overwrite(b)
<1>0. \A u \in Threads : pc[u] # "full"
  BY DEF IInv, OneWriter, Writing, StoreByte
<1>a. /\ w_position \in 0 .. Slots - 1 /\ word_length \in 0 .. Slots
      /\ r_position \in 0 .. Slots - 1 /\ Slots \in Nat
      /\ r_position' = r_position /\ word_length' = word_length + 1
  BY <1>0, SlotsType DEF IInv, RoundBounds, TypeOK, Positions, StoreByte
<1>b. w_position = IF r_position + word_length < Slots THEN r_position + word_length
                   ELSE r_position + word_length - Slots
  BY <1>a DEF IInv, Agree
<1>c. buffer' = [buffer EXCEPT ![w_position] = b] /\ buffer \in [Positions -> Data] /\ w_position \in Positions
  BY DEF IInv, TypeOK, StoreByte
<1>d. Unread \in Seq(Data) /\ Len(Unread) = word_length
  BY UnreadType DEF IInv
<1>e. Unread' = [i \in 1 .. word_length + 1 |->
                   IF i = word_length + 1 \/ (i = 1 /\ word_length = Slots) THEN b ELSE Unread[i]]
  <2>1. ASSUME NEW i \in 1 .. word_length + 1
        PROVE  buffer'[(r_position + i - 1) % Slots] =
                 IF i = word_length + 1 \/ (i = 1 /\ word_length = Slots) THEN b ELSE Unread[i]
    <3> DEFINE p == (r_position + i - 1) % Slots
    <3>1. p = IF r_position + i - 1 < Slots THEN r_position + i - 1 ELSE r_position + i - 1 - Slots
      BY <1>a, SlotOf
    <3>2. p \in Positions
      BY <3>1, <1>a, SlotsType DEF Positions
    <3>3. p = w_position <=> (i = word_length + 1 \/ (i = 1 /\ word_length = Slots))
      BY <3>1, <1>a, <1>b
    <3>4. i # word_length + 1 => Unread[i] = buffer[p]
      BY <1>a DEF Unread
    <3> QED BY <3>2, <3>3, <3>4, <1>c
  <2> QED BY <2>1, <1>a DEF Unread
<1>f. reader /\ writer /\ UNCHANGED <<got, reader, writer>>
  BY DEF IInv, EndsOpen, Writing, StoreByte, endVars
<1>1. CASE word_length < Slots
  <2>1. Unread' = Append(Unread, b)
    <3>1. Unread' = [i \in 1 .. Len(Unread) + 1 |-> IF i = Len(Unread) + 1 THEN b ELSE Unread[i]]
      BY <1>1, <1>a, <1>d, <1>e
    <3> QED BY <3>1, <1>d, AppendIs
  <2> QED BY <2>1, <1>1, <1>d, <1>f DEF Unread, Stream!PutShort, Stream!Put
<1>2. CASE word_length = Slots
  <2>1. Unread' = Append([Unread EXCEPT ![1] = b], b)
    <3> DEFINE s == [Unread EXCEPT ![1] = b]
    <3>1. s \in Seq(Data) /\ Len(s) = Len(Unread)
      BY <1>2, <1>a, <1>d, SlotsType, ExceptSeq
    <3>2. Unread' = [i \in 1 .. Len(s) + 1 |-> IF i = Len(s) + 1 THEN b ELSE s[i]]
      BY <1>2, <1>a, <1>d, <1>e, <3>1, SlotsType
    <3> HIDE DEF s
    <3>3. Unread' = Append(s, b)
      BY <3>1, <3>2, AppendIs
    <3> QED BY <3>3 DEF s
  <2> QED BY <2>1, <1>2, <1>d, <1>f DEF Unread, Stream!Overwrite
<1> QED BY <1>1, <1>2, <1>a

(* Reading a slot is taking the first byte of the abstract stream.         *)
LEMMA FetchByteStream ==
  ASSUME IInv, NEW t \in Threads, FetchByte(t)
  PROVE  Stream!Get
<1>a. /\ r_position \in 0 .. Slots - 1 /\ word_length \in 1 .. Slots + 1 /\ Slots \in Nat
      /\ r_position' = IF r_position + 1 = Slots THEN 0 ELSE r_position + 1
      /\ word_length' = word_length - 1 /\ buffer' = buffer
  BY SlotsType DEF IInv, TypeOK, FetchByte, WrapRead
<1>d. Unread \in Seq(Data) /\ Len(Unread) = word_length
  BY UnreadType DEF IInv
<1>1. got' = Head(Unread)
  <2>1. (r_position + 1 - 1) % Slots = r_position
    BY <1>a
  <2> QED BY <2>1, <1>a, <1>d DEF FetchByte, Unread
<1>2. Unread' = Tail(Unread)
  <2>1. ASSUME NEW i \in 1 .. word_length - 1
        PROVE  buffer[(r_position' + i - 1) % Slots] = Unread[i + 1]
    <3>1. (r_position' + i - 1) % Slots = (r_position + (i + 1) - 1) % Slots
      <4>1. i \in 1 .. Slots /\ i + 1 \in 1 .. Slots + 1 /\ r_position' \in 0 .. Slots - 1
        BY <1>a
      <4>2. (r_position' + i - 1) % Slots =
              IF r_position' + i - 1 < Slots THEN r_position' + i - 1 ELSE r_position' + i - 1 - Slots
        BY <4>1, <1>a, SlotOf
      <4>3. (r_position + (i + 1) - 1) % Slots =
              IF r_position + (i + 1) - 1 < Slots THEN r_position + (i + 1) - 1
              ELSE r_position + (i + 1) - 1 - Slots
        BY <4>1, <1>a, SlotOf
      <4> QED BY <4>1, <4>2, <4>3, <1>a
    <3> QED BY <3>1, <1>a DEF Unread
  <2>2. Unread' = [i \in 1 .. word_length - 1 |-> buffer[(r_position' + i - 1) % Slots]]
    BY <1>a DEF Unread
  <2>3. Tail(Unread) = [i \in 1 .. word_length - 1 |-> Unread[i + 1]]
    <3>1. Tail(Unread) \in Seq(Data) /\ Len(Tail(Unread)) = word_length - 1
      BY <1>a, <1>d, HeadTailProperties
    <3>2. \A i \in 1 .. word_length - 1 : Tail(Unread)[i] = Unread[i + 1]
      BY <1>a, <1>d, HeadTailProperties
    <3>3. Tail(Unread) = [i \in 1 .. word_length - 1 |-> Tail(Unread)[i]]
      BY <3>1, SeqAsFunction
    <3> QED BY <3>2, <3>3
  <2> QED BY <2>1, <2>2, <2>3
<1>3. reader /\ UNCHANGED <<reader, writer>>
  BY DEF IInv, EndsOpen, Reading, FetchByte, endVars
<1>4. Unread # << >>
  BY <1>a, <1>d
<1> QED BY <1>1, <1>2, <1>3, <1>4 DEF Unread, Stream!Get

(* Every step of the pipe is a step of the stream or leaves it alone.      *)
LEMMA StreamStep == IInv /\ [Next]_vars => [Stream!OverwritingNext]_(Stream!vars)
<1> SUFFICES ASSUME IInv, [Next]_vars PROVE [Stream!OverwritingNext]_(Stream!vars)
  OBVIOUS
<1>s. ASSUME UNCHANGED <<ringVars, endVars, got>> PROVE UNCHANGED Stream!vars
  BY <1>s DEF ringVars, endVars, Stream!vars
<1>1. CASE UNCHANGED vars
  BY <1>1, <1>s DEF vars, ringVars, endVars
<1>2. CASE Calls
  BY <1>2, <1>s DEF Calls, CallWrite, CallRead
<1>3. ASSUME NEW t \in Threads, Step(t) PROVE [Stream!OverwritingNext]_(Stream!vars)
  <2>1. ASSUME NEW b \in Data, StoreByte(t, b) PROVE Stream!OverwritingNext
    BY <2>1, StoreByteStream DEF Stream!OverwritingNext
  <2>2. CASE FetchByte(t)
    BY <2>2, FetchByteStream DEF Stream!OverwritingNext
  <2>3. CASE WokenWriter(t)
    BY <2>3 DEF WokenWriter, Stored, endVars, Stream!vars
  <2>4. CASE WriteReturns(t) \/ WaitForData(t) \/ WokenReader(t) \/ ReadReturns(t)
    BY <2>4, <1>s DEF WriteReturns, WaitForData, WokenReader, ReadReturns
  <2> QED BY <1>3, <2>1, <2>2, <2>3, <2>4 DEF Step
<1>4. CASE pipe_writer_close
  BY <1>4 DEF pipe_writer_close, ringVars, Stream!OverwritingNext, Stream!CloseWrite
<1>5. CASE pipe_reader_close
  BY <1>5 DEF pipe_reader_close, ringVars, Stream!OverwritingNext, Stream!CloseRead
<1> QED BY <1>1, <1>2, <1>3, <1>4, <1>5 DEF Next

(* pipe_write and pipe_read implement a byte stream: with one writer at a  *)
(* time every byte is delivered once and in order, through wrap-around,    *)
(* sleeping and closing ends, for a buffer of any size - except the oldest *)
(* byte, when another is written with all the slots unread.                *)
THEOREM PipeIsOverwritingStream ==
  ASSUME MaxWriters <= 1
  PROVE  Spec => OverwritingStream
<1>1. Init => IInv
  BY InitIInv
<1>2. IInv /\ [Next]_vars => IInv'
  BY InvStep
<1>3. Init => Stream!Init
  BY DEF Init, Stream!Init
<1>4. IInv /\ [Next]_vars => [Stream!OverwritingNext]_(Stream!vars)
  BY StreamStep
<1> QED BY <1>1, <1>2, <1>3, <1>4, PTL DEF Spec, OverwritingStream, Stream!OverwritingSpec
=============================================================================
