---------------------------- MODULE SerialDriver ----------------------------
(***************************************************************************)
(* The serial device driver (kernel_dev.c), used by the one thread of a    *)
(* program that asks the proxy of its terminal for K bytes, reads them,    *)
(* announces K bytes, writes them and exits, which is what the terminal    *)
(* tests of validate_api.c do.                                             *)
(*                                                                         *)
(* Only the thread's own core is protected from the interrupt: between the *)
(* failed bios_read_serial and the wait, serial_rx_handler may broadcast   *)
(* on another core, with nobody to wake.                                   *)
(***************************************************************************)
EXTENDS Bios

CONSTANT K               \* bytes the program reads, and writes

(* An empty pattern would be met, and typed, at once.                      *)
ASSUME SerialAssumption == K \in Nat \ {0}

VARIABLE thread          \* where the thread is, on which core, and the bytes
                         \* it has read and written

serialVars == <<biosVars, thread>>

ThreadTypeOK ==
  thread \in [at : {"ready", "user", "failed", "asleep", "gone"}, core : Cores,
              got : 0 .. K, put : 0 .. K, asked : {"none", "sendme", "expect"}]

ThreadInit == thread = [at |-> "ready", core |-> 0, got |-> 0, put |-> 0, asked |-> "none"]

(* Mutants: the RX handler wakes nobody; a thread that has exited is still *)
(* counted.                                                                *)
WakesNobody(t)   == t
ThreadCountKept  == active_threads

On(c) == thread.core = c /\ core[c] = "runs"
MayRead(c)  == thread.at = "user" /\ On(c) /\ thread.asked = "sendme" /\ thread.got < K
MayWrite(c) == thread.at = "user" /\ On(c) /\ thread.asked = "expect" /\ thread.put < K

machineUnchanged == UNCHANGED <<core, pic, PIC_active, int_pending, usr1, intvec>>

(* The scheduler of core c takes the thread.                               *)
RunThread(c) ==
  /\ thread.at = "ready" /\ core[c] = "runs"
  /\ thread' = [thread EXCEPT !.at = "user", !.core = c]
  /\ UNCHANGED biosVars

(* serial_read of one byte, up to kernel_wait.                             *)
serial_read(c) ==
  /\ MayRead(c)
  /\ TryTransfer("kbd")
  /\ thread' = IF io_ready("kbd") THEN [thread EXCEPT !.got = @ + 1] ELSE [thread EXCEPT !.at = "failed"]
  /\ machineUnchanged /\ UNCHANGED active_threads

(* kernel_wait on rx_ready: the thread sleeps, and the core is given away. *)
SleepRx ==
  /\ thread.at = "failed"
  /\ thread' = [thread EXCEPT !.at = "asleep"]
  /\ UNCHANGED biosVars

(* serial_write of one byte; it yields when there is no room.              *)
serial_write(c) ==
  /\ MayWrite(c)
  /\ TryTransfer("con")
  /\ thread' = IF io_ready("con") THEN [thread EXCEPT !.put = @ + 1] ELSE [thread EXCEPT !.at = "ready"]
  /\ machineUnchanged /\ UNCHANGED active_threads

ThreadsLeft == active_threads - 1

ThreadExits(c) ==
  /\ thread.at = "user" /\ On(c) /\ thread.put = K
  /\ thread' = [thread EXCEPT !.at = "gone"]
  /\ active_threads' = ThreadsLeft
  /\ machineUnchanged /\ UNCHANGED <<ready, fifo>>

(* serial_rx_handler broadcasts rx_ready.                                  *)
serial_rx_handler(t) == IF t.at = "asleep" THEN [t EXCEPT !.at = "ready"] ELSE t

(* The handler of the dispatched interrupt: ALARM preempts the thread of   *)
(* the core, serial_tx_handler does nothing.  With preemption off, which   *)
(* a thread in serial_read is, the signal stays pending.                   *)
Handle(c) ==
  /\ ~ (thread.at = "failed" /\ thread.core = c)
  /\ sigusr1_handler(c)
  /\ thread' = CASE Dispatched(c) = SERIAL_RX_READY -> serial_rx_handler(thread)
                 [] Dispatched(c) = ALARM /\ thread.at = "user" /\ thread.core = c
                       -> [thread EXCEPT !.at = "ready"]
                 [] OTHER -> thread

VMStep ==
  \/ (SystemStarts \/ SystemStops \/ PIC_check \/ PIC_select) /\ UNCHANGED thread
  \/ \E c \in Cores : CoreStep(c) /\ UNCHANGED thread
  \/ \E late \in SUBSET Devices, alarms \in SUBSET Cores : PIC_process(late, alarms) /\ UNCHANGED thread
  \/ \E c \in Cores : Handle(c) \/ RunThread(c) \/ serial_read(c) \/ serial_write(c) \/ ThreadExits(c)
  \/ SleepRx
=============================================================================
