-------------------------------- MODULE Bios --------------------------------
(***************************************************************************)
(* The virtual machine (bios.c): the core threads, the PIC daemon that     *)
(* selects on the devices and raises interrupts, and one terminal with a   *)
(* keyboard (RX) and a console (TX) FIFO; and the start of the kernel on   *)
(* it (kernel_init.c).                                                     *)
(*                                                                         *)
(* An interrupt is a bit of int_pending and a SIGUSR1 for the core thread. *)
(* Signals of one kind do not queue up, and a signal dispatches at most    *)
(* one interrupt, the one with the lowest number: a pending interrupt may  *)
(* have no signal left to dispatch it.                                     *)
(*                                                                         *)
(* A core that halts is restarted by every interrupt raised for it (module *)
(* Scheduler), so halting is left out.  The kernel raises no ICI.          *)
(***************************************************************************)
EXTENDS Integers, FiniteSetsExt

CONSTANTS
  NCORES,
  ConSize        \* bytes the console's FIFO holds

ASSUME BiosAssumption == NCORES \in Nat \ {0} /\ ConSize \in Nat \ {0}

Cores == 0 .. NCORES - 1
Devices == {"kbd", "con"}
ALARM == 1
SERIAL_RX_READY == 2
SERIAL_TX_READY == 3
Interrupts == {ALARM, SERIAL_RX_READY, SERIAL_TX_READY}

VARIABLES
  core,          \* where each core thread is
  pic,           \* where the PIC daemon is, the devices it selects on, and
                 \* those that select has found ready
  PIC_active,
  int_pending,   \* of each core
  usr1,          \* the cores with a SIGUSR1 pending
  intvec,        \* the interrupts each core has a handler for
  ready,         \* the ready flag of each io_device
  fifo,          \* bytes in each FIFO
  active_threads

biosVars == <<core, pic, PIC_active, int_pending, usr1, intvec, ready, fifo, active_threads>>

BiosTypeOK ==
  /\ core \in [Cores -> {"off", "start", "boot", "barrier", "runs", "reset", "stopped", "exited"}]
  /\ pic \in [at : {"off", "start", "check", "select", "process", "stopped", "joined"},
              set : SUBSET Devices, found : SUBSET Devices]
  /\ PIC_active \in BOOLEAN
  /\ int_pending \in [Cores -> SUBSET Interrupts]
  /\ usr1 \subseteq Cores
  /\ intvec \in [Cores -> SUBSET Interrupts]
  /\ ready \in [Devices -> BOOLEAN]
  /\ fifo \in [Devices -> Nat]
  /\ active_threads \in Nat

BiosInit ==
  /\ core = [c \in Cores |-> "off"]
  /\ pic = [at |-> "off", set |-> {}, found |-> {}]
  /\ PIC_active = FALSE
  /\ int_pending = [c \in Cores |-> {}]
  /\ usr1 = {}
  /\ intvec = [c \in Cores |-> {}]
  /\ ready = [d \in Devices |-> FALSE]
  /\ fifo = [d \in Devices |-> 0]
  /\ active_threads = 0

-----------------------------------------------------------------------------
(* Mutants: the daemon ignores the time-out; the cores go to their         *)
(* scheduler, or to their end, without waiting for each other.             *)
FoundOnly(late)      == pic.found
KernelNotReady       == TRUE
OneIsReset           == \E c \in Cores : core[c] = "reset"

-----------------------------------------------------------------------------
(* vm_boot, bootfunc_wrapper and boot_tinyos_kernel.                       *)

(* What io_ready says of a FIFO.                                           *)
io_ready(d) == IF d = "kbd" THEN fifo[d] > 0 ELSE fifo[d] < ConSize

(* vm_boot creates the core threads and becomes the PIC daemon, which      *)
(* opens the terminals.                                                    *)
vm_boot ==
  /\ pic.at = "off"
  /\ core' = [c \in Cores |-> "start"]
  /\ pic' = [pic EXCEPT !.at = "start"]
  /\ PIC_active' = TRUE
  /\ ready' = [d \in Devices |-> io_ready(d)]
  /\ UNCHANGED <<int_pending, usr1, intvec, fifo, active_threads>>

(* The first system_barrier: all cores and the PIC daemon.                 *)
SystemStarts ==
  /\ pic.at = "start" /\ \A c \in Cores : core[c] = "start"
  /\ pic' = [pic EXCEPT !.at = "check"]
  /\ core' = [c \in Cores |-> "boot"]
  /\ UNCHANGED <<PIC_active, int_pending, usr1, intvec, ready, fifo, active_threads>>

(* The interrupts the serial driver asks for.                              *)
initialize_devices == {SERIAL_RX_READY, SERIAL_TX_READY}

(* Core 0 initializes the kernel, the serial handlers among it, and        *)
(* executes init; every core comes to the core barrier.                    *)
BootCore(c) ==
  /\ core[c] = "boot"
  /\ core' = [core EXCEPT ![c] = "barrier"]
  /\ intvec' = [intvec EXCEPT ![c] = IF c = 0 THEN initialize_devices ELSE {}]
  /\ active_threads' = active_threads + IF c = 0 THEN 1 ELSE 0
  /\ UNCHANGED <<pic, PIC_active, int_pending, usr1, ready, fifo>>

AllBooted == \A c \in Cores : core[c] \notin {"start", "boot"}

(* cpu_core_barrier_sync is passed, and run_scheduler begins.              *)
EnterScheduler(c) ==
  /\ core[c] = "barrier" /\ AllBooted
  /\ core' = [core EXCEPT ![c] = "runs"]
  /\ intvec' = [intvec EXCEPT ![c] = @ \cup {ALARM}]
  /\ UNCHANGED <<pic, PIC_active, int_pending, usr1, ready, fifo, active_threads>>

(* The idle thread finds no active thread: run_scheduler returns, and the  *)
(* core drops its handlers and its timer.                                  *)
LeaveScheduler(c) ==
  /\ core[c] = "runs" /\ active_threads = 0
  /\ core' = [core EXCEPT ![c] = "reset"]
  /\ intvec' = [intvec EXCEPT ![c] = {}]
  /\ UNCHANGED <<pic, PIC_active, int_pending, usr1, ready, fifo, active_threads>>

AllReset == \A c \in Cores : core[c] \in {"reset", "stopped"}

(* The core barrier again; core 0 stops the PIC daemon.                    *)
StopPIC(c) ==
  /\ core[c] = "reset" /\ AllReset
  /\ core' = [core EXCEPT ![c] = "stopped"]
  /\ PIC_active' = (PIC_active /\ c # 0)
  /\ UNCHANGED <<pic, int_pending, usr1, intvec, ready, fifo, active_threads>>

(* The second system_barrier; the core threads end, and the daemon closes  *)
(* the terminals and joins them.                                           *)
SystemStops ==
  /\ pic.at = "stopped" /\ \A c \in Cores : core[c] = "stopped"
  /\ pic' = [pic EXCEPT !.at = "joined"]
  /\ core' = [c \in Cores |-> "exited"]
  /\ usr1' = {}
  /\ UNCHANGED <<PIC_active, int_pending, intvec, ready, fifo, active_threads>>

CoreStep(c) == BootCore(c) \/ EnterScheduler(c) \/ LeaveScheduler(c) \/ StopPIC(c)

-----------------------------------------------------------------------------
(* The PIC daemon.                                                         *)

(* The devices that are not ready are put in the sets for select.          *)
PIC_check ==
  /\ pic.at = "check"
  /\ \/ PIC_active /\ pic' = [at |-> "select", set |-> {d \in Devices : ~ ready[d]}, found |-> {}]
     \/ ~ PIC_active /\ pic' = [pic EXCEPT !.at = "stopped"]
  /\ UNCHANGED <<core, PIC_active, int_pending, usr1, intvec, ready, fifo, active_threads>>

(* select returns: a device is ready, a signal came, or SLOW_HZ passed.    *)
PIC_select ==
  /\ pic.at = "select"
  /\ pic' = [pic EXCEPT !.at = "process", !.found = {d \in pic.set : io_ready(d)}]
  /\ UNCHANGED <<core, PIC_active, int_pending, usr1, intvec, ready, fifo, active_threads>>

IntOf(d) == IF d = "kbd" THEN SERIAL_RX_READY ELSE SERIAL_TX_READY

(* The devices an interrupt is raised for: those select has found, and     *)
(* those late, whose last interrupt is SERIAL_TIMEOUT ago.                 *)
Fired(late) == pic.found \cup late

(* raise_interrupt, first for the cores whose timer is over, then for the  *)
(* devices, whose interrupts go to core 0.                                 *)
PIC_process(late, alarms) ==
  LET ints == {IntOf(d) : d \in Fired(late)} IN
  /\ pic.at = "process"
  /\ \A c \in alarms : core[c] = "runs"
  /\ pic' = [at |-> "check", set |-> {}, found |-> {}]
  /\ ready' = [d \in Devices |-> ready[d] \/ d \in Fired(late)]
  /\ int_pending' = [c \in Cores |-> int_pending[c] \cup (IF c = 0 THEN ints ELSE {})
                                       \cup (IF c \in alarms THEN {ALARM} ELSE {})]
  /\ usr1' = usr1 \cup alarms \cup (IF ints = {} THEN {} ELSE {0})
  /\ UNCHANGED <<core, PIC_active, intvec, fifo, active_threads>>

-----------------------------------------------------------------------------
(* sigusr1_handler on core c.  Dispatched is the interrupt whose handler   *)
(* runs, 0 for none; Remaining are the interrupts left without a signal.   *)

Lowest(c) == IF int_pending[c] = {} THEN 0 ELSE Min(int_pending[c])
Dispatched(c) == IF Lowest(c) \in intvec[c] THEN Lowest(c) ELSE 0
Remaining(c, i) == int_pending[c] \ {i}

sigusr1_handler(c) ==
  /\ c \in usr1 /\ core[c] \notin {"start", "exited"}
  /\ usr1' = usr1 \ {c}
  /\ int_pending' = [int_pending EXCEPT ![c] = Remaining(c, Lowest(c))]
  /\ UNCHANGED <<core, pic, PIC_active, intvec, ready, fifo, active_threads>>

(* io_device_read and io_device_write: a transfer of one byte, and one     *)
(* that fails, which makes the device not ready and wakes the daemon.      *)
Transfer(d) ==
  /\ fifo' = [fifo EXCEPT ![d] = IF d = "kbd" THEN @ - 1 ELSE @ + 1]
  /\ UNCHANGED ready
FailedTransfer(d) ==
  /\ ready' = [ready EXCEPT ![d] = FALSE]
  /\ UNCHANGED fifo
TryTransfer(d) == IF io_ready(d) THEN Transfer(d) ELSE FailedTransfer(d)
=============================================================================
