----------------------------- MODULE TermProxy -----------------------------
(***************************************************************************)
(* The terminal proxy of the test framework (unit_testing.c): the two      *)
(* daemons that type at and look at a terminal for a test, and the harness *)
(* that starts them, boots the machine, and then closes them.              *)
(*                                                                         *)
(* The console daemon polls, and asks afterwards whether the machine is    *)
(* done with the terminal.  SlowDaemon lets the machine write and end      *)
(* between the two, where the daemon reports a mismatch for output that    *)
(* is in the FIFO.                                                         *)
(***************************************************************************)
EXTENDS SerialDriver

CONSTANTS
  KbdSize,       \* bytes the keyboard's FIFO holds
  SlowDaemon

ASSUME ProxyAssumption == KbdSize \in Nat /\ SlowDaemon \in BOOLEAN

VARIABLES
  proxy,         \* both daemons: where each is, the patterns waiting, the
                 \* bytes of the current one left, what it remembers of
                 \* complete, and whether it has reported a failure
  complete,      \* of each daemon
  tester         \* where run_boot is

terminalVars == <<serialVars, proxy, complete, tester>>

TerminalTypeOK ==
  /\ BiosTypeOK /\ ThreadTypeOK
  /\ proxy \in [Devices -> [at : {"get", "poll", "decide", "read", "write", "ended"}, patterns : 0 .. 1,
                            left : 0 .. K, done : BOOLEAN, failed : BOOLEAN]]
  /\ complete \in [Devices -> BOOLEAN]
  /\ tester \in {"off", "boot", "close_con", "join_con", "close_kbd", "join_kbd", "done"}

TerminalInit ==
  /\ BiosInit /\ ThreadInit
  /\ proxy = [d \in Devices |-> [at |-> "get", patterns |-> 0, left |-> 0, done |-> FALSE, failed |-> FALSE]]
  /\ complete = [d \in Devices |-> FALSE]
  /\ tester = "off"

(* Mutants: the keyboard's daemon gives up at the first full FIFO; closing *)
(* a daemon does not tell it.                                              *)
GiveUp(d)      == TRUE
NotTold(d)     == complete

-----------------------------------------------------------------------------
(* sendme and expect: term_proxy_daemon_add.                               *)
term_proxy_daemon_add(d) ==
  proxy' = [proxy EXCEPT ![d].patterns = @ + 1]

Ask(c, d, what) ==
  /\ thread.at = "user" /\ On(c)
  /\ thread' = [thread EXCEPT !.asked = what]
  /\ term_proxy_daemon_add(d)
  /\ UNCHANGED <<biosVars, complete, tester>>
Sendme(c) == thread.asked = "none" /\ Ask(c, "kbd", "sendme")
Expect(c) == thread.asked = "sendme" /\ thread.got = K /\ Ask(c, "con", "expect")

(* term_proxy_daemon_get: a pattern, or the end.                           *)
term_proxy_daemon_get(d) ==
  /\ tester # "off" /\ proxy[d].at = "get"
  /\ \/ /\ proxy[d].patterns > 0
        /\ proxy' = [proxy EXCEPT ![d].at = "poll", ![d].patterns = @ - 1, ![d].left = K, ![d].done = FALSE]
     \/ /\ proxy[d].patterns = 0 /\ complete[d]
        /\ proxy' = [proxy EXCEPT ![d].at = "ended"]
  /\ UNCHANGED <<serialVars, complete, tester>>

(* con_proc.  The poll, with COMPLETE evaluated for its timeout: done is   *)
(* the daemon's own copy, and "read" stands for have_data.                 *)
con_poll ==
  /\ proxy["con"].at = "poll"
  /\ proxy' = [proxy EXCEPT !["con"].at = IF fifo["con"] > 0 THEN "read" ELSE "decide",
                            !["con"].done = @ \/ complete["con"]]
  /\ UNCHANGED <<serialVars, complete, tester>>

(* No data: poll again, or give up when the machine is done.               *)
con_decide ==
  LET over == proxy["con"].done \/ complete["con"] IN
  /\ proxy["con"].at = "decide"
  /\ proxy' = [proxy EXCEPT !["con"].at = IF over THEN "get" ELSE "poll", !["con"].failed = @ \/ over]
  /\ UNCHANGED <<serialVars, complete, tester>>

con_read(n) ==
  /\ proxy["con"].at = "read"
  /\ n \in 1 .. proxy["con"].left /\ n <= fifo["con"]
  /\ fifo' = [fifo EXCEPT !["con"] = @ - n]
  /\ proxy' = [proxy EXCEPT !["con"].left = @ - n, !["con"].at = IF proxy["con"].left = n THEN "get" ELSE "poll"]
  /\ UNCHANGED <<core, pic, PIC_active, int_pending, usr1, intvec, ready, active_threads,
                 thread, complete, tester>>

(* kbd_proc.  The poll for room, or for the end; then complete is saved.   *)
kbd_poll ==
  /\ proxy["kbd"].at = "poll"
  /\ complete["kbd"] \/ fifo["kbd"] < KbdSize
  /\ proxy' = [proxy EXCEPT !["kbd"].at = "write", !["kbd"].done = complete["kbd"]]
  /\ UNCHANGED <<serialVars, complete, tester>>

(* Whether EAGAIN is final.                                                *)
NoMoreRoom(d) == proxy[d].done

(* The writes, until all is written or there is no room.                   *)
kbd_write ==
  LET p == proxy["kbd"]  room == KbdSize - fifo["kbd"] IN
  /\ p.at = "write"
  /\ LET n == Min({p.left, room}) IN
     /\ fifo' = [fifo EXCEPT !["kbd"] = @ + n]
     /\ proxy' = [proxy EXCEPT !["kbd"] =
          [p EXCEPT !.left = @ - n,
                    !.at = IF n = p.left \/ NoMoreRoom("kbd") THEN "get" ELSE "poll",
                    !.failed = @ \/ (n < p.left /\ NoMoreRoom("kbd"))]]
  /\ UNCHANGED <<core, pic, PIC_active, int_pending, usr1, intvec, ready, active_threads,
                 thread, complete, tester>>

DaemonStep ==
  (\E d \in Devices : term_proxy_daemon_get(d)) \/ con_poll \/ con_decide \/ (\E n \in 1 .. K : con_read(n))
     \/ kbd_poll \/ kbd_write

-----------------------------------------------------------------------------
(* run_boot: term_proxy_init, boot, term_proxy_close.                      *)

TestStarts ==
  /\ tester = "off" /\ tester' = "boot"
  /\ vm_boot
  /\ UNCHANGED <<thread, proxy, complete>>

Told(d) == [complete EXCEPT ![d] = TRUE]

term_proxy_daemon_close(d, from, to) ==
  /\ tester = from /\ tester' = to
  /\ complete' = Told(d)
  /\ UNCHANGED <<serialVars, proxy>>
JoinDaemon(d, from, to) ==
  /\ tester = from /\ tester' = to
  /\ proxy[d].at = "ended"
  /\ UNCHANGED <<serialVars, proxy, complete>>

TestCloses ==
  \/ /\ pic.at = "joined"
     /\ SlowDaemon \/ proxy["con"].at # "decide"
     /\ term_proxy_daemon_close("con", "boot", "join_con")
  \/ JoinDaemon("con", "join_con", "close_kbd")
  \/ term_proxy_daemon_close("kbd", "close_kbd", "join_kbd")
  \/ JoinDaemon("kbd", "join_kbd", "done")

ThreadStep(c) ==
  \/ (serial_read(c) \/ serial_write(c) \/ ThreadExits(c)) /\ UNCHANGED <<proxy, complete, tester>>
  \/ Sendme(c) \/ Expect(c)

TerminalNext ==
  \/ TestCloses \/ DaemonStep
  \/ tester = "boot" /\ VMStep /\ UNCHANGED <<proxy, complete, tester>>
  \/ \E c \in Cores : Sendme(c) \/ Expect(c)

(* Every process and thread goes on, a thread that is preempted over and   *)
(* over gets its step done, and the time-out of the keyboard comes, not    *)
(* always together with an alarm of core 0 and not always before the       *)
(* interrupt of the previous one is served.                                *)
KbdTimeout ==
  /\ ALARM \notin int_pending[0]
  /\ PIC_process({"kbd"}, {}) /\ UNCHANGED <<thread, proxy, complete, tester>>

TerminalFairness ==
  /\ WF_terminalVars(TestCloses)
  /\ \A d \in Devices : WF_terminalVars(term_proxy_daemon_get(d))
  /\ WF_terminalVars(con_poll \/ con_decide \/ (\E n \in 1 .. K : con_read(n)))
  /\ WF_terminalVars(kbd_poll \/ kbd_write)
  /\ WF_terminalVars((SystemStarts \/ SystemStops \/ PIC_check \/ PIC_select) /\ UNCHANGED <<thread, proxy, complete, tester>>)
  /\ \A c \in Cores : WF_terminalVars(CoreStep(c) /\ UNCHANGED <<thread, proxy, complete, tester>>)
  /\ WF_terminalVars(\E late \in SUBSET Devices, alarms \in SUBSET Cores :
                       PIC_process(late, alarms) /\ UNCHANGED <<thread, proxy, complete, tester>>)
  /\ SF_terminalVars(KbdTimeout)
  /\ \A c \in Cores : WF_terminalVars(Handle(c) /\ UNCHANGED <<proxy, complete, tester>>)
  /\ SF_terminalVars(Dispatched(0) = SERIAL_RX_READY /\ Handle(0) /\ UNCHANGED <<proxy, complete, tester>>)
  /\ WF_terminalVars(((\E c \in Cores : RunThread(c)) \/ SleepRx) /\ UNCHANGED <<proxy, complete, tester>>)
  /\ SF_terminalVars(\E c \in Cores : ThreadStep(c))

-----------------------------------------------------------------------------
(* A core runs its scheduler only over an initialized kernel; the PIC      *)
(* daemon is stopped only when no core can need an interrupt, signals no   *)
(* core thread that has ended, and closes the terminals only when no       *)
(* thread is left (bootfunc_wrapper, boot_tinyos_kernel, PIC_daemon).      *)
VMInvariant ==
  /\ TerminalTypeOK
  /\ (\E c \in Cores : core[c] = "runs") => {SERIAL_RX_READY, SERIAL_TX_READY} \subseteq intvec[0] \/ active_threads = 0
  /\ (tester = "boot" /\ pic.at # "off" /\ ~ PIC_active) => \A c \in Cores : intvec[c] = {}
  /\ pic.at \in {"check", "select", "process"} => \A c \in Cores : core[c] # "exited"
  /\ pic.at = "joined" => thread.at = "gone"

(* What the program wrote is seen by expect, and what sendme promised is   *)
(* typed in full, however the two FIFOs fill and drain (con_proc,          *)
(* kbd_proc).                                                              *)
ExpectsMet == \A d \in Devices : ~ proxy[d].failed

(* A test of a terminal is not over.                                       *)
TerminalTestGoesOn == tester \notin {"off", "done"}
=============================================================================
