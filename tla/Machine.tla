------------------------------ MODULE Machine -------------------------------
(***************************************************************************)
(* What one start of the repository's programs does: a test of a terminal  *)
(* on the virtual machine, the test suite, a test of the barrier, of the   *)
(* lists or of the exceptions, or a boot of the kernel with one of the two *)
(* init tasks, whose children are shells or the symposium.  A shell runs   *)
(* lines, and at last the symposium or the remote server.  A part that is  *)
(* not started does not move.                                              *)
(***************************************************************************)
EXTENDS Symposium, Barrier, RemoteServer, Pipeline, InitTask, TestRunner, TermProxy,
        RList, Exceptions

VARIABLE started         \* what has been started

bootVars == <<symposiumVars, serverVars, shellVars, initVars>>
testVars == <<barrierVars, runnerVars, terminalVars, listVars, exceptionVars>>
vars == <<started, bootVars, testVars>>

TypeOK == started \in {"nothing", "terminal_test", "suite", "barrier", "lists", "exceptions", "boot"}

Init ==
  /\ started = "nothing"
  /\ SymposiumInit /\ BarrierInit /\ ServerInit /\ ShellInit /\ InitTaskInit /\ RunnerInit /\ TerminalInit
  /\ ListInit /\ ExceptionInit

(* All parts but the named one.                                            *)
NotSymposium  == UNCHANGED <<started, testVars, serverVars, shellVars, initVars>>
NotServer     == UNCHANGED <<started, testVars, symposiumVars, shellVars, initVars>>
NotShell      == UNCHANGED <<started, testVars, symposiumVars, serverVars, initVars>>
NotInit       == UNCHANGED <<started, testVars, symposiumVars, serverVars, shellVars>>
NotBarrier    == UNCHANGED <<bootVars, runnerVars, terminalVars, listVars, exceptionVars>>
NotRunner     == UNCHANGED <<bootVars, barrierVars, terminalVars, listVars, exceptionVars>>
NotTerminal   == UNCHANGED <<bootVars, barrierVars, runnerVars, listVars, exceptionVars>>
NotLists      == UNCHANGED <<bootVars, barrierVars, runnerVars, terminalVars, exceptionVars>>
NotExceptions == UNCHANGED <<bootVars, barrierVars, runnerVars, terminalVars, listVars>>

Start ==
  /\ started = "nothing"
  /\ \/ started' = "terminal_test" /\ TestStarts /\ NotTerminal
     \/ started' = "suite" /\ RunnerStarts /\ NotRunner
     \/ started' = "barrier" /\ BarrierStarts /\ NotBarrier
     \/ started' \in {"lists", "exceptions"} /\ UNCHANGED <<bootVars, testVars>>
     \/ /\ started' = "boot"
        /\ \E task \in {"boot_shell", "boot_symposium"}, nterm \in 0 .. MaxTerms : InitTaskStarts(task, nterm)
        /\ UNCHANGED <<symposiumVars, serverVars, shellVars, testVars>>

-----------------------------------------------------------------------------
(* The children of init.  On a machine with one terminal, or with none and *)
(* the pseudo console, they are followed step by step; the others just end *)
(* some time.                                                              *)

Followed(k) == machine.nterm <= 1 /\ k = 0

(* The first child begins: a shell, or the symposium of processes.         *)
KidBegins ==
  /\ Followed(0) /\ kid[0].at = "alive" /\ init.at = "wait"
  /\ \/ machine.task = "boot_shell" /\ ShellStarts(kid[0].fid) /\ NotShell
     \/ machine.task = "boot_symposium" /\ SymposiumStarts("processes") /\ NotSymposium

KidDone == IF machine.task = "boot_shell" THEN shell.at = "exited" ELSE host.at = "destroyed"

KidExits(k) == (Followed(k) => KidDone) /\ KidEnds(k) /\ NotInit

(* The shell executes Symposium_thr, Symposium_proc or RemoteServer.       *)
RunProgram ==
  /\ ShellRuns("prompt", "program")
  /\ \/ /\ \E k \in {"threads", "processes"} : SymposiumStarts(k)
        /\ UNCHANGED serverVars
     \/ ServerStarts /\ UNCHANGED symposiumVars
  /\ UNCHANGED <<started, initVars, testVars>>

ProgramDone ==
  \/ host.at = "destroyed"
  \/ /\ console = "returned"
     /\ \A c \in Clients : client[c] \in {"idle", "refused", "aborted", "done"} /\ command[c] # "running"

(* The server's console meets the end of its input, on the pseudo console. *)
ServerInputEnds == ~ OnTerminal /\ ConsoleEnds /\ NotServer

ProgramReturns == ProgramDone /\ ShellRuns("program", "last") /\ NotShell

Next ==
  \/ Start
  \/ /\ \/ TerminalNext /\ NotTerminal
        \/ RunnerNext /\ NotRunner
        \/ BarrierNext /\ NotBarrier
        \/ started = "lists" /\ ListNext /\ NotLists
        \/ started = "exceptions" /\ ExceptionNext /\ NotExceptions
     /\ UNCHANGED started
  \/ InitTaskStep /\ NotInit
  \/ ShellNext /\ NotShell
  \/ SymposiumNext /\ NotSymposium
  \/ shell.at = "program" /\ ServerNext /\ NotServer
  \/ KidBegins \/ RunProgram \/ ServerInputEnds \/ ProgramReturns
  \/ \E k \in Kids : KidExits(k)

Fairness ==
  /\ SymposiumFairness /\ BarrierFairness /\ ServerFairness /\ ShellFairness /\ RunnerFairness /\ TerminalFairness
  /\ WF_vars(InitTaskStep /\ NotInit) /\ WF_vars(KidBegins) /\ WF_vars(ProgramReturns)

Spec == Init /\ [][Next]_vars /\ Fairness

-----------------------------------------------------------------------------
(* The programs come to their ends: everybody at the symposium eats, no    *)
(* signal being lost; the shell prompts again after every line, every pipe *)
(* meeting its end of file; a server that was told to quit returns, also   *)
(* when connections come and go meanwhile and children still hold the      *)
(* listening socket; and a client that has sent its request sees the end   *)
(* of its output.                                                          *)
ProgramsPending == SymposiumGoesOn \/ LineGoesOn \/ ServerGoesOn
ProgramsEnd == ProgramsPending ~> ~ ProgramsPending

(* The tests come to their ends: the suite, also when tests hang; threads  *)
(* that meet at a barrier; and a test of a terminal, since a wake-up that  *)
(* serial_read has missed, or an interrupt left without a signal, is made  *)
(* good by the time-out of the PIC daemon.                                 *)
TestsPending == SuiteGoesOn \/ BarrierGoesOn \/ TerminalTestGoesOn
=============================================================================
