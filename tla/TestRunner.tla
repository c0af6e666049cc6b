----------------------------- MODULE TestRunner -----------------------------
(***************************************************************************)
(* The test framework (unit_testing.c): every test is run once for each    *)
(* configuration of cores and terminals, in a process of its own that is   *)
(* killed when its time is over.  The harness waits for one of two blocked *)
(* signals, SIGCHLD and SIGALRM, and restores its signal mask at the end.  *)
(***************************************************************************)
EXTENDS Integers

CONSTANTS
  Tests,         \* tests of the suite
  Configs,       \* configurations each is run in
  LateAlarm      \* the time may run out between sigwait and alarm(0)

ASSUME RunnerAssumption == Tests \in Nat \ {0} /\ Configs \in Nat \ {0} /\ LateAlarm \in BOOLEAN

VARIABLES
  runner,        \* where the harness is, in which test and configuration
  forked,        \* ARGS.fork
  subprocess,    \* the state of the test's process, and what the test does
  armed,         \* an alarm is set
  pending,       \* signals that have arrived and are blocked
  result,        \* the result of the current test
  results,       \* number_of_tests and successful
  deserved       \* tests that have passed in time in every configuration

runnerVars == <<runner, forked, subprocess, armed, pending, result, results, deserved>>

(* What a test does; the harness skips one for which there are too few     *)
(* cores or terminals.                                                     *)
Behaviours == {"passes", "fails", "hangs", "skipped"}

RunnerTypeOK ==
  /\ runner \in [at : {"off", "fork", "alarm", "sigwait", "cancel", "timeout", "kill", "waitpid", "restore",
                       "next", "killed", "aborted", "done"},
                 test : 1 .. Tests, config : 1 .. Configs]
  /\ forked \in BOOLEAN /\ armed \in BOOLEAN
  /\ subprocess \in [at : {"none", "runs", "exited", "signaled"},
                     does : Behaviours, inTime : BOOLEAN]
  /\ pending \subseteq {"SIGALRM", "SIGCHLD"}
  /\ result \in BOOLEAN
  /\ results \in [number_of_tests : 0 .. Tests, successful : 0 .. Tests]
  /\ deserved \in [soFar : BOOLEAN, tests : 0 .. Tests]

RunnerInit ==
  /\ runner = [at |-> "off", test |-> 1, config |-> 1]
  /\ forked = TRUE
  /\ subprocess = [at |-> "none", does |-> "skipped", inTime |-> TRUE]
  /\ armed = FALSE /\ pending = {} /\ result = TRUE
  /\ results = [number_of_tests |-> 0, successful |-> 0]
  /\ deserved = [soFar |-> TRUE, tests |-> 0]

RunnerTo(at) == runner' = [runner EXCEPT !.at = at]

-----------------------------------------------------------------------------
(* Mutants.                                                                *)
LeaveAlarm  == UNCHANGED armed
AnyExit     == TRUE

-----------------------------------------------------------------------------
(* main, with or without the option to fork.                               *)
RunnerStarts ==
  /\ runner.at = "off" /\ RunnerTo("fork")
  /\ forked' \in BOOLEAN
  /\ UNCHANGED <<subprocess, armed, pending, result, results, deserved>>

(* execute_fork: SIGCHLD is blocked, then the process is forked.           *)
ForkTest ==
  /\ runner.at = "fork" /\ forked
  /\ \E b \in Behaviours \ {"skipped"} :
       subprocess' = [at |-> "runs", does |-> b, inTime |-> TRUE]
  /\ RunnerTo("alarm")
  /\ UNCHANGED <<forked, armed, pending, result, results, deserved>>

(* execute_nofork: the test runs in the harness, and a failure aborts it.  *)
RunHere ==
  /\ runner.at = "fork" /\ ~ forked
  /\ \E b \in {"passes", "fails"} :
       /\ subprocess' = [at |-> IF b = "passes" THEN "exited" ELSE "none", does |-> b, inTime |-> TRUE]
       /\ RunnerTo(IF b = "passes" THEN "next" ELSE "aborted")
  /\ UNCHANGED <<forked, armed, pending, result, results, deserved>>

SkipTest ==
  /\ runner.at = "fork"
  /\ subprocess' = [at |-> "none", does |-> "skipped", inTime |-> TRUE]
  /\ RunnerTo("next")
  /\ UNCHANGED <<forked, armed, pending, result, results, deserved>>

(* SIGALRM is blocked too, and the alarm set.                              *)
SetAlarm ==
  /\ runner.at = "alarm"
  /\ armed' = TRUE
  /\ RunnerTo("sigwait")
  /\ UNCHANGED <<forked, subprocess, pending, result, results, deserved>>

(* sigwait takes the pending signal with the lowest number, SIGALRM.       *)
SigWait ==
  /\ runner.at = "sigwait" /\ pending # {}
  /\ pending' = pending \ {IF "SIGALRM" \in pending THEN "SIGALRM" ELSE "SIGCHLD"}
  /\ RunnerTo(IF "SIGALRM" \in pending THEN "timeout" ELSE "cancel")
  /\ UNCHANGED <<forked, subprocess, armed, result, results, deserved>>

alarm_0 == armed' = FALSE

CancelAlarm ==
  /\ runner.at \in {"cancel", "timeout"}
  /\ alarm_0
  /\ RunnerTo(IF runner.at = "timeout" THEN "kill" ELSE "waitpid")
  /\ UNCHANGED <<forked, subprocess, pending, result, results, deserved>>

(* kill(pid, SIGTERM): no effect on a process that has ended.              *)
kill ==
  IF subprocess.at = "runs"
  THEN subprocess' = [subprocess EXCEPT !.at = "signaled"] /\ pending' = pending \cup {"SIGCHLD"}
  ELSE UNCHANGED <<subprocess, pending>>

TimedOut ==
  /\ runner.at = "kill"
  /\ kill
  /\ RunnerTo("waitpid")
  /\ UNCHANGED <<forked, armed, result, results, deserved>>

WaitPid ==
  /\ runner.at = "waitpid" /\ subprocess.at # "runs"
  /\ RunnerTo("restore")
  /\ UNCHANGED <<forked, subprocess, armed, pending, result, results, deserved>>

(* sigprocmask: SIGCHLD is ignored, and a SIGALRM ends the harness.        *)
RestoreMask ==
  /\ runner.at = "restore"
  /\ RunnerTo(IF "SIGALRM" \in pending THEN "killed" ELSE "next")
  /\ pending' = {}
  /\ UNCHANGED <<forked, subprocess, armed, result, results, deserved>>

(* WIFEXITED(status) && WEXITSTATUS(status)==129, or skipped.              *)
Succeeded == subprocess.at = "exited" \/ subprocess.does = "skipped"

(* run_boot_test, run_test and run_suite: the result is that of all the    *)
(* configurations, and the suite counts the tests.                         *)
CountResult ==
  LET good     == deserved.soFar /\ subprocess.does \in {"passes", "skipped"} /\ subprocess.inTime
      lastOne  == runner.config = Configs
      succeeds == result /\ Succeeded IN
  /\ runner.at = "next"
  /\ subprocess' = [at |-> "none", does |-> "skipped", inTime |-> TRUE]
  /\ \/ /\ ~ lastOne
        /\ runner' = [runner EXCEPT !.at = "fork", !.config = @ + 1]
        /\ result' = succeeds /\ deserved' = [deserved EXCEPT !.soFar = good]
        /\ UNCHANGED results
     \/ /\ lastOne
        /\ runner' = IF runner.test = Tests THEN [runner EXCEPT !.at = "done"]
                     ELSE [at |-> "fork", test |-> runner.test + 1, config |-> 1]
        /\ results' = [number_of_tests |-> results.number_of_tests + 1,
                       successful |-> results.successful + IF succeeds THEN 1 ELSE 0]
        /\ deserved' = [soFar |-> TRUE, tests |-> deserved.tests + IF good THEN 1 ELSE 0]
        /\ result' = TRUE
  /\ UNCHANGED <<forked, armed, pending>>

-----------------------------------------------------------------------------
(* Outside execute_fork the signals are not blocked.                       *)
Unblocked == runner.at \in {"fork", "next", "done"}

(* The time runs out.  When the signals are not blocked, the harness ends. *)
AlarmExpires ==
  /\ armed
  /\ LateAlarm \/ runner.at # "cancel"
  /\ armed' = FALSE
  /\ runner' = IF Unblocked THEN [runner EXCEPT !.at = "killed"] ELSE runner
  /\ pending' = IF Unblocked THEN pending ELSE pending \cup {"SIGALRM"}
  /\ subprocess' = [subprocess EXCEPT !.inTime = @ /\ subprocess.at # "runs"]
  /\ UNCHANGED <<forked, result, results, deserved>>

(* procfunc returns and the process exits, or aborts on a failure.         *)
TestEnds ==
  /\ subprocess.at = "runs" /\ subprocess.does # "hangs"
  /\ subprocess' = [subprocess EXCEPT !.at = IF subprocess.does = "passes" THEN "exited" ELSE "signaled"]
  /\ pending' = pending \cup {"SIGCHLD"}
  /\ UNCHANGED <<runner, forked, armed, result, results, deserved>>

Harness ==
  \/ ForkTest \/ RunHere \/ SkipTest \/ SetAlarm \/ SigWait \/ CancelAlarm \/ TimedOut
  \/ WaitPid \/ RestoreMask \/ CountResult

RunnerNext == Harness \/ AlarmExpires \/ TestEnds

(* The harness runs, and time passes; a test need not end.                 *)
RunnerFairness == WF_runnerVars(Harness) /\ WF_runnerVars(AlarmExpires)

-----------------------------------------------------------------------------
(* The verdict: no signal of a test ends the harness or is taken for one   *)
(* of the next test's; a test that passed in time in every configuration   *)
(* is counted successful, and one that failed or hung never is, since each *)
(* success is of a process that exited with 129.                           *)
VerdictSound ==
  /\ RunnerTypeOK
  /\ runner.at # "killed"
  /\ deserved.tests <= results.successful
  /\ runner.at = "next" /\ subprocess.does \in {"fails", "hangs"} => ~ Succeeded
  /\ runner.at = "next" /\ subprocess.does = "passes" /\ subprocess.inTime => Succeeded

(* The harness is not done, because of a test that hangs or otherwise.     *)
SuiteGoesOn == runner.at \notin {"off", "done", "aborted"}
=============================================================================
