------------------------------ MODULE InitTask ------------------------------
(***************************************************************************)
(* The two init tasks: boot_shell (tinyos_shell.c), which starts a shell   *)
(* on every terminal, and boot_symposium (mtask.c); with the standard      *)
(* streams they give their children (tinyoslib.c, console.c).              *)
(***************************************************************************)
EXTENDS FidTable

CONSTANT MaxTerms

ASSUME TermsAssumption == MaxTerms \in Nat \ {0}

VARIABLES
  machine,       \* the boot task and the number of terminals
  init,          \* where the init task is, and at which terminal
  stdio,         \* stdin and stdout of the C library: the host's, or fids 0, 1
  initFid,       \* the file table of init
  kid            \* the children of init: the state and file table of each

initVars == <<machine, init, stdio, initFid, kid>>

Kids == 0 .. MaxTerms - 1

InitTaskTypeOK ==
  /\ machine \in [task : {"boot_shell", "boot_symposium"}, nterm : 0 .. MaxTerms]
  /\ init \in [at : {"off", "start", "open", "execute", "close", "wait", "ended"}, i : 0 .. MaxTerms]
  /\ stdio \in {"host", "tinyos"}
  /\ \A k \in Kids : kid[k].at \in {"none", "alive", "exited", "reaped"}

InitTaskInit ==
  /\ machine = [task |-> "boot_shell", nterm |-> 0]
  /\ init = [at |-> "off", i |-> 0]
  /\ stdio = "host"
  /\ initFid = NoFiles
  /\ kid = [k \in Kids |-> [at |-> "none", fid |-> NoFiles]]

-----------------------------------------------------------------------------
(* Mutants.                                                                *)
OpenTwice(t, i)  == OpenStream(OpenStream(t, Terminal(i)), Terminal(i))
RestoreAtOnce    == TRUE

-----------------------------------------------------------------------------
nshells == IF machine.task = "boot_shell" /\ machine.nterm > 0 THEN machine.nterm ELSE 1

(* The machine is booted with the task and nterm terminals.                *)
InitTaskStarts(task, nterm) ==
  /\ init.at = "off"
  /\ machine' = [task |-> task, nterm |-> nterm]
  /\ init' = [init EXCEPT !.at = "start"]
  /\ UNCHANGED <<stdio, initFid, kid>>

tinyos_replace_stdio ==
  /\ init.at = "start" /\ stdio = "host"
  /\ stdio' = "tinyos"
  /\ init' = [init EXCEPT !.at = "open"]
  /\ UNCHANGED <<machine, initFid, kid>>

(* OpenTerminal for the input and for the output.                          *)
OpenTerminals(t, i) == OpenAs(OpenAs(t, Terminal(i), 0), Terminal(i), 1)

(* FCB_reserve(2), after Close(0) and Close(1) in boot_shell: the fids     *)
(* must be 0 and 1.                                                        *)
tinyos_pseudo_console(t) ==
  LET c == Close(Close(t, 0), 1) IN OpenStream(OpenStream(c, Console), Console)

OpenStdio ==
  /\ init.at = "open"
  /\ initFid' = IF machine.nterm > 0 THEN OpenTerminals(initFid, init.i)
                ELSE tinyos_pseudo_console(initFid)
  /\ init' = [init EXCEPT !.at = "execute"]
  /\ UNCHANGED <<machine, stdio, kid>>

(* Execute of a shell, or Exec of the symposium.                           *)
StartKid ==
  /\ init.at = "execute"
  /\ kid' = [kid EXCEPT ![init.i] = [at |-> "alive", fid |-> initFid]]
  /\ init' = [init EXCEPT !.at = "close"]
  /\ UNCHANGED <<machine, stdio, initFid>>

(* Close(0), in boot_symposium Close(1) too; then the next terminal.  With *)
(* the pseudo console the shell's streams stay open.                       *)
CloseStdio ==
  /\ init.at = "close"
  /\ initFid' = CASE machine.task = "boot_symposium" -> Close(Close(initFid, 0), 1)
                  [] machine.task = "boot_shell" /\ machine.nterm > 0 -> Close(initFid, 0)
                  [] OTHER -> initFid
  /\ init' = IF init.i + 1 < nshells THEN [at |-> "open", i |-> init.i + 1]
             ELSE [at |-> "wait", i |-> 0]
  /\ UNCHANGED <<machine, stdio, kid>>

ReapKid ==
  /\ init.at = "wait"
  /\ \E k \in Kids : kid[k].at = "exited" /\ kid' = [kid EXCEPT ![k].at = "reaped"]
  /\ UNCHANGED <<machine, init, stdio, initFid>>

NoKidLeft == \A k \in Kids : kid[k].at \in {"none", "reaped"}

(* WaitChild fails: no child is left.                                      *)
tinyos_restore_stdio ==
  /\ init.at = "wait" /\ NoKidLeft
  /\ stdio' = "host"
  /\ init' = [init EXCEPT !.at = "ended"]
  /\ UNCHANGED <<machine, initFid, kid>>

InitTaskStep ==
  \/ tinyos_replace_stdio \/ OpenStdio \/ StartKid \/ CloseStdio
  \/ ReapKid \/ tinyos_restore_stdio

(* The end of a child, whatever it runs.                                   *)
KidEnds(k) ==
  /\ kid[k].at = "alive"
  /\ kid' = [kid EXCEPT ![k] = [at |-> "exited", fid |-> NoFiles]]
  /\ UNCHANGED <<machine, init, stdio, initFid>>

-----------------------------------------------------------------------------
(* Every child of init starts with fids 0 and 1 on its own terminal, or on *)
(* the pseudo console, and with nothing else; and as long as one is alive  *)
(* the C library's streams are the fids, so nothing it prints goes to the  *)
(* host, and the pseudo console has the saved streams to work on.          *)
InitTaskInvariant ==
  /\ InitTaskTypeOK
  /\ \A k \in Kids : kid[k].at = "alive" =>
       /\ stdio = "tinyos"
       /\ kid[k].fid = StdTable(IF machine.nterm > 0 THEN Terminal(k) ELSE Console)
=============================================================================
