------------------------------ MODULE Pipeline ------------------------------
(***************************************************************************)
(* The shell (tinyos_shell.c): process_line builds a pipeline of programs  *)
(* by rearranging its own fids around each Execute, and waits for them.    *)
(* Every child inherits the whole file table of the shell as it is at that *)
(* moment, whatever pipe ends and saved streams are in it.                 *)
(*                                                                         *)
(* A pipe holds PipeSize bytes here and loses none (module Pipe tells when *)
(* it does); the programs read and write one byte in a call, since fidopen *)
(* turns buffering off.                                                    *)
(***************************************************************************)
EXTENDS FidTable, FiniteSets

CONSTANTS
  MaxFragments,
  MaxBytes,        \* what Echo writes, or is typed or found at the console
  PipeSize,
  PatientReaders   \* no program of a line ignores the output of another

(* The table has room for the two streams saved and a pipe beside the      *)
(* standard streams, and LineEnum writes up to two bytes for one.          *)
ASSUME LineAssumption ==
  /\ MaxFragments \in Nat \ {0} /\ MaxBytes \in Nat \ {0} /\ PipeSize \in Nat
  /\ MAX_FILEID >= 6

VARIABLES
  shell,           \* where the shell is, and in which fragment
  frag,            \* fragments of the line
  fid,             \* the table of the shell (0) and of its children
  saved,           \* savein and saveout
  prog,            \* the program of each fragment
  child,           \* where each child is, and the bytes it has yet to write
  pipe,            \* bytes in the pipe after each fragment
  moved,           \* bytes each child has read and written
  keys             \* bytes left at the terminal or the pseudo console

shellVars == <<shell, frag, fid, saved, prog, child, pipe, moved, keys>>

Fragments == 1 .. MaxFragments
NoChild == [at |-> "none", eof |-> FALSE, pending |-> 0]

(* Echo; Capitalize and LowerCase; LineEnum; WordCount.                    *)
Programs == {"echo", "copy", "lenum", "count"}

ShellTypeOK ==
  /\ shell.at \in {"off", "prompt", "savein", "saveout", "pipe", "dupout", "closeout", "execute",
                   "dupin", "closein", "wait", "program", "last", "exited"}
  /\ shell.i \in Fragments
  /\ frag \in Fragments
  /\ saved \in [in : Fids, out : Fids]
  /\ prog \in [Fragments -> Programs \cup {"none"}]
  /\ child \in [Fragments -> [at : {"none", "runs", "exited", "reaped", "failed"}, eof : BOOLEAN,
                              pending : 0 .. MaxBytes + 1]]
  /\ pipe \in [Fragments -> 0 .. PipeSize]
  /\ keys \in 0 .. MaxBytes

ShellInit ==
  /\ shell = [at |-> "off", i |-> 1] /\ frag = 1
  /\ fid = [p \in 0 .. MaxFragments |-> NoFiles]
  /\ saved = [in |-> 0, out |-> 0]
  /\ prog = [i \in Fragments |-> "none"]
  /\ child = [i \in Fragments |-> NoChild]
  /\ pipe = [i \in Fragments |-> 0]
  /\ moved = [i \in Fragments |-> [in |-> 0, out |-> 0]]
  /\ keys = 0

-----------------------------------------------------------------------------
(* Mutants.                                                                *)
KeepWriteEnd(t)      == IF shell.i = frag THEN Close(t, saved.out) ELSE t
RestoreOnlyLast(t)   == t
EofOnEmpty(k)        == pipe[k] = 0

-----------------------------------------------------------------------------
(* A shell starts, with the file table it got.                             *)
ShellStarts(t) ==
  /\ shell.at = "off"
  /\ shell' = [shell EXCEPT !.at = "prompt"]
  /\ fid' = [fid EXCEPT ![0] = t]
  /\ UNCHANGED <<frag, saved, prog, child, pipe, moved, keys>>

(* A line: fragments that are not empty, each with a known program.        *)
ReadLine ==
  /\ shell.at = "prompt"
  /\ frag' \in Fragments
  /\ \E p \in [1 .. frag' -> Programs] :
       /\ PatientReaders => \A i \in 2 .. frag' : p[i] # "echo"
       /\ prog' = [i \in Fragments |-> IF i <= frag' THEN p[i] ELSE "none"]
  /\ keys' \in 0 .. MaxBytes
  /\ shell' = [at |-> "savein", i |-> 1]
  /\ UNCHANGED <<fid, saved, child, pipe, moved>>

(* exit, or the end of the input.                                          *)
ExitShell ==
  /\ shell.at \in {"prompt", "last"}
  /\ shell' = [shell EXCEPT !.at = "exited"]
  /\ fid' = [fid EXCEPT ![0] = NoFiles]
  /\ UNCHANGED <<frag, saved, prog, child, pipe, moved, keys>>

(* A line with a program that another module describes, waited for like    *)
(* any other; it is the last one of the session.                           *)
ShellRuns(at, next) ==
  /\ shell.at = at
  /\ shell' = [shell EXCEPT !.at = next]
  /\ UNCHANGED <<frag, fid, saved, prog, child, pipe, moved, keys>>

(* OpenNull gives a fid, and Dup2 replaces the null device there.          *)
savefid(t, f) == OpenStream(t, t[f])

SaveStdin ==
  /\ shell.at = "savein"
  /\ saved' = [saved EXCEPT !.in = FreeFid(fid[0])]
  /\ fid' = [fid EXCEPT ![0] = savefid(@, 0)]
  /\ shell' = [shell EXCEPT !.at = "saveout"]
  /\ UNCHANGED <<frag, prog, child, pipe, moved, keys>>

SaveStdout ==
  /\ shell.at = "saveout"
  /\ saved' = [saved EXCEPT !.out = FreeFid(fid[0])]
  /\ fid' = [fid EXCEPT ![0] = savefid(@, 1)]
  /\ shell' = [shell EXCEPT !.at = "pipe"]
  /\ UNCHANGED <<frag, prog, child, pipe, moved, keys>>

LastFragment == shell.i = frag

(* Where the table has the stream: pipe.read and pipe.write.               *)
FidOf(t, s) == CHOOSE f \in Fids : t[f] = s

(* Pipe, unless this is the last fragment.                                 *)
MakePipe ==
  /\ shell.at = "pipe"
  /\ fid' = [fid EXCEPT ![0] =
               IF LastFragment THEN @ ELSE OpenStream(OpenStream(@, ReadEnd(shell.i)), WriteEnd(shell.i))]
  /\ pipe' = [pipe EXCEPT ![shell.i] = 0]
  /\ shell' = [shell EXCEPT !.at = "dupout"]
  /\ UNCHANGED <<frag, saved, prog, child, moved, keys>>

(* The fid moved to 1: the write end, or saveout.                          *)
OutFid(t) == IF LastFragment THEN saved.out ELSE FidOf([t EXCEPT ![1] = NOSTREAM], WriteEnd(shell.i))
InFid(t)  == IF LastFragment THEN saved.in ELSE FidOf([t EXCEPT ![0] = NOSTREAM], ReadEnd(shell.i))

CloseOut(t) == Close(t, OutFid(t))
CloseIn(t)  == Close(t, InFid(t))

ShellCall(at, next, t) ==
  /\ shell.at = at
  /\ fid' = [fid EXCEPT ![0] = t]
  /\ shell' = [shell EXCEPT !.at = next]
  /\ UNCHANGED <<frag, saved, prog, child, pipe, moved, keys>>

(* Execute: child i gets a copy of the shell's table; or there is no PCB   *)
(* left and it returns NOPROC, which the shell does not look at.           *)
Execute(i) == [fid EXCEPT ![i] = fid[0]]

ExecuteFragment ==
  /\ shell.at = "execute"
  /\ \/ /\ fid' = Execute(shell.i)
        /\ \E k \in IF prog[shell.i] = "echo" THEN 0 .. MaxBytes ELSE {0} :
             child' = [child EXCEPT ![shell.i] =
                         [at |-> "runs", eof |-> prog[shell.i] = "echo", pending |-> k]]
     \/ child' = [child EXCEPT ![shell.i].at = "failed"] /\ UNCHANGED fid
  /\ shell' = [shell EXCEPT !.at = "dupin"]
  /\ UNCHANGED <<frag, saved, prog, pipe, moved, keys>>

(* Close(pipe.read) or Close(savein), and on to the next fragment.         *)
CloseInput ==
  /\ shell.at = "closein"
  /\ fid' = [fid EXCEPT ![0] = CloseIn(@)]
  /\ shell' = IF LastFragment THEN [at |-> "wait", i |-> 1] ELSE [at |-> "pipe", i |-> shell.i + 1]
  /\ UNCHANGED <<frag, saved, prog, child, pipe, moved, keys>>

(* What WaitChild(child[i]) makes of the children: it reaps the child, or  *)
(* returns since no child has this pid any more; for NOPROC it reaps any   *)
(* child, or returns since there is none.                                  *)
WaitChild(i) ==
  LET reaped(j) == [child EXCEPT ![j].at = "reaped"]
      At(st)    == {j \in Fragments : child[j].at = st}
  IN  CASE child[i].at = "exited" -> {reaped(i)}
        [] child[i].at = "reaped" -> {child}
        [] child[i].at = "failed" ->
             IF At("exited") = {} /\ At("runs") = {} THEN {child} ELSE {reaped(j) : j \in At("exited")}
        [] OTHER -> {}

(* The children are waited for in the order of the fragments; the line is  *)
(* done after the last.                                                    *)
WaitFragment ==
  /\ shell.at = "wait"
  /\ \E c \in WaitChild(shell.i) :
       \/ /\ ~ LastFragment
          /\ child' = c /\ shell' = [shell EXCEPT !.i = @ + 1]
          /\ UNCHANGED <<frag, saved, prog, pipe, moved, keys>>
       \/ /\ LastFragment
          /\ child' = [i \in Fragments |-> IF c[i].at \in {"reaped", "failed"} THEN NoChild ELSE c[i]]
          /\ shell' = [at |-> "prompt", i |-> 1] /\ frag' = 1 /\ saved' = [in |-> 0, out |-> 0]
          /\ prog' = [i \in Fragments |-> "none"] /\ keys' = 0
          /\ pipe' = [i \in Fragments |-> 0]
          /\ moved' = [i \in Fragments |-> [in |-> 0, out |-> 0]]
  /\ UNCHANGED fid

process_line ==
  \/ SaveStdin \/ SaveStdout \/ MakePipe
  \/ ShellCall("dupout", "closeout", Dup2(fid[0], OutFid(fid[0]), 1))
  \/ ShellCall("closeout", "execute", CloseOut(fid[0]))
  \/ ExecuteFragment
  \/ ShellCall("dupin", "closein", Dup2(fid[0], InFid(fid[0]), 0))
  \/ CloseInput \/ WaitFragment

-----------------------------------------------------------------------------
(* The programs.                                                           *)

(* A read of a pipe ends the input once every write end is closed.         *)
AtEnd(k) == pipe[k] = 0 /\ ~ IsOpen(fid, WriteEnd(k))

(* What a program has to write after a byte, and after the last one.       *)
AfterByte(p) ==
  CASE p = "copy" -> {1} [] p = "lenum" -> {1, 2} [] p = "count" -> {0}
AfterEnd(p) == IF p = "count" THEN 1 ELSE 0

(* What fidopen(0) and fidopen(1) give to a program.                       *)
Fin(i)  == fid[i][0]
Fout(i) == fid[i][1]

(* fgetc(fin).  A terminal delivers what is typed; serial_read waits for   *)
(* more and never tells of an end, as the pseudo console does.             *)
ReadByte(i) ==
  LET s == Fin(i) IN
  /\ child[i].at = "runs" /\ ~ child[i].eof /\ child[i].pending = 0
  /\ \/ /\ ~ IsPipe(s) /\ keys > 0
        /\ keys' = keys - 1 /\ UNCHANGED pipe
     \/ /\ s.end = "read" /\ pipe[s.n] > 0
        /\ pipe' = [pipe EXCEPT ![s.n] = @ - 1] /\ UNCHANGED keys
  /\ moved' = [moved EXCEPT ![i].in = @ + 1]
  /\ \E k \in AfterByte(prog[i]) : child' = [child EXCEPT ![i].pending = k]
  /\ UNCHANGED <<shell, frag, fid, saved, prog>>

ReadEnds(i) ==
  LET s == Fin(i) IN
  /\ child[i].at = "runs" /\ ~ child[i].eof /\ child[i].pending = 0
  /\ \/ s = Console /\ keys = 0
     \/ s.end = "read" /\ AtEnd(s.n)
  /\ child' = [child EXCEPT ![i].eof = TRUE, ![i].pending = AfterEnd(prog[i])]
  /\ UNCHANGED <<shell, frag, fid, saved, prog, pipe, moved, keys>>

(* fputc(c, fout): a full pipe blocks.  A program has the read end of its  *)
(* own output among its fids, so Write never fails.                        *)
WriteByte(i) ==
  LET s == Fout(i) IN
  /\ child[i].at = "runs" /\ child[i].pending > 0
  /\ \/ ~ IsPipe(s) /\ UNCHANGED pipe
     \/ s.end = "write" /\ pipe[s.n] < PipeSize /\ pipe' = [pipe EXCEPT ![s.n] = @ + 1]
  /\ moved' = [moved EXCEPT ![i].out = @ + 1]
  /\ child' = [child EXCEPT ![i].pending = @ - 1]
  /\ UNCHANGED <<shell, frag, fid, saved, prog, keys>>

(* The program returns: Exit closes all its fids.                          *)
ProgramEnds(i) ==
  /\ child[i].at = "runs" /\ child[i].eof /\ child[i].pending = 0
  /\ child' = [child EXCEPT ![i].at = "exited"]
  /\ fid' = [fid EXCEPT ![i] = NoFiles]
  /\ UNCHANGED <<shell, frag, saved, prog, pipe, moved, keys>>

Program(i) == ReadByte(i) \/ ReadEnds(i) \/ WriteByte(i) \/ ProgramEnds(i)

ShellNext == ReadLine \/ ExitShell \/ process_line \/ \E i \in Fragments : Program(i)

(* The shell and the programs are scheduled; nobody has to type a line.    *)
ShellFairness ==
  /\ WF_shellVars(process_line)
  /\ \A i \in Fragments : WF_shellVars(Program(i))

-----------------------------------------------------------------------------
(* The plumbing is right, whichever programs could not be started: at the  *)
(* prompt the shell has the fids it began with, and no child, not even a   *)
(* zombie; what one program writes is what the next has read or will find  *)
(* in the pipe between them; and a program meets the end of its input only *)
(* when its producer has ended, or never began, and all its output is      *)
(* read.  A program that writes to a pipe keeps its read end open itself.  *)
PipelineInvariant ==
  /\ ShellTypeOK
  /\ \A i \in Fragments : fid[i][1].end = "write" =>
       \E f \in Fids : fid[i][f] = ReadEnd(fid[i][1].n)
  /\ shell.at = "prompt" =>
       /\ fid[0] = StdTable(fid[0][0]) /\ ~ IsPipe(fid[0][0])
       /\ \A i \in Fragments : child[i] = NoChild /\ fid[i] = NoFiles
  /\ \A i \in Fragments \ {MaxFragments} : i < frag =>
       /\ moved[i].out = moved[i + 1].in + pipe[i]
       /\ child[i + 1].eof /\ prog[i + 1] # "echo" =>
            child[i].at # "runs" /\ pipe[i] = 0

(* The shell runs on a terminal.                                           *)
OnTerminal == \E f \in Fids : fid[0][f].end = "term"

(* A line that was read is not done with, although its first program does  *)
(* not read a terminal, which has no end, and every program that was to    *)
(* read the output of another could be started: the writer would wait for  *)
(* room in the pipe, whose read end it has itself.                         *)
LineGoesOn ==
  /\ shell.at \notin {"off", "prompt", "program", "last", "exited"}
  /\ OnTerminal => prog[1] = "echo"
  /\ \A i \in 2 .. frag : child[i].at # "failed"
=============================================================================
