------------------------------ MODULE FidTable ------------------------------
(***************************************************************************)
(* The file table of a process, as the programs see it through the system  *)
(* calls of kernel_streams.c: a new stream gets the lowest free fid, and a *)
(* stream is open as long as some table refers to it (module Streams).     *)
(***************************************************************************)
EXTENDS Integers

CONSTANT MAX_FILEID

ASSUME FidAssumption == MAX_FILEID \in Nat /\ MAX_FILEID >= 3

NOSTREAM == [end |-> "none", n |-> 0]
Terminal(i) == [end |-> "term", n |-> i]
ReadEnd(i)  == [end |-> "read", n |-> i]
WriteEnd(i) == [end |-> "write", n |-> i]

Console     == [end |-> "console", n |-> 0]
IsPipe(s)   == s.end \in {"read", "write"}

Fids == 0 .. MAX_FILEID - 1
NoFiles == [f \in Fids |-> NOSTREAM]

(* Nothing but standard input and output, both on s.                       *)
StdTable(s) == [f \in Fids |-> IF f \in {0, 1} THEN s ELSE NOSTREAM]

(* FCB_reserve looks for free fids from 0 upwards.                         *)
FreeFid(t) == CHOOSE f \in Fids : t[f] = NOSTREAM /\ \A g \in 0 .. f - 1 : t[g] # NOSTREAM

OpenStream(t, s)  == [t EXCEPT ![FreeFid(t)] = s]
Dup2(t, old, new) == [t EXCEPT ![new] = t[old]]
Close(t, f)       == [t EXCEPT ![f] = NOSTREAM]

(* The programs' idiom for a standard stream: open it, and move it to f    *)
(* unless that is the fid it got.                                          *)
OpenAs(t, s, f) ==
  LET g == FreeFid(t) IN
  IF g = f THEN OpenStream(t, s) ELSE Close(Dup2(OpenStream(t, s), g, f), g)

(* A stream is open if the table of some process has it.                   *)
IsOpen(tables, s) == \E p \in DOMAIN tables : \E f \in Fids : tables[p][f] = s
=============================================================================
