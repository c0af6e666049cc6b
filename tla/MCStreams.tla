------------------------------ MODULE MCStreams -----------------------------
(* Small instances of Streams for TLC.                                     *)
EXTENDS Streams

CONSTANTS p1, p2, t1, t2, t3, o1, o2, o3, o4

TwoPids     == {p1, p2}
ThreeTids   == {t1, t2, t3}
FourObjects == {o1, o2, o3, o4}

(* The objects are interchangeable, and so are the threads not yet made.   *)
Symmetry == Permutations(Objects) \cup Permutations(Tids \ {InitTid})
=============================================================================
