----------------------------- MODULE MCSockets ------------------------------
(* Instances of Sockets for TLC.                                           *)
EXTENDS Sockets

CONSTANTS t1, t2, t3

ThreeThreads == {t1, t2, t3}

ThreadSymmetry == Permutations(Threads)
=============================================================================
