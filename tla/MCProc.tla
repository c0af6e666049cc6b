------------------------------- MODULE MCProc -------------------------------
(* Instances of Proc for TLC.                                              *)
EXTENDS Proc

CONSTANTS t1, t2, t3, t4

ThreeTids == {t1, t2, t3}
FourTids  == {t1, t2, t3, t4}

TidSymmetry == Permutations(Tids)
=============================================================================
