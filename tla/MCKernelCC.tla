----------------------------- MODULE MCKernelCC -----------------------------
(* Instances of KernelCC for TLC.                                          *)
EXTENDS KernelCC

CONSTANTS t1, t2, t3, kcv, ucv

TwoThreads   == {t1, t2}
ThreeThreads == {t1, t2, t3}
NoCV         == {}
OneKernelCV  == {kcv}
OneUserCV    == {ucv}

ThreadSymmetry == Permutations(ThreeThreads)
=============================================================================
