----------------------------- MODULE MCMachine ------------------------------
(* Instances of Machine for TLC.                                           *)
EXTENDS Machine

CONSTANTS c1, c2, m1, m2, m3
TwoClients   == {c1, c2}
ThreeMembers == {m1, m2, m3}

TwoHeads   == {"L1", "L2"}
ThreeItems == {"n1", "n2", "n3"}
SomeItems  == {"n1", "n2"}
=============================================================================
