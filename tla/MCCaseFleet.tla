------------------------------ MODULE MCCaseFleet ------------------------------
(* Small instances of CaseFleet.                                               *)
EXTENDS CaseFleet, TLC

CONSTANTS c1, c2, v1, v2

AnyCase == Permutations(Cases)
OneEach == [m \in Special |-> 1]
=============================================================================
