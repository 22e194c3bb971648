------------------------------ MODULE MCCustody ------------------------------
(* Small instances of Custody. *)
EXTENDS Custody, TLC

Symmetric == Permutations(Criminals) \cup Permutations(Vehicles)
=============================================================================
