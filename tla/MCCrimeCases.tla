---- MODULE MCCrimeCases ----
EXTENDS CrimeCases, TLC

MCPlaces == {0, 100}
MCPlace == {0}
Symmetry == Permutations(Peds) \cup Permutations(Slots)
====
