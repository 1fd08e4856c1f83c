----------------------------- MODULE MCUsageMeter -----------------------------
(* A small instance of UsageMeter: sync calls with one run each, which are  *)
(* interchangeable, and one async job that can be run twice.                *)
EXTENDS UsageMeter, TLC

CONSTANTS s1, s2, j1

MCMaxRuns == [c \in Calls |-> IF c = j1 THEN 2 ELSE 1]
Symmetry == Permutations({s1, s2})
=============================================================================
