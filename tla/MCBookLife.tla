----------------------------- MODULE MCBookLife -----------------------------
(* Model checking of BookLife on small sets of runs. *)
EXTENDS BookLife, TLC

\* Slots differ in nothing.
Symmetry == Permutations(Run)
=============================================================================
