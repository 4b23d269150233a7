--------------------------- MODULE MCRunDirectory ---------------------------
(* Three invocations with one --out, two of them at a time.                *)
EXTENDS RunDirectory, TLC

Symmetry == Permutations(Procs)

TwoAtOnce == Cardinality(Live) <= 2
=============================================================================
