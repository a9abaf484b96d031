-------------------------- MODULE MCTaskLayout --------------------------
(* TLC instance of TaskLayout: owners are interchangeable.                 *)
EXTENDS TaskLayout, TLC

Symmetry == Permutations(Owners)
=============================================================================
