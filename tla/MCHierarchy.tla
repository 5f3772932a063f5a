---------------------------- MODULE MCHierarchy ----------------------------
(* Hierarchy on a small tenant. *)
EXTENDS Hierarchy, TLC

Symmetry == Permutations(Users \ Foreign)
=============================================================================
