---------------------------- MODULE MCTestEditing ----------------------------
(* Two interchangeable authors.                                             *)
EXTENDS TestEditing, TLC

Alike == Permutations(Authors)

=============================================================================
