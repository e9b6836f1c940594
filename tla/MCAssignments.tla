---------------------------- MODULE MCAssignments ----------------------------
(* Symmetry for checking Assignments: what a request slot or a user is called *)
(* is of no consequence.                                                      *)
EXTENDS Assignments, TLC

CONSTANTS r1, r2, alice, bob

Symmetric == Permutations({r1, r2}) \cup Permutations({alice, bob})
=============================================================================
