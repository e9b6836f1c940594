----------------------------- MODULE MCProfiles -----------------------------
(* Symmetry for checking Profiles.                                          *)
EXTENDS Profiles, TLC

CONSTANTS r1, r2

Symmetric == Permutations({r1, r2})
=============================================================================
