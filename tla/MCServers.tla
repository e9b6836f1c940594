------------------------------ MODULE MCServers ------------------------------
(* Symmetry for checking Servers: what a request slot or a principal is       *)
(* called is of no consequence.                                               *)
EXTENDS Servers, TLC

CONSTANTS r1, r2, p1, p2

Symmetric == Permutations({r1, r2}) \cup Permutations({p1, p2})
=============================================================================
