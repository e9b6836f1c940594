--------------------------- MODULE MCDeployments ---------------------------
(* Constants, symmetry and bounds for checking Deployments with its history: *)
(* what a request slot or a lab is called is of no consequence.               *)
EXTENDS DeploymentsHistory, Naturals, TLC

CONSTANTS u1, u2, r1, r2, lab1, lab2, MaxStates

Deployment(lab) == [status |-> "Deployment Completed", lab |-> lab]

TwoBodies == {Deployment(lab1), Deployment(lab2)}

Symmetric == Permutations({r1, r2}) \cup Permutations({lab1, lab2})

\* The rows of u1 go through at most so many states, though as often as they
\* like; u2 only asks for lists; one operation entry at a time is late.
Bounds ==
    /\ Cardinality(past[u1]) <= MaxStates
    /\ \A r \in Requests : pc[r] # "idle" /\ arg[r].user = u2 => arg[r].op = "list"
    /\ Cardinality({r \in Requests : entryRun[r] # NoArg}) <= 1

\* What some step reads: not the entries in Redis, the answers, the events and
\* the operations table, which are only written.
ReadState == <<table, listCache, pc, arg, got, entryRun, unswept, overtaken, past>>
=============================================================================
