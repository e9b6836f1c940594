-------------------------------- MODULE MCHub --------------------------------
(* A deployment that falls due, and what actlabs-server reports once it has   *)
(* begun to destroy it.                                                      *)
EXTENDS Hub, TLC

CONSTANTS r1

Deployment(status, autoDelete, deadline) ==
    [status |-> status, autoDelete |-> autoDelete, deadline |-> deadline, lab |-> "none"]

Expiring == Deployment("Deployment Completed", TRUE, 1)
Destroying == Deployment("Destroy In Progress", TRUE, 1)

AllBodies == {Expiring, Destroying}
=============================================================================
