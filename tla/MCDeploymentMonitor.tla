------------------------ MODULE MCDeploymentMonitor ------------------------
(* Deployments for checking the monitor: one that falls due and one already *)
(* destroyed.                                                               *)
EXTENDS DeploymentMonitor

Deployment(status, autoDelete, deadline) ==
    [status |-> status, autoDelete |-> autoDelete, deadline |-> deadline]

Expiring == Deployment("Deployment Completed", TRUE, 1)
Destroyed == Deployment("Destroy Completed", TRUE, 1)

TwoBodies == {Expiring, Destroyed}
=============================================================================
