----------------------------- MODULE MCPlatform -----------------------------
(* Model values for checking Platform with TLC, and a start in mid-life. *)
EXTENDS Platform

CONSTANTS a1, w1, c1

MCApps == {a1}
MCWorkers == {w1}
MCClients == {c1}

\* A first deployment is live, so that the next one replaces a container that the rows
\* in hand may still name.
Deployed ==
    /\ app = [a \in Apps |-> [status |-> "running", cid |-> 1, port |-> TRUE, cfg |-> 0]]
    /\ dep = [i \in DeployIds |->
                 IF i = 1 THEN [app |-> a1, status |-> "live", old |-> FALSE, boot |-> 0, swapped |-> TRUE]
                 ELSE NoDeploy]
    /\ made = 1 /\ requests = 1
    /\ ctr = [i \in DeployIds |-> IF i = 1 THEN "running" ELSE "none"]
    /\ queue = <<>> /\ locks = {}
    /\ pc = [w \in Workers |-> "idle"] /\ job = [w \in Workers |-> NoJob]
    /\ sweep = "apps" /\ boot = 0
    /\ HealthInit /\ HandlerInit

DeployedSpec == Deployed /\ [][PlatformNext]_platformVars /\ PlatformFairness
=============================================================================
