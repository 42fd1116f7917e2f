--------------------------- MODULE DeployLifecycle ---------------------------
(***************************************************************************)
(* What the deploy pipeline promises, without queue, locks, containers and *)
(* steps: every deployment is opened, handed the app or not, and concluded *)
(* with a verdict that says which; one that the engine dies on is orphaned *)
(* and may only be declared failed.                                        *)
(***************************************************************************)
EXTENDS Naturals

CONSTANTS Apps, NoApp, MaxDeploys

VARIABLES
    phase,    \* phase[i]: what has become of deployment i
    for,      \* for[i]: its app
    serves,   \* serves[a]: the deployment whose container app a is routed to, 0: none
    lives     \* how often the engine died

lifecycle == <<phase, for, serves, lives>>

Ids == 1 .. MaxDeploys
Open(a) == {i \in Ids : phase[i] = "open" /\ for[i] = a}

LifecycleInit ==
    /\ phase = [i \in Ids |-> "none"]
    /\ for = [i \in Ids |-> NoApp]
    /\ serves = [a \in Apps |-> 0]
    /\ lives = 0

\* Deployments are numbered as they begin, and an app has one at a time.
Begin(i, a) ==
    /\ \A n \in Ids : n >= i => phase[n] = "none"
    /\ Open(a) = {}
    /\ phase' = [phase EXCEPT ![i] = "open"]
    /\ for' = [for EXCEPT ![i] = a]
    /\ UNCHANGED <<serves, lives>>

\* Only the open deployment of an app takes it over.
TakeOver(i) ==
    /\ phase[i] = "open"
    /\ serves' = [serves EXCEPT ![for[i]] = i]
    /\ UNCHANGED <<phase, for, lives>>

\* Live if and only if it has taken the app over.
Conclude(i) ==
    /\ phase[i] = "open"
    /\ phase' = [phase EXCEPT ![i] = IF serves[for[i]] = i THEN "live" ELSE "failed"]
    /\ UNCHANGED <<for, serves, lives>>

\* The engine dies: no deployment stays open, and none becomes live by it.
Die ==
    /\ lives' = lives + 1
    /\ \E S \in SUBSET Ids :
           phase' = [i \in Ids |-> IF phase[i] # "open" THEN phase[i]
                                   ELSE IF i \in S THEN "failed" ELSE "orphan"]
    /\ UNCHANGED <<for, serves>>

\* Orphans are declared failed, if anybody ever looks at them.
Settle ==
    /\ \E S \in SUBSET {i \in Ids : phase[i] = "orphan"} :
           phase' = [i \in Ids |-> IF i \in S THEN "failed" ELSE phase[i]]
    /\ UNCHANGED <<for, serves, lives>>

LifecycleNext ==
    \/ \E i \in Ids : (\E a \in Apps : Begin(i, a)) \/ TakeOver(i) \/ Conclude(i)
    \/ Die \/ Settle

LifecycleSpec == LifecycleInit /\ [][LifecycleNext]_lifecycle
=============================================================================
