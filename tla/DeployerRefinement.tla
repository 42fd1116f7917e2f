-------------------------- MODULE DeployerRefinement -------------------------
(***************************************************************************)
(* Deployer implements DeployLifecycle: how the tables and the workers of  *)
(* the engine are read as deployments that are open, orphaned or concluded.*)
(***************************************************************************)
EXTENDS Deployer

\* A deployment is open while a worker of this process owes it a verdict, whatever
\* its row says meanwhile (the sweep may already have failed it), and orphaned when
\* nobody does and it has none.
Phase(i) ==
    IF \E w \in Workers : Owns(w, i) THEN "open"
    ELSE IF dep[i].app = NoApp THEN "none"
    ELSE IF dep[i].status \in Finished THEN dep[i].status
    ELSE "orphan"

phaseOf == [i \in DeployIds |-> Phase(i)]
appOf == [i \in DeployIds |-> dep[i].app]
servedBy == [a \in Apps |-> app[a].cid]

Lifecycle == INSTANCE DeployLifecycle WITH phase <- phaseOf, for <- appOf, serves <- servedBy,
                                           lives <- boot

\* As long as no database statement fails, all that queue, locks, workers, sweep and
\* crashes do to a deployment is what DeployLifecycle allows: one open deployment an
\* app, taken over by nobody else, live exactly when the row names its container.
ImplementsLifecycle == Lifecycle!LifecycleSpec
=============================================================================
