----------------------------- MODULE MCDeployer -----------------------------
(* Model values and symmetry for checking Deployer with TLC. *)
EXTENDS DeployerRefinement, TLC

CONSTANTS a1, a2, w1, w2

MCApps == {a1, a2}
MCOneApp == {a1}
MCWorkers == {w1, w2}
MCOneWorker == {w1}

\* Apps and workers are interchangeable; used in runs that check no liveness.
Symmetry == Permutations(MCApps) \cup Permutations(MCWorkers)
=============================================================================
