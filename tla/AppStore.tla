------------------------------ MODULE AppStore ------------------------------
(***************************************************************************)
(* What the engine's components share: the apps and deployments tables of  *)
(* the platform database and the Docker daemon's containers.               *)
(*                                                                         *)
(* A deployment is identified by the order of its INSERT, 1, 2, ...  Every *)
(* deployment creates at most one container, so the container a deployment *)
(* creates carries the same number; 0 is the empty container_id.  Every    *)
(* container of an app has the one name luxview-<subdomain>.               *)
(*                                                                         *)
(* The module has no behaviour of its own: it holds the statements the     *)
(* repositories run and the calls the Docker client makes, as functions    *)
(* from the old value to the new one.                                      *)
(***************************************************************************)
EXTENDS Naturals

CONSTANTS
    Apps,          \* the rows of the apps table
    NoApp,         \* "no app": the app column of a deployment not yet inserted
    MaxDeploys,    \* bound on the rows of the deployments table
    DbFails,       \* may a database statement fail while the engine is up?
    DockerFails    \* may a Docker call fail for a reason of the daemon's own?

ASSUME AppStoreAssumption ==
    /\ NoApp \notin Apps
    /\ MaxDeploys \in Nat
    /\ DbFails \in BOOLEAN
    /\ DockerFails \in BOOLEAN

VARIABLES
    app,    \* app[a]: the row of a: status, container_id, assigned_port set?, settings version
    dep,    \* dep[i]: the row of deployment i
    made,   \* how many deployments were inserted
    ctr     \* ctr[i]: the container created by deployment i, as Docker has it

storeVars == <<app, dep, made, ctr>>

DeployIds == 1 .. MaxDeploys
ContainerIds == 0 .. MaxDeploys

AppStatus == {"building", "running", "stopped", "error", "maintenance"}
DeployStatus == {"none", "building", "deploying", "live", "failed"}
InProgress == {"building", "deploying"}
Finished == {"live", "failed"}
CtrState == {"none", "stopped", "running"}

Row == [status : AppStatus, cid : ContainerIds, port : BOOLEAN, cfg : Nat]

\* old: created_at is further back than the stale worker's maximum age.
\* boot and swapped are history: the engine process that inserted the row, and
\* whether its pipeline has come to the point where it touches the old container.
DeployRow == [app : Apps \cup {NoApp}, status : DeployStatus, old : BOOLEAN,
              boot : Nat, swapped : BOOLEAN]

\* A row fresh from AppHandler.Create: stopped, no container, no port.
NewRow == [status |-> "stopped", cid |-> 0, port |-> FALSE, cfg |-> 0]
NoDeploy == [app |-> NoApp, status |-> "none", old |-> FALSE,
             boot |-> 0, swapped |-> FALSE]

StoreInit ==
    /\ app = [a \in Apps |-> NewRow]
    /\ dep = [i \in DeployIds |-> NoDeploy]
    /\ made = 0
    /\ ctr = [i \in DeployIds |-> "none"]

StoreTypeOK ==
    /\ app \in [Apps -> Row]
    /\ dep \in [DeployIds -> DeployRow]
    /\ made \in ContainerIds
    /\ ctr \in [DeployIds -> CtrState]

\* A call whose error the caller ignores: the new value, or the old one if it may fail.
Outcome(mayFail, old, new) == IF mayFail THEN {old, new} ELSE {new}

-----------------------------------------------------------------------------
(* Statements of AppRepo and DeploymentRepo *)

\* UPDATE apps SET status, container_id: nothing else of the row.
UpdateStatus(a, status, cid) ==
    [app EXCEPT ![a] = [@ EXCEPT !.status = status, !.cid = cid]]

\* UPDATE apps SET <every column> from a row read earlier.
UpdateRow(a, row) == [app EXCEPT ![a] = row]

\* UPDATE apps SET assigned_port.
UpdatePort(a) == [app EXCEPT ![a] = [@ EXCEPT !.port = TRUE]]

\* INSERT INTO deployments: Deploy inserts its row as 'building'.
CreateDeployment(i, a, boot) ==
    [dep EXCEPT ![i] = [app |-> a, status |-> "building", old |-> FALSE,
                        boot |-> boot, swapped |-> FALSE]]

\* UPDATE deployments SET status WHERE id: unconditional.
SetDeployStatus(i, status) == [dep EXCEPT ![i] = [@ EXCEPT !.status = status]]

\* Slip: the age alone selects, so that finished deployments are swept too.
StaleRowsAnyStatus == {i \in DeployIds : dep[i].old}

\* The rows both statements of FailStale select; 'pending' is never inserted.
StaleRows == {i \in DeployIds : dep[i].status = "building" /\ dep[i].old}

\* FailStale, first statement: UPDATE apps ... WHERE status = 'building' AND id IN (...).
ErrorStaleApps ==
    [a \in Apps |-> IF app[a].status = "building" /\ \E i \in StaleRows : dep[i].app = a
                    THEN [app[a] EXCEPT !.status = "error"] ELSE app[a]]

\* FailStale, second statement: UPDATE deployments ... selecting the rows afresh.
FailStaleRows ==
    [i \in DeployIds |-> IF i \in StaleRows
                         THEN [dep[i] EXCEPT !.status = "failed"] ELSE dep[i]]

-----------------------------------------------------------------------------
(* Calls of the Docker client; c may be 0 or a container that is gone *)

StopContainer(c) ==
    [i \in DeployIds |-> IF i = c /\ ctr[i] = "running" THEN "stopped" ELSE ctr[i]]

\* Remove is forced: it takes a running container down too.
RemoveContainer(c) == [i \in DeployIds |-> IF i = c THEN "none" ELSE ctr[i]]

\* Restarting starts a stopped container; one that is gone stays gone.
RestartContainer(c) ==
    [i \in DeployIds |-> IF i = c /\ ctr[i] # "none" THEN "running" ELSE ctr[i]]

\* Containers that bear the app's name luxview-<subdomain>.
Named(a) == {i \in DeployIds : dep[i].app = a /\ ctr[i] # "none"}

StopNamed(a) == [i \in DeployIds |-> IF i \in Named(a) THEN "stopped" ELSE ctr[i]]
RemoveNamed(a) == [i \in DeployIds |-> IF i \in Named(a) THEN "none" ELSE ctr[i]]
=============================================================================
