------------------------------ MODULE Deployer ------------------------------
(***************************************************************************)
(* The deploy pipeline of luxview-engine: the bounded build queue, the     *)
(* pool of build workers, Deployer.Deploy with its per-app lock, the stale *)
(* deployment sweep, and the crash of the engine process, over the tables  *)
(* and containers of AppStore.                                             *)
(*                                                                         *)
(* Every database statement and every Docker call of Deploy is a step of   *)
(* its own, in the order of the code, since other workers, the sweep and a *)
(* crash can come between any two of them.  Steps that only compute        *)
(* (checkout, stack detection, image build, env merge, post-deploy hooks)  *)
(* are reduced to the outcomes that steer the pipeline.                    *)
(***************************************************************************)
EXTENDS AppStore, Sequences

CONSTANTS
    Workers,      \* the build worker goroutines
    QueueCap,     \* capacity of the build queue channel
    MaxCrashes    \* bound on engine crashes

ASSUME DeployerAssumption ==
    /\ QueueCap \in Nat
    /\ MaxCrashes \in Nat

VARIABLES
    requests,   \* deploy requests made so far, bounded by MaxDeploys
    queue,      \* the build queue channel: requests by app
    locks,      \* Deployer.appLocks: apps with an entry
    pc,         \* pc[w]: where worker w is in Deploy
    job,        \* job[w]: its request and the local variables of Deploy
    sweep,      \* which statement of FailStale runs next
    boot        \* engine processes so far: 0, then one more per crash

vars == <<app, dep, made, ctr, requests, queue, locks, pc, job, sweep, boot>>

\* Places in Deploy where the worker holds the app's lock.
LockedPC == {"load", "mark", "build", "deploying", "port", "stopold", "rmname",
             "create", "start", "restart", "health", "rmold", "final", "live",
             "rmnew", "back", "backrow", "faildep", "failapp", "unlock"}
PC == LockedPC \cup {"idle", "lock"}

\* Places where it has inserted its deployment row and not given the lock back.
WorkingPC == LockedPC \ {"load"}

\* Places where its deployment row is inserted and has not got its final status yet.
OwningPC == LockedPC \ {"load", "failapp", "unlock"}

\* snap is Deploy's variable app, the row as it was read; id the deployment it inserted.
Job == [app : Apps \cup {NoApp}, snap : Row, id : ContainerIds]
NoJob == [app |-> NoApp, snap |-> NewRow, id |-> 0]

Init ==
    /\ StoreInit
    /\ requests = 0
    /\ queue = <<>>
    /\ locks = {}
    /\ pc = [w \in Workers |-> "idle"]
    /\ job = [w \in Workers |-> NoJob]
    /\ sweep = "apps"
    /\ boot = 0

Locked(w) == pc[w] \in LockedPC
Owns(w, i) == pc[w] \in OwningPC /\ job[w].id = i

Goto(w, label) == pc' = [pc EXCEPT ![w] = label]
\* A step of worker w of Deploy, from one label to the next.
Step(w, from, to) == pc[w] = from /\ Goto(w, to)

outside == <<requests, queue, sweep, boot>>
-----------------------------------------------------------------------------
(* The build queue *)

\* A handler, webhook, push, action or rollback asks for a deploy: a non-blocking send,
\* and the request is refused or dropped when the channel is full.
Enqueue(a) ==
    /\ requests < MaxDeploys
    /\ requests' = requests + 1
    /\ queue' = IF Len(queue) < QueueCap THEN Append(queue, a) ELSE queue
    /\ UNCHANGED <<app, dep, made, ctr, locks, pc, job, sweep, boot>>

\* Slip: the worker waits until the queue has more than one request.
TakeLeavesLast(w) ==
    /\ Len(queue) > 1
    /\ Step(w, "idle", "lock")
    /\ job' = [job EXCEPT ![w] = [NoJob EXCEPT !.app = Head(queue)]]
    /\ queue' = Tail(queue)
    /\ UNCHANGED <<app, dep, made, ctr, requests, locks, sweep, boot>>

Take(w) ==
    /\ queue # <<>>
    /\ Step(w, "idle", "lock")
    /\ job' = [job EXCEPT ![w] = [NoJob EXCEPT !.app = Head(queue)]]
    /\ queue' = Tail(queue)
    /\ UNCHANGED <<app, dep, made, ctr, requests, locks, sweep, boot>>

-----------------------------------------------------------------------------
(* Deploy: the lock, the row read, the deployment record *)

\* appLocks.LoadOrStore: one atomic step.
AcquireLock(w) ==
    /\ Step(w, "lock", "load")
    /\ job[w].app \notin locks
    /\ locks' = locks \cup {job[w].app}
    /\ UNCHANGED <<app, dep, made, ctr, job>> /\ UNCHANGED outside

\* Slip: the unlock is deferred before the lock is tried.
SkipDuplicateUnlocks(w) ==
    /\ Step(w, "lock", "idle")
    /\ job[w].app \in locks
    /\ locks' = locks \ {job[w].app}
    /\ job' = [job EXCEPT ![w] = NoJob]
    /\ UNCHANGED <<app, dep, made, ctr>> /\ UNCHANGED outside

\* A deploy of the app is under way: this request is skipped for good.
SkipDuplicate(w) ==
    /\ Step(w, "lock", "idle")
    /\ job[w].app \in locks
    /\ job' = [job EXCEPT ![w] = NoJob]
    /\ UNCHANGED <<app, dep, made, ctr, locks>> /\ UNCHANGED outside

\* FindByID and the INSERT.  The bound on made never binds: requests are bounded.
Load(w) ==
    /\ Step(w, "load", "mark")
    /\ made < MaxDeploys
    /\ made' = made + 1
    /\ dep' = CreateDeployment(made', job[w].app, boot)
    /\ job' = [job EXCEPT ![w] = [@ EXCEPT !.snap = app[job[w].app], !.id = made']]
    /\ UNCHANGED <<app, ctr, locks>> /\ UNCHANGED outside

\* The app is gone, or either statement fails: Deploy returns, the deferred unlock
\* runs, nothing was written.
LoadFails(w) ==
    /\ Step(w, "load", "idle")
    /\ locks' = locks \ {job[w].app}
    /\ job' = [job EXCEPT ![w] = NoJob]
    /\ UNCHANGED storeVars /\ UNCHANGED outside

\* Slip: the row loses its container while the app is building.
MarkBuildingClearsId(w) ==
    /\ Step(w, "mark", "build")
    /\ app' \in Outcome(DbFails, app, UpdateStatus(job[w].app, "building", 0))
    /\ UNCHANGED <<dep, made, ctr, locks, job>> /\ UNCHANGED outside

MarkBuilding(w) ==
    /\ Step(w, "mark", "build")
    /\ app' \in Outcome(DbFails, app,
                        UpdateStatus(job[w].app, "building", job[w].snap.cid))
    /\ UNCHANGED <<dep, made, ctr, locks, job>> /\ UNCHANGED outside

-----------------------------------------------------------------------------
(* Deploy: checkout, detection, build, port *)

Build(w) ==
    /\ Step(w, "build", "deploying")
    /\ UNCHANGED <<storeVars, locks, job>> /\ UNCHANGED outside

\* Checkout, Dockerfile, detection or build failed, or the build timed out.
BuildFails(w) ==
    /\ Step(w, "build", "faildep")
    /\ UNCHANGED <<storeVars, locks, job>> /\ UNCHANGED outside

MarkDeploying(w) ==
    /\ Step(w, "deploying", "port")
    /\ dep' \in Outcome(DbFails, dep, SetDeployStatus(job[w].id, "deploying"))
    /\ UNCHANGED <<app, made, ctr, locks, job>> /\ UNCHANGED outside

KeepPort(w) ==
    /\ Step(w, "port", "stopold")
    /\ job[w].snap.port
    /\ UNCHANGED <<storeVars, locks, job>> /\ UNCHANGED outside

AssignPort(w) ==
    /\ Step(w, "port", "stopold")
    /\ ~job[w].snap.port
    /\ job' = [job EXCEPT ![w] = [@ EXCEPT !.snap.port = TRUE]]
    /\ app' = UpdatePort(job[w].app)
    /\ UNCHANGED <<dep, made, ctr, locks>> /\ UNCHANGED outside

\* Slip: the error is returned without failDeploy.
PortFailsSilently(w) ==
    /\ Step(w, "port", "unlock")
    /\ ~job[w].snap.port
    /\ UNCHANGED <<storeVars, locks, job>> /\ UNCHANGED outside

\* The range is exhausted, or saving the port failed.
PortFails(w) ==
    /\ Step(w, "port", "faildep")
    /\ ~job[w].snap.port
    /\ UNCHANGED <<storeVars, locks, job>> /\ UNCHANGED outside

-----------------------------------------------------------------------------
(* Deploy and ContainerManager.Start: the container swap *)

StopOld(w) ==
    /\ Step(w, "stopold", "rmname")
    /\ dep' = [dep EXCEPT ![job[w].id] = [@ EXCEPT !.swapped = TRUE]]
    /\ ctr' \in Outcome(DockerFails, ctr, StopContainer(job[w].snap.cid))
    /\ UNCHANGED <<app, made, locks, job>> /\ UNCHANGED outside

\* Start first stops and removes whatever container has the app's name.
RemoveSameName(w) ==
    /\ Step(w, "rmname", "create")
    /\ \/ ctr' = RemoveNamed(job[w].app)
       \/ DockerFails /\ ctr' \in {ctr, StopNamed(job[w].app)}
    /\ UNCHANGED <<app, dep, made, locks, job>> /\ UNCHANGED outside

CreateContainer(w) ==
    /\ Step(w, "create", "start")
    /\ Named(job[w].app) = {}
    /\ ctr' = [ctr EXCEPT ![job[w].id] = "stopped"]
    /\ UNCHANGED <<app, dep, made, locks, job>> /\ UNCHANGED outside

\* The name is still taken, or the daemon refuses.
CreateFails(w) ==
    /\ Step(w, "create", "restart")
    /\ Named(job[w].app) # {} \/ DockerFails
    /\ UNCHANGED <<storeVars, locks, job>> /\ UNCHANGED outside

StartContainer(w) ==
    /\ Step(w, "start", "health")
    /\ ctr' = RestartContainer(job[w].id)
    /\ UNCHANGED <<app, dep, made, locks, job>> /\ UNCHANGED outside

\* The host port is taken, the image has no such command, ...
StartFails(w) ==
    /\ Step(w, "start", "restart")
    /\ ctr' \in Outcome(DockerFails, ctr, RemoveContainer(job[w].id))
    /\ UNCHANGED <<app, dep, made, locks, job>> /\ UNCHANGED outside

\* Deploy's answer to a failed Start: restart the old container, if there was one.
RestartOld(w) ==
    /\ Step(w, "restart", "faildep")
    /\ ctr' \in Outcome(DockerFails, ctr, RestartContainer(job[w].snap.cid))
    /\ UNCHANGED <<app, dep, made, locks, job>> /\ UNCHANGED outside

-----------------------------------------------------------------------------
(* Deploy: health check, then finish or roll back *)

\* Migrations and seeds are tried in the container first, whatever comes of them.
HealthPasses(w) ==
    /\ Step(w, "health", "rmold")
    /\ ctr[job[w].id] = "running"
    /\ UNCHANGED <<storeVars, locks, job>> /\ UNCHANGED outside

\* Slip: an unhealthy container makes Deploy return at once.
HealthTimesOutReturns(w) ==
    /\ Step(w, "health", "unlock")
    /\ UNCHANGED <<storeVars, locks, job>> /\ UNCHANGED outside

HealthTimesOut(w) ==
    /\ Step(w, "health", "rmnew")
    /\ UNCHANGED <<storeVars, locks, job>> /\ UNCHANGED outside

RemoveOld(w) ==
    /\ Step(w, "rmold", "final")
    /\ ctr' \in Outcome(DockerFails, ctr, RemoveContainer(job[w].snap.cid))
    /\ UNCHANGED <<app, dep, made, locks, job>> /\ UNCHANGED outside

\* Slip: the new container id is not put in the row.
FinalizeKeepsOldId(w) ==
    /\ Step(w, "final", "live")
    /\ app' \in Outcome(DbFails, app,
                        UpdateRow(job[w].app, [job[w].snap EXCEPT !.status = "running"]))
    /\ UNCHANGED <<dep, made, ctr, locks, job>> /\ UNCHANGED outside

\* The whole row is written from the copy Deploy read at its start.
Finalize(w) ==
    /\ Step(w, "final", "live")
    /\ app' \in Outcome(DbFails, app,
                        UpdateRow(job[w].app, [job[w].snap EXCEPT !.status = "running",
                                                                  !.cid = job[w].id]))
    /\ UNCHANGED <<dep, made, ctr, locks, job>> /\ UNCHANGED outside

MarkLive(w) ==
    /\ Step(w, "live", "unlock")
    /\ dep' \in Outcome(DbFails, dep, SetDeployStatus(job[w].id, "live"))
    /\ UNCHANGED <<app, made, ctr, locks, job>> /\ UNCHANGED outside

\* Slip: the new container is stopped and kept.
RemoveNewStopsOnly(w) ==
    /\ Step(w, "rmnew", "back")
    /\ ctr' = StopContainer(job[w].id)
    /\ UNCHANGED <<app, dep, made, locks, job>> /\ UNCHANGED outside

\* Rollback: stop and remove the new container.
RemoveNew(w) ==
    /\ Step(w, "rmnew", "back")
    /\ \/ ctr' = RemoveContainer(job[w].id)
       \/ DockerFails /\ ctr' \in {ctr, StopContainer(job[w].id)}
    /\ UNCHANGED <<app, dep, made, locks, job>> /\ UNCHANGED outside

\* Rollback: restart the old container and name it again in the row, if there was one.
BackToOld(w) ==
    /\ Step(w, "back", IF job[w].snap.cid = 0 THEN "faildep" ELSE "backrow")
    /\ ctr' \in Outcome(DockerFails, ctr, RestartContainer(job[w].snap.cid))
    /\ UNCHANGED <<app, dep, made, locks, job>> /\ UNCHANGED outside

BackToOldRow(w) ==
    /\ Step(w, "backrow", "faildep")
    /\ app' \in Outcome(DbFails, app,
                        UpdateStatus(job[w].app, "running", job[w].snap.cid))
    /\ UNCHANGED <<dep, made, ctr, locks, job>> /\ UNCHANGED outside

\* Slip: the deployment gets the app's error status.
FailDeploymentAsApp(w) ==
    /\ Step(w, "faildep", "failapp")
    /\ dep' \in Outcome(DbFails, dep, SetDeployStatus(job[w].id, "error"))
    /\ UNCHANGED <<app, made, ctr, locks, job>> /\ UNCHANGED outside

\* failDeploy: the deployment row first, then the app row.
FailDeployment(w) ==
    /\ Step(w, "faildep", "failapp")
    /\ dep' \in Outcome(DbFails, dep, SetDeployStatus(job[w].id, "failed"))
    /\ UNCHANGED <<app, made, ctr, locks, job>> /\ UNCHANGED outside

FailApp(w) ==
    /\ Step(w, "failapp", "unlock")
    /\ app' \in Outcome(DbFails, app,
                        UpdateStatus(job[w].app, "error", job[w].snap.cid))
    /\ UNCHANGED <<dep, made, ctr, locks, job>> /\ UNCHANGED outside

\* Slip: the lock is not given back.
UnlockForgets(w) ==
    /\ Step(w, "unlock", "idle")
    /\ job' = [job EXCEPT ![w] = NoJob]
    /\ UNCHANGED <<storeVars, locks>> /\ UNCHANGED outside

\* The deferred appLocks.Delete; the worker goes back to the queue.
Unlock(w) ==
    /\ Step(w, "unlock", "idle")
    /\ locks' = locks \ {job[w].app}
    /\ job' = [job EXCEPT ![w] = NoJob]
    /\ UNCHANGED storeVars /\ UNCHANGED outside

Deploy(w) ==
    \/ AcquireLock(w) \/ SkipDuplicate(w) \/ Load(w) \/ LoadFails(w) \/ MarkBuilding(w)
    \/ Build(w) \/ BuildFails(w) \/ MarkDeploying(w)
    \/ KeepPort(w) \/ AssignPort(w) \/ PortFails(w)
    \/ StopOld(w) \/ RemoveSameName(w) \/ CreateContainer(w) \/ CreateFails(w)
    \/ StartContainer(w) \/ StartFails(w) \/ RestartOld(w)
    \/ HealthPasses(w) \/ HealthTimesOut(w)
    \/ RemoveOld(w) \/ Finalize(w) \/ MarkLive(w)
    \/ RemoveNew(w) \/ BackToOld(w) \/ BackToOldRow(w)
    \/ FailDeployment(w) \/ FailApp(w) \/ Unlock(w)

-----------------------------------------------------------------------------
(* The stale sweep, time, and crashes *)

\* Time passes: deployment i grows older than twice the build timeout.  So may a
\* row in use, as long as it is in its checkout, which has no timeout, or build.
Age(i) ==
    /\ dep[i].status = "building"
    /\ ~dep[i].old
    /\ \A w \in Workers : Owns(w, i) => pc[w] = "build"
    /\ dep' = [dep EXCEPT ![i] = [@ EXCEPT !.old = TRUE]]
    /\ UNCHANGED <<app, made, ctr, locks, pc, job>> /\ UNCHANGED outside

\* FailStale is two statements without a transaction; the first one's error is ignored.
SweepApps ==
    /\ sweep = "apps"
    /\ sweep' = "rows"
    /\ app' \in Outcome(DbFails, app, ErrorStaleApps)
    /\ UNCHANGED <<dep, made, ctr, requests, queue, locks, pc, job, boot>>

SweepRows ==
    /\ sweep = "rows"
    /\ sweep' = "apps"
    /\ dep' \in Outcome(DbFails, dep, FailStaleRows)
    /\ UNCHANGED <<app, made, ctr, requests, queue, locks, pc, job, boot>>

\* The engine process ends (killed, or shut down: its context is cancelled and
\* with it every statement of a running Deploy) and a new one starts.  Queue,
\* locks and goroutines are memory; tables and containers stay.
Crash ==
    /\ boot < MaxCrashes
    /\ boot' = boot + 1
    /\ queue' = <<>>
    /\ locks' = {}
    /\ pc' = [w \in Workers |-> "idle"]
    /\ job' = [w \in Workers |-> NoJob]
    /\ sweep' = "apps"
    /\ UNCHANGED <<storeVars, requests>>

\* What a running engine process does.
Running ==
    \/ \E a \in Apps : Enqueue(a)
    \/ \E w \in Workers : Take(w) \/ Deploy(w)
    \/ \E i \in DeployIds : Age(i)
    \/ SweepApps \/ SweepRows

Next == Running \/ Crash

Spec == Init /\ [][Next]_vars

\* Workers run, time passes, the sweep's ticker fires.  Requests and crashes
\* are not fair: nobody has to ask for a deploy, and the engine need not crash.
Fairness ==
    /\ \A w \in Workers : WF_vars(Take(w) \/ Deploy(w))
    /\ \A i \in DeployIds : WF_vars(Age(i))
    /\ WF_vars(SweepApps) /\ WF_vars(SweepRows)

FairSpec == Spec /\ Fairness
-----------------------------------------------------------------------------
(* Invariants *)

TypeOK ==
    /\ StoreTypeOK
    /\ requests \in 0 .. MaxDeploys
    /\ queue \in Seq(Apps)
    /\ locks \in SUBSET Apps
    /\ pc \in [Workers -> PC]
    /\ job \in [Workers -> Job]
    /\ sweep \in {"apps", "rows"}
    /\ boot \in Nat

\* At most one worker is deploying an app, and the lock table holds exactly the
\* apps being deployed: a duplicate that is skipped takes no lock away and every
\* way out of Deploy gives its own back.
LocksMatchDeploys ==
    /\ \A v, w \in Workers : Locked(v) /\ Locked(w) /\ job[v].app = job[w].app => v = w
    /\ locks = {job[w].app : w \in {v \in Workers : Locked(v)}}

\* A deployment in progress that this process inserted has a worker that still
\* owes it a verdict: no path through Deploy forgets one.
InFlightIsOwned ==
    \A i \in DeployIds :
        dep[i].status \in InProgress =>
            dep[i].boot < boot \/ \E w \in Workers : Owns(w, i)

Latest(a, i) == dep[i].app = a /\ \A j \in DeployIds : dep[j].app = a => j <= i
Deploying(a) == \E w \in Workers : pc[w] \in WorkingPC /\ job[w].app = a

\* Between deploys the app row tells how the last deployment ended: running on
\* that deployment's container, which is up, or error.  The sweep and the
\* two-step writes of failDeploy and of the happy end never leave them apart.
RowReflectsLastDeploy ==
    \A a \in Apps, i \in DeployIds :
        Latest(a, i) /\ dep[i].boot = boot /\ ~Deploying(a) =>
            \/ dep[i].status = "live" /\ app[a].status = "running"
               /\ app[a].cid = i /\ ctr[i] = "running"
            \/ dep[i].status = "failed" /\ app[a].status = "error"

\* A live deployment is served until a later one starts its swap: as long as the
\* later ones fail or crash in checkout, build or port allocation, its container
\* stays up and the app row keeps naming it.
ServedUntilSwap ==
    \A i \in DeployIds :
        dep[i].status = "live"
        /\ (\A j \in DeployIds : j > i /\ dep[j].app = dep[i].app => ~dep[j].swapped)
            => ctr[i] = "running" /\ app[dep[i].app].cid = i

\* No container is left behind by this process: each one is named by its app's
\* row or is in the hands of a worker (checked with a daemon that does not fail).
NoOrphanContainer ==
    \A i \in DeployIds :
        ctr[i] # "none" =>
            \/ app[dep[i].app].cid = i
            \/ \E w \in Workers : Owns(w, i)
            \/ dep[i].boot < boot

(* Action properties *)

\* A verdict is final: once a deployment is live or failed and its worker is done
\* with it, neither the sweep nor another deploy nor a crash changes its status.
FinishedStaysFinished ==
    [][\A i \in DeployIds :
         dep[i].status \in Finished /\ (\A w \in Workers : ~Owns(w, i))
            => dep'[i].status = dep[i].status]_vars

(* Liveness *)

\* The lock of an app is always given back, whatever fails: a later request for
\* the app is not skipped for ever.
LockReleased == \A a \in Apps : a \in locks ~> a \notin locks

\* Queued requests are all taken.
QueueDrains == queue # <<>> ~> queue = <<>>

\* Every deployment gets a verdict and keeps it, unless a crash caught it after
\* its image was built.
VerdictReached ==
    \A i \in DeployIds :
        dep[i].status # "none" ~>
            [](\/ dep[i].status \in Finished
               \/ dep[i].status = "deploying" /\ dep[i].boot < boot)

-----------------------------------------------------------------------------
(* What comments of the code say and the code does not do *)

\* deployer.go: "Rollback: stop new, restart old".  After the rollback's restart
\* the old container runs again (with a daemon that does not fail).
RollbackRestartsOld ==
    \A w \in Workers : pc[w] = "backrow" => ctr[job[w].snap.cid] = "running"
=============================================================================
