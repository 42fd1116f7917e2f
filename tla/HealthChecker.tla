---------------------------- MODULE HealthChecker ----------------------------
(***************************************************************************)
(* The health check worker: a ticker that lists the running and failed     *)
(* apps once and then probes them one after the other, each with timeouts  *)
(* of its own, so a row can be minutes old when the checker writes it      *)
(* back.  Game apps, which are probed in another way, are not modelled.    *)
(***************************************************************************)
EXTENDS Deployer

CONSTANT Flaky    \* may an app that is up fail a probe, warming up or overloaded?

ASSUME HealthAssumption == Flaky \in BOOLEAN

VARIABLES
    batch,      \* rows listed by the current CheckAll and not probed yet
    probe,      \* the row being probed and its outcome
    failures    \* HealthChecker.failures: probes failed since the last good one

healthVars == <<batch, probe, failures>>

unhealthyThreshold == 3

Listed == [app : Apps, row : Row]
Outcomes == {"none", "healthy", "unhealthy"}
NoProbe == [app |-> NoApp, row |-> NewRow, outcome |-> "none"]

HealthInit ==
    /\ batch = {}
    /\ probe = NoProbe
    /\ failures = [a \in Apps |-> 0]

\* What checkApp asks of a row before it sends HTTP requests.
Up(row) == row.cid # 0 /\ row.port /\ ctr[row.cid] = "running"

\* Slip: the count never adds up.
CountOne(n) == IF n >= 0 THEN 1 ELSE n

\* A counter read only to compare it with the threshold stops there.
Count(n) == IF n < unhealthyThreshold THEN n + 1 ELSE n

\* The ticker fires: ListAllRunningOrError.
ListApps ==
    /\ batch = {} /\ probe = NoProbe
    /\ batch' = {[app |-> a, row |-> app[a]] :
                   a \in {b \in Apps : app[b].status \in {"running", "error"}}}
    /\ UNCHANGED <<vars, probe, failures>>

CheckApp(e) ==
    /\ probe = NoProbe
    /\ batch' = batch \ {e}
    /\ \E outcome \in {"healthy", "unhealthy"} :
          /\ outcome = "healthy" => Up(e.row)
          /\ outcome = "unhealthy" => ~Up(e.row) \/ Flaky
          /\ probe' = [app |-> e.app, row |-> e.row, outcome |-> outcome]
    /\ UNCHANGED <<vars, failures>>

\* Healthy: resetFailures, and an app listed as failed is running again.
Recovered ==
    LET a == probe.app IN
    /\ probe.outcome = "healthy"
    /\ probe' = NoProbe
    /\ failures' = [failures EXCEPT ![a] = 0]
    /\ IF probe.row.status = "error"
         THEN app' \in Outcome(DbFails, app, UpdateStatus(a, "running", probe.row.cid))
         ELSE app' = app
    /\ UNCHANGED <<dep, made, ctr, requests, queue, locks, pc, job, sweep, boot, batch>>

\* Slip: a failed app gets a deployment's status.
FailedAsDeployment ==
    LET a == probe.app IN
    /\ probe.outcome = "unhealthy"
    /\ probe' = NoProbe
    /\ failures' = [failures EXCEPT ![a] = Count(@)]
    /\ IF probe.row.status = "running" /\ failures'[a] >= unhealthyThreshold
         THEN app' = UpdateStatus(a, "failed", probe.row.cid)
         ELSE app' = app
    /\ UNCHANGED <<dep, made, ctr, requests, queue, locks, pc, job, sweep, boot, batch>>

\* Unhealthy: recordFailure, and at the threshold an app listed as running is failed.
Failed ==
    LET a == probe.app IN
    /\ probe.outcome = "unhealthy"
    /\ probe' = NoProbe
    /\ failures' = [failures EXCEPT ![a] = Count(@)]
    /\ IF probe.row.status = "running" /\ failures'[a] >= unhealthyThreshold
         THEN app' \in Outcome(DbFails, app, UpdateStatus(a, "error", probe.row.cid))
         ELSE app' = app
    /\ UNCHANGED <<dep, made, ctr, requests, queue, locks, pc, job, sweep, boot, batch>>

CheckAll == ListApps \/ (\E e \in batch : CheckApp(e)) \/ Recovered \/ Failed

\* A new engine process has an empty failure map.
HealthRestart ==
    /\ batch' = {} /\ probe' = NoProbe
    /\ failures' = [a \in Apps |-> 0]
=============================================================================
