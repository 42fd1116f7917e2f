--------------------------- MODULE Deployer_proofs ---------------------------
(***************************************************************************)
(* Proofs about Deployer, for any apps, workers, queue capacity and bounds:*)
(* the types and the locks, whatever fails; then that deployments, app     *)
(* rows and containers stay in agreement as long as no database statement  *)
(* fails.  The invariants about them hold of a state only because of what  *)
(* the workers in the middle of Deploy hold, so they are proved together   *)
(* with it.  From them follows that Deployer implements DeployLifecycle.   *)
(***************************************************************************)
EXTENDS DeployerRefinement, Platform, TLAPS

-----------------------------------------------------------------------------
(* The statements and Docker calls keep the types of what they write *)

LEMMA AppWrites ==
    ASSUME app \in [Apps -> Row], NEW a
    PROVE  /\ \A s \in AppStatus, c \in ContainerIds :
                UpdateStatus(a, s, c) \in [Apps -> Row]
           /\ \A row \in Row : UpdateRow(a, row) \in [Apps -> Row]
           /\ UpdatePort(a) \in [Apps -> Row]
           /\ ErrorStaleApps \in [Apps -> Row]
<1>1. ASSUME NEW s \in AppStatus, NEW c \in ContainerIds
      PROVE  UpdateStatus(a, s, c) \in [Apps -> Row]
  BY <1>1 DEF UpdateStatus, Row
<1>2. ASSUME NEW row \in Row
      PROVE  UpdateRow(a, row) \in [Apps -> Row]
  BY <1>2 DEF UpdateRow
<1>3. UpdatePort(a) \in [Apps -> Row]
  BY DEF UpdatePort, Row
<1>4. ErrorStaleApps \in [Apps -> Row]
  BY DEF ErrorStaleApps, Row, AppStatus
<1>5. QED
  BY <1>1, <1>2, <1>3, <1>4

LEMMA DeploymentWrites ==
    ASSUME dep \in [DeployIds -> DeployRow], NEW i
    PROVE  /\ \A s \in DeployStatus : SetDeployStatus(i, s) \in [DeployIds -> DeployRow]
           /\ \A a \in Apps, b \in Nat : CreateDeployment(i, a, b) \in [DeployIds -> DeployRow]
           /\ FailStaleRows \in [DeployIds -> DeployRow]
           /\ [dep EXCEPT ![i] = [@ EXCEPT !.swapped = TRUE]] \in [DeployIds -> DeployRow]
           /\ [dep EXCEPT ![i] = [@ EXCEPT !.old = TRUE]] \in [DeployIds -> DeployRow]
<1>1. ASSUME NEW s \in DeployStatus
      PROVE  SetDeployStatus(i, s) \in [DeployIds -> DeployRow]
  BY <1>1 DEF SetDeployStatus, DeployRow
<1>2. ASSUME NEW a \in Apps, NEW b \in Nat
      PROVE  CreateDeployment(i, a, b) \in [DeployIds -> DeployRow]
  BY <1>2 DEF CreateDeployment, DeployRow, DeployStatus
<1>3. FailStaleRows \in [DeployIds -> DeployRow]
  BY DEF FailStaleRows, DeployRow, DeployStatus
<1>4. /\ [dep EXCEPT ![i] = [@ EXCEPT !.swapped = TRUE]] \in [DeployIds -> DeployRow]
      /\ [dep EXCEPT ![i] = [@ EXCEPT !.old = TRUE]] \in [DeployIds -> DeployRow]
  BY DEF DeployRow
<1>5. QED
  BY <1>1, <1>2, <1>3, <1>4

LEMMA DockerCalls ==
    ASSUME ctr \in [DeployIds -> CtrState], NEW x
    PROVE  /\ StopContainer(x) \in [DeployIds -> CtrState]
           /\ RemoveContainer(x) \in [DeployIds -> CtrState]
           /\ RestartContainer(x) \in [DeployIds -> CtrState]
           /\ StopNamed(x) \in [DeployIds -> CtrState]
           /\ RemoveNamed(x) \in [DeployIds -> CtrState]
           /\ [ctr EXCEPT ![x] = "stopped"] \in [DeployIds -> CtrState]
BY DEF StopContainer, RemoveContainer, RestartContainer, StopNamed, RemoveNamed, CtrState

LEMMA OutcomeType ==
    ASSUME NEW S, NEW old \in S, NEW new \in S, NEW mayFail,
           NEW v \in Outcome(mayFail, old, new)
    PROVE  v \in S
BY DEF Outcome

\* What the statements write, column by column.
LEMMA UpdateStatusEffect ==
    ASSUME app \in [Apps -> Row], NEW a, NEW status, NEW cid
    PROVE  \A b \in Apps :
             /\ UpdateStatus(a, status, cid)[b].cid = (IF b = a THEN cid ELSE app[b].cid)
             /\ UpdateStatus(a, status, cid)[b].status = (IF b = a THEN status ELSE app[b].status)
             /\ b # a => UpdateStatus(a, status, cid)[b] = app[b]
BY DEF UpdateStatus, Row

LEMMA UpdateRowEffect ==
    ASSUME app \in [Apps -> Row], NEW a, NEW row
    PROVE  \A b \in Apps : UpdateRow(a, row)[b] = (IF b = a THEN row ELSE app[b])
BY DEF UpdateRow

LEMMA UpdatePortEffect ==
    ASSUME app \in [Apps -> Row], NEW a
    PROVE  \A b \in Apps :
             /\ UpdatePort(a)[b].cid = app[b].cid /\ UpdatePort(a)[b].status = app[b].status
             /\ b # a => UpdatePort(a)[b] = app[b]
BY DEF UpdatePort, Row

LEMMA SweepEffect ==
    ASSUME app \in [Apps -> Row]
    PROVE  \A b \in Apps :
             /\ ErrorStaleApps[b].cid = app[b].cid
             /\ app[b].status # "building" => ErrorStaleApps[b] = app[b]
BY DEF ErrorStaleApps, Row

LEMMA DeploymentEffects ==
    ASSUME dep \in [DeployIds -> DeployRow], NEW i, NEW status
    PROVE  \A j \in DeployIds :
             /\ SetDeployStatus(i, status)[j].app = dep[j].app
             /\ SetDeployStatus(i, status)[j].boot = dep[j].boot
             /\ SetDeployStatus(i, status)[j].swapped = dep[j].swapped
             /\ SetDeployStatus(i, status)[j].status = (IF j = i THEN status ELSE dep[j].status)
             /\ j # i => SetDeployStatus(i, status)[j] = dep[j]
BY DEF SetDeployStatus, DeployRow

LEMMA OutcomeCases ==
    ASSUME NEW old, NEW new, NEW mayFail, NEW v \in Outcome(mayFail, old, new)
    PROVE  v = new \/ (mayFail /\ v = old)
BY DEF Outcome

-----------------------------------------------------------------------------
(* Types *)

\* A worker with a request in hand has the name of an app: what TypeOK needs to
\* be inductive, as the row read and the lock taken are those of job[w].app.
BusyHasApp == \A w \in Workers : pc[w] # "idle" => job[w].app \in Apps

TypeInv == TypeOK /\ BusyHasApp

LEMMA InitTypes == Init => TypeInv
<1> SUFFICES ASSUME Init PROVE TypeInv
  OBVIOUS
<1>1. NewRow \in Row
  BY AppStoreAssumption DEF NewRow, Row, AppStatus, ContainerIds
<1>2. NoDeploy \in DeployRow
  BY DEF NoDeploy, DeployRow, DeployStatus
<1>3. NoJob \in Job
  BY <1>1, AppStoreAssumption DEF NoJob, Job, ContainerIds
<1>4. StoreTypeOK
  BY <1>1, <1>2, AppStoreAssumption DEF Init, StoreInit, StoreTypeOK, CtrState, ContainerIds
<1>5. QED
  BY <1>3, <1>4, AppStoreAssumption DEF Init, TypeInv, TypeOK, BusyHasApp, PC

\* The steps of Deploy that leave the request, the row copy and the id alone.
LEMMA StepTypes ==
    ASSUME TypeInv, NEW w \in Workers, NEW from \in PC \ {"idle"}, NEW to \in PC,
           Step(w, from, to), UNCHANGED <<job, requests, queue, sweep, boot>>,
           locks' \in SUBSET Apps, StoreTypeOK'
    PROVE  TypeInv'
BY DEF Step, Goto, TypeInv, TypeOK, BusyHasApp

LEMMA DeployTypes ==
    ASSUME TypeInv, NEW w \in Workers, Deploy(w)
    PROVE  TypeInv'
<1> DEFINE a == job[w].app
           c == job[w].snap.cid
           i == job[w].id
<1>1. /\ StoreTypeOK
      /\ pc \in [Workers -> PC] /\ job \in [Workers -> Job] /\ locks \subseteq Apps
      /\ requests \in 0 .. MaxDeploys /\ queue \in Seq(Apps)
      /\ sweep \in {"apps", "rows"} /\ boot \in Nat
      /\ BusyHasApp
  BY DEF TypeInv, TypeOK
<1>2. /\ a \in Apps \cup {NoApp} /\ job[w].snap \in Row /\ i \in ContainerIds
      /\ c \in ContainerIds
      /\ pc[w] # "idle" => a \in Apps
  BY <1>1 DEF Job, Row, BusyHasApp
<1>3. /\ app \in [Apps -> Row] /\ dep \in [DeployIds -> DeployRow]
      /\ made \in ContainerIds /\ ctr \in [DeployIds -> CtrState]
  BY <1>1 DEF StoreTypeOK
<1>4. NoJob \in Job /\ NewRow \in Row
  BY AppStoreAssumption DEF NoJob, Job, NewRow, Row, AppStatus, ContainerIds
<1>5. /\ "building" \in AppStatus /\ "running" \in AppStatus /\ "error" \in AppStatus
      /\ "deploying" \in DeployStatus /\ "live" \in DeployStatus
      /\ "failed" \in DeployStatus
  BY DEF AppStatus, DeployStatus
<1> HIDE DEF a, c, i
<1>6. CASE AcquireLock(w)
  <2>1. locks' \in SUBSET Apps
    BY <1>1, <1>2, <1>6 DEF AcquireLock, Step, a
  <2>2. StoreTypeOK'
    BY <1>1, <1>6 DEF AcquireLock, StoreTypeOK
  <2>3. QED
    BY <1>6, <2>1, <2>2, StepTypes DEF AcquireLock, outside, PC, LockedPC
<1>7. CASE SkipDuplicate(w)
  BY <1>1, <1>4, <1>7 DEF SkipDuplicate, Step, Goto, outside, TypeInv, TypeOK,
     StoreTypeOK, BusyHasApp, PC
<1>8. CASE Load(w)
  <2>1. a \in Apps
    BY <1>2, <1>8 DEF Load, Step
  <2>2. made' \in ContainerIds
    BY <1>3, <1>8, AppStoreAssumption DEF Load, ContainerIds
  <2>3. dep' \in [DeployIds -> DeployRow]
    <3>1. dep' = CreateDeployment(made', a, boot)
      BY <1>8 DEF Load, a
    <3>2. QED
      BY <1>1, <1>3, <2>1, <3>1, DeploymentWrites
  <2>4. job' \in [Workers -> Job] /\ \A v \in Workers : job'[v].app = job[v].app
    <3>1. job' = [job EXCEPT ![w] = [@ EXCEPT !.snap = app[a], !.id = made']]
      BY <1>8 DEF Load, a
    <3>2. app[a] \in Row
      BY <1>3, <2>1
    <3>3. QED
      BY <1>1, <2>2, <3>1, <3>2 DEF Job
  <2>5. StoreTypeOK'
    BY <1>3, <1>8, <2>2, <2>3 DEF Load, StoreTypeOK
  <2>6. pc' \in [Workers -> PC]
    BY <1>1, <1>8 DEF Load, Step, Goto, PC, LockedPC
  <2>7. BusyHasApp'
    BY <1>1, <1>8, <2>1, <2>4 DEF Load, Step, Goto, BusyHasApp, a
  <2>8. QED
    BY <1>1, <1>8, <2>4, <2>5, <2>6, <2>7 DEF Load, outside, TypeInv, TypeOK
<1>9. CASE LoadFails(w)
  BY <1>1, <1>4, <1>9 DEF LoadFails, Step, Goto, storeVars, outside, TypeInv, TypeOK,
     StoreTypeOK, BusyHasApp, PC
<1>10. CASE MarkBuilding(w)
  <2>1. app' \in [Apps -> Row]
    <3>1. app' \in Outcome(DbFails, app, UpdateStatus(a, "building", c))
      BY <1>10 DEF MarkBuilding, a, c
    <3>2. UpdateStatus(a, "building", c) \in [Apps -> Row]
      BY <1>2, <1>3, <1>5, AppWrites
    <3>3. QED
      BY <1>3, <3>1, <3>2, OutcomeType
  <2>2. QED
    BY <1>1, <1>3, <1>10, <2>1, StepTypes
       DEF MarkBuilding, outside, PC, LockedPC, StoreTypeOK
<1>11. CASE Build(w)
  BY <1>1, <1>11, StepTypes DEF Build, storeVars, outside, PC, LockedPC, StoreTypeOK
<1>12. CASE BuildFails(w)
  BY <1>1, <1>12, StepTypes DEF BuildFails, storeVars, outside, PC, LockedPC, StoreTypeOK
<1>13. CASE MarkDeploying(w)
  <2>1. dep' \in [DeployIds -> DeployRow]
    <3>1. dep' \in Outcome(DbFails, dep, SetDeployStatus(i, "deploying"))
      BY <1>13 DEF MarkDeploying, i
    <3>2. SetDeployStatus(i, "deploying") \in [DeployIds -> DeployRow]
      BY <1>3, <1>5, DeploymentWrites
    <3>3. QED
      BY <1>3, <3>1, <3>2, OutcomeType
  <2>2. QED
    BY <1>1, <1>3, <1>13, <2>1, StepTypes
       DEF MarkDeploying, outside, PC, LockedPC, StoreTypeOK
<1>14. CASE KeepPort(w)
  BY <1>1, <1>14, StepTypes DEF KeepPort, storeVars, outside, PC, LockedPC, StoreTypeOK
<1>15. CASE AssignPort(w)
  <2>1. app' \in [Apps -> Row]
    BY <1>3, <1>15, AppWrites DEF AssignPort
  <2>2. job' \in [Workers -> Job] /\ \A v \in Workers : job'[v].app = job[v].app
    BY <1>1, <1>15 DEF AssignPort, Job, Row
  <2>3. StoreTypeOK'
    BY <1>3, <1>15, <2>1 DEF AssignPort, StoreTypeOK
  <2>4. pc' \in [Workers -> PC] /\ \A v \in Workers : pc'[v] # "idle" => pc[v] # "idle"
    BY <1>1, <1>15 DEF AssignPort, Step, Goto, PC, LockedPC
  <2>5. QED
    BY <1>1, <1>15, <2>2, <2>3, <2>4 DEF AssignPort, outside, TypeInv, TypeOK, BusyHasApp
<1>16. CASE PortFails(w)
  BY <1>1, <1>16, StepTypes DEF PortFails, storeVars, outside, PC, LockedPC, StoreTypeOK
<1>17. CASE StopOld(w)
  <2>1. ctr' \in {ctr, StopContainer(c)}
    BY <1>17 DEF StopOld, Outcome, c
  <2>2. ctr' \in [DeployIds -> CtrState]
    BY <1>3, <2>1, DockerCalls
  <2>3. dep' \in [DeployIds -> DeployRow]
    BY <1>3, <1>17, DeploymentWrites DEF StopOld
  <2>4. QED
    BY <1>1, <1>3, <1>17, <2>2, <2>3, StepTypes
       DEF StopOld, outside, PC, LockedPC, StoreTypeOK
<1>18. CASE RemoveSameName(w)
  <2>1. ctr' \in {ctr, StopNamed(a), RemoveNamed(a)}
    BY <1>18 DEF RemoveSameName, Outcome, a, c, i
  <2>2. ctr' \in [DeployIds -> CtrState]
    BY <1>3, <2>1, DockerCalls
  <2>3. QED
    BY <1>1, <1>3, <1>18, <2>2, StepTypes
       DEF RemoveSameName, outside, PC, LockedPC, StoreTypeOK
<1>19. CASE CreateContainer(w)
  <2>1. ctr' \in {[ctr EXCEPT ![i] = "stopped"]}
    BY <1>19 DEF CreateContainer, Outcome, a, c, i
  <2>2. ctr' \in [DeployIds -> CtrState]
    BY <1>3, <2>1, DockerCalls
  <2>3. QED
    BY <1>1, <1>3, <1>19, <2>2, StepTypes
       DEF CreateContainer, outside, PC, LockedPC, StoreTypeOK
<1>20. CASE CreateFails(w)
  BY <1>1, <1>20, StepTypes DEF CreateFails, storeVars, outside, PC, LockedPC, StoreTypeOK
<1>21. CASE StartContainer(w)
  <2>1. ctr' \in {RestartContainer(i)}
    BY <1>21 DEF StartContainer, Outcome, a, c, i
  <2>2. ctr' \in [DeployIds -> CtrState]
    BY <1>3, <2>1, DockerCalls
  <2>3. QED
    BY <1>1, <1>3, <1>21, <2>2, StepTypes
       DEF StartContainer, outside, PC, LockedPC, StoreTypeOK
<1>22. CASE StartFails(w)
  <2>1. ctr' \in {ctr, RemoveContainer(i)}
    BY <1>22 DEF StartFails, Outcome, a, c, i
  <2>2. ctr' \in [DeployIds -> CtrState]
    BY <1>3, <2>1, DockerCalls
  <2>3. QED
    BY <1>1, <1>3, <1>22, <2>2, StepTypes
       DEF StartFails, outside, PC, LockedPC, StoreTypeOK
<1>23. CASE RestartOld(w)
  <2>1. ctr' \in {ctr, RestartContainer(c)}
    BY <1>23 DEF RestartOld, Outcome, a, c, i
  <2>2. ctr' \in [DeployIds -> CtrState]
    BY <1>3, <2>1, DockerCalls
  <2>3. QED
    BY <1>1, <1>3, <1>23, <2>2, StepTypes
       DEF RestartOld, outside, PC, LockedPC, StoreTypeOK
<1>24. CASE HealthPasses(w)
  BY <1>1, <1>24, StepTypes DEF HealthPasses, storeVars, outside, PC, LockedPC, StoreTypeOK
<1>25. CASE HealthTimesOut(w)
  BY <1>1, <1>25, StepTypes DEF HealthTimesOut, storeVars, outside, PC, LockedPC, StoreTypeOK
<1>26. CASE RemoveOld(w)
  <2>1. ctr' \in {ctr, RemoveContainer(c)}
    BY <1>26 DEF RemoveOld, Outcome, a, c, i
  <2>2. ctr' \in [DeployIds -> CtrState]
    BY <1>3, <2>1, DockerCalls
  <2>3. QED
    BY <1>1, <1>3, <1>26, <2>2, StepTypes
       DEF RemoveOld, outside, PC, LockedPC, StoreTypeOK
<1>27. CASE Finalize(w)
  <2>1. app' \in [Apps -> Row]
    <3> DEFINE row == [job[w].snap EXCEPT !.status = "running", !.cid = i]
    <3>1. app' \in Outcome(DbFails, app, UpdateRow(a, row))
      BY <1>27 DEF Finalize, a, i
    <3>2. row \in Row
      BY <1>2, <1>5 DEF Row
    <3>3. UpdateRow(a, row) \in [Apps -> Row]
      BY <1>3, <3>2, AppWrites
    <3>4. QED
      BY <1>3, <3>1, <3>3, OutcomeType
  <2>2. QED
    BY <1>1, <1>3, <1>27, <2>1, StepTypes
       DEF Finalize, outside, PC, LockedPC, StoreTypeOK
<1>28. CASE MarkLive(w)
  <2>1. dep' \in [DeployIds -> DeployRow]
    <3>1. dep' \in Outcome(DbFails, dep, SetDeployStatus(i, "live"))
      BY <1>28 DEF MarkLive, i
    <3>2. SetDeployStatus(i, "live") \in [DeployIds -> DeployRow]
      BY <1>3, <1>5, DeploymentWrites
    <3>3. QED
      BY <1>3, <3>1, <3>2, OutcomeType
  <2>2. QED
    BY <1>1, <1>3, <1>28, <2>1, StepTypes
       DEF MarkLive, outside, PC, LockedPC, StoreTypeOK
<1>29. CASE RemoveNew(w)
  <2>1. ctr' \in {ctr, StopContainer(i), RemoveContainer(i)}
    BY <1>29 DEF RemoveNew, Outcome, a, c, i
  <2>2. ctr' \in [DeployIds -> CtrState]
    BY <1>3, <2>1, DockerCalls
  <2>3. QED
    BY <1>1, <1>3, <1>29, <2>2, StepTypes
       DEF RemoveNew, outside, PC, LockedPC, StoreTypeOK
<1>30. CASE BackToOld(w)
  <2>1. ctr' \in {ctr, RestartContainer(c)}
    BY <1>30 DEF BackToOld, Outcome, a, c, i
  <2>2. ctr' \in [DeployIds -> CtrState]
    BY <1>3, <2>1, DockerCalls
  <2>3. QED
    BY <1>1, <1>3, <1>30, <2>2, StepTypes
       DEF BackToOld, outside, PC, LockedPC, StoreTypeOK
<1>31. CASE BackToOldRow(w)
  <2>1. app' \in [Apps -> Row]
    <3>1. app' \in Outcome(DbFails, app, UpdateStatus(a, "running", c))
      BY <1>31 DEF BackToOldRow, a, c, i
    <3>2. UpdateStatus(a, "running", c) \in [Apps -> Row]
      BY <1>2, <1>3, <1>5, AppWrites
    <3>3. QED
      BY <1>3, <3>1, <3>2, OutcomeType
  <2>2. QED
    BY <1>1, <1>3, <1>31, <2>1, StepTypes
       DEF BackToOldRow, outside, PC, LockedPC, StoreTypeOK
<1>32. CASE FailDeployment(w)
  <2>1. dep' \in [DeployIds -> DeployRow]
    <3>1. dep' \in Outcome(DbFails, dep, SetDeployStatus(i, "failed"))
      BY <1>32 DEF FailDeployment, i
    <3>2. SetDeployStatus(i, "failed") \in [DeployIds -> DeployRow]
      BY <1>3, <1>5, DeploymentWrites
    <3>3. QED
      BY <1>3, <3>1, <3>2, OutcomeType
  <2>2. QED
    BY <1>1, <1>3, <1>32, <2>1, StepTypes
       DEF FailDeployment, outside, PC, LockedPC, StoreTypeOK
<1>33. CASE FailApp(w)
  <2>1. app' \in [Apps -> Row]
    <3>1. app' \in Outcome(DbFails, app, UpdateStatus(a, "error", c))
      BY <1>33 DEF FailApp, a, c, i
    <3>2. UpdateStatus(a, "error", c) \in [Apps -> Row]
      BY <1>2, <1>3, <1>5, AppWrites
    <3>3. QED
      BY <1>3, <3>1, <3>2, OutcomeType
  <2>2. QED
    BY <1>1, <1>3, <1>33, <2>1, StepTypes
       DEF FailApp, outside, PC, LockedPC, StoreTypeOK
<1>34. CASE Unlock(w)
  BY <1>1, <1>4, <1>34 DEF Unlock, Step, Goto, storeVars, outside, TypeInv, TypeOK,
     StoreTypeOK, BusyHasApp, PC
<1>35. QED
  BY <1>6, <1>7, <1>8, <1>9, <1>10, <1>11, <1>12, <1>13, <1>14, <1>15, <1>16, <1>17, <1>18, <1>19, <1>20, <1>21, <1>22, <1>23, <1>24, <1>25, <1>26, <1>27, <1>28, <1>29, <1>30, <1>31, <1>32, <1>33, <1>34 DEF Deploy

LEMMA NextTypes ==
    ASSUME TypeInv, [Next]_vars
    PROVE  TypeInv'
<1>1. ASSUME NEW a \in Apps, Enqueue(a)
      PROVE  TypeInv'
  <2>1. requests' \in 0 .. MaxDeploys
    BY <1>1, AppStoreAssumption DEF Enqueue, TypeInv, TypeOK
  <2>2. queue' \in Seq(Apps)
    <3>1. queue \in Seq(Apps)
      BY DEF TypeInv, TypeOK
    <3>2. Append(queue, a) \in Seq(Apps)
      BY <3>1
    <3>3. QED
      BY <1>1, <3>1, <3>2 DEF Enqueue
  <2>3. QED
    BY <1>1, <2>1, <2>2 DEF Enqueue, TypeInv, TypeOK, StoreTypeOK, BusyHasApp
<1>2. ASSUME NEW w \in Workers, Take(w)
      PROVE  TypeInv'
  <2>1. Head(queue) \in Apps /\ Tail(queue) \in Seq(Apps)
    BY <1>2 DEF Take, TypeInv, TypeOK
  <2>2. [NoJob EXCEPT !.app = Head(queue)] \in Job
    <3>1. NoJob \in Job
      BY AppStoreAssumption DEF NoJob, Job, NewRow, Row, AppStatus, ContainerIds
    <3>2. QED
      BY <2>1, <3>1 DEF Job
  <2>3. [NoJob EXCEPT !.app = Head(queue)].app = Head(queue)
    BY DEF NoJob
  <2>4. job' \in [Workers -> Job]
    BY <1>2, <2>2 DEF Take, TypeInv, TypeOK
  <2>5. BusyHasApp'
    BY <1>2, <2>1, <2>3 DEF Take, Step, Goto, TypeInv, TypeOK, BusyHasApp
  <2>6. QED
    BY <1>2, <2>1, <2>4, <2>5 DEF Take, Step, Goto, TypeInv, TypeOK, StoreTypeOK, PC
<1>3. ASSUME NEW w \in Workers, Deploy(w)
      PROVE  TypeInv'
  BY <1>3, DeployTypes
<1>4. ASSUME NEW i \in DeployIds, Age(i)
      PROVE  TypeInv'
  <2>1. dep' \in [DeployIds -> DeployRow]
    BY <1>4, DeploymentWrites DEF Age, TypeInv, TypeOK, StoreTypeOK
  <2>2. QED
    BY <1>4, <2>1 DEF Age, outside, TypeInv, TypeOK, StoreTypeOK, BusyHasApp
<1>5. CASE SweepApps
  <2>1. app' \in [Apps -> Row]
    BY <1>5, AppWrites DEF SweepApps, Outcome, TypeInv, TypeOK, StoreTypeOK
  <2>2. QED
    BY <1>5, <2>1 DEF SweepApps, TypeInv, TypeOK, StoreTypeOK, BusyHasApp
<1>6. CASE SweepRows
  <2>1. dep' \in [DeployIds -> DeployRow]
    BY <1>6, DeploymentWrites DEF SweepRows, Outcome, TypeInv, TypeOK, StoreTypeOK
  <2>2. QED
    BY <1>6, <2>1 DEF SweepRows, TypeInv, TypeOK, StoreTypeOK, BusyHasApp
<1>7. CASE Crash
  <2>1. NoJob \in Job
    BY AppStoreAssumption DEF NoJob, Job, NewRow, Row, AppStatus, ContainerIds
  <2>2. QED
    BY <1>7, <2>1 DEF Crash, storeVars, TypeInv, TypeOK, StoreTypeOK, BusyHasApp, PC
<1>8. CASE UNCHANGED vars
  BY <1>8 DEF vars, TypeInv, TypeOK, StoreTypeOK, BusyHasApp
<1>9. QED
  BY <1>1, <1>2, <1>3, <1>4, <1>5, <1>6, <1>7, <1>8 DEF Next, Running

\* Every column, container state and local variable of Deploy keeps its type.
THEOREM TypeCorrect == Spec => []TypeOK
<1>1. Init => TypeInv
  BY InitTypes
<1>2. TypeInv /\ [Next]_vars => TypeInv'
  BY NextTypes
<1>3. TypeInv => TypeOK
  BY DEF TypeInv
<1>4. QED
  BY <1>1, <1>2, <1>3, PTL DEF Spec

-----------------------------------------------------------------------------
(* Mutual exclusion *)

\* What a step of Deploy changes: its own worker only, and inside the critical
\* section neither the lock table nor the app the worker is on.
LEMMA DeployShape ==
    ASSUME TypeInv, NEW w \in Workers, Deploy(w)
    PROVE  /\ \A v \in Workers \ {w} : pc'[v] = pc[v] /\ job'[v] = job[v]
           /\ \/ AcquireLock(w) \/ SkipDuplicate(w) \/ LoadFails(w) \/ Unlock(w)
              \/ /\ pc[w] \in LockedPC /\ pc'[w] \in LockedPC
                 /\ job'[w].app = job[w].app /\ locks' = locks
<1> USE DEF TypeInv, TypeOK, Step, Goto, LockedPC
<1>1. CASE AcquireLock(w)
  BY <1>1 DEF AcquireLock
<1>2. CASE SkipDuplicate(w)
  BY <1>2 DEF SkipDuplicate
<1>3. CASE LoadFails(w) \/ Unlock(w)
  BY <1>3 DEF LoadFails, Unlock
<1>4. CASE Load(w)
  BY <1>4 DEF Load, Job
<1>5. CASE AssignPort(w)
  BY <1>5 DEF AssignPort, Job
<1>6. CASE MarkBuilding(w) \/ Build(w) \/ BuildFails(w)
         \/ MarkDeploying(w) \/ KeepPort(w)
  BY <1>6 DEF MarkBuilding, Build, BuildFails, MarkDeploying, KeepPort
<1>7. CASE PortFails(w) \/ StopOld(w) \/ RemoveSameName(w)
         \/ CreateContainer(w) \/ CreateFails(w) \/ StartContainer(w)
  BY <1>7 DEF PortFails, StopOld, RemoveSameName, CreateContainer, CreateFails, StartContainer
<1>8. CASE StartFails(w) \/ RestartOld(w) \/ HealthPasses(w)
         \/ HealthTimesOut(w) \/ RemoveOld(w) \/ Finalize(w)
  BY <1>8 DEF StartFails, RestartOld, HealthPasses, HealthTimesOut, RemoveOld, Finalize
<1>9. CASE MarkLive(w) \/ RemoveNew(w) \/ BackToOld(w)
         \/ BackToOldRow(w) \/ FailDeployment(w) \/ FailApp(w)
  BY <1>9 DEF MarkLive, RemoveNew, BackToOld, BackToOldRow, FailDeployment, FailApp
<1>10. QED
  BY <1>1, <1>2, <1>3, <1>4, <1>5, <1>6, <1>7, <1>8, <1>9 DEF Deploy

LEMMA LocksKept ==
    ASSUME LocksMatchDeploys, locks' = locks,
           \A w \in Workers : /\ pc'[w] \in LockedPC <=> pc[w] \in LockedPC
                              /\ pc[w] \in LockedPC => job'[w].app = job[w].app
    PROVE  LocksMatchDeploys'
BY DEF LocksMatchDeploys, Locked

LEMMA NextLocks ==
    ASSUME TypeInv, LocksMatchDeploys, [Next]_vars
    PROVE  LocksMatchDeploys'
<1>1. ASSUME NEW a \in Apps, Enqueue(a)
      PROVE  LocksMatchDeploys'
  BY <1>1, LocksKept DEF Enqueue
<1>2. ASSUME NEW w \in Workers, Take(w)
      PROVE  LocksMatchDeploys'
  BY <1>2, LocksKept DEF Take, Step, Goto, LockedPC, TypeInv, TypeOK
<1>3. ASSUME NEW w \in Workers, AcquireLock(w)
      PROVE  LocksMatchDeploys'
  <2>1. /\ pc[w] \notin LockedPC /\ pc'[w] \in LockedPC /\ job' = job
        /\ \A v \in Workers \ {w} : pc'[v] = pc[v]
        /\ job[w].app \notin locks /\ locks' = locks \cup {job[w].app}
    BY <1>3 DEF AcquireLock, Step, Goto, LockedPC, TypeInv, TypeOK
  <2>2. QED
    BY <2>1 DEF LocksMatchDeploys, Locked
<1>4. ASSUME NEW w \in Workers, SkipDuplicate(w)
      PROVE  LocksMatchDeploys'
  BY <1>4, LocksKept DEF SkipDuplicate, Step, Goto, LockedPC, TypeInv, TypeOK
<1>5. ASSUME NEW w \in Workers, LoadFails(w) \/ Unlock(w)
      PROVE  LocksMatchDeploys'
  <2>1. /\ pc[w] \in LockedPC /\ pc'[w] \notin LockedPC
        /\ \A v \in Workers \ {w} : pc'[v] = pc[v] /\ job'[v] = job[v]
        /\ locks' = locks \ {job[w].app}
    BY <1>5 DEF LoadFails, Unlock, Step, Goto, LockedPC, TypeInv, TypeOK
  <2>2. QED
    BY <2>1 DEF LocksMatchDeploys, Locked
<1>6. ASSUME NEW w \in Workers, Deploy(w)
      PROVE  LocksMatchDeploys'
  BY <1>3, <1>4, <1>5, <1>6, DeployShape, LocksKept
<1>7. ASSUME NEW i \in DeployIds, Age(i)
      PROVE  LocksMatchDeploys'
  BY <1>7, LocksKept DEF Age
<1>8. CASE SweepApps \/ SweepRows
  BY <1>8, LocksKept DEF SweepApps, SweepRows
<1>9. CASE Crash
  BY <1>9 DEF Crash, LocksMatchDeploys, Locked, LockedPC
<1>10. CASE UNCHANGED vars
  BY <1>10, LocksKept DEF vars
<1>11. QED
  BY <1>1, <1>2, <1>6, <1>7, <1>8, <1>9, <1>10 DEF Next, Running

\* At most one deploy per app, and no lock outlives its deploy.
THEOREM OneDeployPerApp == Spec => []LocksMatchDeploys
<1>1. Init => LocksMatchDeploys
  BY DEF Init, LocksMatchDeploys, Locked, LockedPC
<1>2. Init => TypeInv
  BY InitTypes
<1>3. TypeInv /\ LocksMatchDeploys /\ [Next]_vars => TypeInv' /\ LocksMatchDeploys'
  BY NextTypes, NextLocks
<1>4. QED
  BY <1>1, <1>2, <1>3, PTL DEF Spec

-----------------------------------------------------------------------------
(* The records a worker holds *)

\* Between the INSERT and the unlock a worker has a deployment row; from the
\* moment it stops the old container that row is marked swapped.
HasRowPC == LockedPC \ {"load", "unlock"}
SwapPC == {"rmname", "create", "start", "restart", "health", "rmold", "final",
           "live", "rmnew", "back", "backrow"}

\* Rows above made are blank and no row is from a later process; an app row
\* names a container of its own app; a worker's deployment is the newest of its
\* app, and the container in its copy of the row is an older one of that app.
RowInv ==
    /\ \A i \in DeployIds : i > made => dep[i] = NoDeploy
    /\ \A i \in DeployIds : dep[i].app \in Apps \/ dep[i] = NoDeploy
    /\ \A i \in DeployIds : dep[i].boot <= boot
    /\ \A a \in Apps : app[a].cid <= made
    /\ \A a \in Apps : app[a].cid # 0 => dep[app[a].cid].app = a
    /\ \A w \in Workers : pc[w] \in HasRowPC =>
          /\ job[w].id \in DeployIds /\ job[w].id <= made
          /\ dep[job[w].id].app = job[w].app
          /\ \A j \in DeployIds : dep[j].app = job[w].app => j <= job[w].id
          /\ job[w].snap.cid < job[w].id
          /\ job[w].snap.cid # 0 => dep[job[w].snap.cid].app = job[w].app
          /\ pc[w] \in SwapPC => dep[job[w].id].swapped

\* What a step of a worker with a row changes: of the deployments only its own,
\* and of the app rows only its app's container_id, to one of its two containers.
LEMMA WorkShape ==
    ASSUME TypeInv, NEW w \in Workers, Deploy(w), pc[w] \in HasRowPC,
           job[w].id \in DeployIds
    PROVE  /\ made' = made /\ boot' = boot
           /\ \A i \in DeployIds : /\ dep'[i].app = dep[i].app
                                   /\ dep'[i].boot = dep[i].boot
                                   /\ dep[i].swapped => dep'[i].swapped
                                   /\ i # job[w].id => dep'[i] = dep[i]
           /\ \A a \in Apps : \/ app'[a].cid = app[a].cid
                              \/ a = job[w].app /\ app'[a].cid \in {job[w].snap.cid, job[w].id}
           /\ job'[w].app = job[w].app /\ job'[w].id = job[w].id
           /\ job'[w].snap.cid = job[w].snap.cid
           /\ pc'[w] \in LockedPC \ {"load"}
           /\ pc'[w] \in SwapPC => pc[w] \in SwapPC \/ dep'[job[w].id].swapped
<1> USE DEF TypeInv, TypeOK, StoreTypeOK, Step, Goto, LockedPC, HasRowPC, SwapPC, outside
<1>1. CASE AcquireLock(w) \/ SkipDuplicate(w) \/ Load(w) \/ LoadFails(w) \/ Unlock(w)
  BY <1>1 DEF AcquireLock, SkipDuplicate, Load, LoadFails, Unlock
<1>2. CASE MarkBuilding(w)
  <2>1. app' = app \/ app' = UpdateStatus(job[w].app, "building", job[w].snap.cid)
    BY <1>2, OutcomeCases DEF MarkBuilding
  <2>2. \A b \in Apps : app'[b].cid \in {app[b].cid} \cup
                            (IF b = job[w].app THEN {job[w].snap.cid} ELSE {})
    BY <2>1, UpdateStatusEffect
  <2>3. QED
    BY <1>2, <2>2 DEF MarkBuilding
<1>3. CASE Build(w) \/ BuildFails(w) \/ KeepPort(w) \/ PortFails(w)
  BY <1>3 DEF Build, BuildFails, KeepPort, PortFails, storeVars
<1>4. CASE MarkDeploying(w)
  <2>1. dep' = dep \/ dep' = SetDeployStatus(job[w].id, "deploying")
    BY <1>4, OutcomeCases DEF MarkDeploying
  <2>2. QED
    BY <1>4, <2>1, DeploymentEffects DEF MarkDeploying
<1>5. CASE AssignPort(w)
  BY <1>5 DEF AssignPort, UpdatePort, Job, Row
<1>6. CASE StopOld(w)
  BY <1>6 DEF StopOld, DeployRow
<1>7. CASE RemoveSameName(w) \/ CreateContainer(w) \/ CreateFails(w)
           \/ StartContainer(w) \/ StartFails(w) \/ RestartOld(w)
  BY <1>7 DEF RemoveSameName, CreateContainer, CreateFails, StartContainer, StartFails,
     RestartOld, storeVars
<1>8. CASE HealthPasses(w) \/ HealthTimesOut(w) \/ RemoveOld(w) \/ RemoveNew(w) \/ BackToOld(w)
  BY <1>8 DEF HealthPasses, HealthTimesOut, RemoveOld, RemoveNew, BackToOld, storeVars
<1>9. CASE Finalize(w)
  <2> DEFINE row == [job[w].snap EXCEPT !.status = "running", !.cid = job[w].id]
  <2>1. app' = app \/ app' = UpdateRow(job[w].app, row)
    BY <1>9, OutcomeCases DEF Finalize
  <2>2. row.cid = job[w].id
    <3>1. job[w].snap \in Row
      BY DEF Job
    <3>2. QED
      BY <3>1 DEF Row
  <2> HIDE DEF row
  <2>3. \A b \in Apps : app'[b].cid \in {app[b].cid} \cup
                            (IF b = job[w].app THEN {job[w].id} ELSE {})
    BY <2>1, <2>2, UpdateRowEffect
  <2>4. QED
    BY <1>9, <2>3 DEF Finalize
<1>10. CASE MarkLive(w)
  <2>1. dep' = dep \/ dep' = SetDeployStatus(job[w].id, "live")
    BY <1>10, OutcomeCases DEF MarkLive
  <2>2. QED
    BY <1>10, <2>1, DeploymentEffects DEF MarkLive
<1>11. CASE BackToOldRow(w)
  <2>1. app' = app \/ app' = UpdateStatus(job[w].app, "running", job[w].snap.cid)
    BY <1>11, OutcomeCases DEF BackToOldRow
  <2>2. \A b \in Apps : app'[b].cid \in {app[b].cid} \cup
                            (IF b = job[w].app THEN {job[w].snap.cid} ELSE {})
    BY <2>1, UpdateStatusEffect
  <2>3. QED
    BY <1>11, <2>2 DEF BackToOldRow
<1>12. CASE FailDeployment(w)
  <2>1. dep' = dep \/ dep' = SetDeployStatus(job[w].id, "failed")
    BY <1>12, OutcomeCases DEF FailDeployment
  <2>2. QED
    BY <1>12, <2>1, DeploymentEffects DEF FailDeployment
<1>13. CASE FailApp(w)
  <2>1. app' = app \/ app' = UpdateStatus(job[w].app, "error", job[w].snap.cid)
    BY <1>13, OutcomeCases DEF FailApp
  <2>2. \A b \in Apps : app'[b].cid \in {app[b].cid} \cup
                            (IF b = job[w].app THEN {job[w].snap.cid} ELSE {})
    BY <2>1, UpdateStatusEffect
  <2>3. QED
    BY <1>13, <2>2 DEF FailApp
<1>14. QED
  BY <1>1, <1>2, <1>3, <1>4, <1>5, <1>6, <1>7, <1>8, <1>9, <1>10, <1>11, <1>12, <1>13 DEF Deploy

\* A worker with a row has its app locked, so no two of them are on one app.
LEMMA RowsApart ==
    ASSUME LocksMatchDeploys, NEW v \in Workers, NEW w \in Workers, v # w,
           pc[v] \in LockedPC, pc[w] \in LockedPC
    PROVE  job[v].app # job[w].app
BY DEF LocksMatchDeploys, Locked

\* Every step of Deploy is one with a row or one of the five around them.
LEMMA WhereDeployIs ==
    ASSUME NEW w \in Workers, Deploy(w)
    PROVE  pc[w] \in HasRowPC \/ Load(w) \/ AcquireLock(w) \/ SkipDuplicate(w)
           \/ LoadFails(w) \/ Unlock(w)
BY DEF Deploy, MarkBuilding, Build, BuildFails, MarkDeploying, KeepPort,
   AssignPort, PortFails, StopOld, RemoveSameName, CreateContainer, CreateFails,
   StartContainer, StartFails, RestartOld, HealthPasses, HealthTimesOut, RemoveOld,
   Finalize, MarkLive, RemoveNew, BackToOld, BackToOldRow, FailDeployment, FailApp, Step,
   HasRowPC, LockedPC

LEMMA RowInvWork ==
    ASSUME TypeInv, RowInv, NEW w \in Workers, Deploy(w), pc[w] \in HasRowPC
    PROVE  RowInv'
<1>1. job[w].id \in DeployIds /\ job[w].id <= made
  BY DEF RowInv
<1>2. /\ made' = made /\ boot' = boot
      /\ \A i \in DeployIds : /\ dep'[i].app = dep[i].app
                              /\ dep'[i].boot = dep[i].boot
                              /\ dep[i].swapped => dep'[i].swapped
                              /\ i # job[w].id => dep'[i] = dep[i]
      /\ \A a \in Apps : \/ app'[a].cid = app[a].cid
                         \/ a = job[w].app /\ app'[a].cid \in {job[w].snap.cid, job[w].id}
      /\ job'[w].app = job[w].app /\ job'[w].id = job[w].id
      /\ job'[w].snap.cid = job[w].snap.cid
      /\ pc'[w] \in SwapPC => pc[w] \in SwapPC \/ dep'[job[w].id].swapped
  BY <1>1, WorkShape
<1>3. \A v \in Workers \ {w} : pc'[v] = pc[v] /\ job'[v] = job[v]
  BY DeployShape
<1>4. made \in ContainerIds /\ DeployIds \subseteq ContainerIds
      /\ \A v \in Workers : job[v].snap.cid \in ContainerIds /\ job[v].id \in ContainerIds
      /\ \A a \in Apps : app[a].cid \in ContainerIds
  BY AppStoreAssumption DEF TypeInv, TypeOK, StoreTypeOK, Job, Row, DeployIds, ContainerIds
<1>5. \A i \in DeployIds : i > made' => dep'[i] = NoDeploy
  BY <1>1, <1>2, <1>4, AppStoreAssumption DEF RowInv, DeployIds, ContainerIds
<1>6. \A i \in DeployIds : /\ dep'[i].app \in Apps \/ dep'[i] = NoDeploy
                           /\ dep'[i].boot <= boot'
  <2>1. job[w].app \in Apps
    BY DEF TypeInv, BusyHasApp, HasRowPC, LockedPC
  <2>2. dep[job[w].id].app = job[w].app
    BY DEF RowInv
  <2>3. QED
    BY <1>1, <1>2, <2>1, <2>2 DEF RowInv
<1>7. \A a \in Apps : app'[a].cid <= made'
  BY <1>1, <1>2, <1>4, AppStoreAssumption DEF RowInv, ContainerIds
<1>8. ASSUME NEW a \in Apps, app'[a].cid # 0
      PROVE  dep'[app'[a].cid].app = a
  <2>1. app'[a].cid \in DeployIds
    BY <1>1, <1>2, <1>4, <1>8 DEF ContainerIds, DeployIds
  <2>2. dep[app'[a].cid].app = a
    BY <1>2, <1>8 DEF RowInv
  <2>3. QED
    BY <1>2, <2>1, <2>2
<1>9. ASSUME NEW v \in Workers, pc'[v] \in HasRowPC
      PROVE  /\ job'[v].id \in DeployIds /\ job'[v].id <= made'
             /\ dep'[job'[v].id].app = job'[v].app
             /\ \A j \in DeployIds : dep'[j].app = job'[v].app => j <= job'[v].id
             /\ job'[v].snap.cid < job'[v].id
             /\ job'[v].snap.cid # 0 => dep'[job'[v].snap.cid].app = job'[v].app
             /\ pc'[v] \in SwapPC => dep'[job'[v].id].swapped
  <2>1. /\ pc[v] \in HasRowPC
        /\ job'[v].app = job[v].app /\ job'[v].id = job[v].id
        /\ job'[v].snap.cid = job[v].snap.cid
        /\ pc'[v] \in SwapPC => pc[v] \in SwapPC \/ dep'[job[v].id].swapped
    BY <1>2, <1>3, <1>9
  <2>2. /\ job[v].id \in DeployIds /\ job[v].id <= made
        /\ dep[job[v].id].app = job[v].app
        /\ \A j \in DeployIds : dep[j].app = job[v].app => j <= job[v].id
        /\ job[v].snap.cid < job[v].id
        /\ job[v].snap.cid # 0 => dep[job[v].snap.cid].app = job[v].app
        /\ pc[v] \in SwapPC => dep[job[v].id].swapped
    BY <2>1 DEF RowInv
  <2>3. job[v].snap.cid # 0 => job[v].snap.cid \in DeployIds
    BY <1>4 DEF ContainerIds, DeployIds
  <2>4. QED
    BY <1>2, <2>1, <2>2, <2>3
<1>10. QED
  BY <1>5, <1>6, <1>7, <1>8, <1>9 DEF RowInv

LEMMA RowInvLoad ==
    ASSUME TypeInv, RowInv, LocksMatchDeploys, NEW w \in Workers, Load(w)
    PROVE  RowInv'
<1> DEFINE a == job[w].app
<1>1. a \in Apps /\ pc[w] = "load"
  BY DEF Load, Step, TypeInv, BusyHasApp
<1>2. made \in Nat /\ made' = made + 1 /\ made' \in DeployIds
  BY AppStoreAssumption DEF Load, TypeInv, TypeOK, StoreTypeOK, ContainerIds, DeployIds
<1>3. /\ \A j \in DeployIds : j # made' => dep'[j] = dep[j]
      /\ dep'[made'].app = a /\ dep'[made'].boot = boot
  BY <1>2 DEF Load, CreateDeployment, TypeInv, TypeOK, StoreTypeOK
<1>4. /\ job'[w].app = a /\ job'[w].id = made' /\ job'[w].snap = app[a]
      /\ \A v \in Workers \ {w} : job'[v] = job[v] /\ pc'[v] = pc[v]
      /\ pc'[w] = "mark" /\ app' = app /\ boot' = boot
  BY DEF Load, Step, Goto, outside, TypeInv, TypeOK, Job
<1>5. \A b \in Apps : app[b].cid \in ContainerIds /\ app[b].cid <= made
                      /\ (app[b].cid # 0 => dep[app[b].cid].app = b)
  BY DEF RowInv, TypeInv, TypeOK, StoreTypeOK, Row
<1>6. \A b \in Apps : app[b].cid < made' /\ (app[b].cid # 0 => dep'[app[b].cid].app = b)
  <2> TAKE b \in Apps
  <2>1. app[b].cid < made'
    BY <1>2, <1>5 DEF ContainerIds
  <2>2. app[b].cid # 0 => app[b].cid \in DeployIds /\ app[b].cid # made'
    BY <1>2, <1>5, <2>1 DEF ContainerIds, DeployIds
  <2>3. QED
    BY <1>3, <1>5, <2>1, <2>2
<1>7. \A j \in DeployIds : j > made => dep[j] = NoDeploy
  BY DEF RowInv
<1>8. \A j \in DeployIds : dep'[j].app = a => j <= made'
  <2>1. ASSUME NEW j \in DeployIds, j > made'
        PROVE  dep'[j].app # a
    BY <1>1, <1>2, <1>3, <1>7, <2>1, AppStoreAssumption DEF NoDeploy, DeployIds
  <2>2. QED
    BY <1>2, <2>1 DEF DeployIds
<1>9. ASSUME NEW v \in Workers, pc'[v] \in HasRowPC
      PROVE  /\ job'[v].id \in DeployIds /\ job'[v].id <= made'
             /\ dep'[job'[v].id].app = job'[v].app
             /\ \A j \in DeployIds : dep'[j].app = job'[v].app => j <= job'[v].id
             /\ job'[v].snap.cid < job'[v].id
             /\ job'[v].snap.cid # 0 => dep'[job'[v].snap.cid].app = job'[v].app
             /\ pc'[v] \in SwapPC => dep'[job'[v].id].swapped
  <2>1. CASE v = w
    BY <1>1, <1>2, <1>3, <1>4, <1>6, <1>8, <2>1 DEF SwapPC
  <2>2. CASE v # w
    <3>1. pc[v] \in HasRowPC /\ job'[v] = job[v] /\ pc'[v] = pc[v]
      BY <1>4, <1>9, <2>2
    <3>2. job[v].app # a
      BY <1>1, <2>2, <3>1, RowsApart DEF HasRowPC, LockedPC
    <3>3. /\ job[v].id \in DeployIds /\ job[v].id <= made
          /\ dep[job[v].id].app = job[v].app
          /\ \A j \in DeployIds : dep[j].app = job[v].app => j <= job[v].id
          /\ job[v].snap.cid < job[v].id
          /\ job[v].snap.cid # 0 => dep[job[v].snap.cid].app = job[v].app
          /\ pc[v] \in SwapPC => dep[job[v].id].swapped
      BY <3>1 DEF RowInv
    <3>4. job[v].snap.cid \in ContainerIds
      BY DEF TypeInv, TypeOK, Job, Row
    <3>5. /\ job[v].id # made' /\ job[v].id <= made'
          /\ job[v].snap.cid # 0 => job[v].snap.cid \in DeployIds /\ job[v].snap.cid # made'
      BY <1>2, <3>3, <3>4 DEF ContainerIds, DeployIds
    <3>6. QED
      BY <1>3, <3>1, <3>2, <3>3, <3>5
  <2>3. QED
    BY <2>1, <2>2
<1>10. \A j \in DeployIds : j > made' => dep'[j] = NoDeploy
  BY <1>2, <1>3, <1>7 DEF DeployIds
<1>11. \A j \in DeployIds : /\ dep'[j].app \in Apps \/ dep'[j] = NoDeploy
                            /\ dep'[j].boot <= boot'
  BY <1>1, <1>3, <1>4 DEF RowInv, TypeInv, TypeOK
<1>12. \A b \in Apps : app'[b].cid <= made' /\ (app'[b].cid # 0 => dep'[app'[b].cid].app = b)
  BY <1>2, <1>4, <1>5, <1>6 DEF ContainerIds
<1>13. QED
  BY <1>9, <1>10, <1>11, <1>12 DEF RowInv

\* Steps that leave the workers with rows where they are and touch neither
\* container ids nor the columns of deployments RowInv is about.
LEMMA RowInvKept ==
    ASSUME TypeInv, RowInv, made' = made, boot' >= boot, boot' \in Nat,
           \A i \in DeployIds : /\ dep'[i].app = dep[i].app /\ dep'[i].boot = dep[i].boot
                                /\ dep'[i].swapped = dep[i].swapped
                                /\ dep[i] = NoDeploy => dep'[i] = NoDeploy,
           \A a \in Apps : app'[a].cid = app[a].cid,
           \A w \in Workers : pc'[w] \in HasRowPC => pc'[w] = pc[w] /\ job'[w] = job[w]
    PROVE  RowInv'
<1>1. \A i \in DeployIds : dep[i].boot \in Nat
  BY DEF TypeInv, TypeOK, StoreTypeOK, DeployRow
<1>2. boot \in Nat
  BY DEF TypeInv, TypeOK
<1>3. \A a \in Apps : app[a].cid # 0 => app[a].cid \in DeployIds
  BY DEF TypeInv, TypeOK, StoreTypeOK, Row, ContainerIds, DeployIds
<1>4. \A w \in Workers : job[w].snap.cid # 0 => job[w].snap.cid \in DeployIds
  BY DEF TypeInv, TypeOK, Job, Row, ContainerIds, DeployIds
<1>5. QED
  BY <1>1, <1>2, <1>3, <1>4 DEF RowInv

LEMMA NextRowInv ==
    ASSUME TypeInv, RowInv, LocksMatchDeploys, [Next]_vars
    PROVE  RowInv'
<1> USE DEF HasRowPC, LockedPC
<1>1. boot \in Nat /\ boot <= boot
  BY DEF TypeInv, TypeOK
<1>2. ASSUME NEW a \in Apps, Enqueue(a)
      PROVE  RowInv'
  BY <1>1, <1>2, RowInvKept DEF Enqueue
<1>3. ASSUME NEW w \in Workers, Take(w)
      PROVE  RowInv'
  BY <1>1, <1>3, RowInvKept DEF Take, Step, Goto, TypeInv, TypeOK
<1>4. ASSUME NEW w \in Workers, Deploy(w)
      PROVE  RowInv'
  <2>1. CASE pc[w] \in HasRowPC
    BY <1>4, <2>1, RowInvWork
  <2>2. CASE Load(w)
    BY <2>2, RowInvLoad
  <2>3. CASE AcquireLock(w) \/ SkipDuplicate(w) \/ LoadFails(w) \/ Unlock(w)
    BY <1>1, <2>3, RowInvKept DEF AcquireLock, SkipDuplicate, LoadFails, Unlock, Step, Goto,
       outside, storeVars, TypeInv, TypeOK
  <2>4. QED
    BY <1>4, <2>1, <2>2, <2>3, WhereDeployIs
<1>5. ASSUME NEW i \in DeployIds, Age(i)
      PROVE  RowInv'
  <2>1. \A j \in DeployIds : /\ dep'[j].app = dep[j].app /\ dep'[j].boot = dep[j].boot
                             /\ dep'[j].swapped = dep[j].swapped
                             /\ dep[j] = NoDeploy => dep'[j] = NoDeploy
    <3>1. NoDeploy.status = "none"
      BY DEF NoDeploy
    <3>2. \A j \in DeployIds : dep[j] \in DeployRow
      BY DEF TypeInv, TypeOK, StoreTypeOK
    <3>3. /\ \A j \in DeployIds : j # i => dep'[j] = dep[j]
          /\ dep'[i] = [dep[i] EXCEPT !.old = TRUE] /\ dep[i].status = "building"
      BY <1>5 DEF Age, TypeInv, TypeOK, StoreTypeOK
    <3>4. QED
      BY <3>1, <3>2, <3>3 DEF DeployRow
  <2>2. QED
    BY <1>1, <1>5, <2>1, RowInvKept DEF Age, outside
<1>6. CASE SweepApps
  <2>1. \A a \in Apps : app'[a].cid = app[a].cid
    BY <1>6, OutcomeCases, SweepEffect DEF SweepApps, TypeInv, TypeOK, StoreTypeOK
  <2>2. QED
    BY <1>1, <1>6, <2>1, RowInvKept DEF SweepApps
<1>7. CASE SweepRows
  <2>1. dep' = FailStaleRows \/ dep' = dep
    BY <1>7, OutcomeCases DEF SweepRows
  <2>2. \A j \in DeployIds : /\ dep'[j].app = dep[j].app /\ dep'[j].boot = dep[j].boot
                             /\ dep'[j].swapped = dep[j].swapped
                             /\ dep[j] = NoDeploy => dep'[j] = NoDeploy
    <3>1. NoDeploy.status = "none"
      BY DEF NoDeploy
    <3>2. \A j \in DeployIds : dep[j] \in DeployRow
      BY DEF TypeInv, TypeOK, StoreTypeOK
    <3>3. \A j \in DeployIds :
            \/ dep'[j] = dep[j]
            \/ dep[j].status = "building" /\ dep'[j] = [dep[j] EXCEPT !.status = "failed"]
      BY <2>1 DEF FailStaleRows, StaleRows
    <3>4. QED
      BY <3>1, <3>2, <3>3 DEF DeployRow
  <2>3. QED
    BY <1>1, <1>7, <2>2, RowInvKept DEF SweepRows
<1>8. CASE Crash
  BY <1>1, <1>8, RowInvKept DEF Crash, storeVars
<1>9. CASE UNCHANGED vars
  BY <1>1, <1>9, RowInvKept DEF vars
<1>10. QED
  BY <1>2, <1>3, <1>4, <1>5, <1>6, <1>7, <1>8, <1>9 DEF Next, Running
-----------------------------------------------------------------------------
(* Verdicts are final *)

LEMMA NextVerdicts ==
    ASSUME TypeInv, RowInv, [Next]_vars,
           NEW i \in DeployIds, dep[i].status \in Finished, \A w \in Workers : ~Owns(w, i)
    PROVE  dep'[i].status = dep[i].status
<1>1. ASSUME NEW w \in Workers, Deploy(w)
      PROVE  dep'[i].status = dep[i].status
  <2>1. CASE pc[w] = "failapp"
    BY <1>1, <2>1 DEF Deploy, AcquireLock, SkipDuplicate, Load, LoadFails, MarkBuilding, Build,
       BuildFails, MarkDeploying, KeepPort, AssignPort, PortFails, StopOld, RemoveSameName,
       CreateContainer, CreateFails, StartContainer, StartFails, RestartOld, HealthPasses,
       HealthTimesOut, RemoveOld, Finalize, MarkLive, RemoveNew, BackToOld, BackToOldRow,
       FailDeployment, FailApp, Unlock, Step
  <2>2. CASE pc[w] \in HasRowPC /\ pc[w] # "failapp"
    <3>1. job[w].id # i
      BY <2>2 DEF Owns, OwningPC, HasRowPC
    <3>2. job[w].id \in DeployIds
      BY <2>2 DEF RowInv
    <3>3. QED
      BY <1>1, <2>2, <3>1, <3>2, WorkShape
  <2>3. CASE Load(w)
    <3>1. i # made + 1 /\ made' = made + 1
      BY <2>3 DEF Load, RowInv, NoDeploy, Finished, TypeInv, TypeOK, StoreTypeOK, ContainerIds,
         DeployIds
    <3>2. QED
      BY <2>3, <3>1 DEF Load, CreateDeployment, TypeInv, TypeOK, StoreTypeOK
  <2>4. CASE AcquireLock(w) \/ SkipDuplicate(w) \/ LoadFails(w) \/ Unlock(w)
    BY <2>4 DEF AcquireLock, SkipDuplicate, LoadFails, Unlock, storeVars
  <2>5. QED
    BY <1>1, <2>1, <2>2, <2>3, <2>4, WhereDeployIs
<1>2. ASSUME NEW k \in DeployIds, Age(k)
      PROVE  dep'[i].status = dep[i].status
  BY <1>2 DEF Age, TypeInv, TypeOK, StoreTypeOK, DeployRow
<1>3. CASE SweepRows
  BY <1>3, OutcomeCases DEF SweepRows, FailStaleRows, StaleRows, Finished
<1>4. QED
  BY <1>1, <1>2, <1>3 DEF Next, Running, Enqueue, Take, SweepApps, Crash, storeVars, vars

LEMMA InitRowInv == Init => RowInv
BY AppStoreAssumption DEF Init, StoreInit, RowInv, NoDeploy, NewRow, HasRowPC, LockedPC

LEMMA Invariants == Spec => [](TypeInv /\ LocksMatchDeploys /\ RowInv)
<1>1. Init => TypeInv /\ LocksMatchDeploys /\ RowInv
  BY InitTypes, InitRowInv DEF Init, LocksMatchDeploys, Locked, LockedPC
<1>2. TypeInv /\ LocksMatchDeploys /\ RowInv /\ [Next]_vars
        => (TypeInv /\ LocksMatchDeploys /\ RowInv)'
  BY NextTypes, NextLocks, NextRowInv
<1>3. QED
  BY <1>1, <1>2, PTL DEF Spec

\* A deployment that is live or failed and out of its worker's hands keeps its
\* status for ever: no sweep, later deploy, failed statement or crash changes it.
THEOREM VerdictsAreFinal == Spec => FinishedStaysFinished
<1>1. TypeInv /\ LocksMatchDeploys /\ RowInv /\ [Next]_vars =>
        [\A i \in DeployIds :
           dep[i].status \in Finished /\ (\A w \in Workers : ~Owns(w, i))
              => dep'[i].status = dep[i].status]_vars
  BY NextVerdicts
<1>2. QED
  BY <1>1, Invariants, PTL DEF Spec, FinishedStaysFinished

-----------------------------------------------------------------------------
(* Deployments, rows and containers in agreement *)

\* How deployment i of app a ended, as the app row and the container tell it.
Verdict(a, i) ==
    \/ dep[i].status = "live" /\ app[a].status = "running"
       /\ app[a].cid = i /\ ctr[i] = "running"
    \/ dep[i].status = "failed" /\ app[a].status = "error"

\* The deployment of worker w is the newest of its app.
HasNewest(w) ==
    /\ job[w].id \in DeployIds /\ job[w].id <= made
    /\ dep[job[w].id].app = job[w].app
    /\ \A j \in DeployIds : dep[j].app = job[w].app => j <= job[w].id

\* What holds of a worker with a row as long as no statement fails.
WorkerInv(w) ==
    /\ pc[w] \in HasRowPC \ {"live"} => app[job[w].app].cid = job[w].snap.cid
    /\ pc[w] \in OwningPC => dep[job[w].id].status # "live"
    /\ pc[w] \in {"rmold", "final", "live"} => ctr[job[w].id] = "running"
    /\ pc[w] = "live" => app[job[w].app].cid = job[w].id /\ app[job[w].app].status = "running"
    /\ pc[w] = "failapp" => dep[job[w].id].status = "failed"
    /\ pc[w] = "unlock" => HasNewest(w) /\ Verdict(job[w].app, job[w].id)

\* The strengthening of the three invariants about deployments.
PipelineInv ==
    /\ \A w \in Workers : WorkerInv(w)
    /\ InFlightIsOwned
    /\ RowReflectsLastDeploy
    /\ ServedUntilSwap

-----------------------------------------------------------------------------
(* Steps outside the pipeline *)

\* Steps that move no worker with a row: they may error a building app and fail a
\* building deployment, as the sweep does, and change no container.
LEMMA PipelineKept ==
    ASSUME TypeInv, RowInv, PipelineInv, ctr' = ctr, boot' = boot, made' = made,
           \A a \in Apps : /\ app'[a].cid = app[a].cid
                           /\ app[a].status # "building" => app'[a].status = app[a].status,
           \A i \in DeployIds : /\ dep'[i].app = dep[i].app /\ dep'[i].boot = dep[i].boot
                                /\ dep'[i].swapped = dep[i].swapped
                                /\ \/ dep'[i].status = dep[i].status
                                   \/ dep[i].status = "building" /\ dep'[i].status = "failed",
           \A w \in Workers :
              /\ pc[w] \in WorkingPC => pc'[w] = pc[w] /\ job'[w] = job[w]
              /\ pc[w] \notin WorkingPC => pc'[w] \in {"idle", "lock", "load"}
    PROVE  PipelineInv'
<1>1. \A i \in DeployIds : /\ dep'[i].status = "live" <=> dep[i].status = "live"
                           /\ dep[i].status = "failed" => dep'[i].status = "failed"
                           /\ dep'[i].status \in InProgress => dep[i].status \in InProgress
  BY DEF InProgress
<1>2. \A a \in Apps, i \in DeployIds : Verdict(a, i) => Verdict(a, i)'
  BY <1>1 DEF Verdict
<1>3. \A w \in Workers : pc'[w] \in HasRowPC \cup {"unlock"} =>
                            pc[w] \in LockedPC /\ pc'[w] = pc[w] /\ job'[w] = job[w]
  BY DEF HasRowPC, LockedPC, WorkingPC
<1>4. ASSUME NEW w \in Workers
      PROVE  WorkerInv(w)'
  <2>1. CASE pc'[w] \in HasRowPC \cup {"unlock"}
    <3>1. job[w].app \in Apps /\ pc'[w] = pc[w] /\ job'[w] = job[w]
      BY <1>3, <2>1 DEF TypeInv, BusyHasApp, LockedPC
    <3>2. WorkerInv(w)
      BY DEF PipelineInv
    <3>3. job[w].id \in DeployIds
      BY <1>3, <2>1, <3>2 DEF RowInv, WorkerInv, HasNewest
    <3>4. HasNewest(w) => HasNewest(w)'
      BY <3>1 DEF HasNewest
    <3>5. HasNewest(w) /\ Verdict(job[w].app, job[w].id) => Verdict(job[w].app, job[w].id)'
      <4>1. ASSUME NEW a, NEW i, a = job[w].app, i = job[w].id
            PROVE  HasNewest(w) /\ Verdict(a, i) => Verdict(a, i)'
        BY <1>2, <3>1, <4>1 DEF HasNewest
      <4>2. QED
        BY <3>1, <4>1
    <3>6. /\ dep'[job[w].id].status = "live" => dep[job[w].id].status = "live"
          /\ dep[job[w].id].status = "failed" => dep'[job[w].id].status = "failed"
          /\ app'[job[w].app].cid = app[job[w].app].cid
          /\ app[job[w].app].status = "running" => app'[job[w].app].status = "running"
      BY <1>1, <3>1, <3>3
    <3>7. QED
      BY <3>1, <3>2, <3>4, <3>5, <3>6 DEF WorkerInv
  <2>2. CASE pc'[w] \notin HasRowPC \cup {"unlock"}
    BY <2>2 DEF WorkerInv, HasRowPC, OwningPC, LockedPC
  <2>3. QED
    BY <2>1, <2>2
<1>5. InFlightIsOwned'
  <2>1. \A w \in Workers, i \in DeployIds : Owns(w, i) => Owns(w, i)'
    BY DEF Owns, OwningPC, WorkingPC
  <2>2. QED
    BY <1>1, <2>1 DEF InFlightIsOwned, PipelineInv
<1>6. RowReflectsLastDeploy'
  <2>1. \A a \in Apps : Deploying(a) => Deploying(a)'
    BY DEF Deploying, WorkingPC
  <2>2. \A a \in Apps, i \in DeployIds : Latest(a, i)' => Latest(a, i)
    BY DEF Latest
  <2>3. QED
    BY <1>2, <2>1, <2>2 DEF RowReflectsLastDeploy, Verdict, PipelineInv
<1>7. ServedUntilSwap'
  <2>1. ASSUME NEW i \in DeployIds, dep'[i].status = "live",
               \A j \in DeployIds : j > i /\ dep'[j].app = dep'[i].app => ~dep'[j].swapped
        PROVE  ctr'[i] = "running" /\ app'[dep'[i].app].cid = i
    <3>1. dep[i].status = "live" /\ dep'[i].app = dep[i].app
      BY <1>1, <2>1
    <3>2. dep[i].app \in Apps
      BY <3>1 DEF RowInv, NoDeploy
    <3>3. ctr[i] = "running" /\ app[dep[i].app].cid = i
      BY <2>1, <3>1 DEF ServedUntilSwap, PipelineInv
    <3>4. QED
      BY <3>1, <3>2, <3>3
  <2>2. QED
    BY <2>1 DEF ServedUntilSwap
<1>8. QED
  BY <1>4, <1>5, <1>6, <1>7 DEF PipelineInv

-----------------------------------------------------------------------------
(* Steps of a worker with a row *)

\* A Docker call on a container leaves the other containers alone, and one on a
\* name the containers of other apps.
LEMMA DockerEffects ==
    ASSUME ctr \in [DeployIds -> CtrState], NEW c, NEW a
    PROVE  \A i \in DeployIds :
             /\ i # c => /\ StopContainer(c)[i] = ctr[i]
                         /\ RemoveContainer(c)[i] = ctr[i]
                         /\ RestartContainer(c)[i] = ctr[i]
                         /\ [ctr EXCEPT ![c] = "stopped"][i] = ctr[i]
             /\ dep[i].app # a => StopNamed(a)[i] = ctr[i] /\ RemoveNamed(a)[i] = ctr[i]
BY DEF StopContainer, RemoveContainer, RestartContainer, StopNamed, RemoveNamed, Named

\* A step reaches only its own app's row and containers, and those containers
\* only once its deployment is marked swapped.
LEMMA WorkFrame ==
    ASSUME TypeInv, RowInv, NEW w \in Workers, Deploy(w), pc[w] \in HasRowPC
    PROVE  /\ \A a \in Apps : a # job[w].app => app'[a] = app[a]
           /\ \A i \in DeployIds : dep[i].app # job[w].app => ctr'[i] = ctr[i]
           /\ ctr' = ctr \/ dep'[job[w].id].swapped
<1> DEFINE a == job[w].app
           c == job[w].snap.cid
           id == job[w].id
<1>1. /\ ctr \in [DeployIds -> CtrState] /\ app \in [Apps -> Row] /\ dep \in [DeployIds -> DeployRow]
      /\ id \in DeployIds /\ dep[id].app = a
      /\ \A i \in DeployIds : dep[i].app # a => i # c /\ i # id
      /\ pc[w] \in SwapPC => dep[id].swapped
  BY DEF TypeInv, TypeOK, StoreTypeOK, RowInv, DeployIds
<1>2. /\ \A b \in Apps : b # a =>
           /\ \A s, k : UpdateStatus(a, s, k)[b] = app[b]
           /\ \A row : UpdateRow(a, row)[b] = app[b]
           /\ UpdatePort(a)[b] = app[b]
  BY <1>1, UpdateStatusEffect, UpdateRowEffect, UpdatePortEffect
<1>3. \A i \in DeployIds : dep[i].app # a =>
         \A k \in {c, id} : /\ StopContainer(k)[i] = ctr[i]
                            /\ RemoveContainer(k)[i] = ctr[i]
                            /\ RestartContainer(k)[i] = ctr[i]
                            /\ [ctr EXCEPT ![k] = "stopped"][i] = ctr[i]
                             /\ StopNamed(a)[i] = ctr[i] /\ RemoveNamed(a)[i] = ctr[i]
  <2>1. ASSUME NEW i \in DeployIds, dep[i].app # a, NEW k \in {c, id}
        PROVE  /\ StopContainer(k)[i] = ctr[i] /\ RemoveContainer(k)[i] = ctr[i]
               /\ RestartContainer(k)[i] = ctr[i] /\ [ctr EXCEPT ![k] = "stopped"][i] = ctr[i]
               /\ StopNamed(a)[i] = ctr[i] /\ RemoveNamed(a)[i] = ctr[i]
    <3>1. i # k
      BY <1>1, <2>1
    <3> HIDE DEF a, c, id
    <3>2. QED
      BY <1>1, <2>1, <3>1, DockerEffects
  <2>2. QED
    BY <2>1
<1> HIDE DEF a, c, id
<1>4. CASE AcquireLock(w) \/ SkipDuplicate(w) \/ Load(w) \/ LoadFails(w) \/ Unlock(w)
  BY <1>4 DEF AcquireLock, SkipDuplicate, Load, LoadFails, Unlock, Step, HasRowPC
<1>5. CASE MarkBuilding(w) \/ BackToOldRow(w) \/ FailApp(w) \/ Finalize(w)
  BY <1>2, <1>5, OutcomeCases DEF MarkBuilding, BackToOldRow, FailApp, Finalize, a
<1>6. CASE Build(w) \/ BuildFails(w) \/ KeepPort(w) \/ PortFails(w) \/ CreateFails(w)
           \/ HealthPasses(w) \/ HealthTimesOut(w)
  BY <1>6 DEF Build, BuildFails, KeepPort, PortFails, CreateFails, HealthPasses, HealthTimesOut,
     storeVars
<1>7. CASE MarkDeploying(w) \/ MarkLive(w) \/ FailDeployment(w)
  BY <1>7 DEF MarkDeploying, MarkLive, FailDeployment
<1>8. CASE AssignPort(w)
  BY <1>2, <1>8 DEF AssignPort, a
<1>9. CASE StopOld(w)
  <2>1. ctr' = ctr \/ ctr' = StopContainer(c)
    BY <1>9, OutcomeCases DEF StopOld, c
  <2>2. dep'[id].swapped
    BY <1>1, <1>9 DEF StopOld, id, DeployRow
  <2>3. QED
    BY <1>3, <1>9, <2>1, <2>2 DEF StopOld, id, a
<1>10. ASSUME RemoveSameName(w) \/ CreateContainer(w) \/ StartContainer(w) \/ StartFails(w)
              \/ RestartOld(w) \/ RemoveOld(w) \/ RemoveNew(w) \/ BackToOld(w)
       PROVE  /\ \A b \in Apps : b # job[w].app => app'[b] = app[b]
              /\ \A i \in DeployIds : dep[i].app # job[w].app => ctr'[i] = ctr[i]
              /\ ctr' = ctr \/ dep'[job[w].id].swapped
  <2>1. pc[w] \in SwapPC /\ app' = app /\ dep' = dep
    BY <1>10 DEF RemoveSameName, CreateContainer, StartContainer, StartFails, RestartOld, RemoveOld,
       RemoveNew, BackToOld, Step, SwapPC
  <2>2. \/ ctr' \in {ctr, StopNamed(a), RemoveNamed(a)}
        \/ \E k \in {c, id} : ctr' \in {StopContainer(k), RemoveContainer(k), RestartContainer(k),
                                        [ctr EXCEPT ![k] = "stopped"]}
    BY <1>10, OutcomeCases DEF RemoveSameName, CreateContainer, StartContainer, StartFails,
       RestartOld, RemoveOld, RemoveNew, BackToOld, a, c, id
  <2>3. \A i \in DeployIds : dep[i].app # a => ctr'[i] = ctr[i]
    BY <1>3, <2>2
  <2>4. QED
    BY <1>1, <2>1, <2>3 DEF a, id
<1>11. QED
  BY <1>4, <1>5, <1>6, <1>7, <1>8, <1>9, <1>10 DEF Deploy

\* What the step makes of its worker's own claims.
LEMMA WorkVerdict ==
    ASSUME DbFails = FALSE, TypeInv, RowInv, NEW w \in Workers, WorkerInv(w),
           Deploy(w), pc[w] \in HasRowPC
    PROVE  /\ WorkerInv(w)'
           /\ dep'[job[w].id].status \in InProgress => pc'[w] \in OwningPC
           /\ dep'[job[w].id].status = "live" =>
                 app'[job[w].app].cid = job[w].id /\ ctr'[job[w].id] = "running"
           /\ dep'[job[w].id].swapped \/ app'[job[w].app].cid = app[job[w].app].cid
<1> DEFINE a == job[w].app
           c == job[w].snap.cid
           id == job[w].id
           Good == dep'[id].status = "live" /\ app'[a].cid = id /\ ctr'[id] = "running"
           Owing == dep'[id].status # "live" /\ pc'[w] \in OwningPC
           Goal == /\ pc'[w] \in HasRowPC \ {"live"} => app'[a].cid = c
                   /\ pc'[w] \in {"rmold", "final", "live"} => ctr'[id] = "running"
                   /\ pc'[w] = "live" => app'[a].cid = id /\ app'[a].status = "running"
                   /\ \/ Owing
                      \/ pc'[w] = "failapp" /\ dep'[id].status = "failed"
                      \/ pc'[w] = "unlock" /\ dep'[id].status = "failed" /\ app'[a].status = "error"
                      \/ pc'[w] = "unlock" /\ Good /\ app'[a].status = "running"
                   /\ dep'[id].swapped \/ app'[a].cid = app[a].cid
<1>1. /\ ctr \in [DeployIds -> CtrState] /\ app \in [Apps -> Row] /\ dep \in [DeployIds -> DeployRow]
      /\ pc \in [Workers -> PC]
      /\ id \in DeployIds /\ id <= made /\ dep[id].app = a /\ a \in Apps /\ c # id
      /\ \A j \in DeployIds : dep[j].app = a => j <= id
      /\ pc[w] \in SwapPC => dep[id].swapped
  <2>1. c < id /\ c \in Nat /\ id \in Nat
    BY AppStoreAssumption DEF RowInv, TypeInv, TypeOK, Job, Row, ContainerIds, DeployIds
  <2>2. a \in Apps
    BY DEF TypeInv, BusyHasApp, HasRowPC, LockedPC
  <2>3. QED
    BY <2>1, <2>2 DEF TypeInv, TypeOK, StoreTypeOK, RowInv
<1>2. /\ made' = made
      /\ job'[w].app = a /\ job'[w].id = id /\ job'[w].snap.cid = c
      /\ \A i \in DeployIds : dep'[i].app = dep[i].app
  BY <1>1, WorkShape
<1>3. /\ pc[w] # "live" => app[a].cid = c
      /\ pc[w] # "failapp" => dep[id].status # "live"
      /\ pc[w] \in {"rmold", "final", "live"} => ctr[id] = "running"
      /\ pc[w] = "live" => app[a].cid = id /\ app[a].status = "running"
      /\ pc[w] = "failapp" => dep[id].status = "failed"
  BY DEF WorkerInv, HasRowPC, OwningPC
<1>4. \A s, k : /\ UpdateStatus(a, s, k)[a].cid = k /\ UpdateStatus(a, s, k)[a].status = s
                /\ SetDeployStatus(id, s)[id].status = s
                /\ SetDeployStatus(id, s)[id].swapped = dep[id].swapped
  BY <1>1, UpdateStatusEffect, DeploymentEffects
<1> HIDE DEF a, c, id
<1> USE DEF Step, Goto, LockedPC, HasRowPC, SwapPC, OwningPC
<1>5. ASSUME AcquireLock(w) \/ SkipDuplicate(w) \/ Load(w) \/ LoadFails(w) \/ Unlock(w)
      PROVE  Goal
  BY <1>5 DEF AcquireLock, SkipDuplicate, Load, LoadFails, Unlock
<1>6. ASSUME MarkBuilding(w) \/ BackToOldRow(w)
      PROVE  Goal
  <2>1. app' = UpdateStatus(a, "building", c) \/ app' = UpdateStatus(a, "running", c)
    BY <1>6, OutcomeCases DEF MarkBuilding, BackToOldRow, a, c
  <2>2. app'[a].cid = c
    BY <1>4, <2>1
  <2>3. QED
    BY <1>1, <1>3, <1>6, <2>2 DEF MarkBuilding, BackToOldRow
<1>7. ASSUME Build(w) \/ BuildFails(w) \/ KeepPort(w) \/ PortFails(w) \/ CreateFails(w)
             \/ HealthPasses(w) \/ HealthTimesOut(w)
      PROVE  Goal
  BY <1>1, <1>3, <1>7 DEF Build, BuildFails, KeepPort, PortFails, CreateFails, HealthPasses,
     HealthTimesOut, storeVars, id
<1>8. ASSUME MarkDeploying(w)
      PROVE  Goal
  <2>1. dep' = SetDeployStatus(id, "deploying")
    BY <1>8, OutcomeCases DEF MarkDeploying, id
  <2>2. QED
    BY <1>1, <1>3, <1>4, <1>8, <2>1 DEF MarkDeploying
<1>9. ASSUME AssignPort(w)
      PROVE  Goal
  BY <1>1, <1>3, <1>9, UpdatePortEffect DEF AssignPort, a
<1>10. ASSUME StopOld(w)
       PROVE  Goal
  BY <1>1, <1>3, <1>10 DEF StopOld, DeployRow, id
<1>11. ASSUME RemoveSameName(w) \/ CreateContainer(w) \/ StartContainer(w) \/ StartFails(w)
              \/ RestartOld(w) \/ RemoveNew(w) \/ BackToOld(w)
       PROVE  Goal
  BY <1>1, <1>3, <1>11 DEF RemoveSameName, CreateContainer, StartContainer, StartFails, RestartOld,
     RemoveNew, BackToOld
<1>12. ASSUME RemoveOld(w)
       PROVE  Goal
  <2>1. ctr' = ctr \/ ctr' = RemoveContainer(c)
    BY <1>12, OutcomeCases DEF RemoveOld, c
  <2>2. RemoveContainer(c)[id] = ctr[id]
    BY <1>1, DockerEffects
  <2>3. QED
    BY <1>1, <1>3, <1>12, <2>1, <2>2 DEF RemoveOld
<1>13. ASSUME Finalize(w)
       PROVE  Goal
  <2> DEFINE row == [job[w].snap EXCEPT !.status = "running", !.cid = job[w].id]
  <2>1. row.cid = id /\ row.status = "running"
    <3>1. job[w].snap \in Row
      BY DEF TypeInv, TypeOK, Job
    <3>2. QED
      BY <3>1 DEF Row, id
  <2>2. app' = UpdateRow(a, row)
    BY <1>13, OutcomeCases DEF Finalize, a
  <2> HIDE DEF row
  <2>3. app'[a].cid = id /\ app'[a].status = "running"
    BY <1>1, <2>1, <2>2, UpdateRowEffect
  <2>4. QED
    BY <1>1, <1>3, <1>13, <2>3 DEF Finalize
<1>14. ASSUME MarkLive(w)
       PROVE  Goal
  <2>1. dep' = SetDeployStatus(id, "live")
    BY <1>14, OutcomeCases DEF MarkLive, id
  <2>2. dep'[id].status = "live" /\ dep'[id].swapped = dep[id].swapped
    BY <1>4, <2>1
  <2>3. QED
    BY <1>1, <1>3, <1>14, <2>2 DEF MarkLive
<1>15. ASSUME FailDeployment(w)
       PROVE  Goal
  <2>1. dep' = SetDeployStatus(id, "failed")
    BY <1>15, OutcomeCases DEF FailDeployment, id
  <2>2. dep'[id].status = "failed"
    BY <1>4, <2>1
  <2>3. QED
    BY <1>1, <1>3, <1>15, <2>2 DEF FailDeployment
<1>16. ASSUME FailApp(w)
       PROVE  Goal
  <2>1. app' = UpdateStatus(a, "error", c)
    BY <1>16, OutcomeCases DEF FailApp, a, c
  <2>2. app'[a].cid = c /\ app'[a].status = "error"
    BY <1>4, <2>1
  <2>3. QED
    BY <1>1, <1>3, <1>16, <2>2 DEF FailApp
<1> HIDE DEF Goal
<1>17. Goal
  BY <1>5, <1>6, <1>7, <1>8, <1>9, <1>10, <1>11, <1>12, <1>13, <1>14, <1>15, <1>16 DEF Deploy
<1>18. HasNewest(w)'
  BY <1>1, <1>2 DEF HasNewest
<1>19. QED
  BY <1>2, <1>17, <1>18 DEF Goal, WorkerInv, Verdict, InProgress, a, c, id

\* A worker on another app keeps its claims: nothing they speak of changes.
LEMMA OtherWorkers ==
    ASSUME NEW v \in Workers, WorkerInv(v), NEW a, NEW new,
           pc'[v] = pc[v], job'[v] = job[v],
           pc[v] \in HasRowPC \cup {"unlock"} =>
              /\ job[v].app \in Apps /\ job[v].app # a
              /\ job[v].id \in DeployIds /\ dep[job[v].id].app = job[v].app,
           made' >= made, made' \in Nat, made \in Nat,
           \A b \in Apps : b # a => app'[b] = app[b],
           \A i \in DeployIds : dep[i].app # a => ctr'[i] = ctr[i],
           \A i \in DeployIds : dep'[i] = dep[i] \/ (dep'[i].app = a /\ dep[i].app \in {a, NoApp}),
           NoApp \notin Apps
    PROVE  WorkerInv(v)'
<1>1. CASE pc[v] \in HasRowPC \cup {"unlock"}
  <2>1. /\ app'[job[v].app] = app[job[v].app] /\ ctr'[job[v].id] = ctr[job[v].id]
        /\ dep'[job[v].id] = dep[job[v].id]
    BY <1>1
  <2>2. HasNewest(v) => HasNewest(v)'
    BY <1>1, <2>1 DEF HasNewest, DeployIds
  <2>3. Verdict(job[v].app, job[v].id) => Verdict(job[v].app, job[v].id)'
    BY <2>1 DEF Verdict
  <2>4. QED
    BY <2>1, <2>2, <2>3 DEF WorkerInv
<1>2. CASE pc[v] \notin HasRowPC \cup {"unlock"}
  BY <1>2 DEF WorkerInv, HasRowPC, OwningPC, LockedPC
<1>3. QED
  BY <1>1, <1>2

\* What OtherWorkers asks of the workers next to one that holds the lock of its app.
LEMMA OthersHaveTheirs ==
    ASSUME TypeInv, RowInv, LocksMatchDeploys, NEW w \in Workers, pc[w] \in LockedPC,
           NEW v \in Workers \ {w}, WorkerInv(v), pc[v] \in HasRowPC \cup {"unlock"}
    PROVE  /\ job[v].app \in Apps /\ job[v].app # job[w].app
           /\ job[v].id \in DeployIds /\ dep[job[v].id].app = job[v].app
<1>1. job[v].app \in Apps /\ pc[v] \in LockedPC
  BY DEF TypeInv, BusyHasApp, HasRowPC, LockedPC
<1>2. job[v].app # job[w].app
  BY <1>1, RowsApart
<1>3. QED
  BY <1>1, <1>2 DEF RowInv, WorkerInv, HasNewest

LEMMA PipelineWork ==
    ASSUME DbFails = FALSE, TypeInv, RowInv, LocksMatchDeploys, PipelineInv,
           NEW w \in Workers, Deploy(w), pc[w] \in HasRowPC
    PROVE  PipelineInv'
<1> DEFINE a == job[w].app
           id == job[w].id
<1>1. /\ id \in DeployIds /\ id <= made /\ dep[id].app = a /\ a \in Apps
      /\ \A j \in DeployIds : dep[j].app = a => j <= id
      /\ made \in Nat /\ pc[w] \in LockedPC /\ WorkerInv(w) /\ NoApp \notin Apps
  BY AppStoreAssumption DEF RowInv, TypeInv, TypeOK, StoreTypeOK, BusyHasApp, HasRowPC, LockedPC,
     ContainerIds, PipelineInv
<1>2. /\ made' = made /\ boot' = boot
      /\ \A i \in DeployIds : /\ dep'[i].app = dep[i].app
                              /\ dep'[i].boot = dep[i].boot
                              /\ dep[i].swapped => dep'[i].swapped
                              /\ i # id => dep'[i] = dep[i]
      /\ job'[w].app = a /\ job'[w].id = id /\ pc'[w] \in WorkingPC
  BY <1>1, WorkShape DEF WorkingPC
<1>3. /\ \A b \in Apps : b # a => app'[b] = app[b]
      /\ \A i \in DeployIds : dep[i].app # a => ctr'[i] = ctr[i]
      /\ ctr' = ctr \/ dep'[id].swapped
  BY WorkFrame
<1>4. /\ WorkerInv(w)'
      /\ dep'[id].status \in InProgress => pc'[w] \in OwningPC
      /\ dep'[id].status = "live" => app'[a].cid = id /\ ctr'[id] = "running"
      /\ dep'[id].swapped \/ app'[a].cid = app[a].cid
  BY <1>1, WorkVerdict
<1>5. \A v \in Workers \ {w} : pc'[v] = pc[v] /\ job'[v] = job[v] /\ WorkerInv(v)
  BY DeployShape DEF PipelineInv
<1> HIDE DEF a, id
<1>6. ASSUME NEW v \in Workers \ {w}
      PROVE  WorkerInv(v)'
  <2>1. pc[v] \in HasRowPC \cup {"unlock"} =>
            /\ job[v].app \in Apps /\ job[v].app # a
            /\ job[v].id \in DeployIds /\ dep[job[v].id].app = job[v].app
    BY <1>1, <1>5, OthersHaveTheirs DEF a
  <2>2. made' >= made /\ made' \in Nat
    BY <1>1, <1>2
  <2>3. \A i \in DeployIds : dep'[i] = dep[i] \/ (dep'[i].app = a /\ dep[i].app \in {a, NoApp})
    BY <1>1, <1>2
  <2>4. QED
    BY <1>1, <1>3, <1>5, <2>1, <2>2, <2>3, OtherWorkers
<1>7. InFlightIsOwned'
  <2>1. ASSUME NEW i \in DeployIds, dep'[i].status \in InProgress
        PROVE  dep'[i].boot < boot' \/ \E v \in Workers : Owns(v, i)'
    <3>1. CASE i = id
      BY <1>2, <1>4, <2>1, <3>1 DEF Owns
    <3>2. CASE i # id
      <4>1. dep[i].boot < boot \/ \E v \in Workers : Owns(v, i)
        BY <1>2, <2>1, <3>2 DEF InFlightIsOwned, PipelineInv
      <4>2. \A v \in Workers : Owns(v, i) => Owns(v, i)'
        BY <1>5, <3>2 DEF Owns, id
      <4>3. QED
        BY <1>2, <4>1, <4>2
    <3>3. QED
      BY <3>1, <3>2
  <2>2. QED
    BY <2>1 DEF InFlightIsOwned
<1>8. RowReflectsLastDeploy'
  <2>1. ASSUME NEW b \in Apps, NEW i \in DeployIds, Latest(b, i)', dep'[i].boot = boot', ~Deploying(b)'
        PROVE  Verdict(b, i)'
    <3>1. b # a
      BY <1>2, <2>1 DEF Deploying, WorkingPC
    <3>2. Latest(b, i) /\ dep[i].app = b /\ dep[i].boot = boot
      BY <1>2, <2>1 DEF Latest
    <3>3. ~Deploying(b)
      BY <1>2, <1>5, <2>1, <3>1 DEF Deploying, WorkingPC, a
    <3>4. Verdict(b, i)
      BY <3>2, <3>3 DEF RowReflectsLastDeploy, PipelineInv, Verdict
    <3>5. app'[b] = app[b] /\ ctr'[i] = ctr[i] /\ dep'[i] = dep[i]
      BY <1>1, <1>2, <1>3, <3>1, <3>2
    <3>6. QED
      BY <3>4, <3>5 DEF Verdict
  <2>2. QED
    BY <2>1 DEF RowReflectsLastDeploy, Verdict
<1>9. ServedUntilSwap'
  <2>1. ASSUME NEW i \in DeployIds, dep'[i].status = "live",
               \A j \in DeployIds : j > i /\ dep'[j].app = dep'[i].app => ~dep'[j].swapped
        PROVE  ctr'[i] = "running" /\ app'[dep'[i].app].cid = i
    <3>1. CASE i = id
      BY <1>1, <1>2, <1>4, <2>1, <3>1
    <3>2. CASE i # id
      <4>1. dep[i].status = "live" /\ dep'[i].app = dep[i].app
        BY <1>2, <2>1, <3>2
      <4>2. dep[i].app \in Apps
        BY <4>1 DEF RowInv, NoDeploy
      <4>3. ctr[i] = "running" /\ app[dep[i].app].cid = i
        BY <1>2, <2>1, <4>1 DEF ServedUntilSwap, PipelineInv
      <4>4. dep[i].app = a => ~dep'[id].swapped
        BY <1>1, <1>2, <2>1, <3>2 DEF DeployIds
      <4>5. QED
        BY <1>1, <1>3, <1>4, <4>1, <4>2, <4>3, <4>4
    <3>3. QED
      BY <3>1, <3>2
  <2>2. QED
    BY <2>1 DEF ServedUntilSwap
<1>10. QED
  BY <1>4, <1>6, <1>7, <1>8, <1>9 DEF PipelineInv

-----------------------------------------------------------------------------
(* The INSERT, the unlock and the crash *)

LEMMA PipelineLoad ==
    ASSUME TypeInv, RowInv, LocksMatchDeploys, PipelineInv, NEW w \in Workers, Load(w)
    PROVE  PipelineInv'
<1> DEFINE a == job[w].app
           id == made + 1
<1>1. /\ made \in Nat /\ made' = id /\ id \in DeployIds /\ a \in Apps /\ NoApp \notin Apps
      /\ dep[id] = NoDeploy /\ pc[w] = "load"
      /\ \A j \in DeployIds : j > made => dep[j] = NoDeploy
  BY AppStoreAssumption DEF Load, Step, RowInv, TypeInv, TypeOK, StoreTypeOK, BusyHasApp,
     ContainerIds, DeployIds
<1>2. /\ app' = app /\ ctr' = ctr /\ boot' = boot
      /\ \A i \in DeployIds : i # id => dep'[i] = dep[i]
      /\ dep'[id].app = a /\ dep'[id].status = "building"
  BY <1>1 DEF Load, CreateDeployment, outside, TypeInv, TypeOK, StoreTypeOK
<1>3. /\ pc'[w] = "mark" /\ job'[w].app = a /\ job'[w].id = id /\ job'[w].snap = app[a]
      /\ \A v \in Workers \ {w} : pc'[v] = pc[v] /\ job'[v] = job[v] /\ WorkerInv(v)
  BY DEF Load, Step, Goto, TypeInv, TypeOK, Job, PipelineInv
<1> HIDE DEF a, id
<1>4. WorkerInv(w)'
  BY <1>2, <1>3 DEF WorkerInv, HasRowPC, LockedPC
<1>5. ASSUME NEW v \in Workers \ {w}
      PROVE  WorkerInv(v)'
  <2>1. pc[v] \in HasRowPC \cup {"unlock"} =>
            /\ job[v].app \in Apps /\ job[v].app # a
            /\ job[v].id \in DeployIds /\ dep[job[v].id].app = job[v].app
    BY <1>1, <1>3, OthersHaveTheirs DEF a, LockedPC
  <2>2. made' >= made /\ made' \in Nat
    BY <1>1 DEF id
  <2>3. \A i \in DeployIds : dep'[i] = dep[i] \/ (dep'[i].app = a /\ dep[i].app \in {a, NoApp})
    BY <1>1, <1>2 DEF NoDeploy
  <2>4. QED
    BY <1>1, <1>2, <1>3, <2>1, <2>2, <2>3, OtherWorkers
<1>6. InFlightIsOwned'
  <2>1. ASSUME NEW i \in DeployIds, dep'[i].status \in InProgress
        PROVE  dep'[i].boot < boot' \/ \E v \in Workers : Owns(v, i)'
    <3>1. CASE i = id
      BY <1>3, <3>1 DEF Owns, OwningPC, LockedPC
    <3>2. CASE i # id
      <4>1. dep[i].boot < boot \/ \E v \in Workers : Owns(v, i)
        BY <1>2, <2>1, <3>2 DEF InFlightIsOwned, PipelineInv
      <4>2. \A v \in Workers : Owns(v, i) => Owns(v, i)'
        BY <1>1, <1>3 DEF Owns, OwningPC
      <4>3. QED
        BY <1>2, <3>2, <4>1, <4>2
    <3>3. QED
      BY <3>1, <3>2
  <2>2. QED
    BY <2>1 DEF InFlightIsOwned
<1>7. RowReflectsLastDeploy'
  <2>1. ASSUME NEW b \in Apps, NEW i \in DeployIds, Latest(b, i)', dep'[i].boot = boot', ~Deploying(b)'
        PROVE  Verdict(b, i)'
    <3>1. b # a
      BY <1>3, <2>1 DEF Deploying, WorkingPC, LockedPC
    <3>2. i # id /\ dep'[i] = dep[i]
      BY <1>1, <1>2, <2>1, <3>1 DEF Latest
    <3>3. Latest(b, i)
      BY <1>1, <1>2, <2>1, <3>2 DEF Latest, NoDeploy
    <3>4. ~Deploying(b)
      BY <1>1, <1>3, <2>1, <3>1 DEF Deploying, WorkingPC, a
    <3>5. Verdict(b, i)
      BY <1>2, <2>1, <3>2, <3>3, <3>4 DEF RowReflectsLastDeploy, PipelineInv, Verdict
    <3>6. QED
      BY <1>2, <3>2, <3>5 DEF Verdict
  <2>2. QED
    BY <2>1 DEF RowReflectsLastDeploy, Verdict
<1>8. ServedUntilSwap'
  <2>1. ASSUME NEW i \in DeployIds, dep'[i].status = "live",
               \A j \in DeployIds : j > i /\ dep'[j].app = dep'[i].app => ~dep'[j].swapped
        PROVE  ctr'[i] = "running" /\ app'[dep'[i].app].cid = i
    <3>1. i # id /\ dep'[i] = dep[i]
      BY <1>2, <2>1
    <3>2. dep[i].app # NoApp
      BY <1>1, <2>1, <3>1 DEF RowInv, NoDeploy
    <3>3. \A j \in DeployIds : j > i /\ dep[j].app = dep[i].app => ~dep[j].swapped
      BY <1>1, <1>2, <2>1, <3>1, <3>2 DEF NoDeploy
    <3>4. QED
      BY <1>2, <2>1, <3>1, <3>3 DEF ServedUntilSwap, PipelineInv
  <2>2. QED
    BY <2>1 DEF ServedUntilSwap
<1>9. QED
  BY <1>4, <1>5, <1>6, <1>7, <1>8 DEF PipelineInv

LEMMA PipelineUnlock ==
    ASSUME TypeInv, RowInv, LocksMatchDeploys, PipelineInv, NEW w \in Workers, Unlock(w)
    PROVE  PipelineInv'
<1> DEFINE a == job[w].app
<1>1. /\ app' = app /\ dep' = dep /\ made' = made /\ ctr' = ctr /\ boot' = boot
      /\ pc[w] = "unlock" /\ pc'[w] = "idle"
      /\ \A v \in Workers \ {w} : pc'[v] = pc[v] /\ job'[v] = job[v] /\ WorkerInv(v)
  BY DEF Unlock, Step, Goto, storeVars, outside, TypeInv, TypeOK, PipelineInv
<1>2. made \in Nat /\ made' >= made /\ NoApp \notin Apps
  BY <1>1, AppStoreAssumption DEF TypeInv, TypeOK, StoreTypeOK, ContainerIds
<1>3. HasNewest(w) /\ Verdict(a, job[w].id)
  BY <1>1 DEF PipelineInv, WorkerInv
<1> HIDE DEF a
<1>4. WorkerInv(w)'
  BY <1>1 DEF WorkerInv, HasRowPC, OwningPC, LockedPC
<1>5. ASSUME NEW v \in Workers \ {w}
      PROVE  WorkerInv(v)'
  <2>1. pc[v] \in HasRowPC \cup {"unlock"} =>
            /\ job[v].app \in Apps /\ job[v].app # a
            /\ job[v].id \in DeployIds /\ dep[job[v].id].app = job[v].app
    BY <1>1, OthersHaveTheirs DEF a, LockedPC
  <2>2. QED
    BY <1>1, <1>2, <2>1, OtherWorkers
<1>6. InFlightIsOwned'
  <2>1. \A v \in Workers, i \in DeployIds : Owns(v, i) => Owns(v, i)'
    BY <1>1 DEF Owns, OwningPC
  <2>2. QED
    BY <1>1, <2>1 DEF InFlightIsOwned, PipelineInv
<1>7. RowReflectsLastDeploy'
  <2>1. ASSUME NEW b \in Apps, NEW i \in DeployIds, Latest(b, i), dep[i].boot = boot, ~Deploying(b)'
        PROVE  Verdict(b, i)
    <3>1. CASE b = a
      <4>1. i = job[w].id
        BY <1>3, <2>1, <3>1 DEF HasNewest, Latest, DeployIds, a
      <4>2. QED
        BY <1>3, <3>1, <4>1
    <3>2. CASE b # a
      <4>1. ~Deploying(b)
        BY <1>1, <2>1, <3>2 DEF Deploying, WorkingPC, a
      <4>2. QED
        BY <2>1, <4>1 DEF RowReflectsLastDeploy, PipelineInv, Verdict
    <3>3. QED
      BY <3>1, <3>2
  <2>2. QED
    BY <1>1, <2>1 DEF RowReflectsLastDeploy, Verdict, Latest
<1>8. ServedUntilSwap'
  BY <1>1 DEF ServedUntilSwap, PipelineInv
<1>9. QED
  BY <1>4, <1>5, <1>6, <1>7, <1>8 DEF PipelineInv

\* A crash leaves no worker with a row, and every deployment to an earlier process.
LEMMA PipelineCrash ==
    ASSUME TypeInv, RowInv, PipelineInv, Crash
    PROVE  PipelineInv'
<1>1. /\ app' = app /\ dep' = dep /\ ctr' = ctr
      /\ \A w \in Workers : pc'[w] = "idle"
  BY DEF Crash, storeVars
<1>2. \A i \in DeployIds : dep'[i].boot < boot'
  <2>1. boot \in Nat /\ boot' = boot + 1
    BY DEF Crash, TypeInv, TypeOK
  <2>2. \A i \in DeployIds : dep[i].boot \in Nat /\ dep[i].boot <= boot
    BY DEF TypeInv, TypeOK, StoreTypeOK, DeployRow, RowInv
  <2>3. QED
    BY <1>1, <2>1, <2>2
<1>3. boot' \in Nat /\ \A i \in DeployIds : dep'[i].boot \in Nat
  BY <1>1 DEF Crash, TypeInv, TypeOK, StoreTypeOK, DeployRow
<1>4. \A w \in Workers : WorkerInv(w)'
  BY <1>1 DEF WorkerInv, HasRowPC, OwningPC, LockedPC
<1>5. InFlightIsOwned' /\ RowReflectsLastDeploy'
  BY <1>2, <1>3 DEF InFlightIsOwned, RowReflectsLastDeploy
<1>6. ServedUntilSwap'
  BY <1>1 DEF ServedUntilSwap, PipelineInv
<1>7. QED
  BY <1>4, <1>5, <1>6 DEF PipelineInv

LEMMA NextPipeline ==
    ASSUME DbFails = FALSE, TypeInv, RowInv, LocksMatchDeploys, PipelineInv, [Next]_vars
    PROVE  PipelineInv'
<1>1. ASSUME NEW a \in Apps, Enqueue(a)
      PROVE  PipelineInv'
  <2>1. \A w \in Workers : pc[w] \notin WorkingPC => pc[w] \in {"idle", "lock", "load"}
    BY DEF TypeInv, TypeOK, PC, WorkingPC
  <2>2. QED
    BY <1>1, <2>1, PipelineKept DEF Enqueue
<1>2. ASSUME NEW w \in Workers, Take(w) \/ AcquireLock(w) \/ SkipDuplicate(w) \/ LoadFails(w)
      PROVE  PipelineInv'
  <2>1. \A v \in Workers :
           /\ pc[v] \in WorkingPC => pc'[v] = pc[v] /\ job'[v] = job[v]
           /\ pc[v] \notin WorkingPC => pc'[v] \in {"idle", "lock", "load"}
    BY <1>2 DEF Take, AcquireLock, SkipDuplicate, LoadFails, Step, Goto, TypeInv, TypeOK, PC,
       LockedPC, WorkingPC
  <2>2. app' = app /\ dep' = dep /\ made' = made /\ ctr' = ctr /\ boot' = boot
    BY <1>2 DEF Take, AcquireLock, SkipDuplicate, LoadFails, storeVars, outside
  <2>3. QED
    BY <2>1, <2>2, PipelineKept
<1>3. ASSUME NEW w \in Workers, Deploy(w)
      PROVE  PipelineInv'
  BY <1>2, <1>3, WhereDeployIs, PipelineWork, PipelineLoad, PipelineUnlock
<1>4. \A w \in Workers : pc[w] \notin WorkingPC => pc[w] \in {"idle", "lock", "load"}
  BY DEF TypeInv, TypeOK, PC, WorkingPC
<1>5. ASSUME NEW i \in DeployIds, Age(i)
      PROVE  PipelineInv'
  <2>1. \A j \in DeployIds : /\ dep'[j].app = dep[j].app /\ dep'[j].boot = dep[j].boot
                             /\ dep'[j].swapped = dep[j].swapped /\ dep'[j].status = dep[j].status
    BY <1>5 DEF Age, TypeInv, TypeOK, StoreTypeOK, DeployRow
  <2>2. QED
    BY <1>4, <1>5, <2>1, PipelineKept DEF Age, outside
<1>6. CASE SweepApps
  <2>1. \A a \in Apps : /\ app'[a].cid = app[a].cid
                        /\ app[a].status # "building" => app'[a].status = app[a].status
    BY <1>6, OutcomeCases, SweepEffect DEF SweepApps, TypeInv, TypeOK, StoreTypeOK
  <2>2. dep' = dep /\ ctr' = ctr /\ boot' = boot /\ made' = made /\ pc' = pc /\ job' = job
    BY <1>6 DEF SweepApps
  <2>3. \A w \in Workers :
           /\ pc[w] \in WorkingPC => pc'[w] = pc[w] /\ job'[w] = job[w]
           /\ pc[w] \notin WorkingPC => pc'[w] \in {"idle", "lock", "load"}
    BY <1>4, <2>2
  <2>4. \A i \in DeployIds : /\ dep'[i].app = dep[i].app /\ dep'[i].boot = dep[i].boot
                             /\ dep'[i].swapped = dep[i].swapped
                             /\ \/ dep'[i].status = dep[i].status
                                \/ dep[i].status = "building" /\ dep'[i].status = "failed"
    BY <2>2
  <2>5. ctr' = ctr /\ boot' = boot /\ made' = made
    BY <2>2
  <2>6. QED
    BY <2>1, <2>3, <2>4, <2>5, PipelineKept
<1>7. CASE SweepRows
  <2>1. \A j \in DeployIds : dep[j] \in DeployRow
    BY DEF TypeInv, TypeOK, StoreTypeOK
  <2>2. \A j \in DeployIds :
          \/ dep'[j] = dep[j]
          \/ dep[j].status = "building" /\ dep'[j] = [dep[j] EXCEPT !.status = "failed"]
    BY <1>7, OutcomeCases DEF SweepRows, FailStaleRows, StaleRows
  <2>3. \A j \in DeployIds : /\ dep'[j].app = dep[j].app /\ dep'[j].boot = dep[j].boot
                             /\ dep'[j].swapped = dep[j].swapped
                             /\ \/ dep'[j].status = dep[j].status
                                \/ dep[j].status = "building" /\ dep'[j].status = "failed"
    BY <2>1, <2>2 DEF DeployRow
  <2>4. app' = app /\ ctr' = ctr /\ boot' = boot /\ made' = made /\ pc' = pc /\ job' = job
    BY <1>7 DEF SweepRows
  <2>5. \A w \in Workers :
           /\ pc[w] \in WorkingPC => pc'[w] = pc[w] /\ job'[w] = job[w]
           /\ pc[w] \notin WorkingPC => pc'[w] \in {"idle", "lock", "load"}
    BY <1>4, <2>4
  <2>6. \A a \in Apps : /\ app'[a].cid = app[a].cid
                        /\ app[a].status # "building" => app'[a].status = app[a].status
    BY <2>4
  <2>7. QED
    BY <2>3, <2>4, <2>5, <2>6, PipelineKept
<1>8. CASE Crash
  BY <1>8, PipelineCrash
<1>9. CASE UNCHANGED vars
  BY <1>4, <1>9, PipelineKept DEF vars
<1>10. QED
  BY <1>1, <1>2, <1>3, <1>5, <1>6, <1>7, <1>8, <1>9 DEF Next, Running

LEMMA InitPipeline == Init => PipelineInv
<1> SUFFICES ASSUME Init
             PROVE  PipelineInv
  OBVIOUS
<1>1. /\ \A i \in DeployIds : dep[i].status = "none" /\ dep[i].app = NoApp
      /\ \A w \in Workers : pc[w] = "idle"
  BY DEF Init, StoreInit, NoDeploy
<1>2. \A w \in Workers : WorkerInv(w)
  BY <1>1 DEF WorkerInv, HasRowPC, OwningPC, LockedPC
<1>3. InFlightIsOwned /\ ServedUntilSwap
  BY <1>1 DEF InFlightIsOwned, ServedUntilSwap, InProgress
<1>4. RowReflectsLastDeploy
  BY <1>1, AppStoreAssumption DEF RowReflectsLastDeploy, Latest
<1>5. QED
  BY <1>2, <1>3, <1>4 DEF PipelineInv

LEMMA PipelineHolds ==
    ASSUME DbFails = FALSE
    PROVE  Spec => []PipelineInv
<1>1. Init => PipelineInv
  BY InitPipeline
<1>2. TypeInv /\ LocksMatchDeploys /\ RowInv /\ PipelineInv /\ [Next]_vars => PipelineInv'
  BY NextPipeline
<1>3. QED
  BY <1>1, <1>2, Invariants, PTL DEF Spec

\* As long as no database statement fails, a deployment in progress has a worker of
\* this process that still owes it a verdict, or was left by an earlier process.
\* Docker calls may fail and the engine may crash at any step, as in the next two.
THEOREM InFlightOwned ==
    ASSUME DbFails = FALSE
    PROVE  Spec => []InFlightIsOwned
<1>1. PipelineInv => InFlightIsOwned
  BY DEF PipelineInv
<1>2. QED
  BY <1>1, PipelineHolds, PTL

\* As long as no database statement fails, the app row tells between deploys how the
\* app's last deployment ended: running on its container, which is up, or error.
THEOREM RowsReflectDeploys ==
    ASSUME DbFails = FALSE
    PROVE  Spec => []RowReflectsLastDeploy
<1>1. PipelineInv => RowReflectsLastDeploy
  BY DEF PipelineInv
<1>2. QED
  BY <1>1, PipelineHolds, PTL

\* As long as no database statement fails, a live deployment is up and named by its
\* app's row until a later deployment of the app starts its swap.
THEOREM LiveIsServed ==
    ASSUME DbFails = FALSE
    PROVE  Spec => []ServedUntilSwap
<1>1. PipelineInv => ServedUntilSwap
  BY DEF PipelineInv
<1>2. QED
  BY <1>1, PipelineHolds, PTL

-----------------------------------------------------------------------------
(* No container is left behind *)

\* Places where the container of the worker's own deployment is not there: not yet, or
\* removed again.
BarePC == {"mark", "build", "deploying", "port", "stopold", "rmname", "create", "restart",
           "back", "backrow", "faildep"}

\* What a worker relies on when it lets go of a container: its new one is gone when it
\* fails its deployment, and the old one when it writes the row over.
BareInv ==
    /\ \A i \in DeployIds : dep[i].app \notin Apps => ctr[i] = "none"
    /\ \A w \in Workers : /\ pc[w] \in BarePC => ctr[job[w].id] = "none"
                          /\ pc[w] = "final" /\ job[w].snap.cid # 0 => ctr[job[w].snap.cid] = "none"

OrphanInv == BareInv /\ NoOrphanContainer

\* Steps that leave the containers, what the rows name and the pipelines alone.
LEMMA OrphanKept ==
    ASSUME OrphanInv, ctr' = ctr, boot' = boot,
           \A a \in Apps : app'[a].cid = app[a].cid,
           \A i \in DeployIds : dep'[i].app = dep[i].app /\ dep'[i].boot = dep[i].boot,
           \A w \in Workers :
              /\ pc[w] \in WorkingPC => pc'[w] = pc[w] /\ job'[w] = job[w]
              /\ pc[w] \notin WorkingPC => pc'[w] \in {"idle", "lock", "load"}
    PROVE  OrphanInv'
<1>1. BareInv'
  BY DEF OrphanInv, BareInv, BarePC, WorkingPC, LockedPC
<1>2. \A w \in Workers, i \in DeployIds : Owns(w, i) => Owns(w, i)'
  BY DEF Owns, OwningPC, WorkingPC
<1>3. \A i \in DeployIds : ctr[i] # "none" => dep[i].app \in Apps
  BY DEF OrphanInv, BareInv
<1>4. NoOrphanContainer'
  BY <1>2, <1>3 DEF OrphanInv, NoOrphanContainer
<1>5. QED
  BY <1>1, <1>4 DEF OrphanInv

\* The containers of an app in a worker's hands: the one its row names, the worker's
\* own, and those of earlier processes.
LEMMA ContainersOfApp ==
    ASSUME TypeInv, RowInv, LocksMatchDeploys, OrphanInv, NEW w \in Workers, pc[w] \in LockedPC,
           NEW i \in DeployIds, dep[i].app = job[w].app, ctr[i] # "none"
    PROVE  app[job[w].app].cid = i \/ Owns(w, i) \/ dep[i].boot < boot
<1>1. ASSUME NEW v \in Workers, Owns(v, i), v # w PROVE FALSE
  <2>1. pc[v] \in HasRowPC /\ pc[v] \in LockedPC /\ job[v].id = i
    BY <1>1 DEF Owns, OwningPC, HasRowPC, LockedPC
  <2>2. job[v].app = job[w].app
    BY <2>1 DEF RowInv
  <2>3. QED
    BY <1>1, <2>1, <2>2, RowsApart
<1>2. QED
  BY <1>1 DEF OrphanInv, NoOrphanContainer

\* What a step makes of the containers of its worker's app.
LEMMA WorkContainers ==
    ASSUME DbFails = FALSE, DockerFails = FALSE, TypeInv, RowInv, NEW w \in Workers, WorkerInv(w), BareInv,
           Deploy(w), pc[w] \in HasRowPC
    PROVE  /\ pc'[w] \in BarePC => ctr'[job[w].id] = "none"
           /\ pc'[w] = "final" /\ job[w].snap.cid # 0 => ctr'[job[w].snap.cid] = "none"
           /\ \A i \in DeployIds : ctr'[i] # "none" => ctr[i] # "none" \/ i = job[w].id
           /\ pc[w] \in OwningPC /\ pc'[w] \notin OwningPC =>
                 ctr'[job[w].id] = "none" \/ app'[job[w].app].cid = job[w].id
           /\ \/ app'[job[w].app].cid = app[job[w].app].cid
              \/ app[job[w].app].cid = job[w].snap.cid /\ pc'[w] = "live" /\ app'[job[w].app].cid = job[w].id
                 /\ (job[w].snap.cid # 0 => ctr'[job[w].snap.cid] = "none")
<1> DEFINE a == job[w].app
           c == job[w].snap.cid
           id == job[w].id
           Goal == /\ pc'[w] \in BarePC => ctr'[id] = "none"
                   /\ pc'[w] = "final" /\ c # 0 => ctr'[c] = "none"
                   /\ \A i \in DeployIds : ctr'[i] # "none" => ctr[i] # "none" \/ i = id
                   /\ pc[w] \in OwningPC /\ pc'[w] \notin OwningPC => ctr'[id] = "none" \/ app'[a].cid = id
                   /\ \/ app'[a].cid = app[a].cid
                      \/ app[a].cid = c /\ pc'[w] = "live" /\ app'[a].cid = id /\ (c # 0 => ctr'[c] = "none")
<1>1. /\ ctr \in [DeployIds -> CtrState] /\ app \in [Apps -> Row] /\ dep \in [DeployIds -> DeployRow]
      /\ pc \in [Workers -> PC]
      /\ id \in DeployIds /\ a \in Apps /\ c # id /\ (c # 0 => c \in DeployIds)
  <2>1. c < id /\ c \in Nat /\ id \in Nat /\ c \in ContainerIds
    BY AppStoreAssumption DEF RowInv, TypeInv, TypeOK, Job, Row, ContainerIds, DeployIds
  <2>2. a \in Apps
    BY DEF TypeInv, BusyHasApp, HasRowPC, LockedPC
  <2>3. c # 0 => c \in DeployIds
    BY <2>1, AppStoreAssumption DEF ContainerIds, DeployIds
  <2>4. id \in DeployIds
    BY DEF RowInv
  <2>5. c # id
    BY <2>1
  <2>6. QED
    BY <2>2, <2>3, <2>4, <2>5 DEF TypeInv, TypeOK, StoreTypeOK
<1>2. /\ pc[w] # "live" => app[a].cid = c
      /\ pc[w] = "live" => app[a].cid = id
      /\ pc[w] \in BarePC => ctr[id] = "none"
      /\ pc[w] = "final" /\ c # 0 => ctr[c] = "none"
  BY DEF WorkerInv, HasRowPC, BareInv
<1>3. \A s, k : UpdateStatus(a, s, k)[a].cid = k
  BY <1>1, UpdateStatusEffect
<1> HIDE DEF a, c, id
<1> USE DEF Step, Goto, LockedPC, HasRowPC, OwningPC, BarePC
<1>4. ASSUME AcquireLock(w) \/ SkipDuplicate(w) \/ Load(w) \/ LoadFails(w) \/ Unlock(w)
      PROVE  Goal
  BY <1>4 DEF AcquireLock, SkipDuplicate, Load, LoadFails, Unlock
<1>5. ASSUME MarkBuilding(w) \/ BackToOldRow(w) \/ FailApp(w)
      PROVE  Goal
  <2>1. app' = UpdateStatus(a, "building", c) \/ app' = UpdateStatus(a, "running", c) \/ app' = UpdateStatus(a, "error", c)
    BY <1>5, OutcomeCases DEF MarkBuilding, BackToOldRow, FailApp, a, c
  <2>2. app'[a].cid = c
    BY <1>3, <2>1
  <2>3. QED
    BY <1>1, <1>2, <1>5, <2>2 DEF MarkBuilding, BackToOldRow, FailApp
<1>6. ASSUME Build(w) \/ BuildFails(w) \/ KeepPort(w) \/ PortFails(w) \/ CreateFails(w)
             \/ HealthPasses(w) \/ HealthTimesOut(w)
      PROVE  Goal
  BY <1>1, <1>2, <1>6 DEF Build, BuildFails, KeepPort, PortFails, CreateFails, HealthPasses,
     HealthTimesOut, storeVars
<1>7. ASSUME MarkDeploying(w) \/ MarkLive(w) \/ FailDeployment(w)
      PROVE  Goal
  BY <1>1, <1>2, <1>7 DEF MarkDeploying, MarkLive, FailDeployment
<1>8. ASSUME AssignPort(w)
      PROVE  Goal
  BY <1>1, <1>2, <1>8, UpdatePortEffect DEF AssignPort, a
<1>9. ASSUME StopOld(w)
      PROVE  Goal
  <2>1. ctr' = StopContainer(c)
    BY <1>9, OutcomeCases DEF StopOld, c
  <2>2. \A i \in DeployIds : ctr'[i] = "none" <=> ctr[i] = "none"
    BY <1>1, <2>1 DEF StopContainer, CtrState
  <2>3. QED
    BY <1>1, <1>2, <1>9, <2>2 DEF StopOld
<1>10. ASSUME RemoveSameName(w)
       PROVE  Goal
  <2>1. ctr' = RemoveNamed(a)
    BY <1>10 DEF RemoveSameName, a
  <2>2. \A i \in DeployIds : ctr[i] = "none" => ctr'[i] = "none"
    BY <1>1, <2>1 DEF RemoveNamed
  <2>3. QED
    BY <1>1, <1>2, <1>10, <2>2 DEF RemoveSameName
<1>11. ASSUME CreateContainer(w)
       PROVE  Goal
  <2>1. ctr' = [ctr EXCEPT ![id] = "stopped"]
    BY <1>11 DEF CreateContainer, id
  <2>2. QED
    BY <1>1, <1>2, <1>11, <2>1 DEF CreateContainer
<1>12. ASSUME StartContainer(w)
       PROVE  Goal
  <2>1. ctr' = RestartContainer(id)
    BY <1>12 DEF StartContainer, id
  <2>2. \A i \in DeployIds : ctr[i] = "none" => ctr'[i] = "none"
    BY <1>1, <2>1 DEF RestartContainer
  <2>3. QED
    BY <1>1, <1>2, <1>12, <2>2 DEF StartContainer
<1>13. ASSUME StartFails(w) \/ RemoveNew(w)
       PROVE  Goal
  <2>1. ctr' = RemoveContainer(id)
    BY <1>13, OutcomeCases DEF StartFails, RemoveNew, id
  <2>2. ctr'[id] = "none" /\ \A i \in DeployIds : ctr[i] = "none" => ctr'[i] = "none"
    BY <1>1, <2>1 DEF RemoveContainer
  <2>3. QED
    BY <1>1, <1>2, <1>13, <2>2 DEF StartFails, RemoveNew
<1>14. ASSUME RestartOld(w) \/ BackToOld(w)
       PROVE  Goal
  <2>1. ctr' = RestartContainer(c)
    BY <1>14, OutcomeCases DEF RestartOld, BackToOld, c
  <2>2. \A i \in DeployIds : ctr[i] = "none" => ctr'[i] = "none"
    BY <1>1, <2>1 DEF RestartContainer
  <2>3. QED
    BY <1>1, <1>2, <1>14, <2>2 DEF RestartOld, BackToOld
<1>15. ASSUME RemoveOld(w)
       PROVE  Goal
  <2>1. ctr' = RemoveContainer(c)
    BY <1>15, OutcomeCases DEF RemoveOld, c
  <2>2. (c # 0 => ctr'[c] = "none") /\ \A i \in DeployIds : ctr[i] = "none" => ctr'[i] = "none"
    BY <1>1, <2>1 DEF RemoveContainer
  <2>3. QED
    BY <1>1, <1>2, <1>15, <2>2 DEF RemoveOld
<1>16. ASSUME Finalize(w)
       PROVE  Goal
  <2> DEFINE row == [job[w].snap EXCEPT !.status = "running", !.cid = job[w].id]
  <2>1. row.cid = id
    <3>1. job[w].snap \in Row
      BY DEF TypeInv, TypeOK, Job
    <3>2. QED
      BY <3>1 DEF Row, id
  <2>2. app' = UpdateRow(a, row)
    BY <1>16, OutcomeCases DEF Finalize, a
  <2> HIDE DEF row
  <2>3. app'[a].cid = id
    BY <1>1, <2>1, <2>2, UpdateRowEffect
  <2>4. QED
    BY <1>1, <1>2, <1>16, <2>3 DEF Finalize
<1> HIDE DEF Goal
<1>17. Goal
  BY <1>4, <1>5, <1>6, <1>7, <1>8, <1>9, <1>10, <1>11, <1>12, <1>13, <1>14, <1>15, <1>16 DEF Deploy
<1>18. QED
  BY <1>17 DEF Goal, a, c, id

LEMMA OrphanWork ==
    ASSUME DbFails = FALSE, DockerFails = FALSE, TypeInv, RowInv, LocksMatchDeploys, PipelineInv, OrphanInv,
           NEW w \in Workers, Deploy(w), pc[w] \in HasRowPC
    PROVE  OrphanInv'
<1> DEFINE a == job[w].app
           c == job[w].snap.cid
           id == job[w].id
<1>1. /\ id \in DeployIds /\ dep[id].app = a /\ a \in Apps /\ pc[w] \in LockedPC /\ WorkerInv(w) /\ BareInv
      /\ \A i \in DeployIds : dep[i].app # a => i # c /\ i # id
  <2>1. a \in Apps /\ pc[w] \in LockedPC
    BY DEF TypeInv, BusyHasApp, HasRowPC, LockedPC
  <2>2. QED
    BY <2>1 DEF RowInv, PipelineInv, OrphanInv, DeployIds
<1>2. /\ boot' = boot
      /\ \A i \in DeployIds : dep'[i].app = dep[i].app /\ dep'[i].boot = dep[i].boot
      /\ job'[w].app = a /\ job'[w].id = id /\ job'[w].snap.cid = c
  BY <1>1, WorkShape
<1>3. /\ \A b \in Apps : b # a => app'[b] = app[b]
      /\ \A i \in DeployIds : dep[i].app # a => ctr'[i] = ctr[i]
  BY WorkFrame
<1>4. /\ pc'[w] \in BarePC => ctr'[id] = "none"
      /\ pc'[w] = "final" /\ c # 0 => ctr'[c] = "none"
      /\ \A i \in DeployIds : ctr'[i] # "none" => ctr[i] # "none" \/ i = id
      /\ pc[w] \in OwningPC /\ pc'[w] \notin OwningPC => ctr'[id] = "none" \/ app'[a].cid = id
      /\ \/ app'[a].cid = app[a].cid
         \/ app[a].cid = c /\ pc'[w] = "live" /\ app'[a].cid = id /\ (c # 0 => ctr'[c] = "none")
  BY <1>1, WorkContainers
<1>5. \A v \in Workers \ {w} : pc'[v] = pc[v] /\ job'[v] = job[v]
  BY DeployShape
<1> HIDE DEF a, c, id
<1>6. BareInv'
  <2>1. ASSUME NEW i \in DeployIds, dep'[i].app \notin Apps PROVE ctr'[i] = "none"
    BY <1>1, <1>2, <1>3, <2>1 DEF BareInv
  <2>2. ASSUME NEW v \in Workers \ {w}
        PROVE  /\ pc'[v] \in BarePC => ctr'[job'[v].id] = "none"
               /\ pc'[v] = "final" /\ job'[v].snap.cid # 0 => ctr'[job'[v].snap.cid] = "none"
    <3>1. CASE pc[v] \in HasRowPC
      <4>1. pc[v] \in LockedPC
        BY <3>1 DEF HasRowPC
      <4>2. job[v].app # a
        BY <1>1, <4>1, RowsApart DEF a
      <4>3. job[v].id \in DeployIds /\ dep[job[v].id].app = job[v].app
            /\ (job[v].snap.cid # 0 => job[v].snap.cid \in DeployIds /\ dep[job[v].snap.cid].app = job[v].app)
        <5>1. job[v].snap.cid \in ContainerIds
          BY DEF TypeInv, TypeOK, Job, Row
        <5>2. job[v].snap.cid # 0 => job[v].snap.cid \in DeployIds
          BY <5>1, AppStoreAssumption DEF ContainerIds, DeployIds
        <5>3. QED
          BY <3>1, <5>2 DEF RowInv
      <4>4. QED
        BY <1>1, <1>3, <1>5, <4>2, <4>3 DEF BareInv
    <3>2. CASE pc[v] \notin HasRowPC
      BY <1>5, <3>2 DEF HasRowPC, LockedPC, BarePC
    <3>3. QED
      BY <3>1, <3>2
  <2>3. QED
    BY <1>2, <1>4, <2>1, <2>2 DEF BareInv
<1>7. NoOrphanContainer'
  <2>1. ASSUME NEW i \in DeployIds, ctr'[i] # "none"
        PROVE  \/ app'[dep'[i].app].cid = i
               \/ \E v \in Workers : Owns(v, i)'
               \/ dep'[i].boot < boot'
    <3>1. CASE dep[i].app # a
      <4>1. ctr[i] # "none" /\ dep[i].app \in Apps /\ i # id
        BY <1>1, <1>3, <2>1, <3>1 DEF BareInv
      <4>2. \A v \in Workers : Owns(v, i) => Owns(v, i)'
        BY <1>5, <4>1 DEF Owns, id
      <4>3. QED
        BY <1>2, <1>3, <3>1, <4>1, <4>2 DEF OrphanInv, NoOrphanContainer
    <3>2. CASE dep[i].app = a /\ i = id
      <4>1. CASE pc'[w] \in OwningPC
        BY <1>2, <3>2, <4>1 DEF Owns
      <4>2. CASE pc[w] \in OwningPC /\ pc'[w] \notin OwningPC
        BY <1>2, <1>4, <2>1, <3>2, <4>2
      <4>3. CASE pc[w] \notin OwningPC /\ pc'[w] \notin OwningPC
        <5>1. pc[w] = "failapp"
          BY <4>3 DEF HasRowPC, OwningPC, LockedPC
        <5>2. FailApp(w)
          BY <5>1 DEF Deploy, MarkBuilding, Build, BuildFails, MarkDeploying, KeepPort,
             AssignPort, PortFails, StopOld, RemoveSameName, CreateContainer, CreateFails,
             StartContainer, StartFails, RestartOld, HealthPasses, HealthTimesOut, RemoveOld,
             Finalize, MarkLive, RemoveNew, BackToOld, BackToOldRow, FailDeployment, Step,
             AcquireLock, SkipDuplicate, Load, LoadFails, Unlock
        <5>3. ctr'[i] = ctr[i]
          BY <5>2 DEF FailApp
        <5>4. ~Owns(w, i)
          BY <5>1 DEF Owns, OwningPC, LockedPC
        <5>5. app[a].cid = i \/ dep[i].boot < boot
          BY <1>1, <2>1, <3>2, <5>3, <5>4, ContainersOfApp DEF a
        <5>6. app'[a].cid = app[a].cid
          BY <1>4, <5>2 DEF FailApp, Step, Goto, TypeInv, TypeOK
        <5>7. QED
          BY <1>2, <3>2, <5>5, <5>6
      <4>4. QED
        BY <4>1, <4>2, <4>3
    <3>3. CASE dep[i].app = a /\ i # id
      <4>1. ctr[i] # "none" /\ ~Owns(w, i)
        BY <1>4, <2>1, <3>3 DEF Owns, id
      <4>2. app[a].cid = i \/ dep[i].boot < boot
        BY <1>1, <3>3, <4>1, ContainersOfApp DEF a
      <4>3. app[a].cid = i => app'[a].cid = i
        BY <1>4, <2>1 DEF DeployIds
      <4>4. QED
        BY <1>2, <3>3, <4>2, <4>3
    <3>4. QED
      BY <3>1, <3>2, <3>3
  <2>2. QED
    BY <2>1 DEF NoOrphanContainer
<1>8. QED
  BY <1>6, <1>7 DEF OrphanInv

\* A new deployment has no container yet.
LEMMA OrphanLoad ==
    ASSUME TypeInv, RowInv, OrphanInv, NEW w \in Workers, Load(w)
    PROVE  OrphanInv'
<1> DEFINE a == job[w].app
           id == made + 1
<1>1. /\ made' = id /\ id \in DeployIds /\ NoApp \notin Apps
      /\ dep[id] = NoDeploy /\ pc[w] = "load"
  <2>1. made \in Nat /\ made' = id /\ id \in DeployIds
    BY AppStoreAssumption DEF Load, TypeInv, TypeOK, StoreTypeOK, ContainerIds, DeployIds
  <2>2. dep[id] = NoDeploy
    BY <2>1 DEF RowInv
  <2>3. QED
    BY <2>1, <2>2, AppStoreAssumption DEF Load, Step
<1>2. /\ app' = app /\ ctr' = ctr /\ boot' = boot
      /\ \A i \in DeployIds : i # id => dep'[i] = dep[i]
  BY <1>1 DEF Load, CreateDeployment, outside, TypeInv, TypeOK, StoreTypeOK
<1>3. /\ pc'[w] = "mark" /\ job'[w].id = id
      /\ \A v \in Workers \ {w} : pc'[v] = pc[v] /\ job'[v] = job[v]
  BY <1>1 DEF Load, Step, Goto, TypeInv, TypeOK, Job
<1>4. ctr[id] = "none"
  BY <1>1 DEF OrphanInv, BareInv, NoDeploy
<1> HIDE DEF a, id
<1>5. BareInv'
  BY <1>2, <1>3, <1>4 DEF OrphanInv, BareInv
<1>6. NoOrphanContainer'
  <2>1. ASSUME NEW i \in DeployIds, NEW v \in Workers, Owns(v, i) PROVE Owns(v, i)'
    <3>1. v # w
      BY <1>1, <2>1 DEF Owns, OwningPC
    <3>2. QED
      BY <1>3, <2>1, <3>1 DEF Owns
  <2>2. ASSUME NEW i \in DeployIds, ctr'[i] # "none"
        PROVE  \/ app'[dep'[i].app].cid = i
               \/ \E v \in Workers : Owns(v, i)'
               \/ dep'[i].boot < boot'
    <3>1. i # id /\ dep'[i] = dep[i] /\ ctr[i] # "none"
      BY <1>2, <1>4, <2>2
    <3>2. QED
      BY <1>2, <2>1, <3>1 DEF OrphanInv, NoOrphanContainer
  <2>3. QED
    BY <2>2 DEF NoOrphanContainer
<1>7. QED
  BY <1>5, <1>6 DEF OrphanInv

LEMMA NextOrphans ==
    ASSUME DbFails = FALSE, DockerFails = FALSE, TypeInv, RowInv, LocksMatchDeploys, PipelineInv, OrphanInv,
           [Next]_vars
    PROVE  OrphanInv'
<1>1. \A w \in Workers : pc[w] \notin WorkingPC => pc[w] \in {"idle", "lock", "load"}
  BY DEF TypeInv, TypeOK, PC, WorkingPC
<1>2. ASSUME NEW a \in Apps, Enqueue(a)
      PROVE  OrphanInv'
  BY <1>1, <1>2, OrphanKept DEF Enqueue
<1>3. ASSUME NEW w \in Workers, Take(w) \/ AcquireLock(w) \/ SkipDuplicate(w) \/ LoadFails(w) \/ Unlock(w)
      PROVE  OrphanInv'
  <2>1. /\ \A v \in Workers \ {w} : pc'[v] = pc[v] /\ job'[v] = job[v]
        /\ pc[w] \notin OwningPC /\ pc'[w] \in {"idle", "lock", "load"}
    BY <1>3 DEF Take, AcquireLock, SkipDuplicate, LoadFails, Unlock, Step, Goto, TypeInv, TypeOK,
       LockedPC, OwningPC
  <2>2. app' = app /\ dep' = dep /\ ctr' = ctr /\ boot' = boot
    BY <1>3 DEF Take, AcquireLock, SkipDuplicate, LoadFails, Unlock, storeVars, outside
  <2>3. \A v \in Workers, i \in DeployIds : Owns(v, i) => Owns(v, i)'
    BY <2>1 DEF Owns
  <2>4. BareInv'
    BY <2>1, <2>2 DEF OrphanInv, BareInv, BarePC
  <2>5. NoOrphanContainer'
    BY <2>2, <2>3 DEF OrphanInv, NoOrphanContainer
  <2>6. QED
    BY <2>4, <2>5 DEF OrphanInv
<1>4. ASSUME NEW w \in Workers, Deploy(w)
      PROVE  OrphanInv'
  BY <1>3, <1>4, WhereDeployIs, OrphanWork, OrphanLoad
<1>5. ASSUME NEW i \in DeployIds, Age(i)
      PROVE  OrphanInv'
  <2>1. \A j \in DeployIds : dep'[j].app = dep[j].app /\ dep'[j].boot = dep[j].boot
    BY <1>5 DEF Age, TypeInv, TypeOK, StoreTypeOK, DeployRow
  <2>2. QED
    BY <1>1, <1>5, <2>1, OrphanKept DEF Age, outside
<1>6. CASE SweepApps
  <2>1. \A a \in Apps : app'[a].cid = app[a].cid
    BY <1>6, OutcomeCases, SweepEffect DEF SweepApps, TypeInv, TypeOK, StoreTypeOK
  <2>2. dep' = dep /\ ctr' = ctr /\ boot' = boot /\ pc' = pc /\ job' = job
    BY <1>6 DEF SweepApps
  <2>3. QED
    BY <1>1, <2>1, <2>2, OrphanKept
<1>7. CASE SweepRows
  <2>1. \A j \in DeployIds : dep[j] \in DeployRow
    BY DEF TypeInv, TypeOK, StoreTypeOK
  <2>2. \A j \in DeployIds : dep'[j] = dep[j] \/ dep'[j] = [dep[j] EXCEPT !.status = "failed"]
    BY <1>7, OutcomeCases DEF SweepRows, FailStaleRows
  <2>3. \A j \in DeployIds : dep'[j].app = dep[j].app /\ dep'[j].boot = dep[j].boot
    BY <2>1, <2>2 DEF DeployRow
  <2>4. app' = app /\ ctr' = ctr /\ boot' = boot /\ pc' = pc /\ job' = job
    BY <1>7 DEF SweepRows
  <2>5. QED
    BY <1>1, <2>3, <2>4, OrphanKept
<1>8. CASE Crash
  <2>1. app' = app /\ dep' = dep /\ ctr' = ctr /\ \A w \in Workers : pc'[w] = "idle"
    BY <1>8 DEF Crash, storeVars
  <2>2. \A i \in DeployIds : dep'[i].boot < boot'
    <3>1. boot \in Nat /\ boot' = boot + 1
      BY <1>8 DEF Crash, TypeInv, TypeOK
    <3>2. \A i \in DeployIds : dep[i].boot \in Nat /\ dep[i].boot <= boot
      BY DEF TypeInv, TypeOK, StoreTypeOK, DeployRow, RowInv
    <3>3. QED
      BY <2>1, <3>1, <3>2
  <2>3. BareInv'
    BY <2>1 DEF OrphanInv, BareInv, BarePC
  <2>4. NoOrphanContainer'
    BY <2>2 DEF NoOrphanContainer
  <2>5. QED
    BY <2>3, <2>4 DEF OrphanInv
<1>9. CASE UNCHANGED vars
  BY <1>1, <1>9, OrphanKept DEF vars
<1>10. QED
  BY <1>2, <1>3, <1>4, <1>5, <1>6, <1>7, <1>8, <1>9 DEF Next, Running

\* As long as neither the database nor Docker fails, every container that is there is
\* named by its app's row, is in the hands of a worker, or was left by an engine process
\* that crashed: whatever builds, starts and health checks fail, no way out of Deploy
\* leaves one behind.
THEOREM NothingOrphaned ==
    ASSUME DbFails = FALSE, DockerFails = FALSE
    PROVE  Spec => []NoOrphanContainer
<1>1. Init => OrphanInv
  BY DEF Init, StoreInit, OrphanInv, BareInv, NoOrphanContainer, BarePC
<1>2. TypeInv /\ LocksMatchDeploys /\ RowInv /\ PipelineInv /\ OrphanInv /\ [Next]_vars => OrphanInv'
  BY NextOrphans
<1>3. OrphanInv => NoOrphanContainer
  BY DEF OrphanInv
<1>4. QED
  BY <1>1, <1>2, <1>3, Invariants, PipelineHolds, PTL DEF Spec

-----------------------------------------------------------------------------
(* Every step of Deployer is a step of DeployLifecycle or leaves the mapped *)
(* state as it is.                                                          *)

\* What the induction of the earlier proofs gives in a state and its successor.
Known == TypeInv /\ LocksMatchDeploys /\ RowInv /\ PipelineInv

\* A step that changes no phase, no app of a deployment, no container_id and does
\* not start the engine anew is a stutter.
LEMMA Stutters ==
    ASSUME boot' = boot,
           \A i \in DeployIds : Phase(i)' = Phase(i) /\ dep'[i].app = dep[i].app,
           \A a \in Apps : app'[a].cid = app[a].cid
    PROVE  UNCHANGED Lifecycle!lifecycle
<1>1. phaseOf' = phaseOf /\ appOf' = appOf
  BY DEF phaseOf, appOf
<1>2. servedBy' = servedBy
  BY DEF servedBy
<1>3. QED
  BY <1>1, <1>2 DEF Lifecycle!lifecycle

\* Who owns what after a step of worker w, which moves no other worker.
LEMMA OwnersApart ==
    ASSUME NEW w \in Workers, \A v \in Workers \ {w} : pc'[v] = pc[v] /\ job'[v] = job[v],
           NEW i \in DeployIds, ~Owns(w, i), ~Owns(w, i)'
    PROVE  (\E v \in Workers : Owns(v, i))' <=> (\E v \in Workers : Owns(v, i))
<1>1. \A v \in Workers \ {w} : Owns(v, i)' <=> Owns(v, i)
  BY DEF Owns
<1>2. QED
  BY <1>1

-----------------------------------------------------------------------------
(* Steps of the abstract specification *)

LEMMA LoadBegins ==
    ASSUME Known, NEW w \in Workers, Load(w)
    PROVE  Lifecycle!LifecycleNext
<1>0. PICK a, n : a = job[w].app /\ n = made + 1
  OBVIOUS
<1>1. /\ dep \in [DeployIds -> DeployRow] /\ app \in [Apps -> Row] /\ made \in Nat /\ n \in DeployIds
      /\ a \in Apps /\ a # NoApp /\ pc \in [Workers -> PC] /\ job \in [Workers -> Job]
      /\ pc[w] = "load" /\ pc' = [pc EXCEPT ![w] = "mark"]
      /\ job' = [job EXCEPT ![w] = [@ EXCEPT !.snap = app[a], !.id = n]]
      /\ dep' = [dep EXCEPT ![n] = [app |-> a, status |-> "building", old |-> FALSE,
                                    boot |-> boot, swapped |-> FALSE]]
      /\ app' = app /\ boot' = boot
  BY <1>0, AppStoreAssumption DEF Load, Step, Goto, CreateDeployment, outside, Known, TypeInv, TypeOK,
     StoreTypeOK, BusyHasApp, DeployIds, ContainerIds
<1>2. job'[w].id = n /\ pc'[w] = "mark" /\ \A v \in Workers \ {w} : pc'[v] = pc[v] /\ job'[v] = job[v]
  BY <1>1 DEF Job
<1>3. \A i \in DeployIds : i >= n => dep[i].app = NoApp /\ \A v \in Workers : ~Owns(v, i)
  BY <1>0, <1>1 DEF Known, RowInv, NoDeploy, Owns, HasRowPC, OwningPC, DeployIds
<1>4. \A i \in DeployIds : ~Owns(w, i) /\ (Owns(w, i)' <=> i = n)
  BY <1>1, <1>2 DEF Owns, OwningPC, LockedPC
<1>5. /\ \A i \in DeployIds : i >= n => phaseOf[i] = "none"
      /\ phaseOf' = [phaseOf EXCEPT ![n] = "open"]
  <2>1. \A i \in DeployIds : i >= n => Phase(i) = "none"
    BY <1>3 DEF Phase
  <2>2. Phase(n)' = "open"
    <3>1. Owns(w, n)'
      BY <1>1, <1>4
    <3>2. QED
      BY <3>1 DEF Phase
  <2>3. \A i \in DeployIds : i # n => Phase(i)' = Phase(i)
    <3>1. SUFFICES ASSUME NEW i \in DeployIds, i # n
                   PROVE  Phase(i)' = Phase(i)
      OBVIOUS
    <3>2. (\E v \in Workers : Owns(v, i))' <=> (\E v \in Workers : Owns(v, i))
      BY <1>2, <1>4, <3>1, OwnersApart
    <3>3. dep'[i] = dep[i]
      BY <1>1, <3>1
    <3>4. QED
      BY <3>2, <3>3 DEF Phase
  <2>4. phaseOf' = [i \in DeployIds |-> Phase(i)']
    BY DEF phaseOf
  <2>5. [phaseOf EXCEPT ![n] = "open"] = [i \in DeployIds |-> Phase(i)']
    BY <2>2, <2>3 DEF phaseOf
  <2>6. QED
    BY <2>1, <2>4, <2>5 DEF phaseOf
<1>6. appOf' = [appOf EXCEPT ![n] = a]
  BY <1>1 DEF appOf
<1>7. servedBy' = servedBy
  BY <1>1 DEF servedBy
<1>8. Lifecycle!Open(a) = {}
  <2>1. SUFFICES ASSUME NEW i \in DeployIds, Phase(i) = "open", dep[i].app = a
                 PROVE  FALSE
    BY DEF Lifecycle!Open, Lifecycle!Ids, phaseOf, appOf, DeployIds
  <2>2. PICK v \in Workers : Owns(v, i)
    <3>1. dep[i].status \in Finished => dep[i].status # "open"
      BY DEF Finished
    <3>2. QED
      BY <2>1, <3>1 DEF Phase
  <2>3. job[v].app = a /\ pc[v] \in LockedPC /\ v # w
    BY <1>1, <2>1, <2>2 DEF Owns, Known, RowInv, HasRowPC, OwningPC, LockedPC
  <2>4. QED
    BY <1>0, <1>1, <2>3, RowsApart DEF Known, LockedPC
<1>9. Lifecycle!Begin(n, a)
  BY <1>1, <1>5, <1>6, <1>7, <1>8 DEF Lifecycle!Begin, Lifecycle!Ids, DeployIds
<1>10. QED
  BY <1>1, <1>9 DEF Lifecycle!LifecycleNext, Lifecycle!Ids, DeployIds

\* Deploy ends with failDeploy's write of the app row or with the live mark; only the
\* latter gives up a deployment of its own and goes straight to the unlock.
LEMMA LastSteps ==
    ASSUME NEW w \in Workers, Deploy(w), pc \in [Workers -> PC]
    PROVE  /\ pc[w] = "failapp" => FailApp(w)
           /\ pc[w] \in OwningPC /\ (pc[w] = "live" \/ pc'[w] = "unlock") => MarkLive(w)
<1> USE DEF Deploy, AcquireLock, SkipDuplicate, Load, LoadFails, MarkBuilding, Build, BuildFails,
        MarkDeploying, KeepPort, AssignPort, PortFails, StopOld, RemoveSameName, CreateContainer,
        CreateFails, StartContainer, StartFails, RestartOld, HealthPasses, HealthTimesOut,
        RemoveOld, Finalize, RemoveNew, BackToOld, BackToOldRow, FailDeployment, Unlock, Step
<1>1. pc[w] = "failapp" => FailApp(w)
  BY DEF MarkLive
<1>2. pc[w] \in OwningPC => ~FailApp(w)
  BY DEF FailApp, OwningPC
<1>3. pc[w] \in OwningPC /\ (pc[w] = "live" \/ pc'[w] = "unlock") => MarkLive(w)
  BY <1>2 DEF Goto, OwningPC, LockedPC
<1>4. QED
  BY <1>1, <1>3

\* A step of a worker with a row concludes its deployment, lets it take its app over,
\* or is a stutter.
LEMMA WorkMaps ==
    ASSUME DbFails = FALSE, Known, NEW w \in Workers, Deploy(w), pc[w] \in HasRowPC
    PROVE  Lifecycle!LifecycleNext \/ UNCHANGED Lifecycle!lifecycle
<1>0. PICK a, id, c : a = job[w].app /\ id = job[w].id /\ c = job[w].snap.cid
  OBVIOUS
<1>1. /\ TypeInv /\ RowInv /\ LocksMatchDeploys /\ WorkerInv(w)
      /\ id \in DeployIds /\ dep[id].app = a /\ a \in Apps /\ a # NoApp /\ c # id
      /\ pc[w] \in LockedPC /\ pc \in [Workers -> PC]
      /\ app \in [Apps -> Row] /\ dep \in [DeployIds -> DeployRow]
  <2>1. TypeInv /\ RowInv /\ LocksMatchDeploys /\ WorkerInv(w)
    BY DEF Known, PipelineInv
  <2>2. pc[w] \in LockedPC /\ a \in Apps /\ a # NoApp
    BY <1>0, <2>1, AppStoreAssumption DEF TypeInv, BusyHasApp, HasRowPC, LockedPC
  <2>3. id \in DeployIds /\ dep[id].app = a /\ c < id
    BY <1>0, <2>1 DEF RowInv
  <2>4. id \in Nat /\ c \in Nat
    BY <1>0, <2>1, AppStoreAssumption DEF TypeInv, TypeOK, Job, Row, ContainerIds
  <2>5. QED
    BY <2>1, <2>2, <2>3, <2>4 DEF TypeInv, TypeOK, StoreTypeOK
<1>2. /\ boot' = boot /\ \A i \in DeployIds : dep'[i].app = dep[i].app /\ (i # id => dep'[i] = dep[i])
      /\ job'[w].app = a /\ job'[w].id = id /\ job'[w].snap.cid = c
      /\ pc'[w] \in LockedPC \ {"load"}
  BY <1>0, <1>1, WorkShape
<1>3. /\ WorkerInv(w)'
      /\ \A b \in Apps : b # a => app'[b] = app[b]
      /\ \A v \in Workers \ {w} : pc'[v] = pc[v] /\ job'[v] = job[v]
  BY <1>0, <1>1, WorkVerdict, WorkFrame, DeployShape
<1>4. \A i \in DeployIds : i # id => Phase(i)' = Phase(i)
  <2>1. SUFFICES ASSUME NEW i \in DeployIds, i # id
                 PROVE  Phase(i)' = Phase(i)
    OBVIOUS
  <2>2. ~Owns(w, i) /\ ~Owns(w, i)'
    BY <1>0, <1>2, <2>1 DEF Owns
  <2>3. (\E v \in Workers : Owns(v, i))' <=> (\E v \in Workers : Owns(v, i))
    BY <1>3, <2>2, OwnersApart
  <2>4. QED
    BY <1>0, <1>2, <2>1, <2>3 DEF Phase
<1>5. \A v \in Workers \ {w} : ~Owns(v, id) /\ ~Owns(v, id)'
  <2>1. SUFFICES ASSUME NEW v \in Workers \ {w}, Owns(v, id)
                 PROVE  FALSE
    BY <1>3 DEF Owns
  <2>2. job[v].app = a /\ pc[v] \in LockedPC
    BY <1>0, <1>1, <2>1 DEF Owns, RowInv, HasRowPC, OwningPC
  <2>3. QED
    BY <1>0, <1>1, <2>2, RowsApart
<1>6. /\ (\E v \in Workers : Owns(v, id)) <=> pc[w] \in OwningPC
      /\ (\E v \in Workers : Owns(v, id))' <=> pc'[w] \in OwningPC
  BY <1>0, <1>2, <1>5 DEF Owns
<1>7. /\ pc[w] \in OwningPC => Phase(id) = "open"
      /\ pc'[w] \in OwningPC => Phase(id)' = "open"
      /\ pc[w] \notin OwningPC /\ dep[id].status \in Finished => Phase(id) = dep[id].status
      /\ pc'[w] \notin OwningPC /\ dep'[id].status \in Finished => Phase(id)' = dep'[id].status
  BY <1>0, <1>1, <1>2, <1>6 DEF Phase
<1>8. CASE pc[w] = "failapp"
  <2>1. FailApp(w)
    BY <1>1, <1>8, LastSteps
  <2>2. app' = UpdateStatus(a, "error", c) /\ dep' = dep /\ pc'[w] = "unlock"
    BY <1>0, <1>1, <2>1, OutcomeCases DEF FailApp, Step, Goto
  <2>3. app'[a].cid = c /\ app[a].cid = c
    BY <1>0, <1>1, <1>8, <2>2, UpdateStatusEffect DEF WorkerInv, HasRowPC, LockedPC
  <2>4. dep[id].status = "failed"
    BY <1>0, <1>1, <1>8 DEF WorkerInv
  <2>5. Phase(id)' = Phase(id)
    BY <1>7, <1>8, <2>2, <2>4 DEF OwningPC, Finished
  <2>6. QED
    BY <1>0, <1>2, <1>3, <1>4, <2>3, <2>5, Stutters
<1>9. ASSUME pc[w] \in OwningPC, pc'[w] \in OwningPC \cup {"failapp"}
      PROVE  app[a].cid = c
  <2>1. pc[w] # "live"
    <3>1. MarkLive(w) => pc'[w] = "unlock"
      BY <1>1 DEF MarkLive, Step, Goto
    <3>2. QED
      BY <1>0, <1>1, <1>9, <3>1, LastSteps DEF OwningPC
  <2>2. QED
    BY <1>0, <1>1, <1>9, <2>1 DEF WorkerInv, HasRowPC, OwningPC
<1>10. CASE pc[w] \in OwningPC /\ pc'[w] \in OwningPC \ {"live"}
  <2>1. app'[a].cid = c
    BY <1>0, <1>2, <1>3, <1>10 DEF WorkerInv, HasRowPC, OwningPC
  <2>2. QED
    BY <1>0, <1>2, <1>3, <1>4, <1>7, <1>9, <1>10, <2>1, Stutters
<1>11. CASE pc[w] \in OwningPC /\ pc'[w] = "live"
  <2>1. app'[a].cid = id
    BY <1>0, <1>2, <1>3, <1>11 DEF WorkerInv
  <2>2. pc'[w] \in OwningPC
    BY <1>11 DEF OwningPC, LockedPC
  <2>3. phaseOf' = phaseOf /\ appOf' = appOf
    BY <1>0, <1>2, <1>4, <1>7, <1>11, <2>2 DEF phaseOf, appOf
  <2>4. servedBy' = [servedBy EXCEPT ![appOf[id]] = id]
    BY <1>0, <1>1, <1>3, <2>1 DEF servedBy, appOf
  <2>5. Lifecycle!TakeOver(id)
    BY <1>0, <1>1, <1>2, <1>7, <1>11, <2>3, <2>4 DEF Lifecycle!TakeOver, phaseOf
  <2>6. QED
    BY <1>0, <1>1, <2>5 DEF Lifecycle!LifecycleNext, Lifecycle!Ids, DeployIds
<1>12. ASSUME pc[w] \in OwningPC, pc'[w] \in {"failapp", "unlock"}, app'[a].cid = app[a].cid,
              dep'[id].status = IF app[a].cid = id THEN "live" ELSE "failed"
       PROVE  Lifecycle!LifecycleNext
  <2>1. appOf' = appOf /\ servedBy' = servedBy
    BY <1>0, <1>2, <1>3, <1>12 DEF appOf, servedBy
  <2>2. Phase(id)' = IF app[a].cid = id THEN "live" ELSE "failed"
    BY <1>7, <1>12 DEF OwningPC, Finished
  <2>3. phaseOf' = [phaseOf EXCEPT ![id] = IF servedBy[appOf[id]] = id THEN "live" ELSE "failed"]
    <3>1. phaseOf' = [i \in DeployIds |-> Phase(i)']
      BY DEF phaseOf
    <3>2. servedBy[appOf[id]] = app[a].cid
      BY <1>0, <1>1 DEF servedBy, appOf
    <3>3. QED
      BY <1>0, <1>1, <1>4, <2>2, <3>1, <3>2 DEF phaseOf
  <2>4. phaseOf[id] = "open"
    BY <1>0, <1>1, <1>7, <1>12 DEF phaseOf
  <2>5. Lifecycle!Conclude(id)
    BY <1>0, <1>2, <2>1, <2>3, <2>4 DEF Lifecycle!Conclude
  <2>6. QED
    BY <1>0, <1>1, <2>5 DEF Lifecycle!LifecycleNext, Lifecycle!Ids, DeployIds
<1>13. CASE pc[w] \in OwningPC /\ pc'[w] = "failapp"
  <2>1. app'[a].cid = c /\ dep'[id].status = "failed"
    BY <1>0, <1>2, <1>3, <1>13 DEF WorkerInv, HasRowPC, LockedPC
  <2>2. QED
    BY <1>0, <1>1, <1>9, <1>12, <1>13, <2>1
<1>14. CASE pc[w] \in OwningPC /\ pc'[w] = "unlock"
  <2>1. pc[w] = "live" /\ app' = app /\ dep' = SetDeployStatus(id, "live")
    BY <1>0, <1>1, <1>14, LastSteps, OutcomeCases DEF MarkLive, Step
  <2>2. app[a].cid = id /\ dep'[id].status = "live"
    BY <1>0, <1>1, <2>1, DeploymentEffects DEF WorkerInv
  <2>3. QED
    BY <1>12, <1>14, <2>1, <2>2
<1>15. QED
  BY <1>0, <1>2, <1>8, <1>10, <1>11, <1>13, <1>14 DEF HasRowPC, OwningPC, LockedPC

-----------------------------------------------------------------------------
(* The steps around the pipeline *)

\* Queue, lock and clock steps: nobody begins or ends owning a deployment.
LEMMA SameOwners ==
    ASSUME boot' = boot,
           \A i \in DeployIds : dep'[i].app = dep[i].app /\ dep'[i].status = dep[i].status,
           \A a \in Apps : app'[a].cid = app[a].cid,
           \A w \in Workers : pc[w] \in OwningPC \/ pc'[w] \in OwningPC
                                 => pc'[w] = pc[w] /\ job'[w].id = job[w].id
    PROVE  UNCHANGED Lifecycle!lifecycle
<1>1. \A i \in DeployIds : (\E w \in Workers : Owns(w, i))' <=> (\E w \in Workers : Owns(w, i))
  BY DEF Owns
<1>2. \A i \in DeployIds : Phase(i)' = Phase(i)
  BY <1>1 DEF Phase
<1>3. QED
  BY <1>2, Stutters

LEMMA SweepSettles ==
    ASSUME Known, SweepRows
    PROVE  Lifecycle!LifecycleNext
<1> DEFINE S == {i \in DeployIds : Phase(i) = "orphan" /\ Phase(i)' = "failed"}
<1>1. /\ app' = app /\ boot' = boot /\ pc' = pc /\ job' = job
      /\ \A i \in DeployIds : dep[i] \in DeployRow /\ (dep[i].app # NoApp \/ dep[i].status = "none")
  BY AppStoreAssumption DEF Known, SweepRows, RowInv, NoDeploy, TypeInv, TypeOK, StoreTypeOK
<1>2. \A i \in DeployIds :
         \/ dep'[i] = dep[i]
         \/ dep[i].status = "building" /\ dep'[i] = [dep[i] EXCEPT !.status = "failed"]
  BY OutcomeCases DEF SweepRows, FailStaleRows, StaleRows
<1>3. \A i \in DeployIds : dep'[i].app = dep[i].app
  BY <1>1, <1>2 DEF DeployRow
<1>4. \A i \in DeployIds : (\E w \in Workers : Owns(w, i))' <=> (\E w \in Workers : Owns(w, i))
  BY <1>1 DEF Owns
<1>5. \A i \in DeployIds : Phase(i)' = Phase(i) \/ i \in S
  <2>1. SUFFICES ASSUME NEW i \in DeployIds, dep[i].status = "building",
                        dep'[i] = [dep[i] EXCEPT !.status = "failed"]
                 PROVE  Phase(i)' = Phase(i) \/ i \in S
    BY <1>2, <1>4 DEF Phase
  <2>2. dep'[i].status = "failed" /\ dep'[i].app = dep[i].app /\ dep[i].app # NoApp
    BY <1>1, <2>1 DEF DeployRow
  <2>3. QED
    BY <1>4, <2>1, <2>2 DEF Phase, Finished
<1>6. phaseOf' = [i \in DeployIds |-> IF i \in S THEN "failed" ELSE phaseOf[i]]
  <2>1. phaseOf' = [i \in DeployIds |-> Phase(i)']
    BY DEF phaseOf
  <2>2. QED
    BY <1>5, <2>1 DEF phaseOf
<1>7. appOf' = appOf /\ servedBy' = servedBy
  BY <1>1, <1>3 DEF appOf, servedBy
<1>8. S \in SUBSET {i \in DeployIds : phaseOf[i] = "orphan"}
  BY DEF phaseOf
<1>9. Lifecycle!Settle
  BY <1>1, <1>6, <1>7, <1>8 DEF Lifecycle!Settle, Lifecycle!Ids, DeployIds
<1>10. QED
  BY <1>9 DEF Lifecycle!LifecycleNext

LEMMA CrashDies ==
    ASSUME Known, Crash
    PROVE  Lifecycle!LifecycleNext
<1> DEFINE S == {i \in DeployIds : Phase(i)' = "failed"}
<1>1. /\ app' = app /\ dep' = dep /\ boot' = boot + 1
      /\ \A w \in Workers : pc'[w] = "idle"
  BY DEF Crash, storeVars
<1>2. \A i \in DeployIds, w \in Workers : ~Owns(w, i)'
  BY <1>1 DEF Owns, OwningPC, LockedPC
<1>3. ASSUME NEW i \in DeployIds
      PROVE  Phase(i)' = IF Phase(i) # "open" THEN Phase(i)
                         ELSE IF i \in S THEN "failed" ELSE "orphan"
  <2>1. CASE \E w \in Workers : Owns(w, i)
    <3>1. PICK w \in Workers : Owns(w, i)
      BY <2>1
    <3>2. pc[w] \in HasRowPC /\ job[w].id = i /\ WorkerInv(w)
      BY <3>1 DEF Owns, OwningPC, HasRowPC, Known, PipelineInv
    <3>3. dep[i].app # NoApp
      BY <3>2, AppStoreAssumption DEF Known, RowInv, TypeInv, BusyHasApp, HasRowPC, LockedPC
    <3>4. dep[i].status # "live"
      BY <3>1, <3>2 DEF WorkerInv, Owns
    <3>5. Phase(i) = "open"
      BY <2>1 DEF Phase
    <3>6. Phase(i)' \in {"failed", "orphan"}
      BY <1>1, <1>2, <3>3, <3>4 DEF Phase, Finished
    <3>7. QED
      BY <3>5, <3>6
  <2>2. CASE ~\E w \in Workers : Owns(w, i)
    BY <1>1, <1>2, <2>2 DEF Phase, Finished
  <2>3. QED
    BY <2>1, <2>2
<1>4. phaseOf' = [i \in DeployIds |-> IF phaseOf[i] # "open" THEN phaseOf[i]
                                      ELSE IF i \in S THEN "failed" ELSE "orphan"]
  <2>1. phaseOf' = [i \in DeployIds |-> Phase(i)']
    BY DEF phaseOf
  <2>2. \A i \in DeployIds : phaseOf[i] = Phase(i)
    BY DEF phaseOf
  <2> HIDE DEF S
  <2>3. QED
    BY <1>3, <2>1, <2>2
<1>5. appOf' = appOf /\ servedBy' = servedBy
  BY <1>1 DEF appOf, servedBy
<1>6. S \in SUBSET DeployIds
  OBVIOUS
<1>7. Lifecycle!Die
  BY <1>1, <1>4, <1>5, <1>6 DEF Lifecycle!Die, Lifecycle!Ids, DeployIds
<1>8. QED
  BY <1>7 DEF Lifecycle!LifecycleNext

LEMMA NextMaps ==
    ASSUME DbFails = FALSE, Known, [Next]_vars
    PROVE  Lifecycle!LifecycleNext \/ UNCHANGED Lifecycle!lifecycle
<1> USE DEF OwningPC, LockedPC
<1>1. ASSUME NEW a \in Apps, Enqueue(a)
      PROVE  UNCHANGED Lifecycle!lifecycle
  BY <1>1, SameOwners DEF Enqueue
<1>2. ASSUME NEW w \in Workers,
             Take(w) \/ AcquireLock(w) \/ SkipDuplicate(w) \/ LoadFails(w) \/ Unlock(w)
      PROVE  UNCHANGED Lifecycle!lifecycle
  <2>1. app' = app /\ dep' = dep /\ boot' = boot
    BY <1>2 DEF Take, AcquireLock, SkipDuplicate, LoadFails, Unlock, storeVars, outside
  <2>2. \A v \in Workers : pc[v] \in OwningPC \/ pc'[v] \in OwningPC
                              => pc'[v] = pc[v] /\ job'[v].id = job[v].id
    BY <1>2 DEF Take, AcquireLock, SkipDuplicate, LoadFails, Unlock, Step, Goto, Known, TypeInv,
       TypeOK
  <2>3. QED
    BY <2>1, <2>2, SameOwners
<1>3. ASSUME NEW w \in Workers, Deploy(w)
      PROVE  Lifecycle!LifecycleNext \/ UNCHANGED Lifecycle!lifecycle
  BY <1>2, <1>3, WhereDeployIs, LoadBegins, WorkMaps
<1>4. ASSUME NEW i \in DeployIds, Age(i)
      PROVE  UNCHANGED Lifecycle!lifecycle
  <2>1. \A j \in DeployIds : dep'[j].app = dep[j].app /\ dep'[j].status = dep[j].status
    BY <1>4 DEF Age, Known, TypeInv, TypeOK, StoreTypeOK, DeployRow
  <2>2. QED
    BY <1>4, <2>1, SameOwners DEF Age, outside
<1>5. CASE SweepApps
  <2>1. \A a \in Apps : app'[a].cid = app[a].cid
    BY <1>5, OutcomeCases, SweepEffect DEF SweepApps, Known, TypeInv, TypeOK, StoreTypeOK
  <2>2. QED
    BY <1>5, <2>1, SameOwners DEF SweepApps
<1>6. CASE SweepRows \/ Crash
  BY <1>6, SweepSettles, CrashDies
<1>7. CASE UNCHANGED vars
  BY <1>7, SameOwners DEF vars
<1>8. QED
  BY <1>1, <1>2, <1>3, <1>4, <1>5, <1>6, <1>7 DEF Next, Running

LEMMA InitMaps == Init => Lifecycle!LifecycleInit
<1> SUFFICES ASSUME Init
             PROVE  Lifecycle!LifecycleInit
  OBVIOUS
<1>1. /\ \A i \in DeployIds : dep[i].app = NoApp /\ \A w \in Workers : ~Owns(w, i)
      /\ \A a \in Apps : app[a].cid = 0
      /\ boot = 0
  BY DEF Init, StoreInit, NoDeploy, NewRow, Owns, OwningPC, LockedPC
<1>2. phaseOf = [i \in DeployIds |-> "none"]
  BY <1>1 DEF phaseOf, Phase
<1>3. appOf = [i \in DeployIds |-> NoApp] /\ servedBy = [a \in Apps |-> 0]
  BY <1>1 DEF appOf, servedBy
<1>4. QED
  BY <1>1, <1>2, <1>3 DEF Lifecycle!LifecycleInit, Lifecycle!Ids, DeployIds

\* As long as no database statement fails, the whole machinery of queue, locks, workers,
\* sweep and crashes does to deployments only what DeployLifecycle allows, whatever the
\* daemon refuses and wherever the engine dies.
THEOREM DeployerImplementsLifecycle ==
    ASSUME DbFails = FALSE
    PROVE  Spec => ImplementsLifecycle
<1>1. Known /\ [Next]_vars => [Lifecycle!LifecycleNext]_(Lifecycle!lifecycle)
  BY NextMaps
<1>2. QED
  BY <1>1, InitMaps, Invariants, PipelineHolds, PTL
     DEF Spec, Known, ImplementsLifecycle, Lifecycle!LifecycleSpec

-----------------------------------------------------------------------------
(* Together with the health checker and the owner's requests *)

\* What the other writers of a row hold keeps its types.
OthersTyped ==
    /\ batch \in SUBSET Listed
    /\ probe \in [app : Apps \cup {NoApp}, row : Row, outcome : Outcomes]
    /\ failures \in [Apps -> 0 .. unhealthyThreshold]
    /\ call \in [Clients -> Call]
    /\ calls \in 0 .. MaxCalls

\* A step that writes a row or drives a container beside the pipeline.
LEMMA TypesBeside ==
    ASSUME TypeInv, app' \in [Apps -> Row], ctr' \in [DeployIds -> CtrState],
           UNCHANGED <<dep, made, requests, queue, locks, pc, job, sweep, boot>>
    PROVE  TypeInv'
BY DEF TypeInv, TypeOK, BusyHasApp, StoreTypeOK

LEMMA NoProbeType == NoProbe \in [app : Apps \cup {NoApp}, row : Row, outcome : Outcomes]
<1>1. NewRow \in Row
  BY AppStoreAssumption DEF NewRow, Row, AppStatus, ContainerIds
<1>2. QED
  BY <1>1 DEF NoProbe, Outcomes

LEMMA NoCallType == NoCall \in Call /\ \A a \in Apps : Creating(a) \in Call
<1>1. NewRow \in Row
  BY AppStoreAssumption DEF NewRow, Row, AppStatus, ContainerIds
<1>2. QED
  BY <1>1 DEF NoCall, Creating, Call, CallPC, Ops

LEMMA CheckAllTypes ==
    ASSUME TypeInv, OthersTyped, CheckAll, UNCHANGED callVars
    PROVE  TypeInv' /\ OthersTyped'
<1>1. app \in [Apps -> Row] /\ ctr \in [DeployIds -> CtrState]
  BY DEF TypeInv, TypeOK, StoreTypeOK
<1>2. call' = call /\ calls' = calls
  BY DEF callVars
<1>3. CASE ListApps
  <2>1. batch' \in SUBSET Listed
    BY <1>1, <1>3 DEF ListApps, Listed
  <2>2. QED
    BY <1>1, <1>2, <1>3, <2>1, TypesBeside DEF ListApps, vars, OthersTyped
<1>4. ASSUME NEW e \in batch, CheckApp(e)
      PROVE  TypeInv' /\ OthersTyped'
  <2>1. e \in Listed
    BY DEF OthersTyped
  <2>2. PICK outcome \in {"healthy", "unhealthy"} : probe' = [app |-> e.app, row |-> e.row, outcome |-> outcome]
    BY <1>4 DEF CheckApp
  <2>3. probe' \in [app : Apps \cup {NoApp}, row : Row, outcome : Outcomes]
    BY <2>1, <2>2 DEF Listed, Outcomes
  <2>4. batch' \in SUBSET Listed
    BY <1>4 DEF CheckApp, OthersTyped
  <2>5. QED
    BY <1>1, <1>2, <1>4, <2>3, <2>4, TypesBeside DEF CheckApp, vars, OthersTyped
<1>5. CASE Recovered \/ Failed
  <2>1. probe' = NoProbe /\ batch' = batch
        /\ UNCHANGED <<dep, made, ctr, requests, queue, locks, pc, job, sweep, boot>>
    BY <1>5 DEF Recovered, Failed
  <2>2. failures' \in [Apps -> 0 .. unhealthyThreshold]
    <3>1. \A n \in 0 .. unhealthyThreshold : Count(n) \in 0 .. unhealthyThreshold
      BY DEF Count, unhealthyThreshold
    <3>2. 0 \in 0 .. unhealthyThreshold
      BY DEF unhealthyThreshold
    <3>3. failures \in [Apps -> 0 .. unhealthyThreshold]
      BY DEF OthersTyped
    <3>4. failures' = [failures EXCEPT ![probe.app] = 0]
          \/ failures' = [failures EXCEPT ![probe.app] = Count(failures[probe.app])]
      BY <1>5 DEF Recovered, Failed
    <3> HIDE DEF Count, unhealthyThreshold
    <3>5. QED
      BY <3>1, <3>2, <3>3, <3>4
  <2>3. app' \in [Apps -> Row]
    <3>1. probe.row.cid \in ContainerIds
      BY DEF OthersTyped, Row
    <3>2. "running" \in AppStatus /\ "error" \in AppStatus
      BY DEF AppStatus
    <3>3. app' = app \/ app' = UpdateStatus(probe.app, "running", probe.row.cid)
          \/ app' = UpdateStatus(probe.app, "error", probe.row.cid)
      BY <1>5, OutcomeCases DEF Recovered, Failed
    <3>4. \A s \in AppStatus : UpdateStatus(probe.app, s, probe.row.cid) \in [Apps -> Row]
      BY <1>1, <3>1, AppWrites
    <3>5. QED
      BY <1>1, <3>2, <3>3, <3>4
  <2>4. TypeInv'
    BY <1>1, <2>1, <2>3, TypesBeside
  <2>5. QED
    BY <1>2, <2>1, <2>2, <2>4, NoProbeType DEF OthersTyped
<1>6. QED
  BY <1>3, <1>4, <1>5 DEF CheckAll

LEMMA HandleTypes ==
    ASSUME TypeInv, OthersTyped, NEW c \in Clients, Handle(c), UNCHANGED healthVars
    PROVE  TypeInv' /\ OthersTyped'
<1>1. app \in [Apps -> Row] /\ ctr \in [DeployIds -> CtrState] /\ call \in [Clients -> Call]
  BY DEF TypeInv, TypeOK, StoreTypeOK, OthersTyped
<1>2. batch' = batch /\ probe' = probe /\ failures' = failures
  BY DEF healthVars
<1>3. PICK k \in Call : k = call[c]
  BY <1>1
<1>4. ASSUME NEW op \in Ops, NEW a \in Apps, ReadApp(c, op, a)
      PROVE  TypeInv' /\ OthersTyped'
  <2>1. app[a] \in Row /\ [app[a] EXCEPT !.cfg = app[a].cfg + 1] \in Row
    BY <1>1 DEF Row
  <2>2. PICK row \in Row, at \in {"docker", "write"} :
           call' = [call EXCEPT ![c] = [op |-> op, app |-> a, row |-> row, at |-> at]]
    BY <1>4, <2>1 DEF ReadApp
  <2>3. [op |-> op, app |-> a, row |-> row, at |-> at] \in Call
    BY DEF Call, CallPC
  <2>4. call' \in [Clients -> Call]
    BY <1>1, <2>2, <2>3
  <2>5. calls' \in 0 .. MaxCalls
    BY <1>4, HandlerAssumption DEF ReadApp, OthersTyped
  <2>6. TypeInv'
    BY <1>1, <1>4, TypesBeside DEF ReadApp, vars
  <2>7. QED
    BY <1>2, <2>4, <2>5, <2>6 DEF OthersTyped
<1>5. ASSUME Serve(c)
      PROVE  TypeInv' /\ OthersTyped'
  <2>1. calls' = calls /\ UNCHANGED <<dep, made, requests, queue, locks, pc, job, sweep, boot>>
    BY <1>5 DEF Serve, StopApp, RestartApp, WriteStatus, SaveSettings, SaveWebhook, besides
  <2>2. call' \in [Clients -> Call]
    <3>1. call' = [call EXCEPT ![c] = NoCall] \/ \E at \in CallPC : call' = [call EXCEPT ![c].at = at]
      BY <1>5 DEF Serve, StopApp, RestartApp, WriteStatus, SaveSettings, SaveWebhook, Ends, GoesTo, CallPC
    <3>2. \A at \in CallPC : [k EXCEPT !.at = at] \in Call
      BY DEF Call
    <3>3. QED
      BY <1>1, <1>3, <3>1, <3>2, NoCallType
  <2>3. ctr' \in [DeployIds -> CtrState]
    <3>1. ctr' = ctr \/ ctr' = StopContainer(k.row.cid) \/ ctr' = RestartContainer(k.row.cid)
      BY <1>3, <1>5 DEF Serve, StopApp, RestartApp, WriteStatus, SaveSettings, SaveWebhook
    <3>2. QED
      BY <1>1, <3>1 DEF StopContainer, RestartContainer, CtrState
  <2>4. app' \in [Apps -> Row]
    <3>1. CASE WriteStatus(c)
      <4>1. k.row.cid \in ContainerIds
        BY DEF Call, Row
      <4>2. NewStatus(c) \in AppStatus
        BY <1>3, <3>1 DEF WriteStatus, NewStatus, AppStatus, Call, Ops
      <4>3. app' = app \/ app' = UpdateStatus(k.app, NewStatus(c), k.row.cid)
        BY <1>3, <3>1, OutcomeCases DEF WriteStatus
      <4>4. \A s \in AppStatus : UpdateStatus(k.app, s, k.row.cid) \in [Apps -> Row]
        BY <1>1, <4>1, AppWrites
      <4>5. QED
        BY <1>1, <4>2, <4>3, <4>4
    <3>2. CASE SaveSettings(c) \/ SaveWebhook(c)
      <4>1. k.row \in Row
        BY DEF Call
      <4>2. app' = app \/ app' = UpdateRow(k.app, k.row)
        BY <1>3, <3>2 DEF SaveSettings, SaveWebhook
      <4>3. UpdateRow(k.app, k.row) \in [Apps -> Row]
        BY <1>1, <4>1, AppWrites
      <4>4. QED
        BY <1>1, <4>2, <4>3
    <3>3. CASE StopApp(c) \/ RestartApp(c)
      BY <1>1, <3>3 DEF StopApp, RestartApp
    <3>4. QED
      BY <1>5, <3>1, <3>2, <3>3 DEF Serve
  <2>5. TypeInv'
    BY <2>1, <2>3, <2>4, TypesBeside
  <2>6. QED
    BY <1>2, <2>1, <2>2, <2>5 DEF OthersTyped
<1>6. QED
  BY <1>4, <1>5 DEF Handle

\* Pipeline, health checker and requests write rows and containers of the right types
\* next to each other, in any order: a copy that one of them read is a row, whatever the
\* others have made of the app since.
THEOREM PlatformTyped == PlatformSpec => []PlatformTypeOK
<1>1. PlatformInit => TypeInv /\ OthersTyped
  <2> SUFFICES ASSUME PlatformInit PROVE TypeInv /\ OthersTyped
    OBVIOUS
  <2>1. batch \in SUBSET Listed /\ failures \in [Apps -> 0 .. unhealthyThreshold]
    BY DEF PlatformInit, HealthInit, unhealthyThreshold
  <2>2. call \in [Clients -> Call] /\ calls \in 0 .. MaxCalls
    BY NoCallType, HandlerAssumption DEF PlatformInit, HandlerInit
  <2>3. QED
    BY <2>1, <2>2, InitTypes, NoProbeType DEF PlatformInit, HealthInit, OthersTyped
<1>2. TypeInv /\ OthersTyped /\ [PlatformNext]_platformVars => TypeInv' /\ OthersTyped'
  <2> SUFFICES ASSUME TypeInv, OthersTyped, [PlatformNext]_platformVars PROVE TypeInv' /\ OthersTyped'
    OBVIOUS
  <2>1. CASE Running /\ UNCHANGED <<healthVars, callVars>>
    <3>1. TypeInv'
      BY <2>1, NextTypes DEF Next
    <3>2. QED
      BY <2>1, <3>1 DEF OthersTyped, healthVars, callVars
  <2>2. CASE CheckAll /\ UNCHANGED callVars
    BY <2>2, CheckAllTypes
  <2>3. ASSUME NEW c \in Clients, Handle(c), UNCHANGED healthVars
        PROVE  TypeInv' /\ OthersTyped'
    BY <2>3, HandleTypes
  <2>4. CASE Crash /\ HealthRestart /\ HandlersRestart
    <3>1. TypeInv'
      BY <2>4, NextTypes DEF Next
    <3>2. batch' \in SUBSET Listed /\ failures' \in [Apps -> 0 .. unhealthyThreshold]
      BY <2>4 DEF HealthRestart, unhealthyThreshold
    <3>3. call' \in [Clients -> Call] /\ calls' = calls
      BY <2>4, NoCallType DEF HandlersRestart
    <3>4. QED
      BY <2>4, <3>1, <3>2, <3>3, NoProbeType DEF HealthRestart, OthersTyped
  <2>5. CASE UNCHANGED platformVars
    <3>1. TypeInv'
      BY <2>5, NextTypes DEF platformVars
    <3>2. QED
      BY <2>5, <3>1 DEF platformVars, healthVars, callVars, OthersTyped
  <2>6. QED
    BY <2>1, <2>2, <2>3, <2>4, <2>5 DEF PlatformNext
<1>3. TypeInv /\ OthersTyped => PlatformTypeOK
  BY DEF TypeInv, OthersTyped, PlatformTypeOK
<1>4. QED
  BY <1>1, <1>2, <1>3, PTL DEF PlatformSpec
=============================================================================
