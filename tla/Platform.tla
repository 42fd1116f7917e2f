------------------------------ MODULE Platform ------------------------------
(***************************************************************************)
(* The three writers of an app row together: the deploy pipeline, the      *)
(* health check worker and the owner's request handlers, which share the   *)
(* tables and the Docker daemon and no lock.                               *)
(***************************************************************************)
EXTENDS HealthChecker, AppHandler

platformVars == <<vars, healthVars, callVars>>

PlatformInit == Init /\ HealthInit /\ HandlerInit

PlatformNext ==
    \/ Running /\ UNCHANGED <<healthVars, callVars>>
    \/ CheckAll /\ UNCHANGED callVars
    \/ (\E c \in Clients : Handle(c)) /\ UNCHANGED healthVars
    \/ Crash /\ HealthRestart /\ HandlersRestart

PlatformSpec == PlatformInit /\ [][PlatformNext]_platformVars

\* As in Deployer; besides, the health ticker fires and a request once made is served.
PlatformFairness ==
    /\ \A w \in Workers : WF_platformVars((Take(w) \/ Deploy(w)) /\ UNCHANGED <<healthVars, callVars>>)
    /\ \A i \in DeployIds : WF_platformVars(Age(i) /\ UNCHANGED <<healthVars, callVars>>)
    /\ WF_platformVars(SweepApps /\ UNCHANGED <<healthVars, callVars>>)
    /\ WF_platformVars(SweepRows /\ UNCHANGED <<healthVars, callVars>>)
    /\ WF_platformVars(CheckAll /\ UNCHANGED callVars)
    /\ \A c \in Clients : WF_platformVars(Serve(c) /\ UNCHANGED healthVars)

FairPlatformSpec == PlatformSpec /\ PlatformFairness
-----------------------------------------------------------------------------
PlatformTypeOK ==
    /\ TypeOK
    /\ batch \in SUBSET Listed
    /\ probe \in [app : Apps \cup {NoApp}, row : Row, outcome : Outcomes]
    /\ failures \in [Apps -> 0 .. unhealthyThreshold]
    /\ call \in [Clients -> Call]
    /\ calls \in 0 .. MaxCalls

\* However stale the rows that are written back, the health checker repairs what
\* they say: in the end a row that says running names a container that is up and
\* one that says error does not (for apps that answer whenever they are up).
StatusConverges ==
    \A a \in Apps : <>[](/\ app[a].status = "running" => Up(app[a])
                         /\ app[a].status = "error" => ~Up(app[a]))

\* deploying-apps.md: environment variables are "injected into your container on
\* every deploy".  A setting that was saved is not taken back by a later write.
SettingsKept == [][\A a \in Apps : app'[a].cfg >= app[a].cfg]_platformVars
=============================================================================
