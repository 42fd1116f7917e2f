------------------------------- MODULE MCForge -------------------------------
(***************************************************************************)
(* Action runs, the mirrors of a repository and one game server.  They     *)
(* share nothing but the engine they run in; a behaviour exercises one of  *)
(* them, the focus, chosen at the start.                                   *)
(***************************************************************************)
EXTENDS ActionRuns, Mirrors, Games, TLC

CONSTANTS
    Foci,          \* those that are exercised
    Hosting        \* of which kind the app's repository may be

VARIABLE focus

forge == <<ciVars, mirrorVars, gameVars, focus>>
Symmetry == Permutations(Clients) \cup Permutations(ActionWorkers)

\* One job makes the artifact that the other one fetches.
MCScript == [j \in Jobs |-> IF j = "build" THEN <<"upload">> ELSE <<"download">>]

Init == /\ ActionsInit /\ MirrorsInit /\ GamesInit
        /\ focus \in Foci
        /\ hosted \in Hosting

ActionsStill == UNCHANGED <<hosted, tip, event, run, job, artifact, exec, queue, asked, tested, lost>>
MirrorsStill == UNCHANGED <<refs, marked, remote, sync, backupMu, excused>>
GamesStill == UNCHANGED <<game, config, cont, ports, gjob, watch, jobs, mixed, unapplied>>

Next ==
    /\ focus' = focus
    /\ \/ focus = "actions" /\ ActionsNext /\ MirrorsStill /\ GamesStill
       \/ focus = "mirrors" /\ MirrorsNext /\ ActionsStill /\ GamesStill
       \/ focus = "games" /\ GamesNext /\ ActionsStill /\ MirrorsStill

SafetySpec == Init /\ [][Next]_forge
Spec == SafetySpec /\ ActionsFairness /\ MirrorsFairness /\ GamesFairness

ForgeTypeOK == ActionsTypeOK /\ MirrorsTypeOK /\ GamesTypeOK
=============================================================================
