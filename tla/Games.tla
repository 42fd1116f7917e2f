------------------------------- MODULE Games --------------------------------
(***************************************************************************)
(* One game server app: its row, its configuration and the containers that *)
(* bear its name.  Start and restart requests, configuration changes, stop *)
(* and deletion run at once and take no lock; each works on the copy of    *)
(* the row it read at its beginning.  The health checker, alone of all,    *)
(* looks a game's container up by its name.                                *)
(***************************************************************************)
EXTENDS Requests

CONSTANTS
    MaxContainers,  \* bound on the containers ever created
    MaxPorts,       \* bound on the web ports ever allocated
    MaxConfigs,     \* bound on the configurations saved
    MaxJobs         \* bound on the requests begun

ASSUME GamesAssumption ==
    /\ MaxContainers \in Nat /\ MaxPorts \in Nat /\ MaxConfigs \in Nat /\ MaxJobs \in Nat

VARIABLES
    game,      \* the row of apps
    config,    \* the configuration in game_server_configs, by its number
    cont,      \* cont[i]: the container with id i
    ports,     \* how many ports PortManager gave out for the app
    gjob,      \* gjob[c]: what client c's request is doing
    watch,     \* the health checker: the row it listed, failed checks in a row
    jobs,      \* how many requests were begun
    mixed,     \* history: since the last start that ran alone, requests overlapped or
               \* the engine died in one
    unapplied  \* history: a configuration was saved that no start has put in force yet

gameVars == <<game, config, cont, ports, gjob, watch, jobs, mixed, unapplied, crashes>>

Cids == 0 .. MaxContainers                      \* 0: none
GameStatus == {"stopped", "running", "error"}
GameRow == [there : BOOLEAN, status : GameStatus, cid : Cids, port : 0 .. MaxPorts]
\* absent: not created yet, or removed.
Container == [state : {"absent", "created", "running", "exited", "stopped"},
              env : 0 .. MaxConfigs, port : 0 .. MaxPorts]
GamePlaces == {"idle", "restart", "save", "port", "remove", "create", "start", "status", "again",
               "stop", "down", "delete"}
WatchPlaces == {"idle", "resolve", "probe", "write"}
unhealthyThreshold == 2   \* 3 in the code

NewGame == [there |-> TRUE, status |-> "stopped", cid |-> 0, port |-> 0]
AtRest == [at |-> "idle", row |-> NewGame, env |-> 0, cid |-> 0, status |-> "running",
           again |-> FALSE, alone |-> FALSE]
Unwatched(n) == [at |-> "idle", row |-> NewGame, found |-> 0, verdict |-> "running", failures |-> n]

GamesInit ==
    /\ game = NewGame
    /\ config = 0
    /\ cont = [i \in 1 .. MaxContainers |-> [state |-> "absent", env |-> 0, port |-> 0]]
    /\ ports = 0 /\ jobs = 0
    /\ gjob = [c \in Clients |-> AtRest]
    /\ watch = Unwatched(0)
    /\ mixed = FALSE /\ unapplied = FALSE
    /\ RequestsInit

\* All containers of the app bear one name: at most one of them exists.
Named == {i \in 1 .. MaxContainers : cont[i].state # "absent"}
IsUp(i) == i # 0 /\ cont[i].state = "running"
Resting == \A c \in Clients : gjob[c].at = "idle"
Goes(c, at) == gjob' = [gjob EXCEPT ![c].at = at]
Finishes(c) == gjob' = [gjob EXCEPT ![c] = AtRest]

\* Docker's answer to a command may be an error whatever became of the container.
Fumbles(i, outcomes) ==
    \E s \in outcomes : cont' = [n \in DOMAIN cont |->
        IF n = i /\ n \in Named THEN [cont[n] EXCEPT !.state = s] ELSE cont[n]]
AsItWas(i) == IF i = 0 THEN "absent" ELSE cont[i].state

\* A request begins by reading the row and the configuration.
Begins(c, at) ==
    /\ gjob[c].at = "idle" /\ game.there /\ jobs < MaxJobs
    /\ jobs' = jobs + 1
    /\ mixed' = (mixed \/ ~Resting)
    /\ gjob' = [d \in Clients |->
                   IF d = c THEN [AtRest EXCEPT !.at = at, !.row = game, !.env = config, !.alone = Resting]
                            ELSE [gjob[d] EXCEPT !.alone = FALSE]]
-----------------------------------------------------------------------------
\* AppHandler.Deploy of a game app
DeployGame(c) ==
    /\ Begins(c, "port")
    /\ UNCHANGED <<game, config, cont, ports, watch, unapplied, crashes>>

\* GameServerHandler.UpdateConfig, which reads the row, saves the configuration, ...
UpdateConfig(c) ==
    /\ Begins(c, "save")
    /\ UNCHANGED <<game, config, cont, ports, watch, unapplied, crashes>>

\* Slip: the game is started with the configuration that was loaded.
SaveConfigLate(c) ==
    /\ gjob[c].at = "save" /\ config < MaxConfigs
    /\ config' = config + 1
    /\ unapplied' = (unapplied \/ gjob[c].row.status # "running")
    /\ IF gjob[c].row.status = "running" THEN Goes(c, "port") ELSE Finishes(c)
    /\ UNCHANGED <<game, cont, ports, watch, jobs, mixed, crashes>>

\* ... and starts the game anew if the row it read said running.
SaveConfig(c) ==
    /\ gjob[c].at = "save" /\ config < MaxConfigs
    /\ config' = config + 1
    /\ unapplied' = (unapplied \/ gjob[c].row.status # "running")
    /\ IF gjob[c].row.status = "running"
       THEN gjob' = [gjob EXCEPT ![c].at = "port", ![c].env = config + 1]
       ELSE Finishes(c)
    /\ UNCHANGED <<game, cont, ports, watch, jobs, mixed, crashes>>

SaveConfigFails(c) ==
    /\ gjob[c].at = "save"
    /\ Finishes(c)
    /\ UNCHANGED <<game, config, cont, ports, watch, jobs, mixed, unapplied, crashes>>

\* Start fails: the row is to get error and the container id that was read; what was
\* to be put in force is not.
StartError(c) ==
    /\ gjob' = [gjob EXCEPT ![c].at = "status", ![c].status = "error",
                            ![c].cid = gjob[c].row.cid, ![c].again = FALSE]
    /\ unapplied' = TRUE

\* AppHandler.Restart restarts the container; ...
Restart(c) ==
    /\ Begins(c, "restart")
    /\ UNCHANGED <<game, config, cont, ports, watch, unapplied, crashes>>

RestartContainer(c) ==
    /\ gjob[c].at = "restart"
    /\ LET i == gjob[c].row.cid
       IN  /\ i \in Named
           /\ Fumbles(i, {"running"})
           /\ gjob' = [gjob EXCEPT ![c].at = "status", ![c].cid = i]
    /\ UNCHANGED <<game, config, ports, watch, jobs, mixed, unapplied, crashes>>

\* ... when Docker reports an error, whether the container is there or not, it is made
\* anew by Start with the configuration of now, and the status is written twice, ...
RestartAnew(c) ==
    /\ gjob[c].at = "restart"
    /\ Fumbles(gjob[c].row.cid, {AsItWas(gjob[c].row.cid), "stopped", "running"})
    /\ gjob' = [gjob EXCEPT ![c].at = "port", ![c].again = TRUE, ![c].env = config]
    /\ UNCHANGED <<game, config, ports, watch, jobs, mixed, unapplied, crashes>>

\* ... unless the configuration cannot be read.
RestartFails(c) ==
    /\ gjob[c].at = "restart"
    /\ Fumbles(gjob[c].row.cid, {AsItWas(gjob[c].row.cid), "stopped", "running"})
    /\ StartError(c)
    /\ UNCHANGED <<game, config, ports, watch, jobs, mixed, crashes>>
-----------------------------------------------------------------------------
\* gamePorts: an app without a web port gets one, which is saved in its row.
GamePort(c) ==
    /\ gjob[c].at = "port"
    /\ IF gjob[c].row.port # 0
       THEN Goes(c, "remove") /\ UNCHANGED <<game, ports>>
       ELSE /\ ports < MaxPorts
            /\ ports' = ports + 1
            /\ game' = IF game.there THEN [game EXCEPT !.port = ports + 1] ELSE game
            /\ gjob' = [gjob EXCEPT ![c].at = "remove", ![c].row.port = ports + 1]
    /\ UNCHANGED <<config, cont, watch, jobs, mixed, unapplied, crashes>>

\* No port is free, or a statement fails.
GamePortFails(c) ==
    /\ gjob[c].at = "port" /\ gjob[c].row.port = 0
    /\ StartError(c)
    /\ UNCHANGED <<game, config, cont, ports, watch, jobs, mixed, crashes>>

\* Stop and remove whatever has the name; both errors are ignored, so it may still be
\* there, stopped or as it was.
RemoveNamed(c) ==
    /\ gjob[c].at = "remove"
    /\ IF Named = {} THEN cont' = cont
       ELSE \E i \in Named : Fumbles(i, {"absent", "stopped", cont[i].state})
    /\ Goes(c, "create")
    /\ UNCHANGED <<game, config, ports, watch, jobs, mixed, unapplied, crashes>>

Fresh == {i \in 1 .. MaxContainers : cont[i].state = "absent" /\ cont[i].env = 0 /\ cont[i].port = 0}

CreateGame(c) ==
    /\ gjob[c].at = "create" /\ Named = {}
    /\ \E i \in 1 .. MaxContainers :
           /\ \A n \in 1 .. MaxContainers : n < i <=> n \notin Fresh
           /\ cont' = [cont EXCEPT ![i] = [state |-> "created", env |-> gjob[c].env,
                                           port |-> gjob[c].row.port]]
           /\ gjob' = [gjob EXCEPT ![c].at = "start", ![c].cid = i]
    /\ UNCHANGED <<game, config, ports, watch, jobs, mixed, unapplied, crashes>>

\* The name is taken, or the daemon refuses.
CreateGameFails(c) ==
    /\ gjob[c].at = "create"
    /\ StartError(c)
    /\ UNCHANGED <<game, config, cont, ports, watch, jobs, mixed, crashes>>

StartGame(c) ==
    /\ gjob[c].at = "start" /\ gjob[c].cid \in Named
    /\ cont' = [cont EXCEPT ![gjob[c].cid].state = "running"]
    /\ mixed' = (mixed /\ ~gjob[c].alone)
    /\ unapplied' = (unapplied /\ gjob[c].env # config)
    /\ Goes(c, "status")
    /\ UNCHANGED <<game, config, ports, watch, jobs, crashes>>

\* The container that does not start is removed, if Docker does as it is told.
StartGameFails(c) ==
    /\ gjob[c].at = "start"
    /\ Fumbles(gjob[c].cid, {"absent", AsItWas(gjob[c].cid), "running"})
    /\ StartError(c)
    /\ UNCHANGED <<game, config, ports, watch, jobs, mixed, crashes>>

\* UpdateStatus, whose error all of them ignore
Updated(status, i) == IF game.there THEN [game EXCEPT !.status = status, !.cid = i] ELSE game
Stored(status, i) == game' \in {game, Updated(status, i)}

\* UpdateStatus at the end of a start.
WriteGameStatus(c) ==
    /\ gjob[c].at = "status"
    /\ Stored(gjob[c].status, gjob[c].cid)
    /\ IF gjob[c].again THEN Goes(c, "again") ELSE Finishes(c)
    /\ UNCHANGED <<config, cont, ports, watch, jobs, mixed, unapplied, crashes>>

\* Restart's last statement, also after a new container was made: running, with the
\* id it read at its beginning.
WriteOldId(c) ==
    /\ gjob[c].at = "again"
    /\ Stored("running", gjob[c].row.cid)
    /\ Finishes(c)
    /\ UNCHANGED <<config, cont, ports, watch, jobs, mixed, unapplied, crashes>>
-----------------------------------------------------------------------------
\* AppHandler.Stop
StopGame(c) ==
    /\ Begins(c, "stop")
    /\ UNCHANGED <<game, config, cont, ports, watch, unapplied, crashes>>

StopContainer(c) ==
    /\ gjob[c].at = "stop"
    /\ gjob[c].row.cid \in {0} \cup Named
    /\ Fumbles(gjob[c].row.cid, {"stopped"})
    /\ Goes(c, "down")
    /\ UNCHANGED <<game, config, ports, watch, jobs, mixed, unapplied, crashes>>

\* A container that is gone or that Docker does not stop: the row stays.
StopFails(c) ==
    /\ gjob[c].at = "stop" /\ gjob[c].row.cid # 0
    /\ Fumbles(gjob[c].row.cid, {AsItWas(gjob[c].row.cid), "stopped"})
    /\ Finishes(c)
    /\ UNCHANGED <<game, config, ports, watch, jobs, mixed, unapplied, crashes>>

WriteStopped(c) ==
    /\ gjob[c].at = "down"
    /\ Stored("stopped", gjob[c].row.cid)
    /\ Finishes(c)
    /\ UNCHANGED <<config, cont, ports, watch, jobs, mixed, unapplied, crashes>>

\* AppHandler.Delete: the container with the id that was read, whose errors are
\* ignored; later the row.
DeleteGame(c) ==
    /\ Begins(c, "delete")
    /\ Fumbles(game.cid, {"absent", AsItWas(game.cid), "stopped"})
    /\ UNCHANGED <<game, config, ports, watch, unapplied, crashes>>

DeleteGameRow(c) ==
    /\ gjob[c].at = "delete"
    /\ game' \in {game, [game EXCEPT !.there = FALSE]}
    /\ Finishes(c)
    /\ UNCHANGED <<config, cont, ports, watch, jobs, mixed, unapplied, crashes>>
-----------------------------------------------------------------------------
\* CheckAll lists the row of a game that is running or in error, ...
ListGame ==
    /\ watch.at = "idle" /\ game.there /\ game.status # "stopped"
    /\ watch' = [watch EXCEPT !.at = "resolve", !.row = game]
    /\ UNCHANGED <<game, config, cont, ports, gjob, jobs, mixed, unapplied, crashes>>

\* resolveRunningContainer: by the id that was listed, then by the app's name.
Resolved == IF IsUp(watch.row.cid) THEN watch.row.cid
            ELSE IF \E i \in Named : IsUp(i) THEN CHOOSE i \in Named : IsUp(i) ELSE 0

\* ... finds the container, ...
ResolveGame ==
    /\ watch.at = "resolve"
    /\ watch' = [watch EXCEPT !.at = "probe", !.found = Resolved]
    /\ UNCHANGED <<game, config, cont, ports, gjob, jobs, mixed, unapplied, crashes>>

\* Slip: an app that is not in error is left alone.
HealsErrorOnly(i) == watch.row.status = "error"

Heals(i) == watch.row.status = "error" \/ i # watch.row.cid

\* ... inspects it and dials its ports, ...
GameAnswers ==
    /\ watch.at = "probe" /\ IsUp(watch.found)
    /\ watch' = IF Heals(watch.found)
                THEN [watch EXCEPT !.at = "write", !.verdict = "running", !.failures = 0]
                ELSE Unwatched(0)
    /\ UNCHANGED <<game, config, cont, ports, gjob, jobs, mixed, unapplied, crashes>>

\* ... counts the checks in a row that failed, ...
CountsFailure ==
    LET n == IF watch.failures < unhealthyThreshold THEN watch.failures + 1 ELSE watch.failures
    IN  watch' = IF watch.row.status = "running" /\ n >= unhealthyThreshold
                 THEN [watch EXCEPT !.at = "write", !.verdict = "error", !.failures = n]
                 ELSE Unwatched(n)

GameDown ==
    /\ watch.at = "probe" /\ ~IsUp(watch.found)
    /\ CountsFailure
    /\ UNCHANGED <<game, config, cont, ports, gjob, jobs, mixed, unapplied, crashes>>

\* game_port_unreachable: it is up, but no port answers, or Docker does not.
GameUnheard ==
    /\ watch.at = "probe" /\ IsUp(watch.found)
    /\ CountsFailure
    /\ UNCHANGED <<game, config, cont, ports, gjob, jobs, mixed, unapplied, crashes>>

VerdictId == IF watch.verdict = "running" THEN watch.found ELSE watch.row.cid

\* ... and writes its verdict: running with the container it found, or error with the
\* id that was listed.
WriteVerdict ==
    /\ watch.at = "write"
    /\ Stored(watch.verdict, VerdictId)
    /\ watch' = Unwatched(watch.failures)
    /\ UNCHANGED <<config, cont, ports, gjob, jobs, mixed, unapplied, crashes>>

\* A verdict that would have changed the row, and was not written.
VerdictLost == WriteVerdict /\ Updated(watch.verdict, VerdictId) # game /\ game' = game

\* The game server ends by itself (its ends are bounded with the crashes); Docker
\* starts it again (unless-stopped).
ExitGame(i) ==
    /\ IsUp(i) /\ EngineDies
    /\ cont' = [cont EXCEPT ![i].state = "exited"]
    /\ UNCHANGED <<game, config, ports, gjob, watch, jobs, mixed, unapplied>>

Revive(i) ==
    /\ cont[i].state = "exited"
    /\ cont' = [cont EXCEPT ![i].state = "running"]
    /\ UNCHANGED <<game, config, ports, gjob, watch, jobs, mixed, unapplied, crashes>>

\* The engine dies; containers go on.
GamesCrash ==
    /\ EngineDies
    /\ mixed' = (mixed \/ ~Resting)
    /\ gjob' = [c \in Clients |-> AtRest]
    /\ watch' = Unwatched(0)
    /\ UNCHANGED <<game, config, cont, ports, jobs, unapplied>>

GameWorks(c) ==
    \/ SaveConfig(c) \/ SaveConfigFails(c)
    \/ RestartContainer(c) \/ RestartAnew(c) \/ RestartFails(c)
    \/ GamePort(c) \/ GamePortFails(c) \/ RemoveNamed(c) \/ CreateGame(c) \/ CreateGameFails(c)
    \/ StartGame(c) \/ StartGameFails(c) \/ WriteGameStatus(c) \/ WriteOldId(c)
    \/ StopContainer(c) \/ StopFails(c) \/ WriteStopped(c) \/ DeleteGameRow(c)

Checks == ListGame \/ ResolveGame \/ GameAnswers \/ GameDown \/ GameUnheard \/ WriteVerdict
Revives == \E i \in 1 .. MaxContainers : Revive(i)

GamesNext ==
    \/ \E c \in Clients : DeployGame(c) \/ UpdateConfig(c) \/ Restart(c) \/ StopGame(c) \/ DeleteGame(c)
    \/ \E c \in Clients : GameWorks(c)
    \/ Checks \/ Revives
    \/ (\E i \in 1 .. MaxContainers : ExitGame(i)) \/ GamesCrash

\* A request that was begun goes on, the health ticker fires, Docker restarts.
GamesFairness ==
    /\ \A c \in Clients : WF_gameVars(GameWorks(c))
    /\ WF_gameVars(Checks) /\ WF_gameVars(Revives)

GamesSpec == GamesInit /\ [][GamesNext]_gameVars /\ GamesFairness
-----------------------------------------------------------------------------
GamesTypeOK ==
    /\ game \in GameRow
    /\ config \in 0 .. MaxConfigs
    /\ cont \in [1 .. MaxContainers -> Container]
    /\ ports \in 0 .. MaxPorts /\ jobs \in 0 .. MaxJobs
    /\ gjob \in [Clients -> [at : GamePlaces, row : GameRow, env : 0 .. MaxConfigs, cid : Cids,
                             status : GameStatus, again : BOOLEAN, alone : BOOLEAN]]
    /\ watch \in [at : WatchPlaces, row : GameRow, found : Cids, verdict : {"running", "error"},
                  failures : 0 .. unhealthyThreshold]
    /\ mixed \in BOOLEAN /\ unapplied \in BOOLEAN

\* A game that is up when no request is at work publishes the web port its row (and
\* the router) has and runs the configuration that was saved last, whatever Docker and
\* the database refused: from the first start on that ran alone, until requests overlap
\* again; the configuration, until one is saved that is not started.
GameIsAsConfigured ==
    Resting /\ ~mixed /\ game.there /\ game.status = "running" =>
        \A i \in Named : IsUp(i) => /\ cont[i].port = game.port
                                    /\ unapplied \/ cont[i].env = config

\* Whatever starts, restarts, crashes and stale writes raced: the health checker
\* finds the container by its name, and in the end a row that says running names
\* the one that is up and a row that says error has none, unless the game does not
\* answer, or its verdict is not written, again and again.
GameRowConverges ==
    \/ <>[](game.there => /\ game.status = "running" => IsUp(game.cid)
                          /\ game.status = "error" => \A i \in Named : ~IsUp(i))
    \/ []<><<GameUnheard>>_gameVars
    \/ []<><<VerdictLost>>_gameVars
=============================================================================
