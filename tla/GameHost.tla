------------------------------- MODULE GameHost -------------------------------
(***************************************************************************)
(* luxview-games, the companion that runs game servers outside the engine. *)
(* What it knows of its servers is a JSON file, read anew by each request  *)
(* and written back whole; the limits of their containers must fit in what *)
(* the host has left; the settings of the built-in server are a file too,  *)
(* put in force by a restart some time after the answer.                   *)
(***************************************************************************)
EXTENDS Requests, FiniteSetsExt, Functions

CONSTANTS
    ServerIds,     \* names of servers, normalized
    HostPorts,     \* a range of ports
    CPUs,          \* limits a request may ask for
    HostCPU,       \* what platform, apps and the built-in server leave
    OtherCPU,      \* what apps and the built-in server have
    Legacy,        \* the servers in the file of the companion's former name
    MaxSaves,      \* bound on the settings saved
    MaxServers     \* bound on the servers asked for

ASSUME GameHostAssumption ==
    /\ IsFiniteSet(ServerIds) /\ CPUs \subseteq Nat \ {0} /\ HostPorts \subseteq Nat
    /\ HostCPU \in Nat /\ OtherCPU \in Nat /\ MaxSaves \in Nat /\ MaxServers \in Nat

Templates == {"vrising", "custom"}
\* A container's name tells template and id; a record of the registry is one name.
Server == [id : ServerIds, template : Templates]

ASSUME LegacyAssumption == Legacy \subseteq Server /\ \A r, s \in Legacy : r.id = s.id => r = s

VARIABLES
    file,        \* the registry: is it there, was it cut off, its records
    box,         \* box[s]: the container of s, the limit and the port it was made with
    creating,    \* creating[c]: what client c's request is doing
    sessions,    \* clients that are logged in
    saved,       \* the settings file: is it empty, else which save it has and whether
                 \* the end of a longer one follows it
    saves,       \* how many saves were begun
    inForce,     \* what the built-in server read when it was last started
    restarts,    \* restarts that sleep their 300 ms
    unsure,      \* history: the last restart failed, or died with the companion
    crossed,     \* history: the save begun last was not alone, or died with the companion
    asks,        \* how many servers were asked for
    beside       \* history: the limits let through since a request was let through alone
                 \* and by a whole count

hostVars == <<file, box, creating, sessions, saved, saves, inForce, restarts, unsure, crossed,
              asks, beside, crashes>>

Absent == [state |-> "none", cpu |-> 0, port |-> 0]
NoCreate == [at |-> "idle", server |-> [id |-> "", template |-> "custom"], cpu |-> 0, port |-> 0, seen |-> {}, save |-> 0]
HostPlaces == {"idle", "capacity", "create", "start", "append", "truncate", "write", "config"}

\* loadRegistry: a file that does not decode is an empty one, and only one that is
\* not there gives way to the former.
Listed ==
    IF ~file.there THEN Legacy
    ELSE IF file.torn THEN {} ELSE file.servers

\* portConfig: V Rising also publishes the query port, the next one.
PortsOf(s, port) == IF s.template = "vrising" THEN {port, port + 1} ELSE {port}
Running == {s \in Server : box[s].state = "running"}
Started == {"running", "stopped"}               \* the states of a container that was started
Published == UNION {PortsOf(s, box[s].port) : s \in Running}

\* Listed servers count with the limits of their containers.
Counted == {s \in Listed : box[s].state # "none"}
Allocated == SumFunctionOnSet([s \in Server |-> box[s].cpu], Counted)

\* getInfraStatus: servers whose container cannot be inspected, and apps that cannot
\* be listed, are taken to have nothing.
FreeCPU(seen, missed) ==
    LET used == SumFunctionOnSet([s \in Server |-> box[s].cpu], seen)
    IN  IF HostCPU + missed > used THEN HostCPU + missed - used ELSE 0

\* The servers taken over run, on ports of their own, and fit in the host.
HostInit ==
    /\ file = [there |-> FALSE, torn |-> FALSE, servers |-> {}]
    /\ box \in {[s \in Server |-> IF s \in Legacy THEN [state |-> "running", cpu |-> cpu[s], port |-> port[s]]
                                  ELSE Absent] : cpu \in [Legacy -> CPUs], port \in [Legacy -> HostPorts]}
    /\ \A r, s \in Legacy : r # s => PortsOf(r, box[r].port) \cap PortsOf(s, box[s].port) = {}
    /\ Allocated <= HostCPU
    /\ creating = [c \in Clients |-> NoCreate]
    /\ sessions = {} /\ asks = 0 /\ beside = 0
    /\ saved = [torn |-> FALSE, version |-> 0, tail |-> FALSE] /\ saves = 0
    /\ inForce = [version |-> 0, tail |-> FALSE] /\ restarts = 0 /\ unsure = FALSE /\ crossed = FALSE
    /\ RequestsInit

Goes(c, at) == creating' = [creating EXCEPT ![c].at = at]
Answers(c) == creating' = [creating EXCEPT ![c] = NoCreate]
ConfigStill == UNCHANGED <<saved, saves, inForce, restarts, unsure, crossed>>
-----------------------------------------------------------------------------
Login(c) ==
    /\ c \notin sessions
    /\ sessions' = sessions \cup {c}
    /\ UNCHANGED <<file, box, creating, asks, beside, crashes>> /\ ConfigStill

\* A logout, or eight hours.
EndSession(c) ==
    /\ c \in sessions
    /\ sessions' = sessions \ {c}
    /\ UNCHANGED <<file, box, creating, asks, beside, crashes>> /\ ConfigStill

\* createManagedServer: the id is free, by the registry as it reads now, and the
\* ports are ports.
CreateManagedServer(c, s, n, p) ==
    /\ creating[c].at = "idle" /\ c \in sessions /\ asks < MaxServers
    /\ s.id \notin {r.id : r \in Listed}
    /\ PortsOf(s, p) \subseteq HostPorts
    /\ creating' = [creating EXCEPT ![c] = [at |-> "capacity", server |-> s, cpu |-> n, port |-> p, seen |-> {}, save |-> 0]]
    /\ asks' = asks + 1
    /\ UNCHANGED <<file, box, sessions, beside, crashes>> /\ ConfigStill

\* A request that was let through and has not answered yet.
UnderWay(c) == creating[c].at \in {"create", "start", "append", "truncate", "write"}

ValidateInfraCapacity(c) ==
    /\ creating[c].at = "capacity"
    /\ \E seen \in SUBSET Counted, missed \in {0, OtherCPU} :
           /\ creating[c].cpu <= FreeCPU(seen, missed) /\ Goes(c, "create")
           /\ beside' = IF seen # Counted \/ missed # 0 \/ \E d \in Clients : UnderWay(d)
                        THEN beside + creating[c].cpu ELSE 0
    /\ UNCHANGED <<file, box, sessions, asks, crashes>> /\ ConfigStill

\* There is no room, or Docker does not tell what the host has.
RefuseCapacity(c) ==
    /\ creating[c].at = "capacity"
    /\ Answers(c)
    /\ UNCHANGED <<file, box, sessions, asks, beside, crashes>> /\ ConfigStill

\* ContainerCreate; a name that is taken, or an image that cannot be pulled, ends the request.
CreateBoxOf(c) ==
    LET r == creating[c] IN
    /\ r.at = "create" /\ box[r.server].state = "none"
    /\ box' = [box EXCEPT ![r.server] = [state |-> "created", cpu |-> r.cpu, port |-> r.port]]
    /\ Goes(c, "start")
    /\ UNCHANGED <<file, sessions, asks, beside, crashes>> /\ ConfigStill

CreateBoxFails(c) ==
    /\ creating[c].at = "create"
    /\ Answers(c)
    /\ UNCHANGED <<file, box, sessions, asks, beside, crashes>> /\ ConfigStill

\* ContainerStart: Docker refuses a port that is published; the container stays behind.
StartBoxOf(c) ==
    LET r == creating[c] IN
    /\ r.at = "start" /\ PortsOf(r.server, r.port) \cap Published = {}
    /\ box' = [box EXCEPT ![r.server].state = "running"]
    /\ Goes(c, "append")
    /\ UNCHANGED <<file, sessions, asks, beside, crashes>> /\ ConfigStill

StartBoxFails(c) ==
    /\ creating[c].at = "start"
    /\ Answers(c)
    /\ UNCHANGED <<file, box, sessions, asks, beside, crashes>> /\ ConfigStill

\* appendServerRecord reads the registry again and looks for id and container name.
\* Slip: createManagedServer has looked already.
NotAgain(s) == TRUE
NotListed(s) == \A r \in Listed : r.id # s.id

AppendServerRecord(c) ==
    LET r == creating[c] IN
    /\ r.at = "append"
    /\ IF NotListed(r.server)
       THEN creating' = [creating EXCEPT ![c].at = "truncate", ![c].seen = Listed]
       ELSE Answers(c)
    /\ UNCHANGED <<file, box, sessions, asks, beside, crashes>> /\ ConfigStill

\* saveRegistry: os.WriteFile opens with O_TRUNC and then writes.
TruncateRegistry(c) ==
    /\ creating[c].at = "truncate"
    /\ file' = [there |-> TRUE, torn |-> TRUE, servers |-> {}]
    /\ Goes(c, "write")
    /\ UNCHANGED <<box, sessions, asks, beside, crashes>> /\ ConfigStill

WriteRegistry(c) ==
    LET r == creating[c] IN
    /\ r.at = "write"
    /\ file' = [there |-> TRUE, torn |-> FALSE, servers |-> r.seen \cup {r.server}]
    /\ Answers(c)
    /\ UNCHANGED <<box, sessions, asks, beside, crashes>> /\ ConfigStill
-----------------------------------------------------------------------------
\* apiRestartHandler for a listed server, and apiSetConfigHandler, which saves nothing
\* for it.  Docker stops the container and starts it; either may fail, and
\* the ports may be others' by then.
RestartListed(c, s) ==
    /\ creating[c].at = "idle" /\ c \in sessions /\ s \in Listed
    /\ \/ box' = [box EXCEPT ![s].state = "stopped"]
       \/ /\ PortsOf(s, box[s].port) \cap UNION {PortsOf(r, box[r].port) : r \in Running \ {s}} = {}
          /\ box' = [box EXCEPT ![s].state = "running"]
    /\ UNCHANGED <<file, creating, sessions, asks, beside, crashes>> /\ ConfigStill
-----------------------------------------------------------------------------
\* apiSetConfigHandler for the built-in server: saveConfig opens with O_TRUNC and
\* writes, and a goroutine restarts the server.
BeginSave(c) ==
    /\ creating[c].at = "idle" /\ c \in sessions /\ saves < MaxSaves
    /\ saved' = [saved EXCEPT !.torn = TRUE, !.tail = FALSE]
    /\ saves' = saves + 1
    /\ creating' = [creating EXCEPT ![c].at = "config", ![c].save = saves + 1]
    /\ crossed' = (\E d \in Clients : creating[d].at = "config")
    /\ UNCHANGED <<file, box, sessions, inForce, restarts, unsure, asks, beside, crashes>>

\* What another save wrote since the last O_TRUNC is written over from its start; if
\* it was longer its end stays.
Saves(c) ==
    \E tail \in BOOLEAN :
        /\ tail => ~saved.torn
        /\ saved' = [torn |-> FALSE, version |-> creating[c].save, tail |-> tail]

\* Slip: a restart that is still asleep does for this save as well.
EndSaveOnce(c) ==
    /\ creating[c].at = "config"
    /\ Saves(c)
    /\ restarts' = IF saves > creating[c].save THEN restarts ELSE restarts + 1
    /\ Answers(c)
    /\ UNCHANGED <<file, box, sessions, saves, inForce, unsure, crossed, asks, beside, crashes>>

EndSave(c) ==
    /\ creating[c].at = "config"
    /\ Saves(c)
    /\ restarts' = restarts + 1
    /\ Answers(c)
    /\ UNCHANGED <<file, box, sessions, saves, inForce, unsure, crossed, asks, beside, crashes>>

\* The server's entrypoint sources the file; an empty one leaves it its defaults.
Content == [version |-> IF saved.torn THEN 0 ELSE saved.version, tail |-> saved.tail]

Restarts == \/ inForce' = Content /\ unsure' = FALSE
            \/ inForce' = inForce /\ unsure' = TRUE

\* The goroutine: its error is dropped.
RestartLater ==
    /\ restarts > 0 /\ restarts' = restarts - 1
    /\ Restarts
    /\ UNCHANGED <<file, box, creating, sessions, saved, saves, crossed, asks, beside, crashes>>

ApiRestart(c) ==
    /\ creating[c].at = "idle" /\ c \in sessions
    /\ Restarts
    /\ UNCHANGED <<file, box, creating, sessions, saved, saves, restarts, crossed, asks, beside, crashes>>

\* The companion dies: requests, sessions and sleeping goroutines go, the files stay.
CompanionDies ==
    /\ EngineDies
    /\ creating' = [c \in Clients |-> NoCreate]
    /\ sessions' = {} /\ restarts' = 0
    /\ LET dies == \E c \in Clients : creating[c].at = "config" IN
       /\ unsure' = (unsure \/ restarts > 0 \/ dies)
       /\ crossed' = (crossed \/ dies)
    /\ UNCHANGED <<file, box, saved, saves, inForce, asks, beside>>

Registers(c) ==
    \/ \E s \in Server, n \in CPUs, p \in HostPorts : CreateManagedServer(c, s, n, p)
    \/ ValidateInfraCapacity(c) \/ RefuseCapacity(c)
    \/ CreateBoxOf(c) \/ CreateBoxFails(c) \/ StartBoxOf(c) \/ StartBoxFails(c)
    \/ AppendServerRecord(c) \/ TruncateRegistry(c) \/ WriteRegistry(c)
    \/ \E s \in Server : RestartListed(c, s)

Configures(c) == BeginSave(c) \/ EndSave(c) \/ ApiRestart(c)

HostNext ==
    \/ \E c \in Clients : Login(c) \/ EndSession(c) \/ Registers(c) \/ Configures(c)
    \/ RestartLater \/ CompanionDies

HostSpec == HostInit /\ [][HostNext]_hostVars
-----------------------------------------------------------------------------
HostTypeOK ==
    /\ file.servers \subseteq Server
    /\ \A s \in Server : box[s] \in [state : {"none", "created", "running", "stopped"}, cpu : CPUs \cup {0}, port : HostPorts \cup {0}]
    /\ \A c \in Clients : creating[c].at \in HostPlaces /\ creating[c].seen \subseteq Server
    /\ sessions \subseteq Clients /\ restarts \in 0 .. MaxSaves /\ asks \in 0 .. MaxServers
    /\ beside \in Nat /\ saves \in 0 .. MaxSaves /\ saved.version \in 0 .. saves /\ inForce.version \in 0 .. saves

\* Each request looks for its id and for room in a registry that others rewrite, cut
\* off or bring back meanwhile.  Even so no id is listed twice, what is listed has
\* its container, and the listed servers overrun the host by no more than what was
\* let through beside requests under way or while Docker kept some from being
\* counted: one request after the other, of a Docker that answers, never does.
RegistryIsSound ==
    /\ \A r, s \in Listed : r.id = s.id => r = s
    /\ \A s \in Listed : box[s].state \in Started
    /\ Allocated <= HostCPU + beside

\* Saves overlap and write over each other, and restarts come late and read what is
\* there then.  Once all of it is done the server runs with what the file has, unless
\* its last restart failed or died; and the file has the settings that were saved
\* last, whole, if that save was begun when the others were done, whatever those left.
SettingsInForce ==
    (restarts = 0 /\ \A c \in Clients : creating[c].at # "config") =>
        /\ unsure \/ inForce = Content
        /\ crossed \/ Content = [version |-> saves, tail |-> FALSE]
=============================================================================
