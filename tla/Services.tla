------------------------------ MODULE Services ------------------------------
(***************************************************************************)
(* The managed services of an app: rows of app_services and, behind each,  *)
(* what the Provisioner made on a shared server.  Requests of several      *)
(* clients run at once and without a lock; what a request made on a server *)
(* and what it writes to the table are steps apart, either may fail, and   *)
(* the engine may die between them.                                        *)
(*                                                                         *)
(* A password is named by the number of the request that generated it.     *)
(***************************************************************************)
EXTENDS Requests

CONSTANTS
    Apps,          \* apps that exist at the start
    NoApp,         \* the app of no request
    GameApps,      \* those whose template keeps a MySQL of its own
    Types,         \* the service types offered
    MaxServices,   \* Plan.MaxServicesPerApp
    RedisDBs,      \* databases of the shared Redis (16 in the code)
    MaxRequests,   \* bound on the requests
    MaxLate        \* bound on the commands that go on unattended at once

\* CREATE USER and CREATE USER IF NOT EXISTS leave a user that exists as it is;
\* Mongo's dropUser and createUser, and RabbitMQ's PUT, replace it.
CreatesOnce == {"postgres", "mysql"}
Overwrites == {"mongodb", "rabbitmq"}
\* A command on one of these servers goes on when the request that sent it gives up:
\* killing the client of `docker exec` does not end the command in the container.
Remote == CreatesOnce \cup Overwrites

ASSUME ServicesAssumption ==
    /\ NoApp \notin Apps
    /\ GameApps \subseteq Apps
    /\ Types \subseteq CreatesOnce \cup Overwrites \cup {"redis", "storage"}
    /\ IsFiniteSet(Apps) /\ IsFiniteSet(Types)
    /\ MaxServices \in Nat \ {0} /\ MaxRequests \in Nat
    /\ RedisDBs \in Nat \ {0} /\ MaxLate \in Nat

VARIABLES
    apps,      \* the apps that are not deleted
    svc,       \* svc[a][t]: the row of app a and type t, NoRow if there is none
    server,    \* server[a][t]: the password that opens what was made for it, 0: nothing there
    late,      \* commands on the servers that nobody waits for any more
    seq,       \* how many requests there were
    req,       \* req[c]: what client c's request is doing
    crossed    \* history: the <<app, type>> that two requests worked on at once, or a
               \* request and a command that went on unattended

svcVars == <<apps, svc, server, late, seq, req, crossed, crashes>>

\* counted: the request looked at the plan's limit (history).
NoRow == [id |-> 0, key |-> 0, embedded |-> FALSE, counted |-> FALSE]
Row == [id : 0 .. MaxRequests, key : Nat, embedded : BOOLEAN, counted : BOOLEAN]
\* key 0: the command removes what is there.
Command == [app : Apps, type : Types, key : 0 .. MaxRequests]

\* row: the row an insert writes; todo: the rows a removal has read; whole: the
\* removal is that of the app.
Places == {"idle", "make", "insert", "remove"}
NoTodo == [t \in Types |-> NoRow]
Idle == [at |-> "idle", app |-> NoApp, type |-> "none", row |-> NoRow, dropped |-> FALSE,
         todo |-> NoTodo, whole |-> FALSE]
Asked(a, t, at, row) == [Idle EXCEPT !.at = at, !.app = a, !.type = t, !.row = row]

ServicesInit ==
    /\ apps = Apps
    /\ svc = [a \in Apps |-> [t \in Types |-> NoRow]]
    /\ server = [a \in Apps |-> [t \in Types |-> 0]]
    /\ late = {}
    /\ seq = 0
    /\ req = [c \in Clients |-> Idle]
    /\ crossed = {}
    /\ RequestsInit

Busy(c) == req[c].at # "idle"
Exists(a, t) == svc[a][t].id # 0
Owned(a) == {t \in Types : Exists(a, t) /\ svc[a][t].counted}

\* What the request of c is about.
Subject(c) ==
    IF ~Busy(c) THEN {}
    ELSE IF req[c].at = "remove" THEN {<<req[c].app, t>> : t \in {u \in Types : req[c].todo[u].id # 0}}
    ELSE {<<req[c].app, req[c].type>>}
GoingOn == {<<l.app, l.type>> : l \in late}
Crossing(S) ==
    crossed' = crossed \cup {p \in S : p \in GoingOn \/ \E c \in Clients : p \in Subject(c)}

Ends(c) == req' = [req EXCEPT ![c] = Idle]

\* One of the commands S goes on unattended, or none does.
GoUnattended(S) ==
    \/ late' = late
    \/ Cardinality(late) < MaxLate /\ \E l \in S : late' = late \cup {l}

\* What the request of c has a server do: make what it asked for, or remove something.
Making(c) ==
    {l \in Command : /\ req[c].at = "make" /\ l.type \in Remote
                     /\ l.app = req[c].app /\ l.type = req[c].type /\ l.key = req[c].row.key}
Dropping(c) ==
    {l \in Command : /\ req[c].at = "remove" /\ ~req[c].dropped /\ l.type \in Remote
                     /\ l.app = req[c].app /\ l.key = 0
                     /\ req[c].todo[l.type].id # 0 /\ ~req[c].todo[l.type].embedded}
-----------------------------------------------------------------------------
\* ServiceHandler.Create: the plan's limit on the rows the app has.  The error of the
\* listing is ignored, and there are no rows then.
UnderPlanLimit(a, listed) == ~listed \/ Cardinality({t \in Types : Exists(a, t)}) < MaxServices

\* Create and the beginning of Provision: app found, limit not reached, no such
\* service yet; the password is generated.
Provision(c, a, t) ==
    /\ ~Busy(c) /\ a \in apps /\ seq < MaxRequests
    /\ ~Exists(a, t)
    /\ seq' = seq + 1
    /\ \E listed \in BOOLEAN :
           /\ UnderPlanLimit(a, listed)
           /\ req' = [req EXCEPT ![c] = Asked(a, t, "make", [id |-> seq + 1, key |-> seq + 1,
                                                          embedded |-> FALSE, counted |-> listed])]
    /\ Crossing({<<a, t>>})
    /\ UNCHANGED <<apps, svc, server, late, crashes>>

\* Slip: a user that exists is dropped and made again for these servers too.
AlwaysReplaced(t, old, key) == key

\* Slip: a user that exists is left as it is on these servers too.
NeverReplaced(t, old, key) == IF t # "redis" /\ old = 0 THEN key ELSE old

\* The user and database of type t with password key, where old was there before.
Made(t, old, key) ==
    CASE t \in Overwrites -> key
      [] t \in CreatesOnce \cup {"storage"} -> IF old = 0 THEN key ELSE old
      [] OTHER -> old

RedisCount == Cardinality({a \in apps : "redis" \in Types /\ Exists(a, "redis")})

\* provisionPostgres, -MongoDB, -RabbitMQ, -MySQL, -Storage; for Redis the number
\* of its database, where the error of the count is ignored.
Make(c) ==
    /\ req[c].at = "make"
    /\ LET a == req[c].app
           t == req[c].type
       IN  /\ server' = [server EXCEPT ![a][t] = Made(t, @, req[c].row.key)]
           /\ req' = [req EXCEPT ![c].at = "insert",
                                 ![c].row.key = IF t = "redis" THEN RedisCount % RedisDBs ELSE @]
    /\ UNCHANGED <<apps, svc, late, seq, crossed, crashes>>

RedisUncounted(c) ==
    /\ req[c].at = "make" /\ req[c].type = "redis"
    /\ req' = [req EXCEPT ![c].at = "insert", ![c].row.key = 0]
    /\ UNCHANGED <<apps, svc, server, late, seq, crossed, crashes>>

\* An error or a timeout of the server: nothing is made, or the command goes on.
MakeFails(c) ==
    /\ req[c].at = "make" /\ req[c].type # "redis"
    /\ GoUnattended(Making(c))
    /\ Ends(c)
    /\ UNCHANGED <<apps, svc, server, seq, crossed, crashes>>

\* Such a command does its work, at once or much later.
GoesOn(l) ==
    /\ l \in late
    /\ late' = late \ {l}
    /\ server' = [server EXCEPT ![l.app][l.type] = IF l.key = 0 THEN 0 ELSE Made(l.type, @, l.key)]
    /\ UNCHANGED <<apps, svc, seq, req, crossed, crashes>>

\* ensureGameDB and RegisterExisting: listing the services of a game app records
\* the MySQL in its container, whatever the plan says.
Register(c, a) ==
    /\ ~Busy(c) /\ a \in apps \cap GameApps /\ "mysql" \in Types /\ seq < MaxRequests
    /\ ~Exists(a, "mysql")
    /\ seq' = seq + 1
    /\ req' = [req EXCEPT ![c] = Asked(a, "mysql", "insert", [id |-> seq + 1, key |-> 0,
                                                             embedded |-> TRUE, counted |-> FALSE])]
    /\ Crossing({<<a, "mysql">>})
    /\ UNCHANGED <<apps, svc, server, late, crashes>>

\* persistService: the INSERT, refused when the app is gone or has such a row.
\* What was made on the server stays behind then, as it does when the INSERT fails.
Insert(c) ==
    /\ req[c].at = "insert"
    /\ LET a == req[c].app
           t == req[c].type
       IN  \/ a \in apps /\ ~Exists(a, t) /\ svc' = [svc EXCEPT ![a][t] = req[c].row]
           \/ svc' = svc
    /\ Ends(c)
    /\ UNCHANGED <<apps, server, late, seq, crossed, crashes>>
-----------------------------------------------------------------------------
\* ServiceHandler.Delete reads one row, AppHandler.Delete all the rows of the app.
BeginRemove(c, a, read, whole) ==
    /\ ~Busy(c) /\ a \in apps /\ seq < MaxRequests
    /\ seq' = seq + 1
    /\ req' = [req EXCEPT ![c] = [Idle EXCEPT !.at = "remove", !.app = a, !.whole = whole,
                  !.todo = [t \in Types |-> IF t \in read THEN svc[a][t] ELSE NoRow]]]
    /\ Crossing({<<a, t>> : t \in {u \in read : Exists(a, u)}})
    /\ UNCHANGED <<apps, svc, server, late, crashes>>

Delete(c, a, t) == Exists(a, t) /\ BeginRemove(c, a, {t}, FALSE)
DeleteApp(c, a) == BeginRemove(c, a, Types, TRUE)

\* skipSharedDrop
OnSharedServer(row) == ~row.embedded

\* What the deprovision function of type t leaves on the server: nothing, or what was
\* there if it fails (a database in use, for one, cannot be dropped).  There is none
\* for Redis.
Undone(t, old) == IF t = "redis" THEN {old} ELSE {0, old}

\* Deprovision's first half: what is on the server under the app's name goes.  An
\* error is logged and forgotten, with the command going on perhaps.
Drop(c, t) ==
    /\ req[c].at = "remove" /\ ~req[c].dropped
    /\ req[c].todo[t].id # 0
    /\ \E left \in Undone(t, server[req[c].app][t]) :
           /\ OnSharedServer(req[c].todo[t]) \/ left = server[req[c].app][t]
           /\ server' = [server EXCEPT ![req[c].app][t] = left]
           /\ IF left = 0 THEN late' = late ELSE GoUnattended({l \in Dropping(c) : l.type = t})
    /\ req' = [req EXCEPT ![c].dropped = TRUE, ![c].type = t]
    /\ UNCHANGED <<apps, svc, seq, crossed, crashes>>

\* Its second half: the row with the id that was read, if it is still there and
\* the statement does not fail.
DeleteRow(c) ==
    /\ req[c].at = "remove" /\ req[c].dropped
    /\ LET a == req[c].app
           t == req[c].type
       IN  \/ svc[a][t].id = req[c].todo[t].id /\ svc' = [svc EXCEPT ![a][t] = NoRow]
           \/ svc' = svc
    /\ req' = [req EXCEPT ![c].dropped = FALSE, ![c].todo[req[c].type] = NoRow]
    /\ UNCHANGED <<apps, server, late, seq, crossed, crashes>>

\* Nothing is left to do; an app's own row goes last, and rows inserted meanwhile
\* go with it (ON DELETE CASCADE).
EndRemove(c) ==
    /\ req[c].at = "remove" /\ req[c].todo = NoTodo
    /\ IF req[c].whole
       THEN /\ apps' = apps \ {req[c].app}
            /\ svc' = [svc EXCEPT ![req[c].app] = NoTodo]
       ELSE UNCHANGED <<apps, svc>>
    /\ Ends(c)
    /\ UNCHANGED <<server, late, seq, crossed, crashes>>

\* The engine dies, and its requests with it; what they sent to a server may go on.
ServicesCrash ==
    /\ EngineDies
    /\ GoUnattended(UNION {Making(c) \cup Dropping(c) : c \in Clients})
    /\ req' = [c \in Clients |-> Idle]
    /\ UNCHANGED <<apps, svc, server, seq, crossed>>

Request(c) ==
    \/ \E a \in Apps, t \in Types : Provision(c, a, t) \/ Delete(c, a, t)
    \/ \E a \in Apps : Register(c, a) \/ DeleteApp(c, a)
    \/ Make(c) \/ RedisUncounted(c) \/ MakeFails(c) \/ Insert(c)
    \/ (\E t \in Types : Drop(c, t)) \/ DeleteRow(c) \/ EndRemove(c)

ServicesNext == (\E c \in Clients : Request(c)) \/ (\E l \in Command : GoesOn(l)) \/ ServicesCrash
ServicesSpec == ServicesInit /\ [][ServicesNext]_svcVars
-----------------------------------------------------------------------------
ServicesTypeOK ==
    /\ apps \in SUBSET Apps
    /\ svc \in [Apps -> [Types -> Row]]
    /\ server \in [Apps -> [Types -> 0 .. MaxRequests]]
    /\ late \in SUBSET Command
    /\ seq \in 0 .. MaxRequests
    /\ req \in [Clients -> [at : Places, app : Apps \cup {NoApp}, type : Types \cup {"none"}, row : Row,
                            dropped : BOOLEAN, todo : [Types -> Row], whole : BOOLEAN]]
    /\ crossed \in SUBSET (Apps \X Types)

\* The plan's limit is checked on a count that is stale when the row is inserted.
\* It is overrun by no more than the requests that were counted at once, by those
\* whose count failed, and by the database of a game server, which is recorded
\* without a look at the plan.
ServiceLimit ==
    \A a \in Apps : Cardinality(Owned(a)) <= MaxServices + Cardinality(Clients) - 1

\* A retry after any failure or crash, also of a removal, mends what the last one
\* left on MongoDB and RabbitMQ: the password in a row is never another one than the
\* server's, unless two requests met or the retry began while a command of the last
\* one was still going on.
NoWrongPassword ==
    \A a \in apps, t \in Types \cap Overwrites :
        Exists(a, t) /\ <<a, t>> \notin crossed => server[a][t] \in {0, svc[a][t].key}

\* What the plan limits and what the rows' passwords open, under concurrent retries.
ServicesAreSound == ServiceLimit /\ NoWrongPassword

\* What a row describes keeps working until someone removes it: not even a second
\* request for the same service, racing the first, changes a PostgreSQL or MySQL
\* password that is already in a row.
Works(a, t) == Exists(a, t) /\ svc[a][t].key = server[a][t]
Removing(a, t) ==
    \/ \E c \in Clients : req[c].at = "remove" /\ req[c].app = a /\ req[c].todo[t].id # 0
    \/ [app |-> a, type |-> t, key |-> 0] \in late
WorkingStaysWorking ==
    [][\A a \in Apps, t \in Types \cap CreatesOnce :
           Works(a, t) /\ Exists(a, t)' /\ ~svc[a][t].embedded /\ ~Removing(a, t) => Works(a, t)']_svcVars

\* Two apps never have the same Redis database.
RedisIsolated ==
    \A a, b \in apps : a # b /\ "redis" \in Types /\ Exists(a, "redis") /\ Exists(b, "redis")
        => svc[a]["redis"].key # svc[b]["redis"].key
=============================================================================
