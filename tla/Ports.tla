-------------------------------- MODULE Ports --------------------------------
(***************************************************************************)
(* PortManager and the writers of apps.assigned_port: deployments and game *)
(* starts that allocate a port, settings requests that write a whole row   *)
(* back, and the deletion of apps.  Deployer knows only whether an app has *)
(* a port; here the ports are told apart.                                  *)
(***************************************************************************)
EXTENDS Naturals

CONSTANTS
    Apps,       \* the apps
    Users,      \* goroutines that read a row and write its port
    start,      \* first port of the range
    end,        \* last port of the range
    Null,       \* the column of an app row that was never given a value
    Nobody,     \* the owner of a free mutex
    DbFails     \* may a statement fail, leaving the table as it was?

ASSUME PortsAssumption ==
    /\ start \in Nat \ {0} /\ end \in Nat
    /\ Null \notin Nat
    /\ Nobody \notin Users
    /\ DbFails \in BOOLEAN

VARIABLES
    rows,       \* apps that are not deleted
    port,       \* port[a]: the column assigned_port of a
    reserved,   \* PortManager.reserved
    mutex,      \* who holds PortManager.mu across the query, or Nobody
    used,       \* the result of the query of mutex's owner
    user        \* user[u]: what goroutine u does, the app row it read, the port in it

portVars == <<rows, port, reserved, mutex, used, user>>

\* Slip: one port too many.
CandidatesPastEnd == start .. end + 1

\* The ports Allocate tries.
Candidates == start .. end

Kinds == {"deploy", "game", "settings"}
Places == {"idle", "allocate", "choose", "saveport", "release", "saverow"}
User == [kind : Kinds, app : Apps, port : {0} \cup (start .. end), at : Places]

\* An idle goroutine holds nothing; kind and app are those of its last request.
Idle(u) == user[u].at = "idle"
Moves(u, at) == user' = [user EXCEPT ![u].at = at]

PortsInit ==
    /\ rows = Apps
    /\ port = [a \in Apps |-> Null]
    /\ reserved = {}
    /\ mutex = Nobody
    /\ used = {}
    /\ user \in [Users -> {[kind |-> "settings", app |-> a, port |-> 0, at |-> "idle"] : a \in Apps}]

\* UPDATE ... SET assigned_port = p WHERE id = a.  The column is UNIQUE: no other
\* row may have p, not even a p of 0.  A row that is gone is not updated.
CanWrite(a, p) == \A b \in rows \ {a} : port[b] # p
Written(a, p) == IF a \in rows THEN [port EXCEPT ![a] = p] ELSE port

-----------------------------------------------------------------------------
\* A request reads the row; NULL is read as 0.  The deploy lock keeps deploys of
\* one app apart; game starts take no lock, and leave a port they find alone.
ReadRow(u, kind, a) ==
    LET p == IF port[a] = Null THEN 0 ELSE port[a] IN
    /\ Idle(u) /\ a \in rows
    /\ kind = "game" => p = 0
    /\ kind = "deploy" =>
          \A v \in Users : Idle(v) \/ user[v].kind # "deploy" \/ user[v].app # a
    /\ user' = [user EXCEPT ![u] =
                  [kind |-> kind, app |-> a, port |-> p,
                   at |-> IF kind # "settings" /\ p = 0 THEN "allocate" ELSE "saverow"]]
    /\ UNCHANGED <<rows, port, reserved, mutex, used>>

\* Allocate, holding the mutex: the query ...
GetUsedPorts(u) ==
    /\ user[u].at = "allocate" /\ mutex = Nobody
    /\ mutex' = u
    /\ used' = {port[a] : a \in rows} \ {Null, 0}
    /\ Moves(u, "choose")
    /\ UNCHANGED <<rows, port, reserved>>

\* ... which may fail ...
QueryFails(u) ==
    /\ DbFails
    /\ user[u].at = "allocate" /\ mutex = Nobody
    /\ Moves(u, "idle")
    /\ UNCHANGED <<rows, port, reserved, mutex, used>>

\* Slip: what was given out and is not in a row yet is free.
FreeInRows == Candidates \ used

Free == Candidates \ (used \cup reserved)

\* ... and the first port that is neither in a row nor reserved, or an error.
ChoosePort(u) ==
    /\ user[u].at = "choose" /\ mutex = u
    /\ mutex' = Nobody
    /\ used' = {}
    /\ \/ \E p \in Free :
            /\ \A q \in Free : p <= q
            /\ reserved' = reserved \cup {p}
            /\ user' = [user EXCEPT ![u] = [@ EXCEPT !.port = p, !.at = "saveport"]]
       \/ Free = {} /\ Moves(u, "idle") /\ UNCHANGED reserved
    /\ UNCHANGED <<rows, port>>

\* UpdatePort.  When it fails a game start gives the port back and a deploy does not.
SavePort(u) ==
    LET a == user[u].app
        p == user[u].port
    IN
    /\ user[u].at = "saveport"
    /\ \/ /\ CanWrite(a, p)
          /\ port' = Written(a, p)
          /\ Moves(u, IF user[u].kind = "deploy" THEN "saverow" ELSE "idle")
       \/ /\ DbFails \/ ~CanWrite(a, p)
          /\ port' = port
          /\ Moves(u, IF user[u].kind = "game" THEN "release" ELSE "idle")
    /\ UNCHANGED <<rows, reserved, mutex, used>>

Release(u) ==
    /\ user[u].at = "release" /\ mutex = Nobody
    /\ reserved' = reserved \ {user[u].port}
    /\ Moves(u, "idle")
    /\ UNCHANGED <<rows, port, mutex, used>>

\* AppRepo.Update: the settings request and the end of a deploy write the whole
\* row from their copy, a port of 0 included.
SaveRow(u) ==
    /\ user[u].at = "saverow"
    /\ \/ /\ CanWrite(user[u].app, user[u].port)
          /\ port' = Written(user[u].app, user[u].port)
       \/ /\ DbFails \/ ~CanWrite(user[u].app, user[u].port)
          /\ port' = port
    /\ Moves(u, "idle")
    /\ UNCHANGED <<rows, reserved, mutex, used>>

\* The row goes with its port; a reservation of the port stays.
DeleteApp(a) ==
    /\ a \in rows
    /\ rows' = rows \ {a}
    /\ UNCHANGED <<port, reserved, mutex, used, user>>

\* A deploy that fails before its last write, and a settings request that is refused.
GiveUp(u) ==
    /\ user[u].at = "saverow"
    /\ Moves(u, "idle")
    /\ UNCHANGED <<rows, port, reserved, mutex, used>>

\* The engine restarts: reservations, the mutex and all goroutines are gone.
Restart ==
    /\ reserved' = {} /\ mutex' = Nobody /\ used' = {}
    /\ user' = [u \in Users |-> [user[u] EXCEPT !.at = "idle"]]
    /\ UNCHANGED <<rows, port>>

Use(u) ==
    \/ \E kind \in Kinds, a \in Apps : ReadRow(u, kind, a)
    \/ GetUsedPorts(u) \/ QueryFails(u) \/ ChoosePort(u) \/ SavePort(u)
    \/ Release(u) \/ SaveRow(u) \/ GiveUp(u)

PortsNext == (\E u \in Users : Use(u)) \/ (\E a \in Apps : DeleteApp(a)) \/ Restart

PortsSpec == PortsInit /\ [][PortsNext]_portVars
-----------------------------------------------------------------------------
PortsTypeOK ==
    /\ rows \in SUBSET Apps
    /\ port \in [Apps -> {Null, 0} \cup (start .. end)]
    /\ reserved \in SUBSET (start .. end)
    /\ mutex \in Users \cup {Nobody}
    /\ used \in SUBSET (start .. end)
    /\ user \in [Users -> User]

\* A port in the hands of a goroutine: allocated or read, and still to be used.
Holds(u, p) == ~Idle(u) /\ user[u].port = p /\ p # 0

\* No port is given to two apps: whatever a goroutine allocated or read for an
\* app is in no other app's row and in no goroutine's hands for another app.
NoPortTakenTwice ==
    \A u \in Users : \A p \in start .. end :
        Holds(u, p) /\ user[u].app \in rows =>
            /\ \A b \in rows : port[b] = p => b = user[u].app
            /\ \A v \in Users : Holds(v, p) /\ user[v].app \in rows => user[v].app = user[u].app
=============================================================================
