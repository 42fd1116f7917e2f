------------------------------- MODULE Accounts -------------------------------
(***************************************************************************)
(* Users, their roles, plans and apps.  The middleware loads the user and  *)
(* the plan at the start of a request; the handler checks what it has read *)
(* and writes later, in statements of their own.                           *)
(***************************************************************************)
EXTENDS Requests, Functions

CONSTANTS
    Users, Root,          \* accounts at GitHub; the one that an operator made admin
    Plans, FirstPlan,     \* ids of plans; the one that is the default at first
    Allowances,           \* values of max_apps
    Sizes, Capacity,      \* CPU limits, as they are added up (0: one that does not parse), and
                          \* what apps may have together, in quarters of a core
    MaxListed,            \* the LIMIT of a listing
    MaxRows, MaxAsks      \* bounds on the apps and on the requests

Nobody == "nobody"
NoPlan == "no plan"

ASSUME AccountsAssumption ==
    /\ Root \in Users /\ Nobody \notin Users
    /\ FirstPlan \in Plans /\ NoPlan \notin Plans /\ Clients # {}
    /\ Allowances \cup Sizes \cup {Capacity, MaxListed, MaxRows, MaxAsks} \subseteq Nat

VARIABLES
    plan,          \* plan[p]: the row with id p
    account,       \* account[u]: the row of user u, and whether u holds a token
    app,           \* app[a]: the row with id a
    ask,           \* ask[c]: the request of client c
    asks,          \* how many requests there were
    paused,        \* setting platform_require_auth is "false"
    granted,       \* history: granted[u]: the plan an admin gave u last
    appointed,     \* history: appointed[u]: the role an admin gave u last
    allowed,       \* history: allowed[u]: the most apps a creation of u was allowed
    crowded,       \* history: limits are in force that were not compared with all others
    muddled        \* history: since the last SetDefault that was alone, two requests were at
                   \* the defaults, or an update named one

accountVars == <<plan, account, app, ask, asks, paused, granted, appointed, allowed,
                 crowded, muddled, crashes>>

Apps == 1 .. MaxRows
NewPlan(n) == [is |-> TRUE, active |-> TRUE, default |-> FALSE, apps |-> n]
NoAsk == [at |-> "idle", who |-> Nobody, v |-> Nobody, role |-> "user", p |-> NoPlan,
          row |-> [NewPlan(0) EXCEPT !.is = FALSE], sees |-> {}, a |-> 0, n |-> 0, fresh |-> TRUE]
NoApp == [owner |-> Nobody, size |-> 0, counted |-> FALSE]
AskPlaces == {"idle", "default", "assign", "enter", "role", "grant", "row", "defaults",
              "commit", "count", "insert", "limits", "update"}
Defaults == {p \in Plans : plan[p].is /\ plan[p].default}
AppsOf(u) == {a \in Apps : app[a].owner = u}
\* ListAll and ListByUserID, whose error is ignored: all, none, or as many as the LIMIT.
Listings(S) ==
    {{}} \cup (IF Cardinality(S) <= MaxListed THEN {S} ELSE {T \in SUBSET S : Cardinality(T) = MaxListed})

AccountsInit ==
    /\ plan = [p \in Plans |-> IF p = FirstPlan
                               THEN [NewPlan(1) EXCEPT !.default = TRUE]
                               ELSE [NewPlan(0) EXCEPT !.is = FALSE]]
    /\ account = [u \in Users |-> [is |-> u = Root, role |-> IF u = Root THEN "admin" ELSE "user",
                                   plan |-> NoPlan, token |-> u = Root]]
    /\ app = [a \in Apps |-> NoApp]
    /\ ask = [c \in Clients |-> NoAsk] /\ asks = 0 /\ paused = FALSE
    /\ granted = [u \in Users |-> NoPlan]
    /\ appointed = [u \in Users |-> account[u].role]
    /\ allowed = [u \in Users |-> 0] /\ crowded = FALSE /\ muddled = FALSE
    /\ RequestsInit

Asks(c, q) ==
    /\ ask[c] = NoAsk /\ asks < MaxAsks /\ asks' = asks + 1
    /\ ask' = [ask EXCEPT ![c] = q]
Moves(c, place) == ask' = [ask EXCEPT ![c].at = place]
Replies(c) == ask' = [ask EXCEPT ![c] = NoAsk]
\* Auth and AdminOnly look at the row, not at the token's role.
IsUser(u) == account[u].is /\ account[u].token
IsAdmin(u) == IsUser(u) /\ account[u].role = "admin"
KeepUsers == UNCHANGED <<account, granted, appointed>>
KeepPlans == UNCHANGED <<plan, muddled>>
KeepApps == UNCHANGED <<app, allowed, crowded>>
-----------------------------------------------------------------------------
RoleKept(u) == IF account[u].is THEN account[u].role ELSE "user"

\* GitHubCallback, Upsert: insert the row, or refresh the one there is.
Login(c, u) ==
    /\ Asks(c, [NoAsk EXCEPT !.at = "default", !.who = u, !.role = RoleKept(u)])
    /\ account' = [account EXCEPT ![u].is = TRUE, ![u].role = RoleKept(u)]
    /\ KeepPlans /\ KeepApps /\ UNCHANGED <<granted, appointed, paused, crashes>>

FindDefault(c) ==
    /\ ask[c].at = "default"
    /\ \/ \E p \in Defaults :
            plan[p].active /\ ask' = [ask EXCEPT ![c].at = "assign", ![c].p = p]
       \/ Moves(c, "enter") /\ {p \in Defaults : plan[p].active} = {}
    /\ KeepUsers /\ KeepPlans /\ KeepApps /\ UNCHANGED <<asks, paused, crashes>>

\* Slip: without "AND plan_id IS NULL".
Always(u) == TRUE
HasNone(u) == account[u].plan = NoPlan

\* A failure is ignored.
AssignDefault(c) ==
    /\ ask[c].at = "assign" /\ Moves(c, "enter")
    /\ LET u == ask[c].who IN
       \/ HasNone(u) /\ account' = [account EXCEPT ![u].plan = ask[c].p]
       \/ UNCHANGED account
    /\ KeepPlans /\ KeepApps /\ UNCHANGED <<granted, appointed, asks, paused, crashes>>

\* In maintenance only an admin gets a token.
Enter(c) ==
    /\ ask[c].at = "enter" /\ Replies(c)
    /\ account' = [account EXCEPT ![ask[c].who].token = @ \/ ~paused \/ ask[c].role = "admin"]
    /\ KeepPlans /\ KeepApps /\ UNCHANGED <<granted, appointed, asks, paused, crashes>>

UpdateAuthSettings(u) ==
    /\ IsAdmin(u) /\ asks < MaxAsks /\ asks' = asks + 1 /\ paused' = ~paused
    /\ KeepUsers /\ KeepPlans /\ KeepApps /\ UNCHANGED <<ask, crashes>>
-----------------------------------------------------------------------------
UpdateUserRole(c, u, v, r) ==
    /\ IsAdmin(u) /\ account[v].is
    /\ Asks(c, [NoAsk EXCEPT !.at = "role", !.who = u, !.v = v, !.role = r])
    /\ KeepUsers /\ KeepPlans /\ KeepApps /\ UNCHANGED <<paused, crashes>>

UpdateRole(c) ==
    /\ ask[c].at = "role" /\ Replies(c)
    /\ account' = [account EXCEPT ![ask[c].v].role = ask[c].role]
    /\ appointed' = [appointed EXCEPT ![ask[c].v] = ask[c].role]
    /\ KeepPlans /\ KeepApps /\ UNCHANGED <<granted, asks, paused, crashes>>

\* A plan that is not active can be assigned, too.
AssignUserPlan(c, u, v, p) ==
    /\ IsAdmin(u) /\ account[v].is /\ plan[p].is
    /\ Asks(c, [NoAsk EXCEPT !.at = "grant", !.who = u, !.v = v, !.p = p])
    /\ KeepUsers /\ KeepPlans /\ KeepApps /\ UNCHANGED <<paused, crashes>>

UpdatePlanID(c) ==
    /\ ask[c].at = "grant" /\ Replies(c)
    /\ account' = [account EXCEPT ![ask[c].v].plan = ask[c].p]
    /\ granted' = [granted EXCEPT ![ask[c].v] = ask[c].p]
    /\ KeepPlans /\ KeepApps /\ UNCHANGED <<appointed, asks, paused, crashes>>
-----------------------------------------------------------------------------
CreatePlan(u, p, n) ==
    /\ IsAdmin(u) /\ ~plan[p].is /\ asks < MaxAsks /\ asks' = asks + 1
    /\ plan' = [plan EXCEPT ![p] = NewPlan(n)]
    /\ KeepUsers /\ KeepApps /\ UNCHANGED <<ask, paused, muddled, crashes>>

AtPlans == {c \in Clients : ask[c].at \in {"row", "defaults", "commit"}}

\* A request to the plans; those beside it are not alone any more.
AsksPlans(c, q) ==
    /\ ask[c] = NoAsk /\ asks < MaxAsks /\ asks' = asks + 1
    /\ ask' = [d \in Clients |-> IF d = c THEN [q EXCEPT !.fresh = AtPlans = {}]
                                ELSE [ask[d] EXCEPT !.fresh = @ /\ d \notin AtPlans]]

\* Update: read the row and put into it what the request names.
UpdatePlan(c, u, p, row) ==
    /\ IsAdmin(u) /\ plan[p].is
    /\ AsksPlans(c, [NoAsk EXCEPT !.at = "row", !.who = u, !.p = p, !.row = row])
    /\ muddled' = (muddled \/ AtPlans # {} \/ row.default # plan[p].default)
    /\ KeepUsers /\ KeepApps /\ UNCHANGED <<plan, paused, crashes>>

\* All columns are written; a transaction at the row is waited for.
WritePlan(c) ==
    /\ ask[c].at = "row" /\ Replies(c)
    /\ \A d \in Clients : ask[d].at = "commit" => ask[c].p \notin ask[d].sees
    /\ plan' = [plan EXCEPT ![ask[c].p] = ask[c].row]
    /\ KeepUsers /\ KeepApps /\ UNCHANGED <<asks, paused, muddled, crashes>>

\* Delete: is_active only, so that a default stays one.
DeletePlan(u, p) ==
    /\ IsAdmin(u) /\ plan[p].is /\ asks < MaxAsks /\ asks' = asks + 1
    /\ plan' = [plan EXCEPT ![p].active = FALSE]
    /\ KeepUsers /\ KeepApps /\ UNCHANGED <<ask, paused, muddled, crashes>>

SetDefault(c, u, p) ==
    /\ IsAdmin(u) /\ plan[p].is
    /\ AsksPlans(c, [NoAsk EXCEPT !.at = "defaults", !.who = u, !.p = p])
    /\ muddled' = (muddled \/ AtPlans # {})
    /\ KeepUsers /\ KeepApps /\ UNCHANGED <<plan, paused, crashes>>

\* The transaction's first statement locks the defaults that are committed when it begins, ...
UnsetDefaults(c) ==
    /\ ask[c].at = "defaults"
    /\ ask' = [ask EXCEPT ![c].at = "commit", ![c].sees = Defaults]
    /\ KeepUsers /\ KeepPlans /\ KeepApps /\ UNCHANGED <<asks, paused, crashes>>

\* ... so that of two at once each may leave a default.
SetNewDefault(c) ==
    /\ ask[c].at = "commit" /\ Replies(c)
    /\ plan' = [q \in Plans |-> IF q = ask[c].p THEN [plan[q] EXCEPT !.default = TRUE]
                                ELSE IF q \in ask[c].sees THEN [plan[q] EXCEPT !.default = FALSE]
                                ELSE plan[q]]
    /\ muddled' = (muddled /\ ~ask[c].fresh)
    /\ KeepUsers /\ KeepApps /\ UNCHANGED <<asks, paused, crashes>>
-----------------------------------------------------------------------------
\* Create (of an app): the plan is the one the middleware loaded; without one all goes.
CreateApp(c, u) ==
    /\ IsUser(u)
    /\ LET p == account[u].plan
           n == IF p = NoPlan THEN MaxRows ELSE plan[p].apps
       IN /\ Asks(c, [NoAsk EXCEPT !.at = "count", !.who = u, !.p = p, !.n = n])
          /\ allowed' = [allowed EXCEPT ![u] = IF @ < n THEN n ELSE @]
    /\ KeepUsers /\ KeepPlans /\ UNCHANGED <<app, crowded, paused, crashes>>

AtLimit(c, listed) == ask[c].p # NoPlan /\ Cardinality(listed) >= ask[c].n

CheckPlan(c) ==
    /\ ask[c].at = "count"
    /\ LET all == AppsOf(ask[c].who)
       IN  \E listed \in Listings(all) :
               IF AtLimit(c, listed) THEN Replies(c)
               ELSE ask' = [ask EXCEPT ![c].at = "insert", ![c].fresh = ask[c].p = NoPlan \/ listed = all]
    /\ KeepUsers /\ KeepPlans /\ KeepApps /\ UNCHANGED <<asks, paused, crashes>>

\* Requests that have summed up the limits are stale when a row changes.
Resized(c) ==
    ask' = [d \in Clients |-> IF d = c THEN NoAsk
                              ELSE [ask[d] EXCEPT !.fresh = @ /\ ask[d].at # "limits"]]

\* The row has a quarter of a core, or what the game's template says, which nobody
\* compares with the capacity.
InsertApp(c) ==
    /\ ask[c].at = "insert" /\ Resized(c)
    /\ \E a \in Apps, n \in Sizes \ {0} :
         /\ app[a].owner = Nobody /\ \A b \in 1 .. a - 1 : app[b].owner # Nobody
         /\ app' = [app EXCEPT ![a] = [owner |-> ask[c].who, size |-> n, counted |-> ask[c].fresh]]
    /\ crowded' = TRUE
    /\ KeepUsers /\ KeepPlans /\ UNCHANGED <<allowed, asks, paused, crashes>>

DeleteApp(u, a) ==
    /\ IsUser(u) /\ app[a].owner = u /\ asks < MaxAsks /\ asks' = asks + 1
    /\ app' = [app EXCEPT ![a] = NoApp]
    /\ KeepUsers /\ KeepPlans /\ UNCHANGED <<ask, allowed, crowded, paused, crashes>>

Rows == {a \in Apps : app[a].owner # Nobody}
Weights == [a \in Apps |-> app[a].size]
Taken(listed) == SumFunctionOnSet(Weights, listed)

\* UpdateAppLimits: the limits of the other apps that are listed and the new one must fit.
\* (One that does not parse counts as half a core here, which the sum leaves out later.)
UpdateAppLimits(c, u, a, n) ==
    /\ IsAdmin(u) /\ app[a].owner # Nobody
    /\ \E listed \in Listings(Rows) :
           /\ Taken(listed \ {a}) + n <= Capacity
           /\ Asks(c, [NoAsk EXCEPT !.at = "limits", !.who = u, !.a = a, !.n = n, !.fresh = listed = Rows])
    /\ KeepUsers /\ KeepPlans /\ KeepApps /\ UNCHANGED <<paused, crashes>>

UpdateResourceLimits(c) ==
    /\ ask[c].at = "limits"
    /\ \/ Replies(c) /\ UNCHANGED <<app, crowded>>
       \/ /\ app[ask[c].a].owner # Nobody /\ Resized(c)
          /\ app' = [app EXCEPT ![ask[c].a].size = ask[c].n]
          /\ crowded' = ~ask[c].fresh
    /\ KeepUsers /\ KeepPlans /\ UNCHANGED <<allowed, asks, paused, crashes>>

\* Update, whose owner may give it other limits, and Deploy: they read the row, ...
EditApp(c, a, n) ==
    /\ app[a].owner # Nobody /\ n # app[a].size => IsUser(app[a].owner)
    /\ Asks(c, [NoAsk EXCEPT !.at = "update", !.a = a, !.n = n])
    /\ KeepUsers /\ KeepPlans /\ KeepApps /\ UNCHANGED <<paused, crashes>>

\* ... and write all of it, the limits compared with nothing of the host's.
UpdateApp(c) ==
    /\ ask[c].at = "update"
    /\ \/ Replies(c) /\ UNCHANGED <<app, crowded>>
       \/ /\ app[ask[c].a].owner # Nobody /\ app[ask[c].a].size # ask[c].n /\ Resized(c)
          /\ app' = [app EXCEPT ![ask[c].a].size = ask[c].n]
          /\ crowded' = TRUE
    /\ KeepUsers /\ KeepPlans /\ UNCHANGED <<allowed, asks, paused, crashes>>
-----------------------------------------------------------------------------
AccountsCrash ==
    /\ EngineDies /\ ask' = [c \in Clients |-> NoAsk]
    /\ KeepUsers /\ KeepPlans /\ KeepApps /\ UNCHANGED <<asks, paused>>

AccountsNext ==
    \/ \E c \in Clients :
         \/ FindDefault(c) \/ AssignDefault(c) \/ Enter(c) \/ UpdateRole(c) \/ UpdatePlanID(c)
         \/ WritePlan(c) \/ UnsetDefaults(c) \/ SetNewDefault(c)
         \/ CheckPlan(c) \/ InsertApp(c) \/ UpdateResourceLimits(c) \/ UpdateApp(c)
         \/ \E u \in Users :
              \/ Login(c, u) \/ CreateApp(c, u)
              \/ \E v \in Users :
                   \/ \E r \in {"user", "admin"} : UpdateUserRole(c, u, v, r)
                   \/ \E p \in Plans : AssignUserPlan(c, u, v, p)
              \/ \E p \in Plans :
                   \/ SetDefault(c, u, p)
                   \/ \E n \in Allowances : UpdatePlan(c, u, p, [plan[p] EXCEPT !.apps = n])
                   \/ \E b \in BOOLEAN :
                        \/ UpdatePlan(c, u, p, [plan[p] EXCEPT !.active = b])
                        \/ UpdatePlan(c, u, p, [plan[p] EXCEPT !.default = b])
              \/ \E a \in Apps, n \in Sizes : UpdateAppLimits(c, u, a, n)
         \/ \E a \in Apps, n \in Sizes : EditApp(c, a, n)
    \/ \E u \in Users :
         \/ UpdateAuthSettings(u)
         \/ \E p \in Plans : DeletePlan(u, p) \/ \E n \in Allowances : CreatePlan(u, p, n)
         \/ \E a \in Apps : DeleteApp(u, a)
    \/ AccountsCrash

AccountsSpec == AccountsInit /\ [][AccountsNext]_accountVars
-----------------------------------------------------------------------------
AccountsTypeOK ==
    /\ \A p \in Plans : plan[p].apps \in Allowances \cup {0, 1}
    /\ \A u \in Users : account[u].plan \in Plans \cup {NoPlan} /\ account[u].role \in {"user", "admin"}
    /\ \A a \in Apps : app[a].owner \in Users \cup {Nobody} /\ app[a].size \in Sizes \cup {0}
    /\ \A c \in Clients : ask[c].at \in AskPlaces

\* Whatever a user's logins are at, the user keeps the role and the plan that an admin
\* gave last.  There is one default plan at most, unless two requests were at the
\* defaults at once or an update named one; a SetDefault that is alone mends that.
AccountsAreKept ==
    /\ \A u \in Users : /\ account[u].role = appointed[u]
                        /\ granted[u] \in {NoPlan, account[u].plan}
    /\ muddled \/ Cardinality(Defaults) <= 1

\* Requests at once may exceed the apps that they check, but not by more than what was
\* under way: of the apps before whose creation the others were counted, a user has at
\* most one too many for each other request.
AppsBounded ==
    \A u \in Users :
        Cardinality({a \in AppsOf(u) : app[a].counted}) <= allowed[u] + Cardinality(Clients) - 1

\* What admins gave is kept, and what users may have is bounded.
UsersAreSound == AccountsAreKept /\ AppsBounded

\* The limits, too, as they are added up, fit the host after an admin's change that saw
\* all others, until an app is created, its owner or a deployment writes other limits, or
\* an admin's change goes by a listing that failed, was cut or is out of date.
LimitsFit == crowded \/ Taken(Rows) <= Capacity
=============================================================================
