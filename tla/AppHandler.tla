----------------------------- MODULE AppHandler -----------------------------
(***************************************************************************)
(* The owner's requests that write an app row or drive its container next  *)
(* to the deploy pipeline: stop, restart, maintenance mode, settings, and  *)
(* the tail of app creation.  Each handler runs on a goroutine of its own, *)
(* reads the row, and writes it back later; none takes the deploy lock.    *)
(* Deploy and rollback requests are Deployer's Enqueue.                    *)
(***************************************************************************)
EXTENDS Deployer

CONSTANTS
    Clients,    \* request goroutines
    MaxCalls    \* bound on the requests made

ASSUME HandlerAssumption == MaxCalls \in Nat

VARIABLES
    call,     \* call[c]: the request c serves: operation, row as read, where it is
    calls     \* requests made so far

callVars == <<call, calls>>

Ops == {"stop", "restart", "maintenance", "resume", "settings"}
CallPC == {"idle", "docker", "error", "write", "webhook"}
Call == [op : Ops, app : Apps \cup {NoApp}, row : Row, at : CallPC]
NoCall == [op |-> "stop", app |-> NoApp, row |-> NewRow, at |-> "idle"]

\* AppHandler.Create inserts the row and queues the first deploy before it
\* registers the webhook and writes the whole row again: it may still be there.
Creating(a) == [op |-> "settings", app |-> a, row |-> NewRow, at |-> "webhook"]

HandlerInit ==
    /\ calls = 0
    /\ call \in {[c \in Clients |-> NoCall]} \cup
                {[d \in Clients |-> IF d = c THEN Creating(a) ELSE NoCall] :
                   c \in Clients, a \in Apps}

Ends(c) == call' = [call EXCEPT ![c] = NoCall]
GoesTo(c, at) == call' = [call EXCEPT ![c].at = at]
Gone(cid) == cid \notin {i \in DeployIds : ctr[i] # "none"}

besides == <<dep, made, requests, queue, locks, pc, job, sweep, boot, calls>>

\* FindByID; a settings request has changed the copy it will write back.
ReadApp(c, op, a) ==
    /\ call[c].at = "idle" /\ calls < MaxCalls
    /\ calls' = calls + 1
    /\ call' = [call EXCEPT ![c] =
          [op |-> op, app |-> a,
           row |-> IF op = "settings" THEN [app[a] EXCEPT !.cfg = @ + 1] ELSE app[a],
           at |-> IF op \in {"stop", "restart"} THEN "docker" ELSE "write"]]
    /\ UNCHANGED vars

\* Stopping no container succeeds; stopping one that is gone answers 500.
StopApp(c) ==
    /\ call[c].at = "docker" /\ call[c].op = "stop"
    /\ LET cid == call[c].row.cid IN
       \/ /\ ~(cid # 0 /\ Gone(cid))
          /\ ctr' = StopContainer(cid)
          /\ GoesTo(c, "write")
       \/ /\ (cid # 0 /\ Gone(cid)) \/ DockerFails
          /\ ctr' = ctr
          /\ Ends(c)
    /\ UNCHANGED app /\ UNCHANGED besides

RestartApp(c) ==
    /\ call[c].at = "docker" /\ call[c].op = "restart"
    /\ LET cid == call[c].row.cid IN
       \/ /\ ~Gone(cid)
          /\ ctr' = RestartContainer(cid)
          /\ GoesTo(c, "write")
       \/ /\ Gone(cid) \/ DockerFails
          /\ ctr' = ctr
          /\ GoesTo(c, "error")
    /\ UNCHANGED app /\ UNCHANGED besides

NewStatus(c) ==
    CASE call[c].at = "error" -> "error"
      [] call[c].op = "stop" -> "stopped"
      [] call[c].op = "restart" -> "running"
      [] call[c].op = "maintenance" -> "maintenance"
      [] call[c].op = "resume" -> IF call[c].row.cid # 0 THEN "running" ELSE "stopped"

\* UpdateStatus with the container id read before; its error is ignored.
WriteStatus(c) ==
    /\ call[c].at \in {"write", "error"} /\ call[c].op # "settings"
    /\ app' \in Outcome(DbFails, app,
                        UpdateStatus(call[c].app, NewStatus(c), call[c].row.cid))
    /\ Ends(c)
    /\ UNCHANGED ctr /\ UNCHANGED besides

\* Update with the whole row; if auto-deploy was toggled the webhook comes next.
SaveSettings(c) ==
    /\ call[c].at = "write" /\ call[c].op = "settings"
    /\ \/ app' = UpdateRow(call[c].app, call[c].row) /\ (Ends(c) \/ GoesTo(c, "webhook"))
       \/ DbFails /\ app' = app /\ Ends(c)
    /\ UNCHANGED ctr /\ UNCHANGED besides

\* The webhook id is saved by writing the same copy of the row once more, unless
\* GitHub refused.
SaveWebhook(c) ==
    /\ call[c].at = "webhook"
    /\ app' \in {app, UpdateRow(call[c].app, call[c].row)}
    /\ Ends(c)
    /\ UNCHANGED ctr /\ UNCHANGED besides

Serve(c) == StopApp(c) \/ RestartApp(c) \/ WriteStatus(c) \/ SaveSettings(c) \/ SaveWebhook(c)
Handle(c) == (\E op \in Ops, a \in Apps : ReadApp(c, op, a)) \/ Serve(c)

\* The server goes down with its requests.
HandlersRestart == call' = [c \in Clients |-> NoCall] /\ calls' = calls
=============================================================================
