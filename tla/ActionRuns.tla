----------------------------- MODULE ActionRuns ------------------------------
(***************************************************************************)
(* From a push to a deploy request.  A push makes an action run of the     *)
(* app's workflow, or a deploy request when it cannot; the action workers  *)
(* claim runs from the table, check out, execute job after job and hand a  *)
(* deploy request to the build queue when a push's run has passed.         *)
(* One app; its commits are numbered, 0 stands for "no commit given".      *)
(***************************************************************************)
EXTENDS Requests, Sequences

CONSTANTS
    Pushers,         \* goroutines that handle a push
    ActionWorkers,   \* goroutines of ActionWorker
    Jobs,            \* the jobs of the workflow
    Script,          \* Script[j]: the kinds of the steps of job j
    NoJob,           \* the job of a worker between jobs
    MaxCommits,      \* bound on the commits of the branch
    MaxRuns,         \* bound on the runs ever made
    BuildQueue       \* capacity of the build queue (100 in the code)

\* run: a command in a container; upload, download: of the run's artifact.
StepKind == {"run", "upload", "download"}

ASSUME ActionRunsAssumption ==
    /\ NoJob \notin Jobs /\ IsFiniteSet(Jobs)
    /\ Script \in [Jobs -> Seq(StepKind)]
    /\ MaxCommits \in Nat \ {0} /\ MaxRuns \in Nat /\ BuildQueue \in Nat \ {0}

VARIABLES
    hosted,    \* is the app's repository one of LuxView's, or GitHub's?
    tip,       \* the last commit of the branch
    event,     \* event[c]: the push that goroutine c handles
    run,       \* run[r]: row r of action_runs
    job,       \* job[r][j]: the row of job j of run r, with how many steps succeeded
    artifact,  \* the runs that have an artifact
    exec,      \* exec[w]: what worker w is doing
    queue,     \* the build queue
    asked,     \* history: how many deploy requests run r made
    tested,    \* history: the commit that run r was executed on
    lost       \* history: runs whose last status could not be written, or whose worker died

ciVars == <<hosted, tip, event, run, job, artifact, exec, queue, asked, tested, lost, crashes>>

Runs == 1 .. MaxRuns
Commits == 0 .. MaxCommits
Verdict == {"queued", "running", "success", "failed"}
Run == [status : Verdict \cup {"absent"}, push : BOOLEAN, commit : Commits]
Job == [status : Verdict, done : Nat]
DeployRequest == [commit : Commits, by : {"action", "auto"}, run : 0 .. MaxRuns]

NoEvent == [at |-> "idle", commit |-> 0]
AtEase == [at |-> "idle", run |-> 0, job |-> NoJob]
NoRun == [status |-> "absent", push |-> FALSE, commit |-> 0]
Unstarted == [j \in Jobs |-> [status |-> "queued", done |-> 0]]

ActionsInit ==
    /\ hosted \in BOOLEAN
    /\ tip = 1
    /\ event = [c \in Pushers |-> NoEvent]
    /\ run = [r \in Runs |-> NoRun]
    /\ job = [r \in Runs |-> Unstarted]
    /\ artifact = {}
    /\ exec = [w \in ActionWorkers |-> AtEase]
    /\ queue = <<>>
    /\ asked = [r \in Runs |-> 0]
    /\ tested = [r \in Runs |-> 0]
    /\ lost = {}
    /\ RequestsInit

Idles(w) == exec[w].at = "idle"
Moves(w, at) == exec' = [exec EXCEPT ![w].at = at]
Unmade == {r \in Runs : run[r].status = "absent"}
NextRun(r) == r \in Unmade /\ \A n \in Unmade : r <= n
-----------------------------------------------------------------------------
\* git push ends: the branch has a new commit, and a goroutine is told.
Push(c) ==
    /\ event[c].at = "idle" /\ tip < MaxCommits
    /\ tip' = tip + 1
    /\ event' = [event EXCEPT ![c] = [at |-> "resolve", commit |-> tip + 1]]
    /\ UNCHANGED <<hosted, run, job, artifact, exec, queue, asked, tested, lost, crashes>>

\* ProcessPush has the commit from GitHub's event; HandlePush looks the tip of the
\* branch up, which may be another push's by now, or cannot.  Neither does anything
\* for an app whose auto-deploy is off.
HandlePush(c) ==
    /\ event[c].at = "resolve"
    /\ \/ event' = [event EXCEPT ![c] = NoEvent]
       \/ \E sha \in IF hosted THEN {tip, 0} ELSE {event[c].commit} :
              event' = [event EXCEPT ![c] = [at |-> "trigger", commit |-> sha]]
    /\ UNCHANGED <<hosted, tip, run, job, artifact, exec, queue, asked, tested, lost, crashes>>

\* Slip: the channel takes one more.
RoomForOneMore == Len(queue) <= BuildQueue

Room == Len(queue) < BuildQueue

Queued(r, push, commit) ==
    /\ run' = [run EXCEPT ![r] = [status |-> "queued", push |-> push, commit |-> commit]]
    /\ UNCHANGED job

\* TriggerRun: the workflow is the one at the tip of the branch, whatever the commit.
TriggerRun(c) ==
    /\ event[c].at = "trigger"
    /\ \E r \in Runs : NextRun(r) /\ Queued(r, TRUE, event[c].commit)
    /\ event' = [event EXCEPT ![c] = NoEvent]
    /\ UNCHANGED <<hosted, tip, artifact, exec, queue, asked, tested, lost, crashes>>

\* ActionHandler.TriggerRun: a run that somebody asks for; the dashboard names no
\* commit.
ManualRun ==
    /\ \E r \in Runs : NextRun(r) /\ Queued(r, FALSE, 0)
    /\ UNCHANGED <<hosted, tip, event, artifact, exec, queue, asked, tested, lost, crashes>>

\* TriggerRun fails: there is no workflow, it does not parse, the checkout or a
\* statement fails.  A deploy is queued instead, or dropped when the queue is full.
\* HandlePush gives it no commit.
FallBack(c) ==
    /\ event[c].at = "trigger"
    /\ LET req == [commit |-> IF hosted THEN 0 ELSE event[c].commit, by |-> "auto", run |-> 0]
       IN  queue' = IF Room THEN Append(queue, req) ELSE queue
    /\ event' = [event EXCEPT ![c] = NoEvent]
    /\ UNCHANGED <<hosted, tip, run, job, artifact, exec, asked, tested, lost, crashes>>
-----------------------------------------------------------------------------
\* Slip: a run that is said to be running keeps the others waiting.
ClaimableAlone(r) ==
    /\ run[r].status = "queued"
    /\ \A n \in Runs : run[n].status # "running"

Claimable(r) == run[r].status = "queued"

\* ClaimNextQueuedRun: the oldest one, in one statement.
Claim(w) ==
    /\ Idles(w)
    /\ \E r \in Runs :
           /\ Claimable(r) /\ \A n \in 1 .. r - 1 : ~Claimable(n)
           /\ run' = [run EXCEPT ![r].status = "running"]
           /\ exec' = [exec EXCEPT ![w] = [AtEase EXCEPT !.at = "checkout", !.run = r]]
    /\ UNCHANGED <<hosted, tip, event, job, artifact, queue, asked, tested, lost, crashes>>

\* Slip: the tip of the branch, always.
CheckedOutTip(commit) == tip

\* Checkout: GitHubSourceCheckout clones the branch whatever it is asked for.
CheckedOut(commit) == IF hosted /\ commit # 0 THEN commit ELSE tip

Checkout(w) ==
    /\ exec[w].at = "checkout"
    /\ Moves(w, "next")
    /\ tested' = [tested EXCEPT ![exec[w].run] = CheckedOut(run[exec[w].run].commit)]
    /\ UNCHANGED <<hosted, tip, event, run, job, artifact, queue, asked, lost, crashes>>

\* The app or its secrets cannot be read, a checkout or a statement fails.
BreaksOff(w) ==
    /\ exec[w].at \in {"checkout", "next"}
    /\ Moves(w, "fail")
    /\ UNCHANGED <<hosted, tip, event, run, job, artifact, queue, asked, tested, lost, crashes>>

\* The next job.  ListJobsForRun orders by created_at, which is the same for all
\* jobs of a run: the time of the transaction that inserted them.
StartJob(w, j) ==
    /\ exec[w].at = "next" /\ job[exec[w].run][j].status = "queued"
    /\ job' = [job EXCEPT ![exec[w].run][j].status = "running"]
    /\ exec' = [exec EXCEPT ![w].at = "step", ![w].job = j]
    /\ UNCHANGED <<hosted, tip, event, run, artifact, queue, asked, tested, lost, crashes>>

Todo(w) == LET j == exec[w].job
           IN  SubSeq(Script[j], job[exec[w].run][j].done + 1, Len(Script[j]))

\* executeStep succeeds.
StepSucceeds(w) ==
    /\ exec[w].at = "step" /\ Todo(w) # <<>>
    /\ Head(Todo(w)) = "download" => exec[w].run \in artifact
    /\ artifact' = IF Head(Todo(w)) = "upload" THEN artifact \cup {exec[w].run} ELSE artifact
    /\ job' = [job EXCEPT ![exec[w].run][exec[w].job].done = @ + 1]
    /\ UNCHANGED <<hosted, tip, event, run, exec, queue, asked, tested, lost, crashes>>

\* It fails (a download before the upload always does), or its status is not
\* stored.  The job's status is written, or that fails as well.
StepFails(w) ==
    /\ exec[w].at = "step"
    /\ \/ job' = [job EXCEPT ![exec[w].run][exec[w].job].status = "failed"]
       \/ job' = job
    /\ Moves(w, "fail")
    /\ UNCHANGED <<hosted, tip, event, run, artifact, queue, asked, tested, lost, crashes>>

EndJob(w) ==
    /\ exec[w].at = "step" /\ Todo(w) = <<>>
    /\ job' = [job EXCEPT ![exec[w].run][exec[w].job].status = "success"]
    /\ exec' = [exec EXCEPT ![w].at = "next", ![w].job = NoJob]
    /\ UNCHANGED <<hosted, tip, event, run, artifact, queue, asked, tested, lost, crashes>>

MayDeploy(r) == run[r].push

AllJobsDone(r) == \A j \in Jobs : job[r][j].status = "success"

\* queueDeployAfterPush, and nothing for an app whose auto-deploy was off when the
\* run was claimed.  When the queue is full the run fails.
QueueDeploy(w) ==
    /\ exec[w].at = "next" /\ AllJobsDone(exec[w].run)
    /\ LET r == exec[w].run
       IN  \/ Moves(w, "done") /\ UNCHANGED <<queue, asked>>
           \/ /\ MayDeploy(r) /\ Room
              /\ queue' = Append(queue, [commit |-> run[r].commit, by |-> "action", run |-> r])
              /\ asked' = [asked EXCEPT ![r] = @ + 1]
              /\ Moves(w, "done")
           \/ /\ MayDeploy(r) /\ ~Room
              /\ Moves(w, "fail") /\ UNCHANGED <<queue, asked>>
    /\ UNCHANGED <<hosted, tip, event, run, job, artifact, tested, lost, crashes>>

\* UpdateRunStatus; when it fails, nobody writes the status again.
Finish(w) ==
    /\ exec[w].at \in {"done", "fail"}
    /\ \/ /\ run' = [run EXCEPT ![exec[w].run].status = IF exec[w].at = "done" THEN "success" ELSE "failed"]
          /\ lost' = lost
       \/ run' = run /\ lost' = lost \cup {exec[w].run}
    /\ exec' = [exec EXCEPT ![w] = AtEase]
    /\ UNCHANGED <<hosted, tip, event, job, artifact, queue, asked, tested, crashes>>
-----------------------------------------------------------------------------
\* A build worker takes the first request (the deployer is a module of its own) and
\* builds what the checkout of its commit gives.
TakeDeploy ==
    /\ queue # <<>>
    /\ queue' = Tail(queue)
    /\ UNCHANGED <<hosted, tip, event, run, job, artifact, exec, asked, tested, lost, crashes>>

\* The engine dies, and the build queue with it.
CiCrash ==
    /\ EngineDies
    /\ lost' = lost \cup {exec[w].run : w \in {v \in ActionWorkers : ~Idles(v)}}
    /\ event' = [c \in Pushers |-> NoEvent]
    /\ exec' = [w \in ActionWorkers |-> AtEase]
    /\ queue' = <<>>
    /\ UNCHANGED <<hosted, tip, run, job, artifact, asked, tested>>

Works(w) ==
    \/ Claim(w) \/ Checkout(w) \/ BreaksOff(w) \/ (\E j \in Jobs : StartJob(w, j))
    \/ StepSucceeds(w) \/ StepFails(w) \/ EndJob(w) \/ QueueDeploy(w) \/ Finish(w)

ActionsNext ==
    \/ \E c \in Pushers : Push(c) \/ HandlePush(c) \/ TriggerRun(c) \/ FallBack(c)
    \/ ManualRun \/ TakeDeploy \/ CiCrash
    \/ \E w \in ActionWorkers : Works(w)

\* A worker polls every three seconds and a step has a timeout of 20 minutes.
ActionsFairness == \A w \in ActionWorkers : WF_ciVars(Works(w))

ActionsSpec == ActionsInit /\ [][ActionsNext]_ciVars /\ ActionsFairness
-----------------------------------------------------------------------------
ActionsTypeOK ==
    /\ hosted \in BOOLEAN
    /\ tip \in Commits
    /\ event \in [Pushers -> [at : {"idle", "resolve", "trigger"}, commit : Commits]]
    /\ run \in [Runs -> Run]
    /\ job \in [Runs -> [Jobs -> Job]]
    /\ artifact \in SUBSET Runs
    /\ exec \in [ActionWorkers -> [at : {"idle", "checkout", "next", "step", "done", "fail"},
                                   run : 0 .. MaxRuns, job : Jobs \cup {NoJob}]]
    /\ queue \in Seq(DeployRequest) /\ Len(queue) <= BuildQueue
    /\ asked \in [Runs -> Nat] /\ tested \in [Runs -> Commits]
    /\ lost \in SUBSET Runs

\* A run that is listed as a success did every step of every job, and one worker
\* did it alone, however workers, polls and crashes mix.
GreenIsGreen ==
    /\ \A r \in Runs : run[r].status = "success" =>
           \A j \in Jobs : job[r][j] = [status |-> "success", done |-> Len(Script[j])]
    /\ \A v, w \in ActionWorkers : v # w /\ ~Idles(v) => exec[v].run # exec[w].run

\* A deploy in the name of a run comes from a push's run that passed, and a run asks
\* for one deploy at most, also when its worker dies before it writes the verdict.
DeploysPassed ==
    \A r \in Runs : asked[r] > 0 => asked[r] = 1 /\ run[r].push /\ AllJobsDone(r)

\* For a repository of LuxView's own, what a build worker builds for a run is the
\* commit that the run passed on, however far the branch has moved; only when the
\* push's commit could not be looked up it takes what the branch has become.
Built(req) == CheckedOut(req.commit)
TestedIsBuilt ==
    hosted => \A i \in DOMAIN queue : queue[i].by = "action" /\ queue[i].commit # 0
                                          => tested[queue[i].run] = Built(queue[i])

\* What an action run calls green was run, and what is deployed passed and is what
\* was tested.
RunsAreSound == GreenIsGreen /\ DeploysPassed /\ TestedIsBuilt

\* A run does not wait for ever, and one that was claimed gets its verdict, unless
\* the verdict could not be written or its worker died; such a run stays "running"
\* for good but keeps no other one waiting.
RunsProgress ==
    \A r \in Runs : /\ run[r].status = "queued" ~> run[r].status # "queued"
                    /\ run[r].status = "running" ~> run[r].status # "running" \/ r \in lost
=============================================================================
