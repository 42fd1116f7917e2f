---------------------------- MODULE Forge_proofs ----------------------------
(***************************************************************************)
(* Proofs about action runs, the mirrors of a repository and game servers, *)
(* for any workflow, workers, pushers, mirrors, requests and bounds.       *)
(***************************************************************************)
EXTENDS MCForge, SequenceTheorems, TLAPS

(* Action runs *)

Event == [at : {"idle", "resolve", "trigger"}, commit : Commits]
Exec == [at : {"idle", "checkout", "next", "step", "done", "fail"}, run : 0 .. MaxRuns, job : Jobs \cup {NoJob}]

\* What a worker may rely on about the run it has in hand.
WorkerOK(w) ==
    LET e == exec[w] r == exec[w].run IN
    /\ e.at = "idle" => e = AtEase
    /\ e.at # "idle" => r \in Runs /\ run[r].status = "running"
    /\ e.at = "step" => e.job \in Jobs /\ job[r][e.job].status = "running"
    /\ e.at = "done" => AllJobsDone(r)
    /\ e.at \in {"checkout", "next", "step"} => asked[r] = 0
    /\ e.at \in {"next", "step"} /\ hosted /\ run[r].commit # 0 => tested[r] = run[r].commit

\* A run has begun no job and asked for nothing before it is claimed; what is said of
\* its jobs was done.
RunOK(r) ==
    /\ run[r].status \in {"absent", "queued"} => job[r] = Unstarted /\ asked[r] = 0
    /\ \A j \in Jobs : /\ job[r][j].done <= Len(Script[j])
                       /\ job[r][j].status = "success" => job[r][j].done = Len(Script[j])
    /\ run[r].status = "success" => AllJobsDone(r)
    /\ asked[r] > 0 => asked[r] = 1 /\ run[r].push /\ AllJobsDone(r)

\* A request in a run's name is that run's, and for the commit it was tested on.
RequestOK(q) ==
    q.by = "action" => /\ q.run \in Runs /\ asked[q.run] > 0
                       /\ hosted /\ q.commit # 0 => tested[q.run] = q.commit

QueueOK == \A i \in DOMAIN queue : RequestOK(queue[i])

Apart == \A v, w \in ActionWorkers : v # w /\ ~Idles(v) => exec[v].run # exec[w].run

RunsInv ==
    /\ \A w \in ActionWorkers : WorkerOK(w)
    /\ \A r \in Runs : RunOK(r)
    /\ QueueOK
    /\ Apart
-----------------------------------------------------------------------------
(* Types *)

LEMMA RecordsTyped ==
    /\ NoEvent \in Event /\ NoEvent.at = "idle" /\ AtEase \in Exec /\ AtEase.at = "idle" /\ AtEase.run = 0
    /\ NoRun \in Run /\ NoRun.status = "absent"
    /\ Unstarted \in [Jobs -> Job] /\ \A j \in Jobs : Unstarted[j].status = "queued" /\ Unstarted[j].done = 0
BY ActionRunsAssumption DEF NoEvent, Event, AtEase, Exec, NoRun, Run, Unstarted, Job, Verdict, Commits

LEMMA QueueTyped ==
    ASSUME ActionsTypeOK
    PROVE  /\ Len(queue) \in Nat /\ DOMAIN queue = 1 .. Len(queue)
           /\ \A i \in DOMAIN queue : queue[i] \in DeployRequest
BY ElementOfSeq, LenProperties DEF ActionsTypeOK

LEMMA AppendTyped ==
    ASSUME ActionsTypeOK, NEW q \in DeployRequest, Room, queue' = Append(queue, q)
    PROVE  /\ queue' \in Seq(DeployRequest) /\ Len(queue') <= BuildQueue
           /\ \A i \in DOMAIN queue' : (i \in DOMAIN queue /\ queue'[i] = queue[i]) \/ queue'[i] = q
<1>1. queue \in Seq(DeployRequest) /\ Len(queue) < BuildQueue
  BY DEF ActionsTypeOK, Room
<1>2. PICK s \in Seq(DeployRequest) : s = queue
  BY <1>1
<1>3. /\ Append(s, q) \in Seq(DeployRequest) /\ Len(Append(s, q)) = Len(s) + 1
      /\ \A i \in 1 .. Len(s) : Append(s, q)[i] = s[i] /\ Append(s, q)[Len(s) + 1] = q
      /\ Append(s, q)[Len(s) + 1] = q
  BY AppendProperties
<1>4. Len(s) \in Nat /\ DOMAIN s = 1 .. Len(s) /\ DOMAIN Append(s, q) = 1 .. Len(s) + 1
  BY <1>3, LenProperties
<1>5. QED
  BY <1>1, <1>2, <1>3, <1>4, ActionRunsAssumption

LEMMA TailTyped ==
    ASSUME ActionsTypeOK, queue # <<>>, queue' = Tail(queue)
    PROVE  /\ queue' \in Seq(DeployRequest) /\ Len(queue') <= BuildQueue
           /\ \A i \in DOMAIN queue' : \E n \in DOMAIN queue : queue'[i] = queue[n]
<1>1. PICK s \in Seq(DeployRequest) : s = queue /\ s # <<>> /\ Len(s) <= BuildQueue
  BY DEF ActionsTypeOK
<1>2. /\ Tail(s) \in Seq(DeployRequest) /\ Len(Tail(s)) = Len(s) - 1
      /\ \A i \in 1 .. Len(Tail(s)) : Tail(s)[i] = s[i + 1]
  BY <1>1, HeadTailProperties
<1>3. Len(s) \in Nat /\ DOMAIN s = 1 .. Len(s) /\ DOMAIN Tail(s) = 1 .. Len(s) - 1
  BY <1>2, LenProperties
<1>4. QED
  BY <1>1, <1>2, <1>3, ActionRunsAssumption

LEMMA RunsInit == ActionsInit => ActionsTypeOK /\ RunsInv
<1> SUFFICES ASSUME ActionsInit
             PROVE  ActionsTypeOK /\ RunsInv
  OBVIOUS
<1>1. queue \in Seq(DeployRequest) /\ Len(queue) = 0 /\ DOMAIN queue = {}
  BY DEF ActionsInit
<1>2. ActionsTypeOK
  BY <1>1, RecordsTyped, ActionRunsAssumption
     DEF ActionsInit, ActionsTypeOK, Event, Exec, Run, Job, Commits, Runs
<1>3. \A w \in ActionWorkers : WorkerOK(w)
  BY RecordsTyped DEF ActionsInit, WorkerOK
<1>4. \A j \in Jobs : Len(Script[j]) \in Nat
  BY ActionRunsAssumption, LenProperties
<1>5. \A r \in Runs : RunOK(r)
  BY <1>4, RecordsTyped DEF ActionsInit, RunOK
<1>6. QED
  BY <1>1, <1>2, <1>3, <1>5, RecordsTyped DEF RunsInv, QueueOK, ActionsInit, Apart, Idles
-----------------------------------------------------------------------------
(* A step concerns one run, and the worker that has it if there is one.    *)

\* Nothing else changes than run r and what the workers in W do.
Touches(W, r) ==
    /\ \A v \in ActionWorkers \ W : exec'[v] = exec[v]
    /\ \A s \in Runs \ {r} : run'[s] = run[s] /\ job'[s] = job[s] /\ asked'[s] = asked[s] /\ tested'[s] = tested[s]
    /\ hosted' = hosted

\* Whoever works on run r is in W, and goes on with it or puts it down.
Alone(W, r) ==
    \A v \in ActionWorkers : /\ v \notin W => exec[v].run # r
                             /\ v \in W => exec'[v] = AtEase \/ exec'[v].run = r

LEMMA OtherWorkers ==
    ASSUME NEW w \in ActionWorkers, WorkerOK(w), exec'[w] = exec[w], hosted' = hosted,
           exec[w].run \in Runs => /\ run'[exec[w].run] = run[exec[w].run]
                                   /\ job'[exec[w].run] = job[exec[w].run]
                                   /\ asked'[exec[w].run] = asked[exec[w].run]
                                   /\ tested'[exec[w].run] = tested[exec[w].run]
    PROVE  WorkerOK(w)'
<1>1. PICK e : e = exec[w]
  OBVIOUS
<1>2. CASE e.at = "idle"
  BY <1>1, <1>2, RecordsTyped DEF WorkerOK
<1>3. CASE e.at # "idle"
  BY <1>1, <1>3 DEF WorkerOK, AllJobsDone
<1>4. QED
  BY <1>2, <1>3

LEMMA OtherRuns ==
    ASSUME NEW r \in Runs, RunOK(r), run'[r] = run[r], job'[r] = job[r], asked'[r] = asked[r]
    PROVE  RunOK(r)'
BY DEF RunOK, AllJobsDone

\* A step keeps the invariant if it does so for the run it is about.
LEMMA OneRun ==
    ASSUME ActionsTypeOK, RunsInv, NEW W \in SUBSET ActionWorkers, NEW r \in Runs, Touches(W, r), Alone(W, r),
           \E w \in ActionWorkers : W \subseteq {w},
           \A w \in W : WorkerOK(w)', RunOK(r)', QueueOK'
    PROVE  RunsInv'
<1>1. \A v \in ActionWorkers : WorkerOK(v)'
  <2> TAKE v \in ActionWorkers
  <2>1. CASE v \in W
    BY <2>1
  <2>2. CASE v \notin W
    <3>1. exec'[v] = exec[v] /\ exec[v].run # r /\ WorkerOK(v)
      BY <2>2 DEF Touches, Alone, RunsInv
    <3>2. QED
      BY <3>1, OtherWorkers DEF Touches
  <2>3. QED
    BY <2>1, <2>2
<1>2. \A s \in Runs : RunOK(s)'
  <2> TAKE s \in Runs
  <2>1. RunOK(s)
    BY DEF RunsInv
  <2>2. QED
    BY <2>1, OtherRuns DEF Touches
<1>3. Apart'
  <2> SUFFICES ASSUME NEW v \in ActionWorkers, NEW w \in ActionWorkers, v # w, ~Idles(v)'
               PROVE  exec'[v].run # exec'[w].run
    BY DEF Apart
  <2>1. AtEase.run = 0 /\ AtEase.at = "idle" /\ 0 \notin Runs
    BY RecordsTyped DEF Runs
  <2>2. exec'[v].run \in Runs /\ exec'[v] # AtEase
    BY <1>1, <2>1 DEF WorkerOK, Idles
  <2>3. v \notin W \/ w \notin W
    OBVIOUS
  <2>4. CASE v \notin W /\ w \notin W
    BY <2>4 DEF Touches, Apart, RunsInv, Idles
  <2>5. CASE v \in W /\ w \notin W
    BY <2>2, <2>5 DEF Touches, Alone
  <2>6. CASE v \notin W /\ w \in W
    BY <2>1, <2>2, <2>6 DEF Touches, Alone
  <2>7. QED
    BY <2>3, <2>4, <2>5, <2>6
<1>4. QED
  BY <1>1, <1>2, <1>3 DEF RunsInv

\* The queue stays, and so does what its requests rely on.
LEMMA SameQueue ==
    ASSUME ActionsTypeOK, RunsInv, NEW r \in Runs, queue' = queue, hosted' = hosted,
           \A s \in Runs \ {r} : asked'[s] = asked[s] /\ tested'[s] = tested[s],
           asked'[r] = asked[r], asked[r] = 0 \/ tested'[r] = tested[r]
    PROVE  QueueOK'
<1> SUFFICES ASSUME NEW i \in DOMAIN queue
             PROVE  RequestOK(queue[i])'
  BY DEF QueueOK
<1>1. PICK q \in DeployRequest : q = queue[i]
  BY QueueTyped
<1>2. RequestOK(q)
  BY <1>1 DEF RunsInv, QueueOK
<1>3. asked \in [Runs -> Nat]
  BY DEF ActionsTypeOK
<1>4. RequestOK(q)'
  BY <1>2, <1>3 DEF RequestOK
<1>5. QED
  BY <1>1, <1>4

\* The run that a worker has in hand is in no other hands.
LEMMA InHand ==
    ASSUME ActionsTypeOK, RunsInv, NEW w \in ActionWorkers, ~Idles(w)
    PROVE  /\ exec[w].run \in Runs /\ run[exec[w].run].status = "running" /\ exec[w] \in Exec
           /\ \A v \in ActionWorkers \ {w} : exec[v].run # exec[w].run
BY DEF RunsInv, WorkerOK, Idles, Apart, ActionsTypeOK, Exec

LEMMA WorkerMoves ==
    ASSUME ActionsTypeOK, RunsInv, NEW w \in ActionWorkers, ~Idles(w), NEW e \in Exec,
           e = AtEase \/ e.run = exec[w].run, exec' = [exec EXCEPT ![w] = e]
    PROVE  /\ Alone({w}, exec[w].run) /\ exec' \in [ActionWorkers -> Exec] /\ exec'[w] = e
           /\ \A v \in ActionWorkers \ {w} : exec'[v] = exec[v]
<1>1. exec \in [ActionWorkers -> Exec]
  BY DEF ActionsTypeOK, Exec
<1>2. QED
  BY <1>1, InHand DEF Alone

LEMMA MovesTo ==
    ASSUME ActionsTypeOK, RunsInv, NEW w \in ActionWorkers, ~Idles(w),
           NEW at \in {"checkout", "next", "step", "done", "fail"}, Moves(w, at)
    PROVE  \E e \in Exec : e.at = at /\ e.run = exec[w].run /\ e.job = exec[w].job /\ exec' = [exec EXCEPT ![w] = e]
<1>1. PICK d \in Exec : d = exec[w]
  BY InHand
<1>2. exec \in [ActionWorkers -> Exec]
  BY DEF ActionsTypeOK, Exec
<1>3. [d EXCEPT !.at = at] \in Exec
  BY DEF Exec
<1>4. exec' = [exec EXCEPT ![w] = [d EXCEPT !.at = at]]
  BY <1>1, <1>2 DEF Moves
<1>5. QED
  BY <1>1, <1>3, <1>4 DEF Exec

\* The jobs of one run change, in one place.
LEMMA JobChanges ==
    ASSUME ActionsTypeOK, NEW r \in Runs, NEW j \in Jobs, NEW x \in Job, job' = [job EXCEPT ![r][j] = x]
    PROVE  /\ job' \in [Runs -> [Jobs -> Job]] /\ job'[r][j] = x
           /\ \A i \in Jobs \ {j} : job'[r][i] = job[r][i]
           /\ \A s \in Runs \ {r} : job'[s] = job[s]
BY DEF ActionsTypeOK
-----------------------------------------------------------------------------
(* The steps, one lemma each *)

LEMMA NewRunStep ==
    ASSUME ActionsTypeOK, RunsInv, NEW r \in Runs, NEW push \in BOOLEAN, NEW commit \in Commits,
           NextRun(r), Queued(r, push, commit), UNCHANGED <<hosted, exec, queue, asked, tested>>
    PROVE  RunsInv' /\ run' \in [Runs -> Run]
<1>1. PICK x \in Run : x = [status |-> "queued", push |-> push, commit |-> commit]
  BY DEF Run, Verdict
<1>2. run' = [run EXCEPT ![r] = x] /\ job' = job /\ x.status = "queued" /\ run[r].status = "absent"
  BY <1>1 DEF Queued, NextRun, Unmade
<1>3. run \in [Runs -> Run]
  BY DEF ActionsTypeOK
<1>4. Touches({}, r)
  BY <1>2, <1>3 DEF Touches
<1>5. Alone({}, r)
  BY <1>2, RecordsTyped DEF Alone, RunsInv, WorkerOK, Runs
<1>6. RunOK(r) /\ asked[r] = 0 /\ job[r] = Unstarted
  BY <1>2 DEF RunsInv, RunOK
<1>7. RunOK(r)'
  BY <1>2, <1>3, <1>6 DEF RunOK
<1>8. QueueOK'
  BY <1>6, SameQueue
<1>9. CASE ActionWorkers = {}
  <2>1. \A s \in Runs : RunOK(s)'
    BY <1>4, <1>7, OtherRuns DEF Touches, RunsInv
  <2>2. QED
    BY <1>2, <1>3, <1>8, <1>9, <2>1 DEF RunsInv, Apart
<1>10. CASE ActionWorkers # {}
  BY <1>2, <1>3, <1>4, <1>5, <1>7, <1>8, <1>10, OneRun
<1>11. QED
  BY <1>9, <1>10

LEMMA ClaimStep ==
    ASSUME ActionsTypeOK, RunsInv, NEW w \in ActionWorkers, Claim(w)
    PROVE  ActionsTypeOK' /\ RunsInv'
<1>1. PICK r \in Runs : /\ run[r].status = "queued" /\ run' = [run EXCEPT ![r].status = "running"]
                        /\ exec' = [exec EXCEPT ![w] = [AtEase EXCEPT !.at = "checkout", !.run = r]]
  BY DEF Claim, Claimable
<1>2. PICK e \in Exec : e = [AtEase EXCEPT !.at = "checkout", !.run = r]
  <2>1. PICK d \in Exec : d = AtEase
    BY RecordsTyped
  <2>2. PICK m : m = r
    OBVIOUS
  <2>3. m \in 0 .. MaxRuns
    BY <2>2, ActionRunsAssumption DEF Runs
  <2>4. [d EXCEPT !.at = "checkout", !.run = m] \in Exec
    BY <2>3 DEF Exec
  <2>5. QED
    BY <2>1, <2>2, <2>4
<1>3. e.at = "checkout" /\ e.run = r
  BY <1>2, RecordsTyped DEF Exec
<1>4. PICK x \in Run : x = run[r]
  BY DEF ActionsTypeOK
<1>5. PICK y \in Run : y = [x EXCEPT !.status = "running"]
  BY DEF Run, Verdict
<1>6. y.status = "running" /\ y.push = x.push /\ y.commit = x.commit
  BY <1>5 DEF Run
<1>7. run \in [Runs -> Run] /\ exec \in [ActionWorkers -> Exec]
  BY DEF ActionsTypeOK, Exec
<1>8. /\ run' = [run EXCEPT ![r] = y] /\ exec' = [exec EXCEPT ![w] = e]
      /\ UNCHANGED <<hosted, tip, event, job, artifact, queue, asked, tested, lost>>
  BY <1>1, <1>2, <1>4, <1>5, <1>7 DEF Claim
<1>9. ActionsTypeOK'
  BY <1>7, <1>8 DEF ActionsTypeOK, Exec
<1>10. RunOK(r) /\ asked[r] = 0 /\ job[r] = Unstarted /\ exec[w] = AtEase
  BY <1>1 DEF RunsInv, RunOK, WorkerOK, Claim, Idles
<1>11. Touches({w}, r)
  BY <1>7, <1>8 DEF Touches
<1>12. \A v \in ActionWorkers : exec[v].run # r
  BY <1>1, RecordsTyped DEF RunsInv, WorkerOK, Runs
<1>13. Alone({w}, r)
  BY <1>3, <1>7, <1>8, <1>12 DEF Alone
<1>14. RunOK(r)'
  BY <1>6, <1>7, <1>8, <1>10 DEF RunOK
<1>15. WorkerOK(w)'
  BY <1>3, <1>6, <1>7, <1>8, <1>10 DEF WorkerOK
<1>16. QueueOK'
  BY <1>8, <1>10, SameQueue
<1>17. QED
  BY <1>9, <1>11, <1>13, <1>14, <1>15, <1>16, OneRun

LEMMA CheckoutStep ==
    ASSUME ActionsTypeOK, RunsInv, NEW w \in ActionWorkers, Checkout(w)
    PROVE  ActionsTypeOK' /\ RunsInv'
<1>0. ~Idles(w) /\ exec[w].at = "checkout" /\ Moves(w, "next")
  BY DEF Checkout, Idles
<1>1. PICK e \in Exec : e.at = "next" /\ e.run = exec[w].run /\ exec' = [exec EXCEPT ![w] = e]
  BY <1>0, MovesTo
<1>2. PICK r \in Runs : r = exec[w].run
  BY <1>0, InHand
<1>3. PICK c : c = CheckedOut(run[r].commit)
  OBVIOUS
<1>4. c \in Commits /\ (hosted /\ run[r].commit # 0 => c = run[r].commit) /\ run[r] \in Run
  BY <1>3 DEF ActionsTypeOK, CheckedOut, Run
<1>5. /\ tested' = [tested EXCEPT ![r] = c] /\ tested \in [Runs -> Commits]
      /\ UNCHANGED <<hosted, tip, event, run, job, artifact, queue, asked, lost>>
  BY <1>2, <1>3 DEF Checkout, ActionsTypeOK
<1>6. /\ Alone({w}, r) /\ exec' \in [ActionWorkers -> Exec] /\ exec'[w] = e
      /\ \A v \in ActionWorkers \ {w} : exec'[v] = exec[v]
  BY <1>0, <1>1, <1>2, WorkerMoves
<1>7. ActionsTypeOK'
  BY <1>4, <1>5, <1>6 DEF ActionsTypeOK, Exec
<1>8. Touches({w}, r)
  BY <1>5, <1>6 DEF Touches
<1>9. run[r].status = "running" /\ asked[r] = 0 /\ RunOK(r)
  BY <1>0, <1>2 DEF RunsInv, WorkerOK
<1>10. RunOK(r)'
  BY <1>5, <1>9, OtherRuns
<1>11. WorkerOK(w)'
  BY <1>1, <1>2, <1>4, <1>5, <1>6, <1>9 DEF WorkerOK
<1>12. QueueOK'
  BY <1>5, <1>9, SameQueue
<1>13. QED
  BY <1>6, <1>7, <1>8, <1>10, <1>11, <1>12, OneRun

\* A step that changes no more than what is said of one job of the run.
LEMMA JobStep ==
    ASSUME ActionsTypeOK, RunsInv, NEW w \in ActionWorkers, NEW e \in Exec, ~Idles(w),
           e.run = exec[w].run, exec' = [exec EXCEPT ![w] = e],
           artifact' \in SUBSET Runs, UNCHANGED <<hosted, tip, event, run, queue, asked, tested, lost>>,
           job' \in [Runs -> [Jobs -> Job]], \A s \in Runs \ {e.run} : job'[s] = job[s],
           RunOK(e.run)', WorkerOK(w)'
    PROVE  ActionsTypeOK' /\ RunsInv'
<1>1. PICK r \in Runs : r = exec[w].run
  BY InHand
<1>2. /\ Alone({w}, r) /\ exec' \in [ActionWorkers -> Exec] /\ exec'[w] = e
      /\ \A v \in ActionWorkers \ {w} : exec'[v] = exec[v]
  BY <1>1, WorkerMoves
<1>3. ActionsTypeOK'
  BY <1>2 DEF ActionsTypeOK, Exec
<1>4. Touches({w}, r)
  BY <1>1, <1>2 DEF Touches
<1>5. QueueOK'
  BY <1>1, SameQueue
<1>6. QED
  BY <1>1, <1>2, <1>3, <1>4, <1>5, OneRun

LEMMA BreaksOffStep ==
    ASSUME ActionsTypeOK, RunsInv, NEW w \in ActionWorkers, BreaksOff(w)
    PROVE  ActionsTypeOK' /\ RunsInv'
<1>0. ~Idles(w) /\ Moves(w, "fail")
  BY DEF BreaksOff, Idles
<1>1. PICK e \in Exec : e.at = "fail" /\ e.run = exec[w].run /\ exec' = [exec EXCEPT ![w] = e]
  BY <1>0, MovesTo
<1>2. PICK r \in Runs : r = exec[w].run /\ run[r].status = "running" /\ RunOK(r)
  BY <1>0, InHand DEF RunsInv
<1>3. UNCHANGED <<hosted, tip, event, run, job, artifact, queue, asked, tested, lost>>
  BY DEF BreaksOff
<1>4. RunOK(r)' /\ artifact \in SUBSET Runs /\ job \in [Runs -> [Jobs -> Job]]
  BY <1>2, <1>3, OtherRuns DEF ActionsTypeOK
<1>5. exec'[w] = e
  BY <1>0, <1>1, WorkerMoves
<1>6. WorkerOK(w)'
  BY <1>1, <1>2, <1>3, <1>5 DEF WorkerOK
<1>7. QED
  BY <1>0, <1>1, <1>2, <1>3, <1>4, <1>6, JobStep

LEMMA StartJobStep ==
    ASSUME ActionsTypeOK, RunsInv, NEW w \in ActionWorkers, NEW j \in Jobs, StartJob(w, j)
    PROVE  ActionsTypeOK' /\ RunsInv'
<1>0. ~Idles(w) /\ exec[w].at = "next"
  BY DEF StartJob, Idles
<1>1. PICK d \in Exec : d = exec[w]
  BY <1>0, InHand
<1>2. PICK e : e = [d EXCEPT !.at = "step", !.job = j]
  OBVIOUS
<1>3. e \in Exec /\ e.at = "step" /\ e.job = j /\ e.run = exec[w].run
  BY <1>1, <1>2 DEF Exec
<1>4. exec' = [exec EXCEPT ![w] = e]
  BY <1>1, <1>2 DEF StartJob, ActionsTypeOK
<1>5. PICK r \in Runs : r = exec[w].run /\ run[r].status = "running" /\ RunOK(r)
  BY <1>0, InHand DEF RunsInv
<1>6. PICK y \in Job : y = job[r][j]
  BY DEF ActionsTypeOK
<1>7. PICK x : x = [y EXCEPT !.status = "running"]
  OBVIOUS
<1>8. x \in Job /\ x.status = "running" /\ x.done = y.done
  BY <1>7 DEF Job, Verdict
<1>9. /\ job' = [job EXCEPT ![r][j] = x]
      /\ UNCHANGED <<hosted, tip, event, run, artifact, queue, asked, tested, lost>>
  BY <1>5, <1>6, <1>7 DEF StartJob, ActionsTypeOK
<1>10. /\ job' \in [Runs -> [Jobs -> Job]] /\ job'[r][j] = x
       /\ \A i \in Jobs \ {j} : job'[r][i] = job[r][i]
       /\ \A s \in Runs \ {r} : job'[s] = job[s]
  BY <1>8, <1>9, JobChanges
<1>11. exec'[w] = e /\ asked[r] = 0
  BY <1>0, <1>3, <1>4, <1>5, WorkerMoves DEF RunsInv, WorkerOK
<1>12. RunOK(r)'
  BY <1>5, <1>6, <1>8, <1>9, <1>10, <1>11 DEF RunOK
<1>13. WorkerOK(w)'
  BY <1>0, <1>3, <1>5, <1>8, <1>9, <1>10, <1>11 DEF WorkerOK, RunsInv
<1>14. artifact \in SUBSET Runs
  BY DEF ActionsTypeOK
<1>15. QED
  BY <1>0, <1>3, <1>4, <1>5, <1>9, <1>10, <1>12, <1>13, <1>14, JobStep

\* Nothing is left to do of a job that did as many steps as its script has.
LEMMA TodoLeft ==
    ASSUME NEW j \in Jobs, NEW n \in Nat
    PROVE  SubSeq(Script[j], n + 1, Len(Script[j])) = <<>> <=> n >= Len(Script[j])
<1>1. PICK s \in Seq(StepKind) : s = Script[j]
  BY ActionRunsAssumption
<1>2. Len(s) \in Nat
  BY LenProperties
<1>3. PICK k \in Nat : k = Len(s)
  BY <1>2
<1>4. CASE n >= k
  <2>1. SubSeq(s, n + 1, k) = <<>>
    BY <1>4, SubSeqEmpty
  <2>2. QED
    BY <1>1, <1>3, <1>4, <2>1
<1>5. CASE n < k
  <2>1. PICK q : q = SubSeq(s, n + 1, k)
    OBVIOUS
  <2>2. \A i \in n + 1 .. k : s[i] \in StepKind
    BY <1>3, ElementOfSeq
  <2>3. n + 1 \in Int /\ k \in Int /\ n + 1 <= k
    BY <1>5
  <2>4. Len(SubSeq(s, n + 1, k)) = k - (n + 1) + 1
    BY <2>2, <2>3, SubSeqProperties, Zenon
  <2>5. Len(q) = k - (n + 1) + 1
    BY <2>1, <2>4
  <2>6. q # <<>>
    BY <1>5, <2>5
  <2>7. QED
    BY <1>1, <1>3, <1>5, <2>1, <2>6
<1>6. QED
  BY <1>4, <1>5

\* The job that a worker executes.
LEMMA JobInHand ==
    ASSUME ActionsTypeOK, RunsInv, NEW w \in ActionWorkers, exec[w].at = "step"
    PROVE  \E d \in Exec, r \in Runs, j \in Jobs, y \in Job :
               /\ d = exec[w] /\ r = exec[w].run /\ j = exec[w].job /\ y = job[r][j]
               /\ ~Idles(w) /\ asked[r] = 0 /\ y.status = "running" /\ run[r].status = "running" /\ RunOK(r)
               /\ hosted /\ run[r].commit # 0 => tested[r] = run[r].commit
               /\ y.done <= Len(Script[j]) /\ Len(Script[j]) \in Nat
<1>1. ~Idles(w)
  BY DEF Idles
<1>2. PICK d \in Exec, r \in Runs, j \in Jobs : d = exec[w] /\ r = exec[w].run /\ j = exec[w].job
  BY <1>1, InHand DEF RunsInv, WorkerOK
<1>3. PICK y \in Job : y = job[r][j]
  BY DEF ActionsTypeOK
<1>4. WorkerOK(w) /\ RunOK(r)
  BY DEF RunsInv
<1>5. Len(Script[j]) \in Nat
  BY ActionRunsAssumption, LenProperties
<1>6. QED
  BY <1>1, <1>2, <1>3, <1>4, <1>5 DEF WorkerOK, RunOK

\* While a run is executed, no more is asked of what is said about it.
LEMMA RunUnderWay ==
    ASSUME NEW r \in Runs, NEW j \in Jobs, RunOK(r), run[r].status = "running", asked[r] = 0,
           run' = run, asked' = asked, \A i \in Jobs \ {j} : job'[r][i] = job[r][i],
           job'[r][j].done <= Len(Script[j]), job'[r][j].status = "success" => job'[r][j].done = Len(Script[j])
    PROVE  RunOK(r)'
<1>1. \A i \in Jobs : /\ job'[r][i].done <= Len(Script[i])
                     /\ job'[r][i].status = "success" => job'[r][i].done = Len(Script[i])
  BY DEF RunOK
<1>2. QED
  BY <1>1 DEF RunOK

LEMMA StepSucceedsStep ==
    ASSUME ActionsTypeOK, RunsInv, NEW w \in ActionWorkers, StepSucceeds(w)
    PROVE  ActionsTypeOK' /\ RunsInv'
<1>0. exec[w].at = "step" /\ Todo(w) # <<>>
  BY DEF StepSucceeds
<1>1. PICK d \in Exec, r \in Runs, j \in Jobs, y \in Job :
               /\ d = exec[w] /\ r = exec[w].run /\ j = exec[w].job /\ y = job[r][j]
               /\ ~Idles(w) /\ asked[r] = 0 /\ y.status = "running" /\ run[r].status = "running" /\ RunOK(r)
               /\ hosted /\ run[r].commit # 0 => tested[r] = run[r].commit
               /\ y.done <= Len(Script[j]) /\ Len(Script[j]) \in Nat
  BY <1>0, JobInHand
<1>2. PICK n \in Nat : n = y.done
  BY DEF Job
<1>3. n < Len(Script[j])
  BY <1>0, <1>1, <1>2, TodoLeft DEF Todo
<1>4. PICK x : x = [y EXCEPT !.done = n + 1]
  OBVIOUS
<1>5. x \in Job /\ x.status = "running" /\ x.done = n + 1
  BY <1>1, <1>4 DEF Job
<1>6. /\ job' = [job EXCEPT ![r][j] = x] /\ artifact' \in SUBSET Runs
      /\ UNCHANGED <<hosted, tip, event, run, exec, queue, asked, tested, lost>>
  BY <1>1, <1>2, <1>4 DEF StepSucceeds, ActionsTypeOK
<1>7. /\ job' \in [Runs -> [Jobs -> Job]] /\ job'[r][j] = x
      /\ \A i \in Jobs \ {j} : job'[r][i] = job[r][i]
      /\ \A s \in Runs \ {r} : job'[s] = job[s]
  BY <1>5, <1>6, JobChanges
<1>8. exec' = [exec EXCEPT ![w] = d]
  BY <1>1, <1>6 DEF ActionsTypeOK
<1>9. RunOK(r)'
  <2>1. run' = run /\ asked' = asked
    BY <1>6
  <2>2. job'[r][j].done <= Len(Script[j]) /\ job'[r][j].status # "success"
    BY <1>1, <1>2, <1>3, <1>5, <1>7
  <2>3. QED
    BY <1>1, <1>7, <2>1, <2>2, RunUnderWay, Zenon
<1>10. WorkerOK(w)'
  BY <1>0, <1>1, <1>5, <1>6, <1>7 DEF WorkerOK, RunsInv
<1>11. QED
  BY <1>1, <1>6, <1>7, <1>8, <1>9, <1>10, JobStep

LEMMA StepFailsStep ==
    ASSUME ActionsTypeOK, RunsInv, NEW w \in ActionWorkers, StepFails(w)
    PROVE  ActionsTypeOK' /\ RunsInv'
<1>0. exec[w].at = "step" /\ Moves(w, "fail")
  BY DEF StepFails
<1>1. PICK d \in Exec, r \in Runs, j \in Jobs, y \in Job :
               /\ d = exec[w] /\ r = exec[w].run /\ j = exec[w].job /\ y = job[r][j]
               /\ ~Idles(w) /\ asked[r] = 0 /\ y.status = "running" /\ run[r].status = "running" /\ RunOK(r)
               /\ hosted /\ run[r].commit # 0 => tested[r] = run[r].commit
               /\ y.done <= Len(Script[j]) /\ Len(Script[j]) \in Nat
  BY <1>0, JobInHand
<1>2. PICK e \in Exec : e.at = "fail" /\ e.run = r /\ exec' = [exec EXCEPT ![w] = e]
  BY <1>0, <1>1, MovesTo
<1>3. PICK x \in Job : x.status # "success" /\ x.done = y.done /\ job' = [job EXCEPT ![r][j] = x]
  <2>1. CASE job' = job
    BY <1>1, <2>1 DEF ActionsTypeOK
  <2>2. CASE job' = [job EXCEPT ![exec[w].run][exec[w].job].status = "failed"]
    <3>1. PICK x : x = [y EXCEPT !.status = "failed"]
      OBVIOUS
    <3>2. x \in Job /\ x.status = "failed" /\ x.done = y.done
      BY <3>1 DEF Job, Verdict
    <3>3. job' = [job EXCEPT ![r][j] = x]
      BY <1>1, <2>2, <3>1 DEF ActionsTypeOK
    <3>4. QED
      BY <3>2, <3>3
  <2>3. QED
    BY <2>1, <2>2 DEF StepFails
<1>4. UNCHANGED <<hosted, tip, event, run, artifact, queue, asked, tested, lost>> /\ artifact' \in SUBSET Runs
  BY DEF StepFails, ActionsTypeOK
<1>5. /\ job' \in [Runs -> [Jobs -> Job]] /\ job'[r][j] = x
      /\ \A i \in Jobs \ {j} : job'[r][i] = job[r][i]
      /\ \A s \in Runs \ {r} : job'[s] = job[s]
  BY <1>3, JobChanges
<1>6. exec'[w] = e
  BY <1>1, <1>2, WorkerMoves
<1>7. RunOK(r)'
  <2>1. run' = run /\ asked' = asked
    BY <1>4
  <2>2. job'[r][j].done <= Len(Script[j]) /\ job'[r][j].status # "success"
    BY <1>1, <1>3, <1>5
  <2>3. QED
    BY <1>1, <1>5, <2>1, <2>2, RunUnderWay, Zenon
<1>8. WorkerOK(w)'
  BY <1>1, <1>2, <1>4, <1>6 DEF WorkerOK
<1>9. QED
  BY <1>1, <1>2, <1>4, <1>5, <1>7, <1>8, JobStep

LEMMA EndJobStep ==
    ASSUME ActionsTypeOK, RunsInv, NEW w \in ActionWorkers, EndJob(w)
    PROVE  ActionsTypeOK' /\ RunsInv'
<1>0. exec[w].at = "step" /\ Todo(w) = <<>>
  BY DEF EndJob
<1>1. PICK d \in Exec, r \in Runs, j \in Jobs, y \in Job :
               /\ d = exec[w] /\ r = exec[w].run /\ j = exec[w].job /\ y = job[r][j]
               /\ ~Idles(w) /\ asked[r] = 0 /\ y.status = "running" /\ run[r].status = "running" /\ RunOK(r)
               /\ hosted /\ run[r].commit # 0 => tested[r] = run[r].commit
               /\ y.done <= Len(Script[j]) /\ Len(Script[j]) \in Nat
  BY <1>0, JobInHand
<1>2. PICK n \in Nat : n = y.done
  BY DEF Job
<1>3. n = Len(Script[j])
  <2>1. SubSeq(Script[j], n + 1, Len(Script[j])) = <<>>
    BY <1>0, <1>1, <1>2 DEF Todo
  <2>2. n >= Len(Script[j])
    BY <2>1, TodoLeft
  <2>3. QED
    BY <1>1, <1>2, <2>2
<1>4. PICK x : x = [y EXCEPT !.status = "success"]
  OBVIOUS
<1>5. x \in Job /\ x.status = "success" /\ x.done = n
  BY <1>2, <1>4 DEF Job, Verdict
<1>6. PICK e : e = [d EXCEPT !.at = "next", !.job = NoJob]
  OBVIOUS
<1>7. e \in Exec /\ e.at = "next" /\ e.run = r
  BY <1>1, <1>6 DEF Exec
<1>8. /\ job' = [job EXCEPT ![r][j] = x] /\ artifact' \in SUBSET Runs /\ exec' = [exec EXCEPT ![w] = e]
      /\ UNCHANGED <<hosted, tip, event, run, artifact, queue, asked, tested, lost>>
  BY <1>1, <1>4, <1>6 DEF EndJob, ActionsTypeOK
<1>9. /\ job' \in [Runs -> [Jobs -> Job]] /\ job'[r][j] = x
      /\ \A i \in Jobs \ {j} : job'[r][i] = job[r][i]
      /\ \A s \in Runs \ {r} : job'[s] = job[s]
  BY <1>5, <1>8, JobChanges
<1>10. exec'[w] = e
  BY <1>1, <1>7, <1>8, WorkerMoves
<1>11. RunOK(r)'
  <2>1. run' = run /\ asked' = asked
    BY <1>8
  <2>2. job'[r][j].done <= Len(Script[j]) /\ job'[r][j].done = Len(Script[j])
    BY <1>1, <1>3, <1>5, <1>9
  <2>3. QED
    BY <1>1, <1>9, <2>1, <2>2, RunUnderWay, Zenon
<1>12. WorkerOK(w)'
  BY <1>1, <1>7, <1>8, <1>10 DEF WorkerOK
<1>13. /\ e.run = exec[w].run /\ \A s \in Runs \ {e.run} : job'[s] = job[s]
       /\ RunOK(e.run)'
  BY <1>1, <1>7, <1>9, <1>11
<1>14. UNCHANGED <<hosted, tip, event, run, queue, asked, tested, lost>>
  BY <1>8
<1>15. QED
  BY <1>1, <1>7, <1>8, <1>9, <1>12, <1>13, <1>14, JobStep

LEMMA QueueDeployStep ==
    ASSUME ActionsTypeOK, RunsInv, NEW w \in ActionWorkers, QueueDeploy(w)
    PROVE  ActionsTypeOK' /\ RunsInv'
<1>0. ~Idles(w) /\ exec[w].at = "next"
  BY DEF QueueDeploy, Idles
<1>1. PICK r \in Runs : r = exec[w].run /\ run[r].status = "running"
  BY <1>0, InHand
<1>2. /\ RunOK(r) /\ asked[r] = 0 /\ AllJobsDone(r)
      /\ hosted /\ run[r].commit # 0 => tested[r] = run[r].commit
  BY <1>0, <1>1 DEF RunsInv, WorkerOK, QueueDeploy
<1>3. UNCHANGED <<hosted, tip, event, run, job, artifact, tested, lost>>
  BY DEF QueueDeploy
<1>4. asked \in [Runs -> Nat] /\ run[r] \in Run
  BY DEF ActionsTypeOK
<1>5. ASSUME NEW at \in {"done", "fail"}, Moves(w, at), asked' \in [Runs -> Nat],
             \A s \in Runs \ {r} : asked'[s] = asked[s],
             asked'[r] # 0 => asked'[r] = 1 /\ run[r].push,
             queue' \in Seq(DeployRequest), Len(queue') <= BuildQueue, QueueOK'
      PROVE  ActionsTypeOK' /\ RunsInv'
  <2>1. PICK e \in Exec : e.at = at /\ e.run = r /\ exec' = [exec EXCEPT ![w] = e]
    BY <1>0, <1>1, <1>5, MovesTo
  <2>2. /\ Alone({w}, r) /\ exec' \in [ActionWorkers -> Exec] /\ exec'[w] = e
        /\ \A v \in ActionWorkers \ {w} : exec'[v] = exec[v]
    BY <1>0, <1>1, <2>1, WorkerMoves
  <2>3. ActionsTypeOK'
    BY <1>3, <1>5, <2>2 DEF ActionsTypeOK, Exec
  <2>4. Touches({w}, r)
    BY <1>3, <1>5, <2>2 DEF Touches
  <2>5. RunOK(r)'
    BY <1>1, <1>2, <1>3, <1>5 DEF RunOK, AllJobsDone
  <2>6. WorkerOK(w)'
    BY <1>1, <1>2, <1>3, <2>1, <2>2 DEF WorkerOK, AllJobsDone
  <2>7. QED
    BY <1>5, <2>2, <2>3, <2>4, <2>5, <2>6, OneRun
<1>6. CASE UNCHANGED <<queue, asked>>
  <2>1. QueueOK'
    BY <1>2, <1>3, <1>6, SameQueue
  <2>2. queue \in Seq(DeployRequest) /\ Len(queue) <= BuildQueue
    BY DEF ActionsTypeOK
  <2>3. Moves(w, "done") \/ Moves(w, "fail")
    BY DEF QueueDeploy
  <2>4. /\ queue' \in Seq(DeployRequest) /\ Len(queue') <= BuildQueue
        /\ asked' \in [Runs -> Nat] /\ asked'[r] = 0 /\ \A s \in Runs \ {r} : asked'[s] = asked[s]
    BY <1>2, <1>4, <1>6, <2>2
  <2>5. QED
    BY <1>5, <2>1, <2>3, <2>4
<1>7. CASE /\ MayDeploy(r) /\ Room /\ asked' = [asked EXCEPT ![r] = @ + 1] /\ Moves(w, "done")
           /\ queue' = Append(queue, [commit |-> run[r].commit, by |-> "action", run |-> r])
  <2>1. asked'[r] = 1 /\ asked' \in [Runs -> Nat] /\ \A s \in Runs \ {r} : asked'[s] = asked[s]
    BY <1>2, <1>4, <1>7
  <2>2. PICK c \in Commits : c = run[r].commit
    BY <1>4 DEF Run
  <2>3. r \in 0 .. MaxRuns
    BY ActionRunsAssumption DEF Runs
  <2>4. PICK q \in DeployRequest : q = [commit |-> c, by |-> "action", run |-> r]
    BY <2>3 DEF DeployRequest
  <2>5. q.commit = c /\ q.by = "action" /\ q.run = r /\ queue' = Append(queue, q)
    BY <1>7, <2>2, <2>4
  <2>6. /\ queue' \in Seq(DeployRequest) /\ Len(queue') <= BuildQueue
        /\ \A i \in DOMAIN queue' : (i \in DOMAIN queue /\ queue'[i] = queue[i]) \/ queue'[i] = q
    BY <1>7, <2>5, AppendTyped
  <2>7. RequestOK(q)'
    BY <1>2, <1>3, <2>1, <2>2, <2>5 DEF RequestOK
  <2>8. \A i \in DOMAIN queue' : RequestOK(queue[i])'
    <3> SUFFICES ASSUME NEW i \in DOMAIN queue'
                 PROVE  RequestOK(queue[i])'
      OBVIOUS
    <3>1. CASE queue'[i] = q
      <4>1. PICK p : p = queue'[i]
        OBVIOUS
      <4>2. QED
        BY <2>7, <3>1 DEF RequestOK
    <3>2. CASE i \in DOMAIN queue /\ queue'[i] = queue[i]
      <4>1. RequestOK(queue[i]) /\ queue[i] \in DeployRequest
        BY <3>2, QueueTyped DEF RunsInv, QueueOK
      <4>2. QED
        BY <1>2, <1>3, <1>4, <2>1, <3>2, <4>1 DEF RequestOK
    <3>3. QED
      BY <2>6, <3>1, <3>2
  <2>9. QED
    BY <1>4, <1>5, <1>7, <2>1, <2>6, <2>8 DEF QueueOK, MayDeploy
<1>8. QED
  BY <1>1, <1>6, <1>7 DEF QueueDeploy

LEMMA FinishStep ==
    ASSUME ActionsTypeOK, RunsInv, NEW w \in ActionWorkers, Finish(w)
    PROVE  ActionsTypeOK' /\ RunsInv'
<1>0. ~Idles(w) /\ exec[w].at \in {"done", "fail"} /\ exec' = [exec EXCEPT ![w] = AtEase]
  BY DEF Finish, Idles
<1>1. PICK r \in Runs : r = exec[w].run /\ run[r].status = "running" /\ RunOK(r)
  BY <1>0, InHand DEF RunsInv
<1>2. /\ UNCHANGED <<hosted, tip, event, job, artifact, queue, asked, tested>>
      /\ lost' \in SUBSET Runs
  BY <1>1 DEF Finish, ActionsTypeOK
<1>3. PICK x \in Run : x = run[r]
  BY DEF ActionsTypeOK
<1>4. PICK y \in Run : /\ run' = [run EXCEPT ![r] = y] /\ y.push = x.push
                       /\ \/ y.status = "success" /\ exec[w].at = "done"
                          \/ y.status = "failed"
                          \/ y.status = "running"
  <2>1. CASE run' = run
    BY <1>1, <1>3, <2>1 DEF ActionsTypeOK
  <2>2. CASE run' = [run EXCEPT ![exec[w].run].status = IF exec[w].at = "done" THEN "success" ELSE "failed"]
    <3>1. PICK v \in {"success", "failed"} : v = IF exec[w].at = "done" THEN "success" ELSE "failed"
      OBVIOUS
    <3>2. PICK y : y = [x EXCEPT !.status = v]
      OBVIOUS
    <3>3. y \in Run /\ y.push = x.push /\ y.status = v
      BY <3>2 DEF Run, Verdict
    <3>4. run' = [run EXCEPT ![r] = y]
      BY <1>1, <1>3, <2>2, <3>1, <3>2 DEF ActionsTypeOK
    <3>5. v = "success" => exec[w].at = "done"
      BY <3>1
    <3>6. QED
      BY <3>3, <3>4, <3>5
  <2>3. QED
    BY <2>1, <2>2 DEF Finish
<1>5. run' \in [Runs -> Run] /\ run'[r] = y /\ \A s \in Runs \ {r} : run'[s] = run[s]
  BY <1>4 DEF ActionsTypeOK
<1>6. /\ Alone({w}, r) /\ exec' \in [ActionWorkers -> Exec] /\ exec'[w] = AtEase
      /\ \A v \in ActionWorkers \ {w} : exec'[v] = exec[v]
  BY <1>0, <1>1, RecordsTyped, WorkerMoves
<1>7. ActionsTypeOK'
  BY <1>2, <1>5, <1>6 DEF ActionsTypeOK, Exec
<1>8. Touches({w}, r)
  BY <1>2, <1>5, <1>6 DEF Touches
<1>9. exec[w].at = "done" => AllJobsDone(r)
  BY <1>1 DEF RunsInv, WorkerOK
<1>10. RunOK(r)'
  BY <1>1, <1>2, <1>3, <1>4, <1>5, <1>9 DEF RunOK, AllJobsDone
<1>11. WorkerOK(w)'
  BY <1>6, RecordsTyped DEF WorkerOK
<1>12. QueueOK'
  BY <1>2, SameQueue
<1>13. QED
  BY <1>6, <1>7, <1>8, <1>10, <1>11, <1>12, OneRun
-----------------------------------------------------------------------------
\* Pushers, users, the build queue and crashes leave runs and what was asked alone.
LEMMA RunsStand ==
    ASSUME ActionsTypeOK, RunsInv, UNCHANGED <<hosted, run, job, exec, asked, tested>>, QueueOK'
    PROVE  RunsInv'
<1>1. \A w \in ActionWorkers : WorkerOK(w)'
  BY DEF RunsInv, WorkerOK, AllJobsDone
<1>2. \A r \in Runs : RunOK(r)'
  BY DEF RunsInv, RunOK, AllJobsDone
<1>3. QED
  BY <1>1, <1>2 DEF RunsInv, Apart, Idles

LEMMA PusherStep ==
    ASSUME ActionsTypeOK, RunsInv, NEW c \in Pushers,
           Push(c) \/ HandlePush(c) \/ TriggerRun(c) \/ FallBack(c)
    PROVE  ActionsTypeOK' /\ RunsInv'
<1>1. event \in [Pushers -> Event] /\ event[c].commit \in Commits /\ NoEvent \in Event
  BY RecordsTyped DEF ActionsTypeOK, Event
<1>2. tip \in Commits /\ 0 \in Commits
  BY ActionRunsAssumption DEF ActionsTypeOK, Commits
<1>3. CASE Push(c)
  <2>1. tip + 1 \in Commits
    BY <1>3, ActionRunsAssumption DEF Push, ActionsTypeOK, Commits
  <2>2. PICK e : e = [at |-> "resolve", commit |-> tip + 1]
    OBVIOUS
  <2>3. e \in Event
    BY <2>1, <2>2 DEF Event
  <2>4. ActionsTypeOK'
    BY <1>1, <1>3, <2>1, <2>2, <2>3 DEF Push, ActionsTypeOK, Event
  <2>5. QED
    BY <1>3, <2>4, RunsStand DEF Push, QueueOK, RunsInv, RequestOK
<1>4. CASE HandlePush(c)
  <2>1. \A sha \in Commits : [at |-> "trigger", commit |-> sha] \in Event
    BY DEF Event
  <2>2. event' \in [Pushers -> Event]
    BY <1>1, <1>2, <1>4, <2>1 DEF HandlePush
  <2>3. ActionsTypeOK'
    BY <1>4, <2>2 DEF HandlePush, ActionsTypeOK, Event
  <2>4. QED
    BY <1>4, <2>3, RunsStand DEF HandlePush, QueueOK, RunsInv, RequestOK
<1>5. CASE TriggerRun(c)
  <2>1. PICK r \in Runs : NextRun(r) /\ Queued(r, TRUE, event[c].commit)
    BY <1>5 DEF TriggerRun
  <2>2. RunsInv' /\ run' \in [Runs -> Run]
    BY <1>1, <1>5, <2>1, NewRunStep DEF TriggerRun
  <2>3. event' \in [Pushers -> Event]
    BY <1>1, <1>5 DEF TriggerRun
  <2>4. QED
    BY <1>5, <2>1, <2>2, <2>3 DEF TriggerRun, Queued, ActionsTypeOK, Event
<1>6. CASE FallBack(c)
  <2>1. PICK sha \in Commits : sha = IF hosted THEN 0 ELSE event[c].commit
    BY <1>1, <1>2
  <2>2. 0 \in 0 .. MaxRuns
    BY ActionRunsAssumption
  <2>3. PICK q \in DeployRequest : q = [commit |-> sha, by |-> "auto", run |-> 0]
    BY <2>2 DEF DeployRequest
  <2>4. q.by = "auto" /\ queue' = IF Room THEN Append(queue, q) ELSE queue
    BY <1>6, <2>1, <2>3 DEF FallBack
  <2>5. /\ queue' \in Seq(DeployRequest) /\ Len(queue') <= BuildQueue
        /\ \A i \in DOMAIN queue' : (i \in DOMAIN queue /\ queue'[i] = queue[i]) \/ queue'[i] = q
    BY <2>4, AppendTyped DEF ActionsTypeOK
  <2>6. event' \in [Pushers -> Event] /\ UNCHANGED <<hosted, tip, run, job, artifact, exec, asked, tested, lost>>
    BY <1>1, <1>6 DEF FallBack
  <2>7. QueueOK'
    BY <2>4, <2>5, <2>6 DEF QueueOK, RunsInv, RequestOK
  <2>8. QED
    BY <2>5, <2>6, <2>7, RunsStand DEF ActionsTypeOK, Event
<1>7. QED
  BY <1>3, <1>4, <1>5, <1>6

LEMMA TakeDeployStep ==
    ASSUME ActionsTypeOK, RunsInv, TakeDeploy
    PROVE  ActionsTypeOK' /\ RunsInv'
<1>1. /\ queue' \in Seq(DeployRequest) /\ Len(queue') <= BuildQueue
      /\ \A i \in DOMAIN queue' : \E n \in DOMAIN queue : queue'[i] = queue[n]
  BY TailTyped DEF TakeDeploy
<1>2. UNCHANGED <<hosted, tip, event, run, job, artifact, exec, asked, tested, lost>>
  BY DEF TakeDeploy
<1>3. QueueOK'
  BY <1>1, <1>2 DEF QueueOK, RunsInv, RequestOK
<1>4. QED
  BY <1>1, <1>2, <1>3, RunsStand DEF ActionsTypeOK

LEMMA CiCrashStep ==
    ASSUME ActionsTypeOK, RunsInv, CiCrash
    PROVE  ActionsTypeOK' /\ RunsInv'
<1>1. /\ UNCHANGED <<hosted, tip, run, job, artifact, asked, tested>>
      /\ exec' = [w \in ActionWorkers |-> AtEase] /\ event' = [c \in Pushers |-> NoEvent] /\ queue' = <<>>
  BY DEF CiCrash
<1>2. queue' \in Seq(DeployRequest) /\ Len(queue') = 0 /\ DOMAIN queue' = {}
  BY <1>1
<1>3. lost' \in SUBSET Runs
  BY InHand DEF CiCrash, ActionsTypeOK
<1>4. ActionsTypeOK'
  BY <1>1, <1>2, <1>3, RecordsTyped, ActionRunsAssumption DEF ActionsTypeOK, Event, Exec
<1>5. \A w \in ActionWorkers : WorkerOK(w)'
  BY <1>1, RecordsTyped DEF WorkerOK
<1>6. \A r \in Runs : RunOK(r)'
  BY <1>1 DEF RunsInv, RunOK, AllJobsDone
<1>7. QED
  BY <1>1, <1>2, <1>4, <1>5, <1>6, RecordsTyped DEF RunsInv, QueueOK, Apart, Idles

LEMMA RunsStep == ActionsTypeOK /\ RunsInv /\ [ActionsNext]_ciVars => ActionsTypeOK' /\ RunsInv'
<1> SUFFICES ASSUME ActionsTypeOK, RunsInv, [ActionsNext]_ciVars
             PROVE  ActionsTypeOK' /\ RunsInv'
  OBVIOUS
<1>1. CASE ManualRun
  <2>1. PICK r \in Runs : NextRun(r) /\ Queued(r, FALSE, 0)
    BY <1>1 DEF ManualRun
  <2>2. 0 \in Commits
    BY ActionRunsAssumption DEF Commits
  <2>3. RunsInv' /\ run' \in [Runs -> Run]
    BY <1>1, <2>1, <2>2, NewRunStep DEF ManualRun
  <2>4. QED
    BY <1>1, <2>1, <2>3 DEF ManualRun, Queued, ActionsTypeOK
<1>2. ASSUME NEW w \in ActionWorkers, Works(w)
      PROVE  ActionsTypeOK' /\ RunsInv'
  BY <1>2, ClaimStep, CheckoutStep, BreaksOffStep, StartJobStep, StepSucceedsStep, StepFailsStep, EndJobStep,
     QueueDeployStep, FinishStep DEF Works
<1>3. CASE UNCHANGED ciVars
  <2>1. QueueOK'
    BY <1>3 DEF ciVars, RunsInv, QueueOK, RequestOK
  <2>2. QED
    BY <1>3, <2>1, RunsStand DEF ciVars, ActionsTypeOK
<1>4. QED
  BY <1>1, <1>2, <1>3, PusherStep, TakeDeployStep, CiCrashStep DEF ActionsNext

\* Rows, goroutines, workers and the build queue keep their types; in particular the
\* queue never holds more than it has room for.
THEOREM ActionsTyped == ActionsSpec => []ActionsTypeOK
BY RunsInit, RunsStep, PTL DEF ActionsSpec

\* For any workflow, workers, pushers and bounds: what an action run calls green was
\* run by one worker to the last step, a run asks for one deploy at most and only for a
\* push that passed, and what is built for it is what was tested.
THEOREM RunsSound == ActionsSpec => []RunsAreSound
<1>1. ActionsTypeOK /\ RunsInv => RunsAreSound
  <2> SUFFICES ASSUME ActionsTypeOK, RunsInv
               PROVE  RunsAreSound
    OBVIOUS
  <2>1. GreenIsGreen
    <3>1. ASSUME NEW r \in Runs, run[r].status = "success", NEW j \in Jobs
          PROVE  job[r][j] = [status |-> "success", done |-> Len(Script[j])]
      <4>1. job[r][j].status = "success" /\ job[r][j].done = Len(Script[j]) /\ job[r][j] \in Job
        BY <3>1 DEF RunsInv, RunOK, AllJobsDone, ActionsTypeOK
      <4>2. QED
        BY <4>1 DEF Job
    <3>2. QED
      BY <3>1 DEF GreenIsGreen, RunsInv, Apart
  <2>2. DeploysPassed
    BY DEF DeploysPassed, RunsInv, RunOK
  <2>3. TestedIsBuilt
    BY DEF TestedIsBuilt, RunsInv, QueueOK, RequestOK, Built, CheckedOut
  <2>4. QED
    BY <2>1, <2>2, <2>3 DEF RunsAreSound
<1>2. QED
  BY <1>1, RunsInit, RunsStep, PTL DEF ActionsSpec
-----------------------------------------------------------------------------
(* Mirrors *)

Syncs == [at : SyncPlaces, todo : SUBSET Remotes, on : Remotes \cup {NoRemote}, ok : BOOLEAN]
Mirror == [status : SyncStatus, has : 0 .. MaxChanges]

\* Who is past the mutex holds it, and syncs a mirror that there is.
MutexInv == \A g \in Syncers : sync[g].at \in {"pend", "push", "write"} => backupMu = g /\ sync[g].on \in Remotes

LEMMA MirrorsConstants ==
    /\ NoSync \in Syncs /\ NoSync.at = "idle" /\ 0 \in 0 .. MaxChanges
    /\ [status |-> "none", has |-> 0] \in Mirror
BY MirrorsAssumption DEF NoSync, Syncs, SyncPlaces, Mirror, SyncStatus

LEMMA RestTyped ==
    ASSUME NEW S \in SUBSET Remotes
    PROVE  Rest(S) \in Syncs /\ Rest(S).at \in {"idle", "take"}
<1>1. PICK d \in Syncs : d = NoSync /\ d.at = "idle"
  BY MirrorsConstants
<1>2. [d EXCEPT !.at = "take", !.todo = S] \in Syncs /\ [d EXCEPT !.at = "take", !.todo = S].at = "take"
  BY DEF Syncs, SyncPlaces
<1>3. QED
  BY <1>1, <1>2 DEF Rest

\* A goroutine that goes on, and what it needs for that.
LEMMA SyncGoesOn ==
    ASSUME MirrorsTypeOK, MutexInv, NEW g \in Syncers, NEW e \in Syncs, sync' = [sync EXCEPT ![g] = e],
           e.at \in {"pend", "push", "write"} => e.on \in Remotes /\ backupMu' = g,
           \/ backupMu' = backupMu
           \/ \A f \in Syncers \ {g} : sync[f].at \notin {"pend", "push", "write"}
    PROVE  MutexInv' /\ sync' \in [Syncers -> Syncs]
<1>1. sync \in [Syncers -> Syncs]
  BY DEF MirrorsTypeOK, Syncs
<1>2. sync' \in [Syncers -> Syncs] /\ sync'[g] = e /\ \A f \in Syncers \ {g} : sync'[f] = sync[f]
  BY <1>1
<1>3. QED
  BY <1>2 DEF MutexInv

\* The status of a mirror, or what it has, changes.
LEMMA MirrorTyped ==
    ASSUME MirrorsTypeOK, NEW m \in Remotes, NEW status \in SyncStatus, NEW n \in 0 .. MaxChanges,
           remote' = [remote EXCEPT ![m].status = status] \/ remote' = [remote EXCEPT ![m].has = n]
    PROVE  remote' \in [Remotes -> Mirror]
<1>1. PICK x \in Mirror : x = remote[m]
  BY DEF MirrorsTypeOK, Mirror
<1>2. [x EXCEPT !.status = status] \in Mirror /\ [x EXCEPT !.has = n] \in Mirror
  BY DEF Mirror
<1>3. remote' = [remote EXCEPT ![m] = [x EXCEPT !.status = status]] \/ remote' = [remote EXCEPT ![m] = [x EXCEPT !.has = n]]
  BY <1>1 DEF MirrorsTypeOK
<1>4. remote \in [Remotes -> Mirror]
  BY DEF MirrorsTypeOK, Mirror
<1>5. QED
  BY <1>2, <1>3, <1>4

LEMMA SyncingStep ==
    ASSUME MirrorsTypeOK, MutexInv, NEW g \in Syncers, Syncing(g)
    PROVE  MirrorsTypeOK' /\ MutexInv'
<1>1. PICK d \in Syncs : d = sync[g]
  BY DEF MirrorsTypeOK, Syncs
<1>2. d.todo \in SUBSET Remotes /\ sync \in [Syncers -> Syncs] /\ refs \in 0 .. MaxChanges /\ g \in Syncers \cup {Nobody}
  BY DEF Syncs, MirrorsTypeOK
<1>3. \A f \in Syncers \ {g} : backupMu = g => sync[f].at \notin {"pend", "push", "write"}
  BY DEF MutexInv
<1>4. CASE \E m \in Remotes : TakeMutex(g, m)
  <2>1. PICK m \in Remotes : TakeMutex(g, m)
    BY <1>4
  <2>2. PICK t : t = d.todo \ {m}
    OBVIOUS
  <2>3. PICK e : e = [d EXCEPT !.at = "pend", !.on = m, !.todo = t]
    OBVIOUS
  <2>4. e \in Syncs /\ e.at = "pend" /\ e.on = m
    BY <1>2, <2>2, <2>3 DEF Syncs, SyncPlaces
  <2>5. sync' = [sync EXCEPT ![g] = e] /\ backupMu = Nobody /\ backupMu' = g /\ UNCHANGED <<refs, marked, remote, excused>>
    BY <1>1, <1>2, <2>1, <2>2, <2>3 DEF TakeMutex
  <2>6. Nobody \notin Syncers
    BY MirrorsAssumption DEF Syncers, Worker, Nobody
  <2>7. \A f \in Syncers \ {g} : sync[f].at \notin {"pend", "push", "write"}
    BY <2>5, <2>6 DEF MutexInv
  <2>8. MutexInv' /\ sync' \in [Syncers -> Syncs]
    BY <2>4, <2>5, <2>7, SyncGoesOn
  <2>9. QED
    BY <1>2, <2>5, <2>8 DEF MirrorsTypeOK, Syncs
<1>5. CASE WritePending(g) \/ PushMirror(g) \/ PushMirrorFails(g)
  <2>1. sync[g].at \in {"pend", "push"} /\ backupMu' = backupMu /\ UNCHANGED <<refs, marked>>
    BY <1>5 DEF WritePending, PushMirror, PushMirrorFails
  <2>2. PICK m \in Remotes : m = d.on /\ backupMu = g
    BY <1>1, <2>1 DEF MutexInv
  <2>3. PICK e \in Syncs : sync' = [sync EXCEPT ![g] = e] /\ e.on = m
    <3>1. PICK x : x = [d EXCEPT !.at = "push"]
      OBVIOUS
    <3>2. PICK y : y = [d EXCEPT !.at = "write", !.ok = TRUE]
      OBVIOUS
    <3>3. PICK z : z = [d EXCEPT !.at = "write", !.ok = FALSE]
      OBVIOUS
    <3>4. x \in Syncs /\ y \in Syncs /\ z \in Syncs /\ x.on = m /\ y.on = m /\ z.on = m
      BY <2>2, <3>1, <3>2, <3>3 DEF Syncs, SyncPlaces
    <3>5. sync' = [sync EXCEPT ![g] = x] \/ sync' = [sync EXCEPT ![g] = y] \/ sync' = [sync EXCEPT ![g] = z]
      BY <1>1, <1>2, <1>5, <3>1, <3>2, <3>3 DEF WritePending, PushMirror, PushMirrorFails
    <3>6. QED
      BY <3>4, <3>5
  <2>4. remote' \in [Remotes -> Mirror]
    <3>1. CASE remote' = remote
      BY <3>1 DEF MirrorsTypeOK, Mirror
    <3>2. CASE remote' # remote
      BY <1>1, <1>2, <1>5, <2>2, <3>2, MirrorTyped DEF WritePending, PushMirror, PushMirrorFails, SyncStatus
    <3>3. QED
      BY <3>1, <3>2
  <2>5. excused' \in SUBSET Remotes
    BY <1>1, <1>5, <2>2 DEF WritePending, PushMirror, PushMirrorFails, MirrorsTypeOK
  <2>6. MutexInv' /\ sync' \in [Syncers -> Syncs]
    BY <2>1, <2>2, <2>3, SyncGoesOn
  <2>7. QED
    BY <2>1, <2>4, <2>5, <2>6 DEF MirrorsTypeOK, Syncs, Mirror
<1>6. CASE WriteSynced(g) \/ SyncFails(g)
  <2>1. sync[g].at \in {"pend", "write"} /\ Leaves(g) /\ UNCHANGED <<refs, marked>>
    BY <1>6 DEF WriteSynced, SyncFails
  <2>2. PICK m \in Remotes : m = d.on /\ backupMu = g
    BY <1>1, <2>1 DEF MutexInv
  <2>3. PICK e \in Syncs : sync' = [sync EXCEPT ![g] = e] /\ e.at \in {"idle", "take"}
    BY <1>1, <1>2, <2>1, RestTyped DEF Leaves
  <2>4. PICK status \in SyncStatus : status = IF d.ok THEN "success" ELSE "failed"
    BY DEF SyncStatus
  <2>5. remote' \in [Remotes -> Mirror]
    <3>1. CASE remote' = remote
      BY <3>1 DEF MirrorsTypeOK, Mirror
    <3>2. CASE remote' # remote
      <4>1. remote' = [remote EXCEPT ![m].status = status]
        BY <1>1, <1>6, <2>2, <2>4, <3>2 DEF WriteSynced, SyncFails
      <4>2. QED
        BY <1>2, <4>1, MirrorTyped
    <3>3. QED
      BY <3>1, <3>2
  <2>6. excused' \in SUBSET Remotes
    BY <1>1, <1>6, <2>2 DEF WriteSynced, SyncFails, MirrorsTypeOK
  <2>7. MutexInv' /\ sync' \in [Syncers -> Syncs]
    BY <1>3, <2>2, <2>3, SyncGoesOn
  <2>8. QED
    BY <2>1, <2>5, <2>6, <2>7 DEF MirrorsTypeOK, Syncs, Mirror, Leaves
<1>7. QED
  BY <1>4, <1>5, <1>6 DEF Syncing

LEMMA MirrorsStep == MirrorsTypeOK /\ MutexInv /\ [MirrorsNext]_mirrorVars => MirrorsTypeOK' /\ MutexInv'
<1> SUFFICES ASSUME MirrorsTypeOK, MutexInv, [MirrorsNext]_mirrorVars
             PROVE  MirrorsTypeOK' /\ MutexInv'
  OBVIOUS
<1>1. /\ sync \in [Syncers -> Syncs] /\ refs \in 0 .. MaxChanges /\ Worker \in Syncers
      /\ \A c \in Clients : c \in Syncers
  BY DEF MirrorsTypeOK, Syncs, Syncers
<1>2. refs < MaxChanges => refs + 1 \in 0 .. MaxChanges
  BY MirrorsAssumption DEF MirrorsTypeOK
<1>3. ASSUME NEW c \in Clients, PushRefs(c)
      PROVE  MirrorsTypeOK' /\ MutexInv'
  <2>1. PICK d \in Syncs : d = sync[c]
    BY <1>1
  <2>2. PICK e : e = [d EXCEPT !.at = "mark"]
    OBVIOUS
  <2>3. e \in Syncs /\ e.at = "mark" /\ sync' = [sync EXCEPT ![c] = e] /\ backupMu' = backupMu
    BY <1>1, <1>3, <2>1, <2>2 DEF Syncs, SyncPlaces, PushRefs
  <2>4. MutexInv' /\ sync' \in [Syncers -> Syncs]
    BY <1>1, <2>3, SyncGoesOn
  <2>5. QED
    BY <1>2, <1>3, <2>4 DEF MirrorsTypeOK, Syncs, PushRefs
<1>4. ASSUME NEW g \in Syncers, NEW S \in SUBSET Remotes, sync' = [sync EXCEPT ![g] = Rest(S)], backupMu' = backupMu
      PROVE  MutexInv' /\ sync' \in [Syncers -> Syncs]
  BY <1>4, RestTyped, SyncGoesOn
<1>5. ASSUME NEW c \in Clients, Announces(c)
      PROVE  MirrorsTypeOK' /\ MutexInv'
  <2>1. CASE MarkPending(c)
    <3>1. \A x \in Mirror : [x EXCEPT !.status = "pending"] \in Mirror
      BY DEF Mirror, SyncStatus
    <3>2. remote' \in [Remotes -> Mirror] /\ excused' \in SUBSET Remotes
      BY <2>1, <3>1 DEF MarkPending, MirrorsTypeOK, Mirror
    <3>3. PICK d \in Syncs : d = sync[c]
      BY <1>1
    <3>4. PICK e : e = [d EXCEPT !.at = "event"]
      OBVIOUS
    <3>5. e \in Syncs /\ e.at = "event" /\ sync' = [sync EXCEPT ![c] = e] /\ backupMu' = backupMu
      BY <1>1, <2>1, <3>3, <3>4 DEF Syncs, SyncPlaces, MarkPending
    <3>6. MutexInv' /\ sync' \in [Syncers -> Syncs]
      BY <1>1, <3>5, SyncGoesOn
    <3>7. QED
      BY <2>1, <3>2, <3>6 DEF MirrorsTypeOK, Syncs, Mirror, MarkPending
  <2>2. CASE StartSyncs(c)
    <3>1. MutexInv' /\ sync' \in [Syncers -> Syncs]
      BY <1>1, <1>4, <2>2 DEF StartSyncs
    <3>2. QED
      BY <2>2, <3>1 DEF MirrorsTypeOK, Syncs, StartSyncs
  <2>3. CASE StartSyncsFails(c)
    <3>1. sync' = [sync EXCEPT ![c] = NoSync] /\ backupMu' = backupMu
      BY <2>3 DEF StartSyncsFails
    <3>2. MutexInv' /\ sync' \in [Syncers -> Syncs]
      BY <1>1, <3>1, MirrorsConstants, SyncGoesOn
    <3>3. excused' \in SUBSET Remotes
      BY <2>3 DEF StartSyncsFails, Overtaken, MirrorsTypeOK
    <3>4. QED
      BY <2>3, <3>2, <3>3 DEF MirrorsTypeOK, Syncs, StartSyncsFails
  <2>4. QED
    BY <1>5, <2>1, <2>2, <2>3 DEF Announces
<1>6. CASE ChangeRefs
  BY <1>2, <1>6 DEF ChangeRefs, MirrorsTypeOK, MutexInv
<1>7. ASSUME NEW c \in Clients, NEW m \in Remotes, AskSync(c, m)
      PROVE  MirrorsTypeOK' /\ MutexInv'
  <2>1. MutexInv' /\ sync' \in [Syncers -> Syncs]
    BY <1>1, <1>4, <1>7 DEF AskSync
  <2>2. QED
    BY <1>7, <2>1 DEF MirrorsTypeOK, Syncs, AskSync
<1>8. CASE ListPending
  <2>1. Pending \in SUBSET Remotes
    BY DEF Pending
  <2>2. MutexInv' /\ sync' \in [Syncers -> Syncs]
    BY <1>1, <1>4, <1>8, <2>1 DEF ListPending
  <2>3. QED
    BY <1>8, <2>2 DEF MirrorsTypeOK, Syncs, ListPending
<1>9. CASE MirrorsCrash
  BY <1>9, MirrorsConstants DEF MirrorsCrash, MirrorsTypeOK, MutexInv, Syncs
<1>10. CASE UNCHANGED mirrorVars
  BY <1>10 DEF mirrorVars, MirrorsTypeOK, MutexInv
<1>11. QED
  BY <1>3, <1>5, <1>6, <1>7, <1>8, <1>9, <1>10, SyncingStep DEF MirrorsNext

LEMMA MirrorsInitially == MirrorsInit => MirrorsTypeOK /\ MutexInv
BY MirrorsConstants DEF MirrorsInit, MirrorsTypeOK, MutexInv, Syncs, Mirror

\* Refs, mirrors and goroutines keep their types; and the mutex does its work: it is
\* held by the one goroutine that is past it.
THEOREM MirrorsTyped == MirrorsSpec => [](MirrorsTypeOK /\ MutexInv)
BY MirrorsInitially, MirrorsStep, PTL DEF MirrorsSpec
-----------------------------------------------------------------------------
(* Game servers *)

GameCall == [at : GamePlaces, row : GameRow, env : 0 .. MaxConfigs, cid : Cids,
             status : GameStatus, again : BOOLEAN, alone : BOOLEAN]
Watch == [at : WatchPlaces, row : GameRow, found : Cids, verdict : {"running", "error"},
          failures : 0 .. unhealthyThreshold]
States == {"absent", "created", "running", "exited", "stopped"}

Serves(c) == gjob[c].at # "idle"
Rebuilding == {"port", "remove", "create"}
Exact(i) == cont[i].port = game.port /\ cont[i].env = config
InForce == \A i \in Named : cont[i].env = config

\* A request that has run alone so far holds the row's port and the last configuration,
\* and the container it is about to start has both.
LoneKnows(c) ==
    Serves(c) /\ gjob[c].alone =>
        /\ \A d \in Clients \ {c} : ~Serves(d)
        /\ game.there /\ gjob[c].row.port = game.port /\ gjob[c].env = config
        /\ gjob[c].at \in {"remove", "create", "start"} => game.port # 0
        /\ gjob[c].at = "start" => \A i \in Named : Exact(i)

\* Once such a request has started the game, and until requests overlap: what has the
\* name has the row's port, and, whenever nobody is about to make it anew, the last
\* configuration, or this is known not to be in force.
Calm ==
    /\ \A c \in Clients : Serves(c) => gjob[c].alone
    /\ \A i \in Named : cont[i].port = game.port
    /\ game.port = 0 => Named = {}
    /\ (\A c \in Clients : gjob[c].at \notin Rebuilding) => unapplied \/ InForce

GamesInv == (\A c \in Clients : LoneKnows(c)) /\ (~mixed => Calm)

LEMMA GamesConstants ==
    /\ NewGame \in GameRow /\ NewGame.port = 0
    /\ AtRest \in GameCall /\ AtRest.at = "idle"
    /\ 0 \in Cids /\ 0 \in 0 .. MaxConfigs /\ 0 \in 0 .. MaxPorts /\ 0 \in 0 .. MaxJobs
    /\ \A n \in 0 .. unhealthyThreshold : Unwatched(n) \in Watch
    /\ 0 \in 0 .. unhealthyThreshold
<1>1. /\ 0 \in Cids /\ 0 \in 0 .. MaxConfigs /\ 0 \in 0 .. MaxPorts /\ 0 \in 0 .. MaxJobs
      /\ 0 \in 0 .. unhealthyThreshold
  BY GamesAssumption DEF Cids, unhealthyThreshold
<1>2. NewGame \in GameRow /\ NewGame.port = 0
  BY <1>1 DEF NewGame, GameRow, GameStatus
<1>3. AtRest \in GameCall /\ AtRest.at = "idle"
  BY <1>1, <1>2 DEF AtRest, GameCall, GamePlaces, GameStatus
<1>4. \A n \in 0 .. unhealthyThreshold : Unwatched(n) \in Watch
  BY <1>1, <1>2 DEF Unwatched, Watch, WatchPlaces
<1>5. QED
  BY <1>1, <1>2, <1>3, <1>4

LEMMA GamesInitially == GamesInit => GamesTypeOK /\ GamesInv
<1> SUFFICES ASSUME GamesInit
             PROVE  GamesTypeOK /\ GamesInv
  OBVIOUS
<1>1. [state |-> "absent", env |-> 0, port |-> 0] \in Container
  BY GamesConstants DEF Container
<1>2. PICK x \in Container : x = [state |-> "absent", env |-> 0, port |-> 0]
  BY <1>1
<1>3. x.state = "absent" /\ cont = [i \in 1 .. MaxContainers |-> x]
  BY <1>2 DEF GamesInit
<1>4. Named = {}
  BY <1>3 DEF Named
<1>5. watch \in Watch
  BY GamesConstants DEF GamesInit
<1>6. GamesTypeOK
  <2>1. cont \in [1 .. MaxContainers -> Container] /\ gjob \in [Clients -> GameCall]
    BY <1>3, GamesConstants DEF GamesInit
  <2>2. game \in GameRow /\ config \in 0 .. MaxConfigs /\ ports \in 0 .. MaxPorts /\ jobs \in 0 .. MaxJobs
    BY GamesConstants DEF GamesInit
  <2>3. QED
    BY <1>5, <2>1, <2>2 DEF GamesInit, GamesTypeOK, GameCall, Watch
<1>7. \A c \in Clients : ~Serves(c)
  BY GamesConstants DEF GamesInit, Serves
<1>8. QED
  BY <1>4, <1>6, <1>7 DEF GamesInv, LoneKnows, Calm, InForce

\* What the invariant says of a request under way.
LEMMA OnTheWay ==
    ASSUME GamesInv, NEW c \in Clients, Serves(c)
    PROVE  /\ gjob[c].alone => /\ \A d \in Clients \ {c} : ~Serves(d)
                               /\ game.there /\ gjob[c].row.port = game.port /\ gjob[c].env = config
                               /\ gjob[c].at \in {"remove", "create", "start"} => game.port # 0
                               /\ gjob[c].at = "start" => \A i \in Named : Exact(i)
           /\ ~mixed => /\ gjob[c].alone /\ \A i \in Named : cont[i].port = game.port
                        /\ game.port = 0 => Named = {}
                        /\ gjob[c].at \notin Rebuilding => unapplied \/ InForce
<1>1. gjob[c].alone => \A d \in Clients \ {c} : gjob[d].at = "idle"
  BY DEF GamesInv, LoneKnows, Serves
<1>2. "idle" \notin Rebuilding
  BY DEF Rebuilding
<1>3. QED
  BY <1>1, <1>2 DEF GamesInv, LoneKnows, Calm

\* A request that goes on, with e as what it knows now: nobody else's knowledge matters.
LEMMA RequestGoesOn ==
    ASSUME GamesTypeOK, GamesInv, NEW c \in Clients, Serves(c), NEW e \in GameCall,
           gjob' = [gjob EXCEPT ![c] = e],
           e.at # "idle" => e.alone = gjob[c].alone,
           ~mixed' => ~mixed \/ gjob[c].alone,
           gjob[c].alone =>
               /\ e.at # "idle" => game'.there /\ e.row.port = game'.port /\ e.env = config'
               /\ e.at \in {"remove", "create", "start"} => game'.port # 0
               /\ e.at = "start" => \A i \in Named' : Exact(i)',
           gjob[c].alone /\ ~mixed' =>
               /\ \A i \in Named' : cont'[i].port = game'.port
               /\ game'.port = 0 => Named' = {}
               /\ e.at \notin Rebuilding => unapplied' \/ InForce'
    PROVE  GamesInv' /\ gjob' \in [Clients -> GameCall]
<1>1. gjob \in [Clients -> GameCall]
  BY DEF GamesTypeOK, GameCall
<1>2. gjob' \in [Clients -> GameCall] /\ gjob'[c] = e /\ \A d \in Clients \ {c} : gjob'[d] = gjob[d]
  BY <1>1
<1>3. \A d \in Clients \ {c} : Serves(d)' => ~gjob'[d].alone
  BY <1>2 DEF GamesInv, LoneKnows, Serves
<1>4. gjob[c].alone => \A d \in Clients \ {c} : ~Serves(d)'
  BY <1>2, OnTheWay DEF Serves
<1>5. LoneKnows(c)'
  BY <1>2, <1>4 DEF LoneKnows, Serves
<1>6. ~mixed' => gjob[c].alone
  BY OnTheWay
<1>7. ~mixed' => Calm'
  BY <1>2, <1>4, <1>6 DEF Calm, Serves
<1>8. QED
  BY <1>2, <1>3, <1>5, <1>7 DEF GamesInv, LoneKnows

\* e follows d on a way that makes no container.
Quiet(d, e) ==
    \/ e.at = "idle"
    \/ /\ e.row = d.row /\ e.alone = d.alone /\ e.env \in {d.env, config} /\ e.at # "start"
       /\ e.at \in {"remove", "create"} => d.at \in {"remove", "create"}

\* Its containers may go, stop or start; it notes what fails.
LEMMA QuietStep ==
    ASSUME GamesTypeOK, GamesInv, NEW c \in Clients, Serves(c), NEW e \in GameCall,
           gjob' = [gjob EXCEPT ![c] = e], Quiet(gjob[c], e), mixed' = mixed, config' = config,
           game'.port = game.port, e.at = "idle" \/ game'.there = game.there, Named' \subseteq Named,
           \A i \in Named' : cont'[i].port = cont[i].port /\ cont'[i].env = cont[i].env,
           \/ unapplied' = TRUE
           \/ unapplied' = unapplied /\ (gjob[c].at \in Rebuilding => e.at \in Rebuilding)
    PROVE  GamesInv' /\ gjob' \in [Clients -> GameCall]
<1>1. gjob[c].alone => /\ e.at # "idle" => game'.there /\ e.row.port = game'.port /\ e.env = config'
                       /\ e.at \in {"remove", "create", "start"} => game'.port # 0
                       /\ e.at # "start"
  BY OnTheWay DEF Quiet
<1>2. gjob[c].alone /\ ~mixed' =>
               /\ \A i \in Named' : cont'[i].port = game'.port
               /\ game'.port = 0 => Named' = {}
               /\ e.at \notin Rebuilding => unapplied' \/ InForce'
  BY OnTheWay DEF InForce
<1>3. e.at # "idle" => e.alone = gjob[c].alone
  BY DEF Quiet
<1>4. QED
  BY <1>1, <1>2, <1>3, RequestGoesOn

\* A step that begins no request and moves none, and keeps what it must of the name.
LEMMA RequestsStand ==
    ASSUME GamesTypeOK, GamesInv, UNCHANGED <<gjob, config, mixed, unapplied>>,
           game'.port = game.port, game'.there = game.there,
           Named' = Named, \A i \in Named : cont'[i].port = cont[i].port /\ cont'[i].env = cont[i].env
    PROVE  GamesInv'
BY DEF GamesInv, LoneKnows, Calm, Serves, Exact, InForce

\* What is stored in a row, if it is, changes its status and its container alone.
LEMMA StoredEffect ==
    ASSUME GamesTypeOK, NEW status \in GameStatus, NEW i \in Cids, Stored(status, i)
    PROVE  game' \in GameRow /\ game'.port = game.port /\ game'.there = game.there
<1>1. PICK g \in GameRow : g = game
  BY DEF GamesTypeOK
<1>2. [g EXCEPT !.status = status, !.cid = i] \in GameRow
  BY DEF GameRow
<1>3. game' = g \/ game' = IF g.there THEN [g EXCEPT !.status = status, !.cid = i] ELSE g
  BY <1>1 DEF Stored, Updated
<1>4. QED
  BY <1>1, <1>2, <1>3 DEF GameRow

\* A container changes its state, and no more.
LEMMA StateEffect ==
    ASSUME GamesTypeOK, NEW i \in 1 .. MaxContainers, NEW state \in States,
           cont' = [cont EXCEPT ![i].state = state]
    PROVE  /\ cont' \in [1 .. MaxContainers -> Container] /\ cont'[i].state = state
           /\ \A n \in 1 .. MaxContainers : /\ cont'[n].port = cont[n].port /\ cont'[n].env = cont[n].env
                                            /\ n # i => cont'[n] = cont[n]
<1>1. PICK x \in Container : x = cont[i]
  BY DEF GamesTypeOK
<1>2. PICK y : y = [x EXCEPT !.state = state]
  OBVIOUS
<1>3. y \in Container /\ y.state = state /\ y.port = x.port /\ y.env = x.env
  BY <1>2 DEF Container, States
<1>4. cont' = [cont EXCEPT ![i] = y] /\ cont \in [1 .. MaxContainers -> Container]
  BY <1>1, <1>2 DEF GamesTypeOK
<1>5. QED
  BY <1>1, <1>3, <1>4

\* Whatever becomes of it when Docker reports an error.
LEMMA FumblesEffect ==
    ASSUME GamesTypeOK, NEW i, NEW outcomes, outcomes \subseteq States, Fumbles(i, outcomes)
    PROVE  /\ cont' \in [1 .. MaxContainers -> Container] /\ Named' \subseteq Named
           /\ \A n \in Named' : cont'[n].port = cont[n].port /\ cont'[n].env = cont[n].env
<1>1. cont \in [1 .. MaxContainers -> Container]
  BY DEF GamesTypeOK
<1>2. PICK s \in States : cont' = [n \in 1 .. MaxContainers |->
                              IF n = i /\ n \in Named THEN [cont[n] EXCEPT !.state = s] ELSE cont[n]]
  BY <1>1 DEF Fumbles
<1>3. \A x \in Container : LET y == [x EXCEPT !.state = s]
                           IN  y \in Container /\ y.port = x.port /\ y.env = x.env
  BY DEF Container, States
<1>4. \A n \in 1 .. MaxContainers : /\ cont'[n] \in Container
                                    /\ cont'[n].port = cont[n].port /\ cont'[n].env = cont[n].env
                                    /\ n \notin Named => cont'[n] = cont[n]
  BY <1>1, <1>2, <1>3
<1>5. QED
  BY <1>2, <1>4 DEF Named

LEMMA AsItWasTyped ==
    ASSUME GamesTypeOK, NEW i \in Cids
    PROVE  AsItWas(i) \in States
<1>1. i # 0 => i \in 1 .. MaxContainers
  BY GamesAssumption DEF Cids
<1>2. i # 0 => cont[i] \in Container
  BY <1>1 DEF GamesTypeOK
<1>3. QED
  BY <1>2 DEF AsItWas, Container, States
-----------------------------------------------------------------------------
\* What a request in the middle of things knows.
LEMMA CallTyped ==
    ASSUME GamesTypeOK, NEW c \in Clients
    PROVE  \E e \in GameCall, r \in GameRow :
               /\ e = gjob[c] /\ r = e.row /\ r.port \in 0 .. MaxPorts /\ r.cid \in Cids /\ r.status \in GameStatus
               /\ e.env \in 0 .. MaxConfigs /\ e.cid \in Cids /\ e.status \in GameStatus /\ e.at \in GamePlaces
BY DEF GamesTypeOK, GameCall, GameRow

\* It moves on, with what it knows.
LEMMA GoesEffect ==
    ASSUME GamesTypeOK, NEW c \in Clients, NEW at \in GamePlaces, Goes(c, at)
    PROVE  \E e \in GameCall : /\ gjob' = [gjob EXCEPT ![c] = e] /\ e.at = at /\ e.alone = gjob[c].alone
                               /\ e.row = gjob[c].row /\ e.env = gjob[c].env /\ e.cid = gjob[c].cid
<1>1. PICK d \in GameCall : d = gjob[c]
  BY CallTyped
<1>2. PICK e : e = [d EXCEPT !.at = at]
  OBVIOUS
<1>3. e \in GameCall /\ e.at = at /\ e.alone = d.alone /\ e.row = d.row /\ e.env = d.env /\ e.cid = d.cid
  BY <1>2 DEF GameCall
<1>4. gjob' = [gjob EXCEPT ![c] = e]
  BY <1>1, <1>2 DEF Goes, GamesTypeOK
<1>5. QED
  BY <1>1, <1>3, <1>4

LEMMA FinishesEffect ==
    ASSUME NEW c \in Clients, Finishes(c)
    PROVE  \E e \in GameCall : gjob' = [gjob EXCEPT ![c] = e] /\ e.at = "idle"
BY GamesConstants DEF Finishes

LEMMA StartErrorEffect ==
    ASSUME GamesTypeOK, NEW c \in Clients, StartError(c)
    PROVE  /\ unapplied' = TRUE
           /\ \E e \in GameCall : /\ gjob' = [gjob EXCEPT ![c] = e] /\ e.at = "status" /\ e.alone = gjob[c].alone
                                  /\ e.row = gjob[c].row /\ e.env = gjob[c].env
<1>1. PICK d \in GameCall, r \in GameRow : d = gjob[c] /\ r = d.row /\ r.cid \in Cids
  BY CallTyped
<1>2. PICK i \in Cids : i = r.cid
  BY <1>1
<1>3. PICK e : e = [d EXCEPT !.at = "status", !.status = "error", !.cid = i, !.again = FALSE]
  OBVIOUS
<1>4. e \in GameCall /\ e.at = "status" /\ e.alone = d.alone /\ e.row = d.row /\ e.env = d.env
  BY <1>3 DEF GameCall, GamePlaces, GameStatus
<1>5. gjob' = [gjob EXCEPT ![c] = e] /\ unapplied' = TRUE
  BY <1>1, <1>2, <1>3 DEF StartError, GamesTypeOK
<1>6. QED
  BY <1>1, <1>4, <1>5

LEMMA SaveStep ==
    ASSUME GamesTypeOK, GamesInv, NEW c \in Clients, SaveConfig(c) \/ SaveConfigFails(c)
    PROVE  GamesTypeOK' /\ GamesInv'
<1>1. PICK d \in GameCall : d = gjob[c]
  BY CallTyped
<1>2. d.at = "save" /\ Serves(c) /\ UNCHANGED <<game, cont, ports, watch, jobs, mixed>>
  BY <1>1 DEF SaveConfig, SaveConfigFails, Serves
<1>3. Named' = Named
  BY <1>2 DEF Named
<1>4. CASE SaveConfigFails(c)
  <2>1. UNCHANGED <<config, unapplied>> /\ Finishes(c)
    BY <1>4 DEF SaveConfigFails
  <2>2. PICK e \in GameCall : gjob' = [gjob EXCEPT ![c] = e] /\ e.at = "idle"
    BY <2>1, FinishesEffect
  <2>3. GamesInv' /\ gjob' \in [Clients -> GameCall]
    BY <1>1, <1>2, <1>3, <2>1, <2>2, QuietStep DEF Quiet, Rebuilding
  <2>4. QED
    BY <1>2, <2>1, <2>3 DEF GamesTypeOK, GameCall
<1>5. CASE SaveConfig(c)
  <2>1. config' = config + 1 /\ config' \in 0 .. MaxConfigs
    BY <1>5, GamesAssumption DEF SaveConfig, GamesTypeOK
  <2>2. /\ unapplied' = (unapplied \/ d.row.status # "running") /\ unapplied' \in BOOLEAN
    BY <1>1, <1>5 DEF SaveConfig, GamesTypeOK
  <2>3. PICK e \in GameCall : /\ gjob' = [gjob EXCEPT ![c] = e]
                              /\ \/ e.at = "idle" /\ unapplied'
                                 \/ e.at = "port" /\ e.env = config' /\ e.alone = d.alone /\ e.row = d.row
    <3>1. CASE d.row.status = "running"
      <4>1. PICK k \in 0 .. MaxConfigs : k = config'
        BY <2>1
      <4>2. PICK e : e = [d EXCEPT !.at = "port", !.env = k]
        OBVIOUS
      <4>3. e \in GameCall /\ e.at = "port" /\ e.env = k /\ e.alone = d.alone /\ e.row = d.row
        BY <4>2 DEF GameCall, GamePlaces
      <4>4. gjob' = [gjob EXCEPT ![c] = e]
        BY <1>1, <1>5, <2>1, <3>1, <4>1, <4>2 DEF SaveConfig, GamesTypeOK
      <4>5. QED
        BY <4>1, <4>3, <4>4
    <3>2. CASE d.row.status # "running"
      BY <1>1, <1>5, <2>2, <3>2, FinishesEffect DEF SaveConfig
    <3>3. QED
      BY <3>1, <3>2
  <2>4. GamesInv' /\ gjob' \in [Clients -> GameCall]
    BY <1>1, <1>2, <1>3, <2>3, OnTheWay, RequestGoesOn DEF Rebuilding
  <2>5. QED
    BY <1>2, <2>1, <2>2, <2>4 DEF GamesTypeOK, GameCall
<1>6. QED
  BY <1>4, <1>5

LEMMA RestartStep ==
    ASSUME GamesTypeOK, GamesInv, NEW c \in Clients, RestartContainer(c) \/ RestartAnew(c) \/ RestartFails(c)
    PROVE  GamesTypeOK' /\ GamesInv'
<1>1. PICK d \in GameCall, r \in GameRow : d = gjob[c] /\ r = d.row /\ r.cid \in Cids
  BY CallTyped
<1>2. PICK i \in Cids : i = r.cid
  BY <1>1
<1>3. d.at = "restart" /\ Serves(c) /\ UNCHANGED <<game, config, ports, watch, jobs, mixed>>
  BY <1>1 DEF RestartContainer, RestartAnew, RestartFails, Serves
<1>4. \E outcomes : outcomes \subseteq States /\ Fumbles(i, outcomes)
  <2>1. {"running"} \subseteq States /\ {AsItWas(i), "stopped", "running"} \subseteq States
    BY AsItWasTyped DEF States
  <2>2. Fumbles(i, {"running"}) \/ Fumbles(i, {AsItWas(i), "stopped", "running"})
    BY <1>1, <1>2 DEF RestartContainer, RestartAnew, RestartFails
  <2>3. QED
    BY <2>1, <2>2
<1>5. /\ cont' \in [1 .. MaxContainers -> Container] /\ Named' \subseteq Named
      /\ \A n \in Named' : cont'[n].port = cont[n].port /\ cont'[n].env = cont[n].env
  BY <1>4, FumblesEffect
<1>6. PICK e \in GameCall : /\ gjob' = [gjob EXCEPT ![c] = e] /\ e.at \in {"status", "port"}
                            /\ e.row = d.row /\ e.alone = d.alone /\ e.env \in {d.env, config}
                            /\ unapplied' = TRUE \/ unapplied' = unapplied
  <2>1. CASE RestartContainer(c)
    <3>1. PICK e : e = [d EXCEPT !.at = "status", !.cid = i]
      OBVIOUS
    <3>2. e \in GameCall /\ e.at = "status" /\ e.alone = d.alone /\ e.row = d.row /\ e.env = d.env
      BY <3>1 DEF GameCall, GamePlaces
    <3>3. gjob' = [gjob EXCEPT ![c] = e] /\ unapplied' = unapplied
      BY <1>1, <1>2, <2>1, <3>1 DEF RestartContainer, GamesTypeOK
    <3>4. QED
      BY <3>2, <3>3
  <2>2. CASE RestartAnew(c)
    <3>1. PICK k \in 0 .. MaxConfigs : k = config
      BY DEF GamesTypeOK
    <3>2. PICK e : e = [d EXCEPT !.at = "port", !.again = TRUE, !.env = k]
      OBVIOUS
    <3>3. e \in GameCall /\ e.at = "port" /\ e.alone = d.alone /\ e.row = d.row /\ e.env = k
      BY <3>2 DEF GameCall, GamePlaces
    <3>4. gjob' = [gjob EXCEPT ![c] = e] /\ unapplied' = unapplied
      BY <1>1, <2>2, <3>1, <3>2 DEF RestartAnew, GamesTypeOK
    <3>5. QED
      BY <3>1, <3>3, <3>4
  <2>3. CASE RestartFails(c)
    BY <1>1, <2>3, StartErrorEffect DEF RestartFails
  <2>4. QED
    BY <2>1, <2>2, <2>3
<1>7. GamesInv' /\ gjob' \in [Clients -> GameCall]
  BY <1>1, <1>3, <1>5, <1>6, QuietStep DEF Quiet, Rebuilding
<1>8. QED
  BY <1>3, <1>5, <1>6, <1>7 DEF GamesTypeOK, GameCall

LEMMA GamePortStep ==
    ASSUME GamesTypeOK, GamesInv, NEW c \in Clients, GamePort(c) \/ GamePortFails(c)
    PROVE  GamesTypeOK' /\ GamesInv'
<1>1. PICK d \in GameCall, r \in GameRow : d = gjob[c] /\ r = d.row /\ r.port \in 0 .. MaxPorts
  BY CallTyped
<1>2. d.at = "port" /\ Serves(c) /\ UNCHANGED <<config, cont, watch, jobs, mixed>>
  BY <1>1 DEF GamePort, GamePortFails, Serves
<1>3. Named' = Named
  BY <1>2 DEF Named
<1>4. CASE GamePort(c) /\ r.port # 0
  <2>1. Goes(c, "remove") /\ UNCHANGED <<game, ports, unapplied>>
    BY <1>1, <1>4 DEF GamePort
  <2>2. PICK e \in GameCall : /\ gjob' = [gjob EXCEPT ![c] = e] /\ e.at = "remove" /\ e.alone = d.alone
                              /\ e.row = r /\ e.env = d.env
    BY <1>1, <2>1, GoesEffect DEF GamePlaces
  <2>3. GamesInv' /\ gjob' \in [Clients -> GameCall]
    BY <1>1, <1>2, <1>3, <1>4, <2>1, <2>2, OnTheWay, RequestGoesOn DEF Rebuilding
  <2>4. QED
    BY <1>2, <2>1, <2>3 DEF GamesTypeOK, GameCall
<1>5. CASE GamePort(c) /\ r.port = 0
  <2>1. PICK p : p = ports + 1
    OBVIOUS
  <2>2. p \in 0 .. MaxPorts /\ p # 0 /\ unapplied' = unapplied
    BY <1>1, <1>5, <2>1, GamesAssumption DEF GamePort, GamesTypeOK
  <2>3. PICK q : q = [r EXCEPT !.port = p]
    OBVIOUS
  <2>4. q \in GameRow /\ q.port = p
    BY <2>2, <2>3 DEF GameRow
  <2>5. PICK f \in GameCall : f = [d EXCEPT !.at = "remove"]
    BY DEF GameCall, GamePlaces
  <2>6. f.row = r /\ f.env = d.env /\ f.at = "remove" /\ f.alone = d.alone
    BY <1>1, <2>5 DEF GameCall
  <2>7. PICK e : e = [f EXCEPT !.row = q]
    OBVIOUS
  <2>8. e \in GameCall /\ e.at = "remove" /\ e.row = q /\ e.env = d.env /\ e.alone = d.alone
    BY <2>4, <2>6, <2>7 DEF GameCall, GamePlaces
  <2>9. gjob \in [Clients -> GameCall]
    BY DEF GamesTypeOK, GameCall
  <2>10. PICK h : h = [gjob EXCEPT ![c] = f]
    OBVIOUS
  <2>11. h = [gjob EXCEPT ![c].at = "remove"]
    BY <1>1, <2>5, <2>9, <2>10
  <2>12. h[c] = f /\ h \in [Clients -> GameCall]
    BY <2>9, <2>10
  <2>13. gjob' = [h EXCEPT ![c].row.port = p]
    BY <1>1, <1>5, <2>1, <2>11 DEF GamePort
  <2>14. gjob' = [h EXCEPT ![c] = e]
    BY <2>3, <2>6, <2>7, <2>12, <2>13
  <2>15. gjob' = [gjob EXCEPT ![c] = e] /\ ports' = p
    BY <1>1, <1>5, <2>1, <2>9, <2>10, <2>14 DEF GamePort
  <2>16. PICK g \in GameRow : g = game
    BY DEF GamesTypeOK
  <2>17. game' = IF g.there THEN [g EXCEPT !.port = p] ELSE g
    BY <1>1, <1>5, <2>1, <2>16 DEF GamePort
  <2>18. game' \in GameRow /\ (g.there => game'.there /\ game'.port = p)
    BY <2>2, <2>16, <2>17 DEF GameRow
  <2>19. gjob[c].alone => game.there /\ game.port = 0
    BY <1>1, <1>2, <1>5, OnTheWay
  <2>20. gjob[c].alone /\ ~mixed => Named = {}
    BY <1>2, <2>19, OnTheWay
  <2>21. gjob[c].alone => game'.there /\ e.row.port = game'.port /\ e.env = config' /\ game'.port # 0
    BY <1>1, <1>2, <2>2, <2>4, <2>8, <2>16, <2>18, <2>19, OnTheWay
  <2>22. GamesInv' /\ gjob' \in [Clients -> GameCall]
    BY <1>1, <1>2, <1>3, <2>8, <2>15, <2>20, <2>21, RequestGoesOn DEF Rebuilding
  <2>23. QED
    BY <1>2, <2>2, <2>15, <2>18, <2>22 DEF GamesTypeOK, GameCall
<1>6. CASE GamePortFails(c)
  <2>1. /\ unapplied' = TRUE
        /\ \E e \in GameCall : /\ gjob' = [gjob EXCEPT ![c] = e] /\ e.at = "status" /\ e.alone = d.alone
                               /\ e.row = r /\ e.env = d.env
    BY <1>1, <1>6, StartErrorEffect DEF GamePortFails
  <2>2. game' = game /\ ports' = ports
    BY <1>6 DEF GamePortFails
  <2>3. GamesInv' /\ gjob' \in [Clients -> GameCall]
    BY <1>1, <1>2, <1>3, <2>1, <2>2, QuietStep DEF Quiet
  <2>4. QED
    BY <1>2, <2>1, <2>2, <2>3 DEF GamesTypeOK, GameCall
<1>7. QED
  BY <1>1, <1>4, <1>5, <1>6

LEMMA RemoveNamedStep ==
    ASSUME GamesTypeOK, GamesInv, NEW c \in Clients, RemoveNamed(c)
    PROVE  GamesTypeOK' /\ GamesInv'
<1>1. /\ gjob[c].at = "remove" /\ Serves(c) /\ Goes(c, "create")
      /\ UNCHANGED <<game, config, ports, watch, jobs, mixed, unapplied>>
  BY DEF RemoveNamed, Serves
<1>2. PICK e \in GameCall : /\ gjob' = [gjob EXCEPT ![c] = e] /\ e.at = "create" /\ e.alone = gjob[c].alone
                            /\ e.row = gjob[c].row /\ e.env = gjob[c].env
  BY <1>1, GoesEffect DEF GamePlaces
<1>3. /\ cont' \in [1 .. MaxContainers -> Container] /\ Named' \subseteq Named
      /\ \A n \in Named' : cont'[n].port = cont[n].port /\ cont'[n].env = cont[n].env
  <2>1. CASE Named = {}
    BY <2>1 DEF RemoveNamed, Named, GamesTypeOK
  <2>2. CASE Named # {}
    <3>1. PICK i \in Named : Fumbles(i, {"absent", "stopped", cont[i].state})
      BY <2>2 DEF RemoveNamed
    <3>2. cont[i] \in Container
      BY DEF Named, GamesTypeOK
    <3>3. {"absent", "stopped", cont[i].state} \subseteq States
      BY <3>2 DEF Container, States
    <3>4. QED
      BY <3>1, <3>3, FumblesEffect
  <2>3. QED
    BY <2>1, <2>2
<1>4. GamesInv' /\ gjob' \in [Clients -> GameCall]
  BY <1>1, <1>2, <1>3, QuietStep DEF Quiet, Rebuilding
<1>5. QED
  BY <1>1, <1>3, <1>4 DEF GamesTypeOK, GameCall

LEMMA CreateGameStep ==
    ASSUME GamesTypeOK, GamesInv, NEW c \in Clients, CreateGame(c) \/ CreateGameFails(c)
    PROVE  GamesTypeOK' /\ GamesInv'
<1>1. PICK d \in GameCall, r \in GameRow : d = gjob[c] /\ r = d.row /\ r.port \in 0 .. MaxPorts /\ d.env \in 0 .. MaxConfigs
  BY CallTyped
<1>2. d.at = "create" /\ Serves(c) /\ UNCHANGED <<game, config, ports, watch, jobs, mixed>>
  BY <1>1 DEF CreateGame, CreateGameFails, Serves
<1>3. CASE CreateGame(c)
  <2>1. PICK i \in 1 .. MaxContainers :
            /\ cont' = [cont EXCEPT ![i] = [state |-> "created", env |-> gjob[c].env, port |-> gjob[c].row.port]]
            /\ gjob' = [gjob EXCEPT ![c].at = "start", ![c].cid = i]
    BY <1>3 DEF CreateGame
  <2>2. PICK x : x = [state |-> "created", env |-> d.env, port |-> r.port]
    OBVIOUS
  <2>3. x \in Container /\ x.state = "created" /\ x.env = d.env /\ x.port = r.port
    BY <1>1, <2>2 DEF Container
  <2>4. cont' = [cont EXCEPT ![i] = x] /\ cont \in [1 .. MaxContainers -> Container]
    BY <1>1, <2>1, <2>2 DEF GamesTypeOK
  <2>5. i \in Cids
    BY <2>1, GamesAssumption DEF Cids
  <2>6. PICK e : e = [d EXCEPT !.at = "start", !.cid = i]
    OBVIOUS
  <2>7. e \in GameCall /\ e.at = "start" /\ e.alone = d.alone /\ e.row = r /\ e.env = d.env
    BY <1>1, <2>5, <2>6 DEF GameCall, GamePlaces
  <2>8. gjob' = [gjob EXCEPT ![c] = e]
    BY <1>1, <2>1, <2>6 DEF GamesTypeOK
  <2>9. cont' \in [1 .. MaxContainers -> Container] /\ cont'[i] = x /\ \A n \in 1 .. MaxContainers : n # i => cont'[n] = cont[n]
    BY <2>3, <2>4
  <2>10. Named' = {i} /\ unapplied' = unapplied
    BY <1>3, <2>3, <2>9 DEF Named, CreateGame
  <2>11. gjob[c].alone => /\ game'.there /\ e.row.port = game'.port /\ e.env = config' /\ game'.port # 0
                          /\ \A n \in Named' : Exact(n)'
    BY <1>1, <1>2, <2>3, <2>7, <2>9, <2>10, OnTheWay DEF Exact
  <2>12. GamesInv' /\ gjob' \in [Clients -> GameCall]
    BY <1>1, <1>2, <2>7, <2>8, <2>10, <2>11, RequestGoesOn DEF Exact, InForce
  <2>13. QED
    BY <1>2, <2>9, <2>10, <2>12 DEF GamesTypeOK, GameCall
<1>4. CASE CreateGameFails(c)
  <2>1. /\ unapplied' = TRUE
        /\ \E e \in GameCall : /\ gjob' = [gjob EXCEPT ![c] = e] /\ e.at = "status" /\ e.alone = d.alone
                               /\ e.row = r /\ e.env = d.env
    BY <1>1, <1>4, StartErrorEffect DEF CreateGameFails
  <2>2. cont' = cont /\ Named' = Named
    BY <1>4 DEF CreateGameFails, Named
  <2>3. GamesInv' /\ gjob' \in [Clients -> GameCall]
    BY <1>1, <1>2, <2>1, <2>2, QuietStep DEF Quiet
  <2>4. QED
    BY <1>2, <2>1, <2>2, <2>3 DEF GamesTypeOK, GameCall
<1>5. QED
  BY <1>3, <1>4

\* A request that starts the game alone sets all right.
LEMMA StartGameStep ==
    ASSUME GamesTypeOK, GamesInv, NEW c \in Clients, StartGame(c) \/ StartGameFails(c)
    PROVE  GamesTypeOK' /\ GamesInv'
<1>1. PICK d \in GameCall, r \in GameRow : d = gjob[c] /\ r = d.row /\ d.cid \in Cids
  BY CallTyped
<1>2. PICK i \in Cids : i = d.cid
  BY <1>1
<1>3. d.at = "start" /\ Serves(c) /\ UNCHANGED <<game, config, ports, watch, jobs>>
  BY <1>1 DEF StartGame, StartGameFails, Serves
<1>4. CASE StartGame(c)
  <2>1. i \in Named /\ i \in 1 .. MaxContainers /\ cont' = [cont EXCEPT ![i].state = "running"]
    BY <1>1, <1>2, <1>4 DEF StartGame, Named
  <2>2. /\ cont' \in [1 .. MaxContainers -> Container] /\ cont'[i].state = "running"
        /\ \A n \in 1 .. MaxContainers : /\ cont'[n].port = cont[n].port /\ cont'[n].env = cont[n].env
                                         /\ n # i => cont'[n] = cont[n]
    BY <2>1, StateEffect DEF States
  <2>3. Named' = Named
    BY <2>1, <2>2 DEF Named
  <2>4. /\ mixed' \in BOOLEAN /\ unapplied' \in BOOLEAN /\ (~mixed' => ~mixed \/ gjob[c].alone)
    BY <1>4 DEF StartGame, GamesTypeOK
  <2>5. PICK e \in GameCall : /\ gjob' = [gjob EXCEPT ![c] = e] /\ e.at = "status" /\ e.alone = d.alone
                              /\ e.row = r /\ e.env = d.env
    BY <1>1, <1>4, GoesEffect DEF StartGame, GamePlaces
  <2>6. gjob[c].alone => /\ game'.there /\ e.row.port = game'.port /\ e.env = config' /\ game'.port # 0
                         /\ \A n \in Named' : Exact(n)'
    BY <1>1, <1>3, <2>2, <2>3, <2>5, OnTheWay DEF Exact, Named
  <2>7. GamesInv' /\ gjob' \in [Clients -> GameCall]
    BY <1>1, <1>3, <2>4, <2>5, <2>6, RequestGoesOn DEF Exact, InForce
  <2>8. QED
    BY <1>3, <2>2, <2>4, <2>7 DEF GamesTypeOK, GameCall
<1>5. CASE StartGameFails(c)
  <2>1. {"absent", AsItWas(i), "running"} \subseteq States
    BY AsItWasTyped DEF States
  <2>2. Fumbles(i, {"absent", AsItWas(i), "running"}) /\ mixed' = mixed
    BY <1>1, <1>2, <1>5 DEF StartGameFails
  <2>3. /\ cont' \in [1 .. MaxContainers -> Container] /\ Named' \subseteq Named
        /\ \A n \in Named' : cont'[n].port = cont[n].port /\ cont'[n].env = cont[n].env
    BY <2>1, <2>2, FumblesEffect
  <2>4. /\ unapplied' = TRUE
        /\ \E e \in GameCall : /\ gjob' = [gjob EXCEPT ![c] = e] /\ e.at = "status" /\ e.alone = d.alone
                               /\ e.row = r /\ e.env = d.env
    BY <1>1, <1>5, StartErrorEffect DEF StartGameFails
  <2>5. GamesInv' /\ gjob' \in [Clients -> GameCall]
    BY <1>1, <1>3, <2>2, <2>3, <2>4, QuietStep DEF Quiet
  <2>6. QED
    BY <1>3, <2>2, <2>3, <2>4, <2>5 DEF GamesTypeOK, GameCall
<1>6. QED
  BY <1>4, <1>5

\* The last statement of a request, and the end of it or not.
LEMMA WriteStep ==
    ASSUME GamesTypeOK, GamesInv, NEW c \in Clients, WriteGameStatus(c) \/ WriteOldId(c) \/ WriteStopped(c)
    PROVE  GamesTypeOK' /\ GamesInv'
<1>1. PICK d \in GameCall, r \in GameRow : d = gjob[c] /\ r = d.row /\ r.cid \in Cids /\ d.cid \in Cids /\ d.status \in GameStatus
  BY CallTyped
<1>2. /\ d.at \in {"status", "again", "down"} /\ Serves(c)
      /\ UNCHANGED <<config, cont, ports, watch, jobs, mixed, unapplied>>
  BY <1>1 DEF WriteGameStatus, WriteOldId, WriteStopped, Serves
<1>3. PICK status \in GameStatus, i \in Cids : Stored(status, i)
  BY <1>1 DEF WriteGameStatus, WriteOldId, WriteStopped, GameStatus
<1>4. game' \in GameRow /\ game'.port = game.port /\ game'.there = game.there
  BY <1>3, StoredEffect
<1>5. Named' = Named
  BY <1>2 DEF Named
<1>6. PICK e \in GameCall : /\ gjob' = [gjob EXCEPT ![c] = e]
                            /\ e.at = "idle" \/ e.at = "again"
                            /\ e.at # "idle" => e.row = r /\ e.env = d.env /\ e.alone = d.alone
  <2>1. CASE Goes(c, "again")
    BY <1>1, <2>1, GoesEffect DEF GamePlaces
  <2>2. CASE Finishes(c)
    BY <2>2, FinishesEffect
  <2>3. QED
    BY <2>1, <2>2 DEF WriteGameStatus, WriteOldId, WriteStopped
<1>7. GamesInv' /\ gjob' \in [Clients -> GameCall]
  BY <1>1, <1>2, <1>4, <1>5, <1>6, QuietStep DEF Quiet, Rebuilding
<1>8. QED
  BY <1>2, <1>4, <1>7 DEF GamesTypeOK, GameCall

LEMMA StopContainerStep ==
    ASSUME GamesTypeOK, GamesInv, NEW c \in Clients, StopContainer(c) \/ StopFails(c)
    PROVE  GamesTypeOK' /\ GamesInv'
<1>1. PICK d \in GameCall, r \in GameRow : d = gjob[c] /\ r = d.row /\ r.cid \in Cids
  BY CallTyped
<1>2. PICK i \in Cids : i = r.cid
  BY <1>1
<1>3. d.at = "stop" /\ Serves(c) /\ UNCHANGED <<game, config, ports, watch, jobs, mixed, unapplied>>
  BY <1>1 DEF StopContainer, StopFails, Serves
<1>4. {"stopped"} \subseteq States /\ {AsItWas(i), "stopped"} \subseteq States
  BY AsItWasTyped DEF States
<1>5. Fumbles(i, {"stopped"}) \/ Fumbles(i, {AsItWas(i), "stopped"})
  BY <1>1, <1>2 DEF StopContainer, StopFails
<1>6. /\ cont' \in [1 .. MaxContainers -> Container] /\ Named' \subseteq Named
      /\ \A n \in Named' : cont'[n].port = cont[n].port /\ cont'[n].env = cont[n].env
  BY <1>4, <1>5, FumblesEffect
<1>7. PICK e \in GameCall : /\ gjob' = [gjob EXCEPT ![c] = e]
                            /\ e.at = "idle" \/ e.at = "down"
                            /\ e.at # "idle" => e.row = r /\ e.env = d.env /\ e.alone = d.alone
  <2>1. CASE Goes(c, "down")
    BY <1>1, <2>1, GoesEffect DEF GamePlaces
  <2>2. CASE Finishes(c)
    BY <2>2, FinishesEffect
  <2>3. QED
    BY <2>1, <2>2 DEF StopContainer, StopFails
<1>8. GamesInv' /\ gjob' \in [Clients -> GameCall]
  BY <1>1, <1>3, <1>6, <1>7, QuietStep DEF Quiet, Rebuilding
<1>9. QED
  BY <1>3, <1>6, <1>8 DEF GamesTypeOK, GameCall

LEMMA DeleteGameRowStep ==
    ASSUME GamesTypeOK, GamesInv, NEW c \in Clients, DeleteGameRow(c)
    PROVE  GamesTypeOK' /\ GamesInv'
<1>1. gjob[c].at = "delete" /\ Serves(c) /\ UNCHANGED <<config, cont, ports, watch, jobs, mixed, unapplied>>
  BY DEF DeleteGameRow, Serves
<1>2. PICK g \in GameRow : g = game
  BY DEF GamesTypeOK
<1>3. game' \in GameRow /\ game'.port = game.port
  BY <1>2 DEF DeleteGameRow, GameRow
<1>4. Named' = Named
  BY <1>1 DEF Named
<1>5. PICK e \in GameCall : gjob' = [gjob EXCEPT ![c] = e] /\ e.at = "idle"
  BY FinishesEffect DEF DeleteGameRow
<1>6. GamesInv' /\ gjob' \in [Clients -> GameCall]
  BY <1>1, <1>3, <1>4, <1>5, QuietStep DEF Quiet, Rebuilding
<1>7. QED
  BY <1>1, <1>3, <1>6 DEF GamesTypeOK, GameCall
-----------------------------------------------------------------------------
\* A request that begins reads the row and the configuration as they are; whoever is
\* at work is alone no longer.
LEMMA BeginsEffect ==
    ASSUME GamesTypeOK, NEW c \in Clients, NEW at \in GamePlaces \ {"idle"}, Begins(c, at)
    PROVE  /\ game.there /\ jobs' \in 0 .. MaxJobs /\ mixed' \in BOOLEAN
           /\ ~mixed' => ~mixed /\ \A d \in Clients : ~Serves(d)
           /\ gjob' \in [Clients -> GameCall]
           /\ gjob'[c].at = at /\ gjob'[c].row = game /\ gjob'[c].env = config
           /\ gjob'[c].alone = \A d \in Clients : ~Serves(d)
           /\ \A d \in Clients \ {c} : gjob'[d].at = gjob[d].at /\ gjob'[d].alone = FALSE
<1>1. PICK f \in GameCall : f = [AtRest EXCEPT !.at = at]
  BY GamesConstants DEF GameCall
<1>2. f.at = at
  BY <1>1, GamesConstants DEF GameCall
<1>3. PICK g \in GameCall : g = [f EXCEPT !.row = game]
  BY DEF GameCall, GamesTypeOK
<1>4. g.at = at /\ g.row = game
  BY <1>2, <1>3 DEF GameCall
<1>5. PICK h \in GameCall : h = [g EXCEPT !.env = config]
  BY DEF GameCall, GamesTypeOK
<1>6. h.at = at /\ h.row = game /\ h.env = config
  BY <1>4, <1>5 DEF GameCall, GamesTypeOK
<1>7. PICK b \in BOOLEAN : b = \A d \in Clients : ~Serves(d)
  OBVIOUS
<1>8. PICK e \in GameCall : e = [h EXCEPT !.alone = b]
  BY <1>7 DEF GameCall
<1>9. e.at = at /\ e.row = game /\ e.env = config /\ e.alone = b
  BY <1>6, <1>8 DEF GameCall
<1>10. Resting = b
  BY <1>7 DEF Resting, Serves
<1>11. gjob' = [d \in Clients |-> IF d = c THEN e ELSE [gjob[d] EXCEPT !.alone = FALSE]]
  BY <1>1, <1>3, <1>5, <1>8, <1>10 DEF Begins
<1>12. \A x \in GameCall : LET y == [x EXCEPT !.alone = FALSE] IN y \in GameCall /\ y.at = x.at /\ y.alone = FALSE
  BY DEF GameCall
<1>13. \A d \in Clients : gjob[d] \in GameCall
  BY DEF GamesTypeOK, GameCall
<1>14. /\ gjob' \in [Clients -> GameCall] /\ gjob'[c] = e
       /\ \A d \in Clients \ {c} : gjob'[d].at = gjob[d].at /\ gjob'[d].alone = FALSE
  BY <1>11, <1>12, <1>13
<1>15. jobs' \in 0 .. MaxJobs
  BY GamesAssumption DEF Begins, GamesTypeOK
<1>16. /\ game.there /\ mixed' \in BOOLEAN
       /\ ~mixed' => ~mixed /\ \A d \in Clients : ~Serves(d)
  BY DEF Begins, GamesTypeOK, Resting, Serves
<1>17. QED
  BY <1>7, <1>9, <1>14, <1>15, <1>16

LEMMA BeginStep ==
    ASSUME GamesTypeOK, GamesInv, NEW c \in Clients,
           DeployGame(c) \/ UpdateConfig(c) \/ Restart(c) \/ StopGame(c) \/ DeleteGame(c)
    PROVE  GamesTypeOK' /\ GamesInv'
<1>1. PICK at \in {"port", "save", "restart", "stop", "delete"} : Begins(c, at)
  BY DEF DeployGame, UpdateConfig, Restart, StopGame, DeleteGame
<1>2. UNCHANGED <<game, config, ports, watch, unapplied>>
  BY DEF DeployGame, UpdateConfig, Restart, StopGame, DeleteGame
<1>3. /\ cont' \in [1 .. MaxContainers -> Container] /\ Named' \subseteq Named
      /\ \A n \in Named' : cont'[n].port = cont[n].port /\ cont'[n].env = cont[n].env
  <2>1. CASE cont' = cont
    BY <2>1 DEF Named, GamesTypeOK
  <2>2. CASE DeleteGame(c)
    <3>1. PICK i \in Cids : i = game.cid
      BY DEF GamesTypeOK, GameRow
    <3>2. {"absent", AsItWas(i), "stopped"} \subseteq States
      BY AsItWasTyped DEF States
    <3>3. Fumbles(i, {"absent", AsItWas(i), "stopped"})
      BY <2>2, <3>1 DEF DeleteGame
    <3>4. QED
      BY <3>2, <3>3, FumblesEffect
  <2>3. QED
    BY <2>1, <2>2 DEF DeployGame, UpdateConfig, Restart, StopGame
<1>4. /\ game.there /\ jobs' \in 0 .. MaxJobs /\ mixed' \in BOOLEAN
      /\ ~mixed' => ~mixed /\ \A d \in Clients : ~Serves(d)
      /\ gjob' \in [Clients -> GameCall]
      /\ gjob'[c].at = at /\ gjob'[c].row = game /\ gjob'[c].env = config
      /\ gjob'[c].alone = \A d \in Clients : ~Serves(d)
      /\ \A d \in Clients \ {c} : gjob'[d].at = gjob[d].at /\ gjob'[d].alone = FALSE
  BY <1>1, BeginsEffect DEF GamePlaces
<1>5. \A d \in Clients : LoneKnows(d)'
  <2>1. \A d \in Clients \ {c} : LoneKnows(d)'
    BY <1>4 DEF LoneKnows
  <2>2. LoneKnows(c)'
    BY <1>2, <1>4 DEF LoneKnows, Serves
  <2>3. QED
    BY <2>1, <2>2
<1>6. ASSUME ~mixed'
      PROVE  Calm'
  <2>1. Calm /\ gjob'[c].alone /\ \A d \in Clients : gjob[d].at = "idle"
    BY <1>4, <1>6 DEF GamesInv, Serves
  <2>2. \A d \in Clients \ {c} : ~Serves(d)'
    BY <1>4, <2>1 DEF Serves
  <2>3. unapplied \/ InForce
    BY <2>1 DEF Calm, Rebuilding
  <2>4. unapplied' \/ InForce'
    BY <1>2, <1>3, <2>3 DEF InForce
  <2>5. QED
    BY <1>2, <1>3, <2>1, <2>2, <2>4 DEF Calm
<1>7. QED
  BY <1>2, <1>3, <1>4, <1>5, <1>6 DEF GamesTypeOK, GameCall, GamesInv

\* The health checker, Docker and the end of a game server.
LEMMA WatchStep ==
    ASSUME GamesTypeOK, GamesInv, Checks
    PROVE  GamesTypeOK' /\ GamesInv'
<1>1. watch \in Watch /\ UNCHANGED <<config, cont, ports, gjob, jobs, mixed, unapplied>>
  BY DEF Checks, ListGame, ResolveGame, GameAnswers, GameDown, GameUnheard, WriteVerdict, GamesTypeOK, Watch
<1>2. PICK w \in Watch : w = watch
  BY <1>1
<1>3. w.row.cid \in Cids /\ w.row \in GameRow /\ w.failures \in 0 .. 2 /\ w.found \in Cids
  BY DEF Watch, GameRow, unhealthyThreshold
<1>4. Resolved \in Cids
  <2>1. \A i \in Named : i \in Cids
    BY GamesAssumption DEF Named, Cids
  <2>2. (\E i \in Named : IsUp(i)) => (CHOOSE i \in Named : IsUp(i)) \in Named
    OBVIOUS
  <2>3. QED
    BY <1>2, <1>3, <2>1, <2>2, GamesConstants DEF Resolved
<1>5. watch' \in Watch
  <2>1. CASE ListGame
    <3>1. [w EXCEPT !.at = "resolve", !.row = game] \in Watch
      BY DEF Watch, WatchPlaces, GamesTypeOK
    <3>2. QED
      BY <1>2, <2>1, <3>1 DEF ListGame
  <2>2. CASE ResolveGame
    <3>1. PICK u \in Cids : u = Resolved
      BY <1>4
    <3>2. [w EXCEPT !.at = "probe", !.found = u] \in Watch
      BY DEF Watch, WatchPlaces
    <3>3. QED
      BY <1>2, <2>2, <3>1, <3>2 DEF ResolveGame
  <2>3. CASE GameAnswers
    <3>1. [w EXCEPT !.at = "write", !.verdict = "running", !.failures = 0] \in Watch
      BY GamesConstants DEF Watch, WatchPlaces
    <3>2. Unwatched(0) \in Watch
      BY GamesConstants
    <3>3. QED
      BY <1>2, <2>3, <3>1, <3>2 DEF GameAnswers
  <2>4. CASE CountsFailure
    <3>1. PICK n : n = IF w.failures < unhealthyThreshold THEN w.failures + 1 ELSE w.failures
      OBVIOUS
    <3>2. n \in 0 .. unhealthyThreshold
      BY <1>3, <3>1 DEF unhealthyThreshold
    <3>3. [w EXCEPT !.at = "write", !.verdict = "error", !.failures = n] \in Watch
      BY <3>2 DEF Watch, WatchPlaces
    <3>4. Unwatched(n) \in Watch
      BY <3>2, GamesConstants
    <3>5. watch' \in {[w EXCEPT !.at = "write", !.verdict = "error", !.failures = n], Unwatched(n)}
      BY <1>2, <2>4, <3>1 DEF CountsFailure
    <3>6. QED
      BY <3>3, <3>4, <3>5
  <2>5. CASE WriteVerdict
    BY <1>2, <1>3, <2>5, GamesConstants DEF WriteVerdict, unhealthyThreshold
  <2>6. QED
    BY <2>1, <2>2, <2>3, <2>4, <2>5 DEF Checks, GameDown, GameUnheard
<1>6. game' \in GameRow /\ game'.port = game.port /\ game'.there = game.there
  <2>1. CASE game' = game
    BY <2>1 DEF GamesTypeOK
  <2>2. CASE WriteVerdict
    <3>1. PICK v \in GameStatus : v = w.verdict
      BY DEF Watch, GameStatus
    <3>2. VerdictId \in Cids
      BY <1>2, <1>3 DEF VerdictId
    <3>3. Stored(v, VerdictId)
      BY <1>2, <2>2, <3>1 DEF WriteVerdict
    <3>4. QED
      BY <3>2, <3>3, StoredEffect
  <2>3. QED
    BY <2>1, <2>2 DEF Checks, ListGame, ResolveGame, GameAnswers, GameDown, GameUnheard
<1>7. Named' = Named
  BY <1>1 DEF Named
<1>8. GamesInv'
  BY <1>1, <1>6, <1>7, RequestsStand
<1>9. QED
  BY <1>1, <1>5, <1>6, <1>8 DEF GamesTypeOK, Watch

LEMMA ContainerStep ==
    ASSUME GamesTypeOK, GamesInv, NEW i \in 1 .. MaxContainers, ExitGame(i) \/ Revive(i)
    PROVE  GamesTypeOK' /\ GamesInv'
<1>1. /\ UNCHANGED <<game, config, ports, gjob, watch, jobs, mixed, unapplied>> /\ i \in Named
      /\ \E state \in {"exited", "running"} : cont' = [cont EXCEPT ![i].state = state]
  BY DEF ExitGame, Revive, IsUp, Named
<1>2. PICK state \in {"exited", "running"} : cont' = [cont EXCEPT ![i].state = state]
  BY <1>1
<1>3. /\ cont' \in [1 .. MaxContainers -> Container] /\ cont'[i].state = state
      /\ \A n \in 1 .. MaxContainers : /\ cont'[n].port = cont[n].port /\ cont'[n].env = cont[n].env
                                       /\ n # i => cont'[n] = cont[n]
  BY <1>2, StateEffect DEF States
<1>4. Named' = Named /\ \A n \in Named : cont'[n].port = cont[n].port /\ cont'[n].env = cont[n].env
  BY <1>1, <1>3 DEF Named
<1>5. GamesInv'
  BY <1>1, <1>4, RequestsStand
<1>6. QED
  BY <1>1, <1>3, <1>5 DEF GamesTypeOK

LEMMA GamesStep == GamesTypeOK /\ GamesInv /\ [GamesNext]_gameVars => GamesTypeOK' /\ GamesInv'
<1> SUFFICES ASSUME GamesTypeOK, GamesInv, [GamesNext]_gameVars
             PROVE  GamesTypeOK' /\ GamesInv'
  OBVIOUS
<1>1. ASSUME NEW c \in Clients, GameWorks(c)
      PROVE  GamesTypeOK' /\ GamesInv'
  BY <1>1, SaveStep, RestartStep, GamePortStep, RemoveNamedStep, CreateGameStep, StartGameStep, WriteStep,
     StopContainerStep, DeleteGameRowStep DEF GameWorks
<1>2. CASE GamesCrash
  <2>1. /\ gjob' = [c \in Clients |-> AtRest] /\ UNCHANGED <<game, config, cont, ports, jobs, unapplied>>
        /\ mixed' = (mixed \/ ~Resting) /\ watch' = Unwatched(0)
    BY <1>2 DEF GamesCrash
  <2>2. watch' \in Watch /\ gjob' \in [Clients -> GameCall] /\ mixed' \in BOOLEAN
    BY <2>1, GamesConstants DEF GamesTypeOK
  <2>3. \A c \in Clients : ~Serves(c)'
    BY <2>1, GamesConstants DEF Serves
  <2>4. Named' = Named /\ (InForce' <=> InForce)
    BY <2>1 DEF Named, InForce
  <2>5. ~mixed' => ~mixed /\ \A c \in Clients : gjob[c].at = "idle"
    BY <2>1 DEF Resting
  <2>6. ~mixed' => Calm'
    BY <2>1, <2>3, <2>4, <2>5 DEF GamesInv, Calm, Rebuilding
  <2>7. GamesInv'
    BY <2>3, <2>6 DEF GamesInv, LoneKnows
  <2>8. QED
    BY <2>1, <2>2, <2>7 DEF GamesTypeOK, GameCall, Watch
<1>3. CASE UNCHANGED gameVars
  <2>1. Named' = Named
    BY <1>3 DEF gameVars, Named
  <2>2. GamesInv'
    BY <1>3, <2>1, RequestsStand DEF gameVars
  <2>3. QED
    BY <1>3, <2>2 DEF gameVars, GamesTypeOK
<1>4. QED
  BY <1>1, <1>2, <1>3, BeginStep, WatchStep, ContainerStep DEF GamesNext, Revives

\* Row, configuration, containers, requests and health checker keep their types.
THEOREM GamesTyped == GamesSpec => []GamesTypeOK
BY GamesInitially, GamesStep, PTL DEF GamesSpec

\* For any requests and bounds, and whatever Docker and the database refuse: from a
\* start that ran alone on, until requests overlap again, the game that is up publishes
\* the port of its row, and runs what was configured last unless its start failed.
THEOREM GamesConfigured == GamesSpec => []GameIsAsConfigured
<1>1. GamesTypeOK /\ GamesInv => GameIsAsConfigured
  BY DEF GameIsAsConfigured, GamesInv, Calm, InForce, Resting, Rebuilding
<1>2. QED
  BY <1>1, GamesInitially, GamesStep, PTL DEF GamesSpec
-----------------------------------------------------------------------------
(* All three in one engine *)

\* One of them makes a step, the others stay as they are.
LEMMA ForgeStep ==
    ASSUME ForgeTypeOK, RunsInv, MutexInv, GamesInv, [Next]_forge
    PROVE  ForgeTypeOK' /\ RunsInv' /\ MutexInv' /\ GamesInv'
<1>1. ActionsTypeOK /\ MirrorsTypeOK /\ GamesTypeOK
  BY DEF ForgeTypeOK
<1>2. ActionsNext \/ ActionsStill => ActionsTypeOK' /\ RunsInv'
  <2>1. CASE ActionsStill
    <3>1. QueueOK'
      BY <2>1 DEF ActionsStill, RunsInv, QueueOK, RequestOK
    <3>2. QED
      BY <1>1, <2>1, <3>1, RunsStand DEF ActionsStill, ActionsTypeOK
  <2>2. QED
    BY <1>1, <2>1, RunsStep
<1>3. MirrorsNext \/ MirrorsStill => MirrorsTypeOK' /\ MutexInv'
  BY <1>1, MirrorsStep DEF MirrorsStill, MirrorsTypeOK, MutexInv
<1>4. GamesNext \/ GamesStill => GamesTypeOK' /\ GamesInv'
  <2>1. CASE GamesStill
    <3>1. Named' = Named
      BY <2>1 DEF GamesStill, Named
    <3>2. GamesInv'
      BY <1>1, <2>1, <3>1, RequestsStand DEF GamesStill
    <3>3. QED
      BY <1>1, <2>1, <3>2 DEF GamesStill, GamesTypeOK
  <2>2. QED
    BY <1>1, <2>1, GamesStep
<1>5. CASE Next
  BY <1>2, <1>3, <1>4, <1>5 DEF Next, ForgeTypeOK
<1>6. CASE UNCHANGED forge
  BY <1>2, <1>3, <1>4, <1>6
     DEF forge, ciVars, mirrorVars, gameVars, ActionsStill, MirrorsStill, GamesStill, ForgeTypeOK
<1>7. QED
  BY <1>5, <1>6

\* The types of all three, in the engine they share.
THEOREM ForgeTyped == SafetySpec => []ForgeTypeOK
<1>1. Init => ForgeTypeOK /\ RunsInv /\ MutexInv /\ GamesInv
  BY RunsInit, MirrorsInitially, GamesInitially DEF Init, ForgeTypeOK
<1>2. ForgeTypeOK /\ RunsInv /\ MutexInv /\ GamesInv /\ [Next]_forge => (ForgeTypeOK /\ RunsInv /\ MutexInv /\ GamesInv)'
  BY ForgeStep
<1>3. QED
  BY <1>1, <1>2, PTL DEF SafetySpec
=============================================================================
