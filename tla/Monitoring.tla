------------------------------ MODULE Monitoring ------------------------------
(***************************************************************************)
(* What the engine watches: the worker that samples the containers, the    *)
(* one that compares the latest sample with the owners' alerts and tells   *)
(* them, and the one that cleans up after both, and Docker with them.      *)
(*                                                                         *)
(* A sample is high when it meets the conditions that owners set.          *)
(***************************************************************************)
EXTENDS Requests, Integers, Sequences

CONSTANTS
    Watched,       \* the apps that are sampled
    Alarms,        \* ids of rows of alerts
    Cooldown,      \* ticks between two notifications of an alert: 5 minutes
    Retention,     \* ticks that a sample is kept: 30 days
    Intervals,     \* hours between two cleanups that may be set, in ticks
    DayInterval,   \* 24 hours, if none is set
    Fills,         \* how full the disk may be, 0: unknown
    DefaultFill,   \* from when on it is pruned, if nothing is set
    MaxClock,      \* bound on time
    MaxSamples,    \* bound on the samples
    MaxEdits       \* bound on the requests

ASSUME MonitoringAssumption ==
    /\ {Cooldown, Retention} \subseteq Nat \ {0} /\ {MaxClock, MaxSamples, MaxEdits} \subseteq Nat
    /\ Intervals \subseteq Nat \ {0} /\ DayInterval \in Intervals
    /\ Fills \subseteq Nat /\ DefaultFill \in Fills /\ 0 \in Fills

VARIABLES
    clock,
    watched,       \* the apps that exist, and run
    alert,         \* alert[a]: the row
    sample,        \* table metrics
    batch,         \* what the metrics worker has collected: the apps, or Idle
    pass,          \* the alert worker: its list, and the alert it is at
    edit,          \* edit[c]: an owner's request that has read an alert
    knob,          \* table platform_settings: the rows cleanup_...
    form,          \* form[c]: what an admin's request has yet to save of them
    sweep,         \* the cleanup worker: what it read of them, or Idle
    lastRun,       \* when it last pruned, in memory; Never
    edits,         \* how many requests there were
    told,          \* history: when an alert was last sent, and whether that was noted
    pruned         \* history: when a worker of this process last pruned

monVars == <<clock, watched, alert, sample, batch, pass, edit, knob, form, sweep,
             lastRun, edits, told, pruned, crashes>>

Never == -100
Idle == [idle |-> TRUE]
Clock == 0 .. MaxClock

\* known: an update may store a condition that evaluate does not know.
NoAlert == [is |-> FALSE, app |-> Idle, known |-> FALSE, on |-> FALSE, last |-> Never]
Alerts == {a \in Alarms : alert[a].is}
Waiting == [at |-> "idle", todo |-> {}, cur |-> Idle]
Unset == [enabled |-> FALSE, interval |-> 0, fill |-> 0]

MonitoringInit ==
    /\ clock = 0 /\ watched = Watched
    /\ alert = [a \in Alarms |-> NoAlert]
    /\ sample = {} /\ batch = Idle /\ pass = Waiting
    /\ edit = [c \in Clients |-> Idle] /\ form = [c \in Clients |-> <<>>]
    /\ knob = Unset /\ sweep = Idle /\ lastRun = Never
    /\ edits = 0
    /\ told = [a \in Alarms |-> [at |-> Never, noted |-> FALSE]]
    /\ pruned = Never
    /\ RequestsInit

AlertsStill == UNCHANGED <<alert, pass, told>>
EditsStill == UNCHANGED <<edit, edits>>
SamplesStill == UNCHANGED <<watched, sample, batch>>
CleanupStill == UNCHANGED <<knob, form, sweep, lastRun, pruned>>

MonitoringTick ==
    /\ clock < MaxClock /\ clock' = clock + 1
    /\ AlertsStill /\ EditsStill /\ SamplesStill /\ CleanupStill /\ UNCHANGED crashes

\* The rows of an app go with it.
DeleteWatched(p) ==
    /\ p \in watched /\ watched' = watched \ {p}
    /\ sample' = {s \in sample : s.app # p}
    /\ alert' = [a \in Alarms |-> IF alert[a].app = p THEN NoAlert ELSE alert[a]]
    /\ UNCHANGED <<clock, batch, pass, told, crashes>> /\ EditsStill /\ CleanupStill
-----------------------------------------------------------------------------
\* CollectAll: of every container that answers.
CollectOne ==
    /\ batch = Idle /\ Cardinality(sample) < MaxSamples /\ \A s \in sample : s.at < clock
    /\ \E got \in SUBSET watched \ {{}} : \E high \in SUBSET got :
         batch' = [apps |-> got, high |-> high]
    /\ UNCHANGED <<clock, watched, sample, crashes>> /\ AlertsStill /\ EditsStill /\ CleanupStill

\* InsertBatch, one statement: an app that is gone fails it for all.
InsertBatch ==
    /\ batch # Idle /\ batch' = Idle
    /\ \/ /\ batch.apps \subseteq watched
          /\ sample' = sample \cup {[app |-> p, at |-> clock, high |-> p \in batch.high] : p \in batch.apps}
       \/ sample' = sample
    /\ UNCHANGED <<clock, watched, crashes>> /\ AlertsStill /\ EditsStill /\ CleanupStill

GetLatest(p) == {s \in sample : s.app = p /\ \A t \in sample : t.app = p => t.at <= s.at}
-----------------------------------------------------------------------------
MoreEdits == edits < MaxEdits /\ edits' = edits + 1
MonitorStill == UNCHANGED <<clock, pass, told, crashes>> /\ SamplesStill /\ CleanupStill

CreateAlert(a, p) ==
    /\ MoreEdits /\ p \in watched /\ ~alert[a].is /\ told[a].at = Never
    /\ alert' = [alert EXCEPT ![a] = [is |-> TRUE, app |-> p, known |-> TRUE, on |-> TRUE, last |-> Never]]
    /\ UNCHANGED edit /\ MonitorStill

\* Update reads the row, ...
ReadAlert(c, a) ==
    /\ MoreEdits /\ edit[c] = Idle /\ alert[a].is
    /\ edit' = [edit EXCEPT ![c] = [id |-> a, row |-> alert[a]]]
    /\ UNCHANGED alert /\ MonitorStill

\* Slip: it writes all of it back.
WrittenWhole(a, row) == row
\* All columns are written back but the app and the time of the last notification.
Written(a, row) == [row EXCEPT !.app = alert[a].app, !.last = alert[a].last]

\* ... and writes it back with what the request says, which nothing validates.
UpdateAlert(c) ==
    /\ edit[c] # Idle /\ edit' = [edit EXCEPT ![c] = Idle]
    /\ \E on \in BOOLEAN, known \in BOOLEAN :
         LET a == edit[c].id  row == [edit[c].row EXCEPT !.on = on, !.known = known] IN
         alert' = [alert EXCEPT ![a] = IF alert[a].is THEN Written(a, row) ELSE @]
    /\ UNCHANGED edits /\ MonitorStill

DeleteAlert(a) ==
    /\ MoreEdits /\ alert[a].is
    /\ alert' = [alert EXCEPT ![a] = NoAlert]
    /\ UNCHANGED edit /\ MonitorStill
-----------------------------------------------------------------------------
PassStill == UNCHANGED <<clock, crashes>> /\ EditsStill /\ SamplesStill /\ CleanupStill

\* EvaluateAll reads the enabled alerts once.
ListAllEnabled ==
    /\ pass.at = "idle"
    /\ pass' = [at |-> "evaluate", cur |-> Idle,
                todo |-> {[id |-> a, row |-> alert[a]] : a \in {b \in Alerts : alert[b].on}}]
    /\ UNCHANGED <<alert, told>> /\ PassStill

\* On the alert as it was listed.
Meets(row) == row.known /\ \E s \in GetLatest(row.app) : s.high
Cooling(row) == clock - row.last < Cooldown

\* An alert without a sample, without an app, or with a condition that is not known
\* is passed over.
Evaluate(x) ==
    /\ pass.at = "evaluate" /\ x \in pass.todo
    /\ pass' = IF Meets(x.row) /\ ~Cooling(x.row) /\ x.row.app \in watched
               THEN [at |-> "send", todo |-> pass.todo \ {x}, cur |-> x]
               ELSE [pass EXCEPT !.todo = @ \ {x}]
    /\ UNCHANGED <<alert, told>> /\ PassStill

EndPass ==
    /\ pass.at = "evaluate" /\ pass.todo = {}
    /\ pass' = Waiting
    /\ UNCHANGED <<alert, told>> /\ PassStill

Send ==
    /\ pass.at = "send"
    /\ told' = [told EXCEPT ![pass.cur.id] = [at |-> clock, noted |-> FALSE]]
    /\ pass' = [pass EXCEPT !.at = "stamp"]
    /\ UNCHANGED alert /\ PassStill

SendFails ==
    /\ pass.at = "send" /\ pass' = [pass EXCEPT !.at = "evaluate", !.cur = Idle]
    /\ UNCHANGED <<alert, told>> /\ PassStill

\* Nobody looks whether the notification was noted.
UpdateLastTriggered ==
    /\ pass.at = "stamp" /\ pass' = [pass EXCEPT !.at = "evaluate", !.cur = Idle]
    /\ LET a == pass.cur.id IN
       \/ /\ alert' = [alert EXCEPT ![a] = IF @.is THEN [@ EXCEPT !.last = clock] ELSE @]
          /\ told' = [told EXCEPT ![a].noted = TRUE]
       \/ UNCHANGED <<alert, told>>
    /\ PassStill
-----------------------------------------------------------------------------
CleanupAlone == UNCHANGED <<clock, crashes>> /\ AlertsStill /\ EditsStill

\* A request of an admin, field by field.
FormFields == {<<"enabled", TRUE>>, <<"enabled", FALSE>>} \cup {<<"interval", n>> : n \in Intervals \cup {0}}
                  \cup {<<"fill", n>> : n \in Fills \cup {0}}
Forms == {<<f>> : f \in FormFields} \cup
         {p \in FormFields \X FormFields :
             <<p[1][1], p[2][1]>> \in {<<"enabled", "interval">>, <<"enabled", "fill">>, <<"interval", "fill">>}}

UpdateCleanupSettings(c) ==
    /\ form[c] = <<>> /\ edits < MaxEdits /\ edits' = edits + 1
    /\ \E f \in Forms : form' = [form EXCEPT ![c] = f]
    /\ UNCHANGED <<clock, crashes, edit, knob, sweep, lastRun, pruned>> /\ AlertsStill /\ SamplesStill

\* A value out of bounds ends the request, when others have been saved.
SaveField(c) ==
    /\ form[c] # <<>>
    /\ LET f == Head(form[c]) IN
       IF f[1] # "enabled" /\ f[2] = 0
       THEN form' = [form EXCEPT ![c] = <<>>] /\ knob' = knob
       ELSE form' = [form EXCEPT ![c] = Tail(@)] /\ knob' = [knob EXCEPT ![f[1]] = f[2]]
    /\ UNCHANGED <<sweep, lastRun, pruned>> /\ SamplesStill /\ CleanupAlone

\* cleanup: old samples go; a failure is only logged.
DeleteOldSamples ==
    /\ sweep = Idle
    /\ \/ sample' = {s \in sample : s.at >= clock - Retention}
       \/ sample' = sample
    /\ sweep' = [interval |-> 0, fill |-> 0]
    /\ UNCHANGED <<watched, batch, knob, form, lastRun, pruned>> /\ CleanupAlone

Default(n, d) == IF n > 0 THEN n ELSE d

Due(interval) == lastRun = Never \/ clock - lastRun >= interval

\* The settings are read in one statement, which may fail; then the disk is looked at.
ReadSettings(disk, ok) ==
    /\ sweep # Idle /\ sweep.interval = 0
    /\ sweep' = IF /\ ok /\ knob.enabled /\ Due(Default(knob.interval, DayInterval))
                   /\ ~(disk > 0 /\ disk < Default(knob.fill, DefaultFill))
                THEN [interval |-> Default(knob.interval, DayInterval), fill |-> disk]
                ELSE Idle
    /\ UNCHANGED <<knob, form, lastRun, pruned>> /\ SamplesStill /\ CleanupAlone

\* SystemPrune, at its end.  (What it does to containers is in Platform.)
EndPrune ==
    /\ sweep # Idle /\ sweep.interval > 0 /\ sweep' = Idle
    /\ lastRun' = clock /\ pruned' = clock
    /\ UNCHANGED <<knob, form>> /\ SamplesStill /\ CleanupAlone
-----------------------------------------------------------------------------
MonitoringCrash ==
    /\ EngineDies
    /\ batch' = Idle /\ pass' = Waiting /\ sweep' = Idle /\ lastRun' = Never /\ pruned' = Never
    /\ edit' = [c \in Clients |-> Idle] /\ form' = [c \in Clients |-> <<>>]
    /\ UNCHANGED <<clock, watched, alert, sample, knob, edits, told>>

MonitoringNext ==
    \/ MonitoringTick \/ CollectOne \/ InsertBatch \/ ListAllEnabled \/ EndPass
    \/ \E x \in pass.todo : Evaluate(x)
    \/ Send \/ SendFails \/ UpdateLastTriggered
    \/ \E p \in Watched : DeleteWatched(p) \/ \E a \in Alarms : CreateAlert(a, p)
    \/ \E a \in Alarms : DeleteAlert(a) \/ \E c \in Clients : ReadAlert(c, a)
    \/ \E c \in Clients : UpdateAlert(c) \/ UpdateCleanupSettings(c) \/ SaveField(c)
    \/ DeleteOldSamples \/ EndPrune \/ (\E disk \in Fills, ok \in BOOLEAN : ReadSettings(disk, ok))
    \/ MonitoringCrash

MonitoringSpec == MonitoringInit /\ [][MonitoringNext]_monVars
-----------------------------------------------------------------------------
MonitoringTypeOK ==
    /\ clock \in Clock /\ watched \subseteq Watched
    /\ \A s \in sample : s.app \in watched /\ s.at \in Clock
    /\ \A a \in Alerts : alert[a].app \in watched
    /\ pass.at \in {"idle", "evaluate", "send", "stamp"}
    /\ knob.enabled \in BOOLEAN /\ knob.interval \in Intervals \cup {0} /\ knob.fill \in Fills

\* Alerts are listed, evaluated, sent and noted in steps, while owners write back rows
\* they read earlier: even so nobody is told of an alert again within the cooldown,
\* provided the first time was noted.  And however admins change the settings, two
\* cleanups of a worker are apart by the interval that it read for the second.
NotTooOften ==
    [][/\ \A a \in Alarms :
            told'[a] # told[a] /\ ~told'[a].noted /\ told[a].noted => clock - told[a].at >= Cooldown
       /\ EndPrune /\ pruned # Never => clock - pruned >= sweep.interval]_monVars
=============================================================================
