---------------------------- MODULE Records_proofs ----------------------------
(***************************************************************************)
(* Proofs about components that MCRecords checks: alerts and cleanups,     *)
(* issues, accounts and page views, for any number of clients, any sets    *)
(* of data and any bounds.  Each section has an inductive invariant, one   *)
(* lemma per kind of step, and the theorems it carries.                    *)
(***************************************************************************)
EXTENDS MCRecords, PullRequests_proofs, Repositories_proofs, FiniteSums, TLAPS

-----------------------------------------------------------------------------
(* Samples, alerts and cleanups *)

Moments == Clock \cup {Never}
AlertRow == [is : BOOLEAN, app : Watched \cup {Idle}, known : BOOLEAN, on : BOOLEAN, last : Moments]
Listing == [id : Alarms, row : AlertRow]
Collected == [apps : SUBSET Watched, high : SUBSET Watched]
Knobs == [enabled : BOOLEAN, interval : Intervals \cup {0}, fill : Fills]

SampleVars == <<clock, watched, sample, batch>>
SampleInv ==
    /\ clock \in Clock /\ watched \subseteq Watched
    /\ batch \in Collected \cup {Idle}
    /\ \A s \in sample : s.app \in watched /\ s.at \in Clock

\* The alerts: what was told and noted is in the row, and in the copy that the pass has
\* of it; the pass has one copy of each.
AlertVars == <<clock, watched, alert, pass, edit, told>>
AlertTypes ==
    /\ clock \in Clock /\ watched \subseteq Watched
    /\ alert \in [Alarms -> AlertRow] /\ \A a \in Alerts : alert[a].app \in watched
    /\ pass \in [at : {"idle", "evaluate", "send", "stamp"}, todo : SUBSET Listing, cur : Listing \cup {Idle}]
    /\ edit \in [Clients -> Listing \cup {Idle}] /\ \A c \in Clients : edit[c] # Idle => edit[c].row.is
    /\ told \in [Alarms -> [at : Moments, noted : BOOLEAN]]
NotedBy(a, time) == told[a].noted => told[a].at <= time
RowsNote == \A a \in Alarms : told[a].at <= clock /\ (alert[a].is => NotedBy(a, alert[a].last))
PassNotes ==
    /\ \A x \in pass.todo : NotedBy(x.id, x.row.last)
    /\ \A x, y \in pass.todo : x.id = y.id => x = y
CurNotes ==
    pass.at \in {"send", "stamp"} =>
        /\ pass.cur \in Listing /\ \A x \in pass.todo : x.id # pass.cur.id
        /\ pass.at = "send" => NotedBy(pass.cur.id, clock - Cooldown)
AlertInv == AlertTypes /\ RowsNote /\ PassNotes /\ CurNotes

\* The cleanups: a sweep that means to prune read an interval that is over.
SweepVars == <<clock, knob, form, sweep, lastRun, pruned>>
SweepInv ==
    /\ clock \in Clock /\ knob \in Knobs
    /\ form \in [Clients -> Seq(FormFields)]
    /\ sweep \in [interval : Nat, fill : Nat] \cup {Idle}
    /\ lastRun \in Moments /\ pruned = lastRun
    /\ sweep # Idle /\ sweep.interval > 0 => pruned = Never \/ clock - pruned >= sweep.interval

MonInv == SampleInv /\ AlertInv /\ SweepInv

LEMMA ClockFacts ==
    /\ Clock \subseteq Nat /\ 0 \in Clock /\ Never \in Int /\ Never < 0
    /\ Cooldown \in Nat \ {0} /\ Retention \in Nat \ {0} /\ MaxClock \in Nat
    /\ \A t \in Moments : t \in Int /\ (t \in Clock \/ t = Never)
BY MonitoringAssumption DEF Clock, Never, Moments

LEMMA SamplesKept == ASSUME SampleInv, UNCHANGED SampleVars PROVE SampleInv'
BY DEF SampleInv, SampleVars

LEMMA AlertsKept == ASSUME AlertInv, UNCHANGED AlertVars PROVE AlertInv'
<1>1. UNCHANGED <<clock, watched, alert, pass, edit, told>>
  BY DEF AlertVars
<1>2. AlertTypes'
  BY <1>1 DEF AlertInv, AlertTypes, Alerts
<1>3. RowsNote' /\ PassNotes' /\ CurNotes'
  BY <1>1 DEF AlertInv, RowsNote, PassNotes, CurNotes, NotedBy
<1>4. QED
  BY <1>2, <1>3 DEF AlertInv

LEMMA SweepKept == ASSUME SweepInv, UNCHANGED SweepVars PROVE SweepInv'
BY DEF SweepInv, SweepVars

LEMMA MonTickKept == ASSUME MonInv, MonitoringTick PROVE MonInv'
<1>0. /\ SampleInv /\ AlertInv /\ SweepInv /\ clock' = clock + 1
      /\ UNCHANGED <<watched, sample, batch, alert, pass, told, edit, knob, form, sweep, lastRun, pruned>>
  BY DEF MonInv, MonitoringTick, AlertsStill, EditsStill, SamplesStill, CleanupStill
<1>1. clock \in Clock /\ clock' \in Clock /\ clock \in Nat
  BY <1>0, ClockFacts DEF MonitoringTick, SampleInv, Clock
<1>2. SampleInv'
  BY <1>0, <1>1 DEF SampleInv
<1>3. AlertTypes'
  BY <1>0, <1>1 DEF AlertInv, AlertTypes, Alerts
<1>4. \A a \in Alarms : told[a].at \in Int
  BY <1>0, ClockFacts DEF AlertInv, AlertTypes
<1>5. RowsNote'
  BY <1>0, <1>1, <1>4 DEF AlertInv, RowsNote, NotedBy
<1>6. PassNotes'
  BY <1>0 DEF AlertInv, PassNotes, NotedBy
<1>7. CurNotes'
  <2>1. CurNotes /\ (pass.at \in {"send", "stamp"} => pass.cur.id \in Alarms)
    BY <1>0 DEF AlertInv, CurNotes, Listing
  <2>2. QED
    BY <1>0, <1>1, <1>4, <2>1, ClockFacts DEF CurNotes, NotedBy
<1>8. SweepInv'
  BY <1>0, <1>1, ClockFacts DEF SweepInv
<1>9. QED
  BY <1>2, <1>3, <1>5, <1>6, <1>7, <1>8 DEF MonInv, AlertInv

LEMMA DeleteWatchedKept ==
    ASSUME MonInv, NEW p \in Watched, DeleteWatched(p)
    PROVE  MonInv'
<1>0. /\ SampleInv /\ AlertInv /\ SweepInv
      /\ UNCHANGED <<clock, batch, pass, told, edit, knob, form, sweep, lastRun, pruned>>
      /\ watched' = watched \ {p} /\ sample' = {s \in sample : s.app # p}
      /\ alert' = [a \in Alarms |-> IF alert[a].app = p THEN NoAlert ELSE alert[a]]
  BY DEF MonInv, DeleteWatched, EditsStill, CleanupStill
<1>1. SampleInv'
  BY <1>0 DEF SampleInv
<1>2. SweepInv'
  BY <1>0, SweepKept DEF SweepVars
<1>3. NoAlert \in AlertRow /\ ~NoAlert.is
  BY DEF NoAlert, AlertRow, Moments
<1>4. AlertTypes'
  <2>1. alert' \in [Alarms -> AlertRow]
    BY <1>0, <1>3 DEF AlertInv, AlertTypes
  <2>2. \A a \in Alerts' : alert'[a].app \in watched'
    BY <1>0, <1>3 DEF AlertInv, AlertTypes, Alerts
  <2>3. QED
    BY <1>0, <2>1, <2>2 DEF AlertInv, AlertTypes
<1>5. RowsNote'
  BY <1>0, <1>3 DEF AlertInv, RowsNote, NotedBy
<1>6. PassNotes' /\ CurNotes'
  BY <1>0 DEF AlertInv, PassNotes, CurNotes, NotedBy
<1>7. QED
  BY <1>1, <1>2, <1>4, <1>5, <1>6 DEF MonInv, AlertInv

LEMMA SamplingKept ==
    ASSUME MonInv, CollectOne \/ InsertBatch
    PROVE  MonInv'
<1>0. /\ SampleInv /\ AlertInv /\ SweepInv
      /\ UNCHANGED <<clock, watched, alert, pass, told, edit, knob, form, sweep, lastRun, pruned>>
  BY DEF MonInv, CollectOne, InsertBatch, AlertsStill, EditsStill, CleanupStill
<1>1. AlertInv' /\ SweepInv'
  BY <1>0, AlertsKept, SweepKept DEF AlertVars, SweepVars
<1>2. CASE CollectOne
  <2>1. batch' \in Collected /\ sample' = sample
    BY <1>0, <1>2 DEF CollectOne, Collected, SampleInv
  <2>2. QED
    BY <1>0, <1>1, <2>1 DEF MonInv, SampleInv
<1>3. CASE InsertBatch
  <2>1. \A s \in sample' : s.app \in watched /\ s.at \in Clock
    BY <1>0, <1>3 DEF InsertBatch, SampleInv
  <2>2. QED
    BY <1>0, <1>1, <1>3, <2>1 DEF MonInv, SampleInv, InsertBatch
<1>4. QED
  BY <1>2, <1>3

\* What an owner's request changes: rows, in a way that keeps their notes.
LEMMA EditsKept ==
    ASSUME MonInv, NEW a \in Alarms, MonitorStill, NEW r \in AlertRow, alert' = [alert EXCEPT ![a] = r],
           edit' \in [Clients -> Listing \cup {Idle}], \A c \in Clients : edit'[c] # Idle => edit'[c].row.is,
           r.is => r.app \in watched /\ NotedBy(a, r.last)
    PROVE  MonInv'
<1>0. /\ SampleInv /\ AlertInv /\ SweepInv
      /\ UNCHANGED <<clock, watched, sample, batch, pass, told, knob, form, sweep, lastRun, pruned>>
  BY DEF MonInv, MonitorStill, SamplesStill, CleanupStill
<1>1. SampleInv' /\ SweepInv'
  BY <1>0, SamplesKept, SweepKept DEF SampleVars, SweepVars
<1>2. alert \in [Alarms -> AlertRow] /\ alert'[a] = r /\ \A b \in Alarms \ {a} : alert'[b] = alert[b]
  BY <1>0 DEF AlertInv, AlertTypes
<1>3. AlertTypes'
  <2>1. alert' \in [Alarms -> AlertRow]
    BY <1>2
  <2>2. \A b \in Alerts' : alert'[b].app \in watched'
    BY <1>0, <1>2 DEF AlertInv, AlertTypes, Alerts
  <2>3. QED
    BY <1>0, <2>1, <2>2 DEF AlertInv, AlertTypes
<1>4. RowsNote'
  BY <1>0, <1>2 DEF AlertInv, RowsNote, NotedBy
<1>5. PassNotes' /\ CurNotes'
  BY <1>0 DEF AlertInv, PassNotes, CurNotes, NotedBy
<1>6. QED
  BY <1>1, <1>3, <1>4, <1>5 DEF MonInv, AlertInv

LEMMA CreateAlertKept ==
    ASSUME MonInv, NEW a \in Alarms, NEW p \in Watched, CreateAlert(a, p)
    PROVE  MonInv'
<1> DEFINE r == [is |-> TRUE, app |-> p, known |-> TRUE, on |-> TRUE, last |-> Never]
<1>1. r \in AlertRow /\ r.last = Never /\ r.app = p /\ p \in watched /\ told[a].at = Never
  BY DEF CreateAlert, AlertRow, Moments
<1>2. NotedBy(a, r.last)
  BY <1>1, ClockFacts DEF NotedBy
<1>3. alert' = [alert EXCEPT ![a] = r] /\ MonitorStill
  BY DEF CreateAlert
<1>4. edit' \in [Clients -> Listing \cup {Idle}] /\ \A c \in Clients : edit'[c] # Idle => edit'[c].row.is
  BY DEF CreateAlert, MonInv, AlertInv, AlertTypes
<1> HIDE DEF r
<1>5. QED
  BY <1>1, <1>2, <1>3, <1>4, EditsKept

LEMMA DeleteAlertKept ==
    ASSUME MonInv, NEW a \in Alarms, DeleteAlert(a)
    PROVE  MonInv'
<1>1. NoAlert \in AlertRow /\ ~NoAlert.is
  BY DEF NoAlert, AlertRow, Moments
<1>2. /\ alert' = [alert EXCEPT ![a] = NoAlert] /\ MonitorStill
      /\ edit' \in [Clients -> Listing \cup {Idle}] /\ \A c \in Clients : edit'[c] # Idle => edit'[c].row.is
  BY DEF DeleteAlert, MonInv, AlertInv, AlertTypes
<1>3. QED
  BY <1>1, <1>2, EditsKept

LEMMA ReadAlertKept ==
    ASSUME MonInv, NEW a \in Alarms, NEW c \in Clients, ReadAlert(c, a)
    PROVE  MonInv'
<1>0. AlertInv /\ alert[a] \in AlertRow /\ alert[a].is /\ MonitorStill /\ alert' = alert
  BY DEF MonInv, AlertInv, AlertTypes, ReadAlert
<1>1. alert' = [alert EXCEPT ![a] = alert[a]]
  BY <1>0 DEF AlertInv, AlertTypes
<1>2. [id |-> a, row |-> alert[a]] \in Listing /\ [id |-> a, row |-> alert[a]].row = alert[a]
  BY <1>0 DEF Listing
<1>3. edit' \in [Clients -> Listing \cup {Idle}] /\ \A d \in Clients : edit'[d] # Idle => edit'[d].row.is
  BY <1>0, <1>2 DEF ReadAlert, AlertInv, AlertTypes
<1>4. alert[a].app \in watched /\ NotedBy(a, alert[a].last)
  BY <1>0 DEF AlertInv, AlertTypes, Alerts, RowsNote
<1>5. QED
  BY <1>0, <1>1, <1>3, <1>4, EditsKept

\* The time that is written is the one that is there, whatever was read before.
LEMMA UpdateAlertKept ==
    ASSUME MonInv, NEW c \in Clients, UpdateAlert(c)
    PROVE  MonInv'
<1>0. AlertInv /\ edit[c] \in Listing /\ edit[c].row.is /\ MonitorStill
  BY DEF MonInv, AlertInv, AlertTypes, UpdateAlert
<1>1. PICK a \in Alarms : a = edit[c].id
  BY <1>0 DEF Listing
<1>2. alert[a] \in AlertRow /\ edit[c].row \in AlertRow
  BY <1>0 DEF AlertInv, AlertTypes, Listing
<1>3. PICK r \in AlertRow :
          /\ alert' = [alert EXCEPT ![a] = r]
          /\ r = alert[a] \/ (alert[a].is /\ r.app = alert[a].app /\ r.last = alert[a].last)
  <2>1. PICK on \in BOOLEAN, known \in BOOLEAN :
            alert' = [alert EXCEPT ![a] = IF alert[a].is
                        THEN Written(a, [edit[c].row EXCEPT !.on = on, !.known = known]) ELSE @]
    BY <1>1 DEF UpdateAlert
  <2>2. PICK w \in AlertRow : w = [edit[c].row EXCEPT !.on = on, !.known = known]
    BY <1>2 DEF AlertRow
  <2>3. /\ Written(a, w) \in AlertRow
        /\ Written(a, w).app = alert[a].app /\ Written(a, w).last = alert[a].last
    BY <1>2 DEF Written, AlertRow
  <2>4. alert' = [alert EXCEPT ![a] = IF alert[a].is THEN Written(a, w) ELSE alert[a]]
    BY <1>0, <2>1, <2>2 DEF AlertInv, AlertTypes
  <2>5. QED
    BY <1>2, <2>3, <2>4
<1>4. r.is => r.app \in watched /\ NotedBy(a, r.last)
  BY <1>0, <1>3 DEF AlertInv, AlertTypes, Alerts, RowsNote
<1>5. edit' \in [Clients -> Listing \cup {Idle}] /\ \A d \in Clients : edit'[d] # Idle => edit'[d].row.is
  BY <1>0 DEF UpdateAlert, AlertInv, AlertTypes
<1>6. QED
  BY <1>0, <1>3, <1>4, <1>5, EditsKept

\* The steps of a pass change the list, the rows' times and what was told.
LEMMA PassStillKept ==
    ASSUME MonInv, PassStill
    PROVE  SampleInv' /\ SweepInv' /\ UNCHANGED <<clock, watched, edit>>
<1>1. UNCHANGED <<clock, watched, sample, batch, edit, knob, form, sweep, lastRun, pruned>>
  BY DEF PassStill, EditsStill, SamplesStill, CleanupStill
<1>2. QED
  BY <1>1, SamplesKept, SweepKept DEF MonInv, SampleVars, SweepVars

LEMMA ListAllEnabledKept ==
    ASSUME MonInv, ListAllEnabled
    PROVE  MonInv'
<1> DEFINE list == {[id |-> a, row |-> alert[a]] : a \in {b \in Alerts : alert[b].on}}
<1>0. /\ AlertInv /\ SampleInv' /\ SweepInv' /\ UNCHANGED <<clock, watched, edit, alert, told>>
      /\ pass' = [at |-> "evaluate", cur |-> Idle, todo |-> list]
  BY PassStillKept DEF MonInv, ListAllEnabled
<1>1. /\ list \subseteq Listing
      /\ \A x \in list : x.row = alert[x.id] /\ x.id \in Alerts
  BY <1>0 DEF AlertInv, AlertTypes, Alerts, Listing
<1>2. \A x, y \in list : x.id = y.id => x = y
  BY <1>1 DEF Listing
<1>3. pass'.at = "evaluate" /\ pass'.todo = list
  BY <1>0
<1> HIDE DEF list
<1>4. AlertTypes'
  BY <1>0, <1>1 DEF AlertInv, AlertTypes, Alerts
<1>5. PassNotes'
  BY <1>0, <1>1, <1>2, <1>3 DEF AlertInv, PassNotes, RowsNote, NotedBy, Alerts
<1>6. RowsNote' /\ CurNotes'
  BY <1>0, <1>3 DEF AlertInv, RowsNote, CurNotes, NotedBy
<1>7. QED
  BY <1>0, <1>4, <1>5, <1>6 DEF MonInv, AlertInv

LEMMA EvaluateKept ==
    ASSUME MonInv, NEW x \in pass.todo, Evaluate(x)
    PROVE  MonInv'
<1>0. /\ AlertInv /\ SampleInv' /\ SweepInv' /\ UNCHANGED <<clock, watched, edit, alert, told>>
      /\ x \in Listing /\ pass.at = "evaluate" /\ clock \in Nat
  BY PassStillKept, ClockFacts DEF MonInv, Evaluate, AlertInv, AlertTypes
<1>1. PICK q \in [at : {"evaluate", "send"}, todo : SUBSET Listing, cur : Listing \cup {Idle}] :
          /\ pass' = q /\ q.todo = pass.todo \ {x}
          /\ q.at = "send" => q.cur = x /\ ~Cooling(x.row)
  <2>1. CASE Meets(x.row) /\ ~Cooling(x.row) /\ x.row.app \in watched
    BY <1>0, <2>1 DEF Evaluate, AlertInv, AlertTypes
  <2>2. CASE ~(Meets(x.row) /\ ~Cooling(x.row) /\ x.row.app \in watched)
    BY <1>0, <2>2 DEF Evaluate, AlertInv, AlertTypes
  <2>3. QED
    BY <2>1, <2>2
<1>2. AlertTypes'
  BY <1>0, <1>1 DEF AlertInv, AlertTypes, Alerts
<1>3. RowsNote' /\ PassNotes'
  BY <1>0, <1>1 DEF AlertInv, RowsNote, PassNotes, NotedBy
<1>4. CurNotes'
  <2>1. ~Cooling(x.row) => NotedBy(x.id, clock - Cooldown)
    <3>1. x.row.last \in Int /\ told[x.id].at \in Int
      BY <1>0, ClockFacts DEF AlertInv, AlertTypes, Listing, AlertRow
    <3>2. NotedBy(x.id, x.row.last)
      BY <1>0 DEF AlertInv, PassNotes
    <3>3. QED
      BY <1>0, <3>1, <3>2, ClockFacts DEF Cooling, NotedBy
  <2>2. \A y \in q.todo : y.id # x.id
    BY <1>0, <1>1 DEF AlertInv, PassNotes
  <2>3. QED
    BY <1>0, <1>1, <2>1, <2>2 DEF CurNotes, NotedBy
<1>5. QED
  BY <1>0, <1>2, <1>3, <1>4 DEF MonInv, AlertInv

LEMMA BackToTheList ==
    ASSUME AlertInv, pass' = [pass EXCEPT !.at = "evaluate", !.cur = Idle]
    PROVE  /\ pass' \in [at : {"evaluate"}, todo : SUBSET Listing, cur : Listing \cup {Idle}]
           /\ pass'.todo = pass.todo
<1>1. PICK i \in Listing \cup {Idle} : i = Idle
  OBVIOUS
<1>2. pass \in [at : {"idle", "evaluate", "send", "stamp"}, todo : SUBSET Listing, cur : Listing \cup {Idle}]
  BY DEF AlertInv, AlertTypes
<1>3. pass' = [pass EXCEPT !.at = "evaluate", !.cur = i]
  BY <1>1
<1>4. QED
  BY <1>2, <1>3

LEMMA EndsOfPassKept ==
    ASSUME MonInv, EndPass \/ SendFails
    PROVE  MonInv'
<1>0. /\ AlertInv /\ SampleInv' /\ SweepInv' /\ UNCHANGED <<clock, watched, edit, alert, told>>
  BY PassStillKept DEF MonInv, EndPass, SendFails
<1>1. PICK q \in [at : {"idle", "evaluate"}, todo : SUBSET Listing, cur : Listing \cup {Idle}] :
          pass' = q /\ q.todo \subseteq pass.todo
  <2>1. CASE EndPass
    BY <2>1 DEF EndPass, Waiting
  <2>2. CASE SendFails
    <3>1. pass' = [pass EXCEPT !.at = "evaluate", !.cur = Idle]
      BY <2>2 DEF SendFails
    <3>2. QED
      BY <1>0, <3>1, BackToTheList
  <2>3. QED
    BY <2>1, <2>2
<1>2. AlertTypes'
  BY <1>0, <1>1 DEF AlertInv, AlertTypes, Alerts
<1>3. RowsNote' /\ PassNotes' /\ CurNotes'
  BY <1>0, <1>1 DEF AlertInv, RowsNote, PassNotes, CurNotes, NotedBy
<1>4. QED
  BY <1>0, <1>2, <1>3 DEF MonInv, AlertInv

\* The alert that is sent is not on the list any more.
LEMMA SendKept ==
    ASSUME MonInv, Send
    PROVE  MonInv'
<1>0. /\ AlertInv /\ SampleInv' /\ SweepInv' /\ UNCHANGED <<clock, watched, edit, alert>>
      /\ pass.at = "send" /\ pass.cur \in Listing /\ clock \in Clock /\ clock \in Nat
  BY PassStillKept, ClockFacts DEF MonInv, Send, AlertInv, AlertTypes, CurNotes
<1>1. PICK a \in Alarms : a = pass.cur.id
  BY <1>0 DEF Listing
<1>2. PICK n \in [at : Moments, noted : BOOLEAN] :
          /\ n.at = clock /\ ~n.noted /\ told' = [told EXCEPT ![a] = n]
  BY <1>0, <1>1 DEF Send, Moments
<1>3. PICK q \in [at : {"stamp"}, todo : SUBSET Listing, cur : Listing \cup {Idle}] :
          pass' = q /\ q.todo = pass.todo /\ q.cur = pass.cur
  <2>1. pass' = [pass EXCEPT !.at = "stamp"]
    BY DEF Send
  <2>2. QED
    BY <1>0, <2>1 DEF AlertInv, AlertTypes
<1>4. AlertTypes'
  BY <1>0, <1>2, <1>3 DEF AlertInv, AlertTypes, Alerts
<1>5. RowsNote' /\ PassNotes' /\ CurNotes'
  BY <1>0, <1>1, <1>2, <1>3 DEF AlertInv, AlertTypes, RowsNote, PassNotes, CurNotes, NotedBy, Listing
<1>6. QED
  BY <1>0, <1>4, <1>5 DEF MonInv, AlertInv

LEMMA UpdateLastTriggeredKept ==
    ASSUME MonInv, UpdateLastTriggered
    PROVE  MonInv'
<1>0. /\ AlertInv /\ SampleInv' /\ SweepInv' /\ UNCHANGED <<clock, watched, edit>>
      /\ pass.at = "stamp" /\ pass.cur \in Listing /\ clock \in Clock /\ clock \in Nat
      /\ \A x \in pass.todo : x \in Listing /\ x.id # pass.cur.id
  BY PassStillKept, ClockFacts DEF MonInv, UpdateLastTriggered, AlertInv, AlertTypes, CurNotes
<1>1. PICK a \in Alarms : a = pass.cur.id
  BY <1>0 DEF Listing
<1>2. PICK q \in [at : {"evaluate"}, todo : SUBSET Listing, cur : Listing \cup {Idle}] :
          pass' = q /\ q.todo = pass.todo
  <2>1. pass' = [pass EXCEPT !.at = "evaluate", !.cur = Idle]
    BY DEF UpdateLastTriggered
  <2>2. QED
    BY <1>0, <2>1, BackToTheList
<1>3. CASE UNCHANGED <<alert, told>>
  <2>1. AlertTypes'
    BY <1>0, <1>2, <1>3 DEF AlertInv, AlertTypes, Alerts
  <2>2. RowsNote' /\ PassNotes' /\ CurNotes'
    BY <1>0, <1>2, <1>3 DEF AlertInv, RowsNote, PassNotes, CurNotes, NotedBy
  <2>3. QED
    BY <1>0, <2>1, <2>2 DEF MonInv, AlertInv
<1>4. CASE /\ alert' = [alert EXCEPT ![a] = IF @.is THEN [@ EXCEPT !.last = clock] ELSE @]
           /\ told' = [told EXCEPT ![a].noted = TRUE]
  <2>1. PICK r \in AlertRow :
            /\ alert' = [alert EXCEPT ![a] = r] /\ r.is = alert[a].is /\ r.app = alert[a].app
            /\ r.is => r.last = clock
    <3>1. alert' = [alert EXCEPT ![a] = IF alert[a].is THEN [alert[a] EXCEPT !.last = clock] ELSE alert[a]]
      BY <1>0, <1>4 DEF AlertInv, AlertTypes
    <3>2. alert[a] \in AlertRow
      BY <1>0 DEF AlertInv, AlertTypes
    <3>3. [alert[a] EXCEPT !.last = clock] \in AlertRow
      BY <1>0, <3>2 DEF AlertRow, Moments
    <3>4. CASE alert[a].is
      BY <3>1, <3>2, <3>3, <3>4 DEF AlertRow
    <3>5. CASE ~alert[a].is
      BY <3>1, <3>2, <3>5
    <3>6. QED
      BY <3>4, <3>5
  <2>2. PICK n \in [at : Moments, noted : BOOLEAN] :
            n.at = told[a].at /\ n.noted /\ told' = [told EXCEPT ![a] = n]
    <3>1. told' = [told EXCEPT ![a] = [told[a] EXCEPT !.noted = TRUE]]
      BY <1>0, <1>4 DEF AlertInv, AlertTypes
    <3>2. QED
      BY <1>0, <3>1 DEF AlertInv, AlertTypes
  <2>3. AlertTypes'
    <3>1. alert' \in [Alarms -> AlertRow]
      BY <1>0, <2>1 DEF AlertInv, AlertTypes
    <3>2. \A b \in Alerts' : alert'[b].app \in watched'
      BY <1>0, <2>1 DEF AlertInv, AlertTypes, Alerts
    <3>3. QED
      BY <1>0, <1>2, <2>2, <3>1, <3>2 DEF AlertInv, AlertTypes
  <2>4. RowsNote'
    BY <1>0, <2>1, <2>2 DEF AlertInv, AlertTypes, RowsNote, NotedBy
  <2>5. PassNotes'
    <3>1. \A x \in pass.todo : x.id \in Alarms /\ told'[x.id] = told[x.id]
      BY <1>0, <1>1, <2>2 DEF AlertInv, AlertTypes, Listing
    <3>2. QED
      BY <1>0, <1>2, <3>1 DEF AlertInv, PassNotes, NotedBy
  <2>6. CurNotes'
    BY <1>2 DEF CurNotes
  <2>7. QED
    BY <1>0, <2>3, <2>4, <2>5, <2>6 DEF MonInv, AlertInv
<1>5. QED
  BY <1>1, <1>3, <1>4 DEF UpdateLastTriggered


\* A request or a cleanup that leaves the alerts alone.
LEMMA CleanupStillKept ==
    ASSUME MonInv, UNCHANGED <<clock, watched, alert, pass, edit, told, batch>>,
           sample' \subseteq sample, SweepInv'
    PROVE  MonInv'
<1>1. SampleInv'
  BY DEF MonInv, SampleInv
<1>2. AlertInv'
  BY AlertsKept DEF MonInv, AlertVars
<1>3. QED
  BY <1>1, <1>2 DEF MonInv

LEMMA FieldsTyped ==
    /\ \A f \in FormFields : \/ f = <<"enabled", TRUE>>
                             \/ f = <<"enabled", FALSE>>
                             \/ \E n \in Intervals \cup {0} : f = <<"interval", n>>
                             \/ \E n \in Fills \cup {0} : f = <<"fill", n>>
    /\ Forms \subseteq Seq(FormFields)
<1>1. \A f \in FormFields : <<f>> \in Seq(FormFields)
  OBVIOUS
<1>2. \A p \in FormFields \X FormFields : p \in Seq(FormFields)
  <2>1. \A f, g \in FormFields : <<f, g>> \in Seq(FormFields)
    OBVIOUS
  <2>2. \A p \in FormFields \X FormFields : \E f, g \in FormFields : p = <<f, g>>
    OBVIOUS
  <2>3. QED
    BY <2>1, <2>2
<1>3. QED
  BY <1>1, <1>2 DEF Forms, FormFields

LEMMA SettingsKept ==
    ASSUME MonInv, NEW c \in Clients, UpdateCleanupSettings(c) \/ SaveField(c)
    PROVE  MonInv'
<1>0. /\ UNCHANGED <<clock, watched, alert, pass, edit, told, batch, sample, sweep, lastRun, pruned>>
      /\ SweepInv
  BY DEF MonInv, UpdateCleanupSettings, SaveField, AlertsStill, SamplesStill, CleanupAlone, EditsStill
<1>1. CASE UpdateCleanupSettings(c)
  <2>1. knob' = knob /\ form' \in [Clients -> Seq(FormFields)]
    BY <1>0, <1>1, FieldsTyped DEF UpdateCleanupSettings, SweepInv
  <2>2. SweepInv'
    BY <1>0, <2>1 DEF SweepInv
  <2>3. QED
    BY <1>0, <2>2, CleanupStillKept
<1>2. CASE SaveField(c)
  <2>0. form[c] \in Seq(FormFields) /\ form[c] # <<>>
    BY <1>0, <1>2 DEF SaveField, SweepInv
  <2>1. PICK f \in FormFields : f = Head(form[c])
    BY <2>0
  <2>2. Tail(form[c]) \in Seq(FormFields) /\ <<>> \in Seq(FormFields)
    BY <2>0
  <2>3. form' \in [Clients -> Seq(FormFields)]
    BY <1>0, <1>2, <2>2 DEF SaveField, SweepInv
  <2>4. knob' \in Knobs
    <3>1. knob' = knob \/ (knob' = [knob EXCEPT ![f[1]] = f[2]] /\ ~(f[1] # "enabled" /\ f[2] = 0))
      BY <1>2, <2>1 DEF SaveField
    <3>2. CASE f = <<"enabled", TRUE>> \/ f = <<"enabled", FALSE>>
      <4>1. f[1] = "enabled" /\ f[2] \in BOOLEAN
        <5>1. <<"enabled", TRUE>>[1] = "enabled" /\ <<"enabled", TRUE>>[2] \in BOOLEAN
          OBVIOUS
        <5>2. <<"enabled", FALSE>>[1] = "enabled" /\ <<"enabled", FALSE>>[2] \in BOOLEAN
          OBVIOUS
        <5>3. QED
          BY <3>2, <5>1, <5>2
      <4>2. knob' = knob \/ knob' = [knob EXCEPT !.enabled = f[2]]
        BY <3>1, <4>1
      <4>3. QED
        BY <1>0, <4>1, <4>2 DEF SweepInv, Knobs
    <3>3. CASE \E n \in Intervals \cup {0} : f = <<"interval", n>>
      <4>1. f[1] = "interval" /\ f[2] \in Intervals \cup {0}
        BY <3>3
      <4>2. knob' = knob \/ knob' = [knob EXCEPT !.interval = f[2]]
        BY <3>1, <4>1
      <4>3. QED
        BY <1>0, <4>1, <4>2 DEF SweepInv, Knobs
    <3>4. CASE \E n \in Fills \cup {0} : f = <<"fill", n>>
      <4>1. f[1] = "fill" /\ f[2] \in Fills
        BY <3>4, MonitoringAssumption
      <4>2. knob' = knob \/ knob' = [knob EXCEPT !.fill = f[2]]
        BY <3>1, <4>1
      <4>3. QED
        BY <1>0, <4>1, <4>2 DEF SweepInv, Knobs
    <3>5. QED
      BY <3>2, <3>3, <3>4, FieldsTyped
  <2>5. SweepInv'
    BY <1>0, <2>3, <2>4 DEF SweepInv
  <2>6. QED
    BY <1>0, <2>5, CleanupStillKept
<1>3. QED
  BY <1>1, <1>2

LEMMA CleanupKept ==
    ASSUME MonInv, DeleteOldSamples \/ EndPrune \/ (\E disk \in Fills, ok \in BOOLEAN : ReadSettings(disk, ok))
    PROVE  MonInv'
<1>0. /\ UNCHANGED <<clock, watched, alert, pass, edit, told, batch, knob, form>> /\ sample' \subseteq sample
      /\ SweepInv /\ clock \in Clock /\ clock \in Nat
  BY ClockFacts DEF MonInv, DeleteOldSamples, EndPrune, ReadSettings, SweepInv,
                    AlertsStill, SamplesStill, CleanupAlone, EditsStill
<1>1. CASE DeleteOldSamples
  <2>1. SweepInv'
    BY <1>0, <1>1 DEF DeleteOldSamples, SweepInv
  <2>2. QED
    BY <1>0, <2>1, CleanupStillKept
<1>2. CASE EndPrune
  <2>1. sweep' = Idle /\ lastRun' \in Moments /\ pruned' = lastRun'
    BY <1>0, <1>2 DEF EndPrune, Moments
  <2>2. SweepInv'
    BY <1>0, <2>1 DEF SweepInv
  <2>3. QED
    BY <1>0, <2>2, CleanupStillKept
<1>3. ASSUME NEW disk \in Fills, NEW ok \in BOOLEAN, ReadSettings(disk, ok)
      PROVE  MonInv'
  <2>1. PICK n \in Nat : n = Default(knob.interval, DayInterval)
    BY <1>0, MonitoringAssumption DEF SweepInv, Knobs, Default
  <2>2. disk \in Nat
    BY MonitoringAssumption
  <2>3. sweep' = Idle \/ (sweep' = [interval |-> n, fill |-> disk] /\ Due(n))
    BY <1>3, <2>1 DEF ReadSettings
  <2>4. UNCHANGED <<lastRun, pruned>>
    BY <1>3 DEF ReadSettings
  <2>5. SweepInv'
    <3>1. CASE sweep' = Idle
      BY <1>0, <2>4, <3>1 DEF SweepInv
    <3>2. CASE sweep' = [interval |-> n, fill |-> disk] /\ Due(n)
      BY <1>0, <2>2, <2>4, <3>2 DEF SweepInv, Due
    <3>3. QED
      BY <2>3, <3>1, <3>2
  <2>6. QED
    BY <1>0, <2>5, CleanupStillKept
<1>4. QED
  BY <1>1, <1>2, <1>3

LEMMA WaitingTyped ==
    /\ Waiting \in [at : {"idle", "evaluate", "send", "stamp"}, todo : SUBSET Listing, cur : Listing \cup {Idle}]
    /\ Waiting.at = "idle" /\ Waiting.todo = {}
BY DEF Waiting

LEMMA MonitoringCrashKept ==
    ASSUME MonInv, MonitoringCrash
    PROVE  MonInv'
<1>0. /\ SampleInv /\ AlertInv /\ SweepInv
      /\ UNCHANGED <<clock, watched, alert, sample, knob, told>>
      /\ batch' = Idle /\ pass' = Waiting /\ sweep' = Idle /\ lastRun' = Never /\ pruned' = Never
      /\ edit' = [c \in Clients |-> Idle] /\ form' = [c \in Clients |-> <<>>]
  BY DEF MonInv, MonitoringCrash
<1>1. SampleInv'
  BY <1>0 DEF SampleInv
<1>2. AlertTypes'
  BY <1>0, WaitingTyped DEF AlertInv, AlertTypes, Alerts
<1>3. RowsNote' /\ PassNotes' /\ CurNotes'
  BY <1>0, WaitingTyped DEF AlertInv, RowsNote, PassNotes, CurNotes, NotedBy
<1>4. form' \in [Clients -> Seq(FormFields)]
  <2>1. <<>> \in Seq(FormFields)
    OBVIOUS
  <2>2. QED
    BY <1>0, <2>1
<1>5. SweepInv'
  BY <1>0, <1>4 DEF SweepInv, Moments
<1>6. QED
  BY <1>1, <1>2, <1>3, <1>5 DEF MonInv, AlertInv

LEMMA MonInvInit == MonitoringInit => MonInv
<1> SUFFICES ASSUME MonitoringInit
             PROVE  MonInv
  OBVIOUS
<1>0. /\ clock = 0 /\ watched = Watched /\ alert = [a \in Alarms |-> NoAlert]
      /\ sample = {} /\ batch = Idle /\ pass = Waiting
      /\ edit = [c \in Clients |-> Idle] /\ form = [c \in Clients |-> <<>>]
      /\ knob = Unset /\ sweep = Idle /\ lastRun = Never /\ pruned = Never
      /\ told = [a \in Alarms |-> [at |-> Never, noted |-> FALSE]]
  BY DEF MonitoringInit
<1>1. 0 \in Clock /\ Never < 0 /\ Never \in Int
  BY ClockFacts
<1>2. NoAlert \in AlertRow /\ ~NoAlert.is
  BY DEF NoAlert, AlertRow, Moments
<1>3. SampleInv
  BY <1>0, <1>1 DEF SampleInv
<1>4. AlertTypes
  BY <1>0, <1>1, <1>2, WaitingTyped DEF AlertTypes, Alerts, Moments
<1>5. RowsNote /\ PassNotes /\ CurNotes
  BY <1>0, <1>1, <1>2, WaitingTyped DEF RowsNote, PassNotes, CurNotes, NotedBy
<1>6. SweepInv
  <2>1. <<>> \in Seq(FormFields)
    OBVIOUS
  <2>2. Unset \in Knobs
    BY MonitoringAssumption DEF Unset, Knobs
  <2>3. QED
    BY <1>0, <1>1, <2>1, <2>2 DEF SweepInv, Moments
<1>7. QED
  BY <1>3, <1>4, <1>5, <1>6 DEF MonInv, AlertInv

LEMMA MonInvKept == MonInv /\ [MonitoringNext]_monVars => MonInv'
<1> SUFFICES ASSUME MonInv, [MonitoringNext]_monVars
             PROVE  MonInv'
  OBVIOUS
<1>1. CASE UNCHANGED monVars
  <2>1. UNCHANGED SampleVars /\ UNCHANGED AlertVars /\ UNCHANGED SweepVars
    BY <1>1 DEF monVars, SampleVars, AlertVars, SweepVars
  <2>2. QED
    BY <2>1, SamplesKept, AlertsKept, SweepKept DEF MonInv
<1>2. CASE MonitoringTick \/ CollectOne \/ InsertBatch \/ MonitoringCrash
  BY <1>2, MonTickKept, SamplingKept, MonitoringCrashKept
<1>3. CASE ListAllEnabled \/ EndPass \/ Send \/ SendFails \/ UpdateLastTriggered
  BY <1>3, ListAllEnabledKept, EndsOfPassKept, SendKept, UpdateLastTriggeredKept
<1>4. ASSUME NEW x \in pass.todo, Evaluate(x)
      PROVE  MonInv'
  BY <1>4, EvaluateKept
<1>5. ASSUME NEW p \in Watched, NEW a \in Alarms, DeleteWatched(p) \/ CreateAlert(a, p)
      PROVE  MonInv'
  BY <1>5, DeleteWatchedKept, CreateAlertKept
<1>6. ASSUME NEW p \in Watched, DeleteWatched(p)
      PROVE  MonInv'
  BY <1>6, DeleteWatchedKept
<1>7. ASSUME NEW a \in Alarms, DeleteAlert(a) \/ \E c \in Clients : ReadAlert(c, a)
      PROVE  MonInv'
  BY <1>7, DeleteAlertKept, ReadAlertKept
<1>8. ASSUME NEW c \in Clients, UpdateAlert(c) \/ UpdateCleanupSettings(c) \/ SaveField(c)
      PROVE  MonInv'
  BY <1>8, UpdateAlertKept, SettingsKept
<1>9. CASE DeleteOldSamples \/ EndPrune \/ (\E disk \in Fills, ok \in BOOLEAN : ReadSettings(disk, ok))
  BY <1>9, CleanupKept
<1>10. QED
  BY <1>1, <1>2, <1>3, <1>4, <1>5, <1>6, <1>7, <1>8, <1>9 DEF MonitoringNext

\* A step that tells is Send, and one that prunes is EndPrune, whatever else it is.
Told == \A a \in Alarms : told'[a] # told[a] /\ ~told'[a].noted /\ told[a].noted => clock - told[a].at >= Cooldown
LEMMA ToldInTime ==
    ASSUME MonInv, MonitoringNext
    PROVE  Told
<1>0. AlertInv /\ AlertTypes /\ CurNotes /\ clock \in Nat /\ Cooldown \in Nat
  BY ClockFacts DEF MonInv, AlertInv, AlertTypes
<1>1. CASE Send
  <2>1. PICK b \in Alarms : b = pass.cur.id /\ NotedBy(b, clock - Cooldown)
    BY <1>0, <1>1 DEF Send, CurNotes, Listing
  <2>2. \A a \in Alarms \ {b} : told'[a] = told[a]
    BY <1>0, <1>1, <2>1 DEF Send, AlertTypes
  <2>3. told[b].at \in Int
    BY <1>0, ClockFacts DEF AlertTypes
  <2>4. QED
    BY <1>0, <2>1, <2>2, <2>3 DEF Told, NotedBy
<1>2. CASE UpdateLastTriggered
  <2>1. PICK b \in Alarms : b = pass.cur.id
    BY <1>0, <1>2 DEF UpdateLastTriggered, CurNotes, Listing
  <2>2. UNCHANGED told \/ told' = [told EXCEPT ![b] = [told[b] EXCEPT !.noted = TRUE]]
    BY <1>0, <1>2, <2>1 DEF UpdateLastTriggered, AlertTypes
  <2>3. \A a \in Alarms : told'[a] = told[a] \/ told'[a].noted
    BY <1>0, <2>1, <2>2 DEF AlertTypes
  <2>4. QED
    BY <2>3 DEF Told
<1>3. CASE UNCHANGED told
  BY <1>3 DEF Told
<1>4. QED
  BY <1>1, <1>2, <1>3 DEF MonitoringNext, MonitoringTick, CollectOne, InsertBatch, ListAllEnabled, EndPass,
       Evaluate, SendFails, DeleteWatched, CreateAlert, DeleteAlert, ReadAlert, UpdateAlert,
       UpdateCleanupSettings, SaveField, DeleteOldSamples, EndPrune, ReadSettings, MonitoringCrash,
       AlertsStill, MonitorStill, CleanupAlone

LEMMA MonInvTyped == MonInv => MonitoringTypeOK
BY DEF MonInv, SampleInv, AlertInv, AlertTypes, SweepInv, MonitoringTypeOK, Knobs

\* The variables of the samples, alerts and cleanups keep their types.
THEOREM MonitoringTyped == MonitoringSpec => []MonitoringTypeOK
BY MonInvTyped, MonInvInit, MonInvKept, PTL DEF MonitoringSpec

\* Nobody is told of an alert again within the cooldown of a notification that was noted
\* (alerter.go), and two cleanups of one worker are apart by the interval it read
\* (cleanup_worker.go), whatever owners and admins write meanwhile.
THEOREM NobodyIsToldTooOften == MonitoringSpec => NotTooOften
<1>1. MonInv /\ [MonitoringNext]_monVars =>
          [/\ \A a \in Alarms :
                told'[a] # told[a] /\ ~told'[a].noted /\ told[a].noted => clock - told[a].at >= Cooldown
           /\ EndPrune /\ pruned # Never => clock - pruned >= sweep.interval]_monVars
  <2>1. MonInv /\ EndPrune /\ pruned # Never => clock - pruned >= sweep.interval
    BY DEF MonInv, SweepInv, EndPrune
  <2>2. QED
    BY <2>1, ToldInTime DEF Told
<1>2. QED
  BY <1>1, MonInvInit, MonInvKept, PTL DEF MonitoringSpec, NotTooOften

-----------------------------------------------------------------------------
(* The issues *)

Posting == [at : PostPlaces, n : Nat, title : Nat, sets : BOOLEAN, labels : SUBSET Labels,
            sees : SUBSET (Numbers \X Labels \X Nat), k : Nat]
IssueRow == [is : BOOLEAN, title : Nat, open : BOOLEAN]
IssueTypes ==
    /\ label \in [Labels -> {"new", "there", "gone"}]
    /\ issue \in [Numbers -> IssueRow]
    /\ tagged \subseteq Numbers \X Labels \X Nat
    /\ post \in [Clients -> Posting]
    /\ posts \in Nat
    /\ meant \in [Numbers -> SUBSET Labels]
    /\ named \in [Numbers -> Nat]
    /\ shared \subseteq Nat

\* The numbers that are given are the first ones; a request that has one to insert got
\* the next, or comes too late.
NumbersInv ==
    /\ \E k \in Nat : Filed = 1 .. k
    /\ \A c \in Clients :
           /\ post[c].at = "insert" => post[c].n \in Numbers /\ \A m \in 1 .. post[c].n - 1 : m \in Filed
           /\ post[c].at \in {"row", "labels", "commit"} => post[c].n \in Filed
           /\ post[c].at \in {"idle", "number"} => post[c].n = 0

\* Who is at an issue is alone with it, if it is not shared; who inserts is too late then.
AtIssue(c, n) == post[c].at \in {"row", "labels", "commit"} /\ post[c].n = n
SharedInv == \A n \in Filed \ shared : \A c, d \in Clients : AtIssue(c, n) /\ AtIssue(d, n) => c = d

TitleInv ==
    \A n \in Filed \ shared :
        /\ issue[n].title = named[n]
        /\ \A c \in Clients : AtIssue(c, n) /\ post[c].at = "row" => post[c].title \in {post[c].k, named[n]}

\* The table of labels: one row for a pair, of what there is, and what was meant.
TagsOf(n) == {t \in tagged : t[1] = n}
TagsInv ==
    /\ \A t \in tagged : t[1] \in Filed /\ t[2] \in There
    /\ \A t, u \in tagged : t[1] = u[1] /\ t[2] = u[2] => t = u
    /\ \A c \in Clients : post[c].at = "commit" => \A t \in post[c].sees : t[1] = post[c].n
    /\ \A n \in Filed \ shared :
           /\ {t[2] : t \in TagsOf(n)} = meant[n]
           /\ \A c \in Clients : AtIssue(c, n) /\ post[c].at = "commit" => TagsOf(n) \subseteq post[c].sees

\* Nothing is in the way of an issue that is not filed yet.
UnfiledInv == \A n \in Numbers \ Filed : meant[n] = {}

IssueInv == IssueTypes /\ NumbersInv /\ SharedInv /\ TitleInv /\ TagsInv /\ UnfiledInv

LEMMA NoPostTyped == NoPost \in Posting /\ NoPost.at = "idle" /\ NoPost.n = 0
BY DEF NoPost, Posting, PostPlaces

LEMMA NumbersNat == Numbers \subseteq Nat /\ 0 \notin Numbers /\ Filed \subseteq Numbers /\ MaxIssues \in Nat
BY IssuesAssumption DEF Numbers, Filed

\* A request moves, and the tables stay.
LEMMA TablesStandKept ==
    ASSUME IssueInv, NEW c \in Clients, NEW q \in Posting, post' = [post EXCEPT ![c] = q],
           UNCHANGED <<label, issue, tagged, meant, named>>, posts' \in Nat,
           shared \subseteq shared', shared' \subseteq Nat,
           q.at = "insert" => q.n \in Numbers /\ \A m \in 1 .. q.n - 1 : m \in Filed,
           q.at \in {"row", "labels", "commit"} =>
               q.n \in Filed /\ (q.n \in shared' \/ \A d \in Clients \ {c} : ~AtIssue(d, q.n)),
           q.at \in {"idle", "number"} => q.n = 0,
           q.at = "row" => q.n \in shared' \/ q.title \in {q.k, named[q.n]},
           q.at = "commit" => q.sees = TagsOf(q.n)
    PROVE  IssueInv'
<1>0. /\ IssueTypes /\ NumbersInv /\ SharedInv /\ TitleInv /\ TagsInv /\ UnfiledInv
  BY DEF IssueInv
<1>1. /\ post' \in [Clients -> Posting] /\ post'[c] = q
      /\ \A d \in Clients \ {c} : post'[d] = post[d]
  BY <1>0 DEF IssueTypes
<1>2. Filed' = Filed /\ There' = There /\ \A n \in Numbers : TagsOf(n)' = TagsOf(n)
  BY DEF Filed, There, TagsOf
<1>3. IssueTypes'
  BY <1>0, <1>1 DEF IssueTypes
<1>4. NumbersInv'
  BY <1>0, <1>1, <1>2 DEF NumbersInv
<1>5. \A d \in Clients \ {c}, n \in Numbers : AtIssue(d, n)' <=> AtIssue(d, n)
  BY <1>1 DEF AtIssue
<1>6. \A n \in Numbers : AtIssue(c, n)' <=> q.at \in {"row", "labels", "commit"} /\ q.n = n
  BY <1>1 DEF AtIssue
<1>7. SharedInv'
  BY <1>0, <1>2, <1>5, <1>6, NumbersNat DEF SharedInv
<1>8. TitleInv'
  BY <1>0, <1>1, <1>2, <1>5, <1>6, NumbersNat DEF TitleInv
<1>9. TagsInv'
  <2>1. \A t \in tagged' : t[1] \in Filed' /\ t[2] \in There'
    BY <1>0, <1>2 DEF TagsInv
  <2>2. \A t, u \in tagged' : t[1] = u[1] /\ t[2] = u[2] => t = u
    BY <1>0 DEF TagsInv
  <2>3. \A d \in Clients : post'[d].at = "commit" => \A t \in post'[d].sees : t[1] = post'[d].n
    BY <1>0, <1>1 DEF TagsInv, TagsOf
  <2>4. \A n \in Filed' \ shared' : {t[2] : t \in TagsOf(n)'} = meant'[n]
    BY <1>0, <1>2, NumbersNat DEF TagsInv
  <2>5. \A n \in Filed' \ shared' : \A d \in Clients :
            AtIssue(d, n)' /\ post'[d].at = "commit" => TagsOf(n)' \subseteq post'[d].sees
    BY <1>0, <1>1, <1>2, <1>5, <1>6, NumbersNat DEF TagsInv
  <2>6. QED
    BY <2>1, <2>2, <2>3, <2>4, <2>5 DEF TagsInv
<1>10. UnfiledInv'
  BY <1>0, <1>2 DEF UnfiledInv
<1>11. QED
  BY <1>3, <1>4, <1>7, <1>8, <1>9, <1>10 DEF IssueInv

LEMMA EndsKept ==
    ASSUME IssueInv, NEW c \in Clients, Ends(c), IssuesAlone, UNCHANGED <<label, issue, tagged, meant, named, shared>>
    PROVE  IssueInv'
<1>1. post' = [post EXCEPT ![c] = NoPost] /\ posts' \in Nat /\ shared' = shared /\ shared \subseteq Nat
  BY DEF Ends, IssuesAlone, IssueInv, IssueTypes
<1>2. QED
  BY <1>1, NoPostTyped, TablesStandKept

\* A request begins: two at one issue share it from then on.
LEMMA PostsKept ==
    ASSUME IssueInv, NEW c \in Clients, NEW p \in Posting, Posts(c, p),
           \/ p.at = "number" /\ p.n = 0
           \/ p.at = "row" /\ p.n \in Filed /\ p.title \in {posts + 1, issue[p.n].title}
    PROVE  IssueInv'
<1>0. IssueTypes /\ NumbersInv /\ SharedInv /\ TitleInv
  BY DEF IssueInv
<1>1. posts \in Nat /\ posts' = posts + 1 /\ UNCHANGED <<label, issue, tagged, meant, named>>
  BY <1>0 DEF IssueTypes, Posts
<1>2. PICK q \in Posting : /\ q.at = p.at /\ q.n = p.n /\ q.title = p.title /\ q.k = posts + 1
                           /\ post' = [post EXCEPT ![c] = q]
  <2>1. [p EXCEPT !.k = posts + 1] \in Posting
    BY <1>1 DEF Posting
  <2>2. /\ [p EXCEPT !.k = posts + 1].at = p.at /\ [p EXCEPT !.k = posts + 1].n = p.n
        /\ [p EXCEPT !.k = posts + 1].title = p.title /\ [p EXCEPT !.k = posts + 1].k = posts + 1
    BY DEF Posting
  <2>3. post' = [post EXCEPT ![c] = [p EXCEPT !.k = posts + 1]]
    BY DEF Posts
  <2>4. QED
    BY <2>1, <2>2, <2>3
<1>3. shared \subseteq shared' /\ shared' \subseteq Nat
  BY <1>0 DEF Posts, IssueTypes, Posting
<1>4. CASE p.at = "number" /\ p.n = 0
  <2>1. q.at = "number" /\ q.n = 0 /\ posts' \in Nat
    BY <1>1, <1>2, <1>4
  <2>2. QED
    BY <1>1, <1>2, <1>3, <2>1, TablesStandKept
<1>5. CASE p.at = "row" /\ p.n \in Filed /\ p.title \in {posts + 1, issue[p.n].title}
  <2>1. p.n \in shared' \/ \A d \in Clients \ {c} : ~AtIssue(d, p.n)
    <3>1. p.n # 0
      BY <1>5, NumbersNat
    <3>2. QED
      BY <3>1 DEF Posts, AtIssue
  <2>2. p.n \in shared' \/ p.title \in {posts + 1, named[p.n]}
    BY <1>0, <1>3, <1>5 DEF TitleInv
  <2>3. /\ q.at = "row" /\ q.n \in Filed /\ posts' \in Nat /\ (q.n \in shared' \/ q.title \in {q.k, named[q.n]})
        /\ q.n \in shared' \/ \A d \in Clients \ {c} : ~AtIssue(d, q.n)
    BY <1>1, <1>2, <1>5, <2>1, <2>2
  <2>4. QED
    BY <1>1, <1>2, <1>3, <2>3, TablesStandKept
<1>6. QED
  BY <1>4, <1>5

LEMMA CreateIssueKept ==
    ASSUME IssueInv, NEW c \in Clients, NEW ls \in SUBSET Labels, CreateIssue(c, ls)
    PROVE  IssueInv'
<1>1. posts \in Nat
  BY DEF IssueInv, IssueTypes
<1>2. PICK p \in Posting : /\ p = [NoPost EXCEPT !.at = "number", !.title = posts + 1, !.sets = ls # {}, !.labels = ls]
                           /\ p.at = "number" /\ p.n = 0
  <2>1. PICK b \in BOOLEAN : b = (ls # {})
    OBVIOUS
  <2>2. PICK t \in Nat : t = posts + 1
    BY <1>1
  <2>3. PICK w \in Posting : w = NoPost /\ w.n = 0
    BY NoPostTyped
  <2>4. "number" \in PostPlaces
    BY DEF PostPlaces
  <2>5. PICK p \in Posting : p = [w EXCEPT !.at = "number", !.title = t, !.sets = b, !.labels = ls]
    BY <2>4 DEF Posting
  <2>6. p.at = "number" /\ p.n = w.n
    BY <2>5 DEF Posting
  <2>7. QED
    BY <2>1, <2>2, <2>3, <2>5, <2>6
<1>3. QED
  BY <1>2, PostsKept DEF CreateIssue

LEMMA UpdateIssueKept ==
    ASSUME IssueInv, NEW c \in Clients, NEW n \in Numbers, NEW renames \in BOOLEAN, NEW sets \in BOOLEAN,
           NEW ls \in SUBSET Labels, UpdateIssue(c, n, renames, sets, ls)
    PROVE  IssueInv'
<1>1. posts \in Nat /\ n \in Nat /\ n \in Filed /\ issue[n].title \in Nat
  BY NumbersNat DEF IssueInv, IssueTypes, IssueRow, UpdateIssue
<1>2. PICK v \in {posts + 1, issue[n].title} : v = IF renames THEN posts + 1 ELSE issue[n].title
  OBVIOUS
<1>3. PICK p \in Posting : /\ p = [NoPost EXCEPT !.at = "row", !.n = n, !.sets = sets, !.labels = ls, !.title = v]
                           /\ p.at = "row" /\ p.n = n /\ p.title = v
  <2>1. v \in Nat
    BY <1>1
  <2>2. PICK w \in Posting : w = NoPost
    BY NoPostTyped
  <2>3. "row" \in PostPlaces
    BY DEF PostPlaces
  <2>4. PICK p \in Posting : p = [w EXCEPT !.at = "row", !.n = n, !.sets = sets, !.labels = ls, !.title = v]
    BY <1>1, <2>1, <2>3 DEF Posting
  <2>5. p.at = "row" /\ p.n = n /\ p.title = v
    BY <2>4 DEF Posting
  <2>6. QED
    BY <2>2, <2>4, <2>5
<1>4. Posts(c, p)
  BY <1>2, <1>3 DEF UpdateIssue
<1>5. QED
  BY <1>1, <1>2, <1>3, <1>4, PostsKept

\* The first free number is the next.
LEMMA NextNumberKept ==
    ASSUME IssueInv, NEW c \in Clients, NextNumber(c)
    PROVE  IssueInv'
<1>0. IssueTypes /\ NumbersInv /\ post[c] \in Posting /\ IssuesAlone
      /\ UNCHANGED <<label, issue, tagged, meant, named, shared>>
  BY DEF IssueInv, IssueTypes, NextNumber
<1>1. PICK k \in Nat : Filed = 1 .. k
  BY <1>0 DEF NumbersInv
<1>2. Cardinality(Filed) = k
  BY <1>1, FS_Interval
<1>3. CASE k + 1 \in Numbers
  <2>1. PICK q \in Posting : /\ q.at = "insert" /\ q.n = k + 1
                             /\ post' = [post EXCEPT ![c] = q]
    <3>1. PICK n \in Numbers : n = k + 1 /\ n = 1 + Cardinality(Filed) /\ n \in Nat
      BY <1>2, <1>3, NumbersNat
    <3>2. post' = [post EXCEPT ![c].at = "insert", ![c].n = n]
      BY <1>0, <3>1 DEF NextNumber
    <3>3. post' = [post EXCEPT ![c] = [post[c] EXCEPT !.at = "insert", !.n = n]]
      BY <1>0, <3>2 DEF IssueTypes
    <3>4. QED
      BY <1>0, <3>1, <3>3 DEF Posting, PostPlaces
  <2>2. \A m \in 1 .. q.n - 1 : m \in Filed
    BY <1>1, <2>1
  <2>3. posts' \in Nat /\ shared' = shared /\ shared \subseteq Nat
    BY <1>0 DEF IssueTypes, IssuesAlone
  <2>4. QED
    BY <1>0, <1>3, <2>1, <2>2, <2>3, TablesStandKept
<1>4. CASE k + 1 \notin Numbers
  BY <1>0, <1>2, <1>4, EndsKept DEF NextNumber
<1>5. QED
  BY <1>3, <1>4

LEMMA ClearLabelsKept ==
    ASSUME IssueInv, NEW c \in Clients, ClearLabels(c)
    PROVE  IssueInv'
<1>0. /\ IssueTypes /\ NumbersInv /\ SharedInv /\ post[c] \in Posting /\ post[c].at = "labels"
      /\ UNCHANGED <<label, issue, tagged, meant, named, shared, posts>>
  BY DEF IssueInv, IssueTypes, ClearLabels, IssuesAlone
<1>1. PICK q \in Posting : /\ q.at = "commit" /\ q.n = post[c].n /\ q.sees = TagsOf(q.n)
                           /\ post' = [post EXCEPT ![c] = q]
  <2>1. post' = [post EXCEPT ![c] = [post[c] EXCEPT !.at = "commit", !.sees = TagsOf(post[c].n)]]
    BY <1>0 DEF ClearLabels, IssueTypes, TagsOf
  <2>2. TagsOf(post[c].n) \in SUBSET (Numbers \X Labels \X Nat)
    BY <1>0 DEF TagsOf, IssueTypes
  <2>3. QED
    BY <1>0, <2>1, <2>2 DEF Posting, PostPlaces
<1>2. q.n \in Filed
  BY <1>0, <1>1 DEF NumbersInv
<1>3. q.n \in shared' \/ \A d \in Clients \ {c} : ~AtIssue(d, q.n)
  BY <1>0, <1>1, <1>2 DEF SharedInv, AtIssue
<1>4. posts' \in Nat /\ shared \subseteq Nat
  BY <1>0 DEF IssueTypes
<1>5. QED
  BY <1>0, <1>1, <1>2, <1>3, <1>4, TablesStandKept

\* The row of issue n is inserted or written, and the request goes on to the labels or ends.
LEMMA IssueRowKept ==
    ASSUME IssueInv, NEW c \in Clients, NEW q \in Posting, NEW n \in Numbers, NEW r \in IssueRow, NEW v \in Nat,
           post' = [post EXCEPT ![c] = q], issue' = [issue EXCEPT ![n] = r], named' = [named EXCEPT ![n] = v],
           UNCHANGED <<label, tagged, meant, shared>>, posts' = posts,
           r.is, n \in shared \/ r.title = v,
           \E k \in Nat : Filed \cup {n} = 1 .. k,
           \A d \in Clients \ {c} : AtIssue(d, n) => n \in shared,
           (q.at = "labels" /\ q.n = n) \/ (q.at = "idle" /\ q.n = 0)
    PROVE  IssueInv'
<1>0. /\ IssueTypes /\ NumbersInv /\ SharedInv /\ TitleInv /\ TagsInv /\ UnfiledInv
  BY DEF IssueInv
<1>1. /\ post' \in [Clients -> Posting] /\ post'[c] = q
      /\ \A d \in Clients \ {c} : post'[d] = post[d]
  BY <1>0 DEF IssueTypes
<1>2. /\ issue' \in [Numbers -> IssueRow] /\ issue'[n] = r /\ \A m \in Numbers \ {n} : issue'[m] = issue[m]
      /\ named' \in [Numbers -> Nat] /\ named'[n] = v /\ \A m \in Numbers \ {n} : named'[m] = named[m]
  BY <1>0 DEF IssueTypes
<1>3. Filed' = Filed \cup {n} /\ There' = There /\ \A m \in Numbers : TagsOf(m)' = TagsOf(m)
  <2>1. Filed' = Filed \cup {n}
    BY <1>2 DEF Filed
  <2>2. QED
    BY <2>1 DEF There, TagsOf
<1>4. IssueTypes'
  BY <1>0, <1>1, <1>2 DEF IssueTypes
<1>5. \A d \in Clients \ {c}, m \in Numbers : AtIssue(d, m)' <=> AtIssue(d, m)
  BY <1>1 DEF AtIssue
<1>6. \A m \in Numbers : AtIssue(c, m)' => m = n /\ q.at = "labels"
  BY <1>1 DEF AtIssue
<1>7. NumbersInv'
  <2>1. \A d \in Clients \ {c} :
            /\ post'[d].at = "insert" => post'[d].n \in Numbers /\ \A m \in 1 .. post'[d].n - 1 : m \in Filed'
            /\ post'[d].at \in {"row", "labels", "commit"} => post'[d].n \in Filed'
            /\ post'[d].at \in {"idle", "number"} => post'[d].n = 0
    BY <1>0, <1>1, <1>3 DEF NumbersInv
  <2>2. \E k \in Nat : Filed' = 1 .. k
    BY <1>3
  <2>3. QED
    BY <1>1, <1>3, <2>1, <2>2 DEF NumbersInv
<1>8. \A m \in Numbers \ Filed : \A d \in Clients : ~AtIssue(d, m)
  BY <1>0 DEF NumbersInv, AtIssue
<1>9. SharedInv'
  <2>1. SUFFICES ASSUME NEW m \in Filed' \ shared', NEW d \in Clients, NEW e \in Clients,
                        AtIssue(d, m)', AtIssue(e, m)'
                 PROVE  d = e
    BY DEF SharedInv
  <2>2. m \in Numbers /\ m \notin shared
    BY <1>3, NumbersNat
  <2>3. CASE m = n
    <3>1. \A x \in Clients \ {c} : ~AtIssue(x, m)'
      BY <1>5, <2>2, <2>3
    <3>2. QED
      BY <2>1, <3>1
  <2>4. CASE m # n
    <3>1. m \in Filed /\ ~AtIssue(c, m)'
      BY <1>3, <1>6, <2>2, <2>4
    <3>2. AtIssue(d, m) /\ AtIssue(e, m)
      BY <1>5, <2>1, <2>2, <3>1
    <3>3. QED
      BY <1>0, <2>2, <3>1, <3>2 DEF SharedInv
  <2>5. QED
    BY <2>3, <2>4
<1>10. TitleInv'
  <2>1. SUFFICES ASSUME NEW m \in Filed' \ shared'
                 PROVE  /\ issue'[m].title = named'[m]
                        /\ \A d \in Clients : AtIssue(d, m)' /\ post'[d].at = "row" =>
                               post'[d].title \in {post'[d].k, named'[m]}
    BY DEF TitleInv
  <2>2. m \in Numbers /\ m \notin shared
    BY <1>3, NumbersNat
  <2>3. CASE m = n
    <3>1. \A x \in Clients \ {c} : ~AtIssue(x, m)'
      BY <1>5, <2>2, <2>3
    <3>2. QED
      BY <1>1, <1>2, <1>6, <2>2, <2>3, <3>1
  <2>4. CASE m # n
    <3>1. m \in Filed /\ ~AtIssue(c, m)'
      BY <1>3, <1>6, <2>2, <2>4
    <3>2. QED
      BY <1>0, <1>1, <1>2, <1>5, <2>2, <2>4, <3>1 DEF TitleInv
  <2>5. QED
    BY <2>3, <2>4
<1>11. TagsInv'
  <2>1. \A t \in tagged' : t[1] \in Filed' /\ t[2] \in There'
    BY <1>0, <1>3 DEF TagsInv
  <2>2. \A t, u \in tagged' : t[1] = u[1] /\ t[2] = u[2] => t = u
    BY <1>0 DEF TagsInv
  <2>3. \A d \in Clients : post'[d].at = "commit" => \A t \in post'[d].sees : t[1] = post'[d].n
    BY <1>0, <1>1 DEF TagsInv
  <2>4. \A m \in Filed' \ shared' : {t[2] : t \in TagsOf(m)'} = meant'[m]
    <3>1. SUFFICES ASSUME NEW m \in Filed' \ shared' PROVE {t[2] : t \in TagsOf(m)} = meant[m]
      BY <1>3, NumbersNat
    <3>2. CASE m \in Filed
      BY <1>0, <3>1, <3>2 DEF TagsInv
    <3>3. CASE m \notin Filed
      <4>1. TagsOf(m) = {}
        BY <1>0, <3>3 DEF TagsInv, TagsOf
      <4>2. meant[m] = {}
        BY <1>0, <1>3, <3>3, NumbersNat DEF UnfiledInv
      <4>3. QED
        BY <4>1, <4>2
    <3>4. QED
      BY <3>2, <3>3
  <2>5. \A m \in Filed' \ shared' : \A d \in Clients :
            AtIssue(d, m)' /\ post'[d].at = "commit" => TagsOf(m)' \subseteq post'[d].sees
    <3>1. SUFFICES ASSUME NEW m \in Filed' \ shared', NEW d \in Clients, AtIssue(d, m)', post'[d].at = "commit"
                   PROVE  TagsOf(m)' \subseteq post'[d].sees
      OBVIOUS
    <3>2. m \in Numbers /\ d # c
      BY <1>1, <1>3, <3>1, NumbersNat
    <3>3. AtIssue(d, m) /\ m \in Filed
      BY <1>5, <1>8, <3>1, <3>2
    <3>4. QED
      BY <1>0, <1>1, <1>3, <3>1, <3>2, <3>3 DEF TagsInv
  <2>6. QED
    BY <2>1, <2>2, <2>3, <2>4, <2>5 DEF TagsInv
<1>12. UnfiledInv'
  BY <1>0, <1>3 DEF UnfiledInv
<1>13. QED
  BY <1>4, <1>7, <1>9, <1>10, <1>11, <1>12 DEF IssueInv

LEMMA ThenMoves ==
    ASSUME IssueInv, NEW c \in Clients, NEW n \in Numbers, post[c].n = n, Then(c)
    PROVE  \E q \in Posting : /\ post' = [post EXCEPT ![c] = q]
                              /\ (q.at = "labels" /\ q.n = n) \/ (q.at = "idle" /\ q.n = 0)
<1>1. post \in [Clients -> Posting] /\ post[c] \in Posting
  BY DEF IssueInv, IssueTypes
<1>2. CASE post[c].sets
  <2>1. post' = [post EXCEPT ![c] = [post[c] EXCEPT !.at = "labels"]]
    BY <1>1, <1>2 DEF Then, GoesTo
  <2>2. [post[c] EXCEPT !.at = "labels"] \in Posting
    BY <1>1 DEF Posting, PostPlaces
  <2>3. [post[c] EXCEPT !.at = "labels"].at = "labels" /\ [post[c] EXCEPT !.at = "labels"].n = post[c].n
    BY <1>1 DEF Posting
  <2>4. QED
    BY <2>1, <2>2, <2>3
<1>3. CASE ~post[c].sets
  BY <1>3, NoPostTyped DEF Then, Ends
<1>4. QED
  BY <1>2, <1>3

\* The number of a request to insert is the next one, or it is too late.
LEMMA InsertIssueKept ==
    ASSUME IssueInv, NEW c \in Clients, InsertIssue(c)
    PROVE  IssueInv'
<1>0. /\ IssueTypes /\ NumbersInv /\ post[c] \in Posting /\ post[c].at = "insert"
      /\ UNCHANGED <<label, tagged, meant, shared, posts>>
  BY DEF IssueInv, IssueTypes, InsertIssue, IssuesAlone
<1>1. PICK n \in Numbers : n = post[c].n
  BY <1>0 DEF NumbersInv
<1>2. CASE issue[n].is
  <2>1. Ends(c) /\ UNCHANGED <<issue, named>> /\ IssuesAlone
    BY <1>1, <1>2 DEF InsertIssue
  <2>2. QED
    BY <1>0, <2>1, EndsKept
<1>3. CASE ~issue[n].is
  <2>1. PICK v \in Nat : v = post[c].title
    BY <1>0 DEF Posting
  <2>2. PICK r \in IssueRow : r = [is |-> TRUE, title |-> v, open |-> TRUE]
    BY DEF IssueRow
  <2>8. r.is /\ r.title = v
    BY <2>2
  <2>3. issue' = [issue EXCEPT ![n] = r] /\ named' = [named EXCEPT ![n] = v] /\ Then(c)
    BY <1>1, <1>3, <2>1, <2>2 DEF InsertIssue
  <2>4. PICK q \in Posting : /\ post' = [post EXCEPT ![c] = q]
                             /\ (q.at = "labels" /\ q.n = n) \/ (q.at = "idle" /\ q.n = 0)
    BY <1>1, <2>3, ThenMoves
  <2>5. \E k \in Nat : Filed \cup {n} = 1 .. k
    <3>1. PICK k \in Nat : Filed = 1 .. k
      BY <1>0 DEF NumbersInv
    <3>2. n \in Nat \ {0} /\ n \notin Filed /\ \A m \in 1 .. n - 1 : m \in Filed
      BY <1>0, <1>1, <1>3, NumbersNat DEF NumbersInv, Filed
    <3>3. n = k + 1
      <4>1. ~(n \in 1 .. k)
        BY <3>1, <3>2
      <4>2. n = 1 \/ n - 1 \in 1 .. k
        BY <3>1, <3>2
      <4>3. QED
        BY <3>2, <4>1, <4>2
    <3>4. Filed \cup {n} = 1 .. k + 1
      BY <3>1, <3>3
    <3>5. QED
      BY <3>4
  <2>6. \A d \in Clients \ {c} : AtIssue(d, n) => n \in shared
    BY <1>0, <1>3 DEF NumbersInv, AtIssue, Filed
  <2>7. QED
    BY <1>0, <2>3, <2>4, <2>5, <2>6, <2>8, IssueRowKept
<1>4. QED
  BY <1>2, <1>3

LEMMA WriteRowKept ==
    ASSUME IssueInv, NEW c \in Clients, WriteRow(c)
    PROVE  IssueInv'
<1>0. /\ IssueTypes /\ NumbersInv /\ SharedInv /\ TitleInv /\ post[c] \in Posting /\ post[c].at = "row"
      /\ UNCHANGED <<label, tagged, meant, shared, posts>>
  BY DEF IssueInv, IssueTypes, WriteRow, IssuesAlone
<1>1. PICK n \in Numbers : n = post[c].n /\ n \in Filed
  BY <1>0, NumbersNat DEF NumbersInv
<1>2. PICK t \in Nat, k \in Nat : t = post[c].title /\ k = post[c].k
  BY <1>0 DEF Posting
<1>3. PICK r \in IssueRow : r = [issue[n] EXCEPT !.title = t]
  <2>1. issue[n] \in IssueRow
    BY <1>0 DEF IssueTypes
  <2>2. QED
    BY <2>1 DEF IssueRow
<1>13. r.is /\ r.title = t
  BY <1>0, <1>1, <1>3 DEF IssueTypes, IssueRow, Filed
<1>4. issue' = [issue EXCEPT ![n] = r]
  <2>1. issue' = [issue EXCEPT ![n].title = t]
    BY <1>1, <1>2 DEF WriteRow
  <2>2. QED
    BY <1>0, <1>3, <2>1 DEF IssueTypes
<1>5. PICK v \in Nat : v = IF t = k THEN k ELSE named[n]
  BY <1>0, <1>2 DEF IssueTypes
<1>6. named' = [named EXCEPT ![n] = v]
  <2>1. named' = [named EXCEPT ![n] = IF t = k THEN k ELSE named[n]]
    BY <1>1, <1>2 DEF WriteRow
  <2>2. QED
    BY <1>5, <2>1
<1>7. AtIssue(c, n)
  BY <1>0, <1>1 DEF AtIssue
<1>8. n \in shared \/ r.title = v
  BY <1>0, <1>1, <1>2, <1>5, <1>7, <1>13 DEF TitleInv
<1>9. PICK q \in Posting : /\ post' = [post EXCEPT ![c] = q]
                           /\ (q.at = "labels" /\ q.n = n) \/ (q.at = "idle" /\ q.n = 0)
  BY <1>1, ThenMoves DEF WriteRow
<1>10. \E k2 \in Nat : Filed \cup {n} = 1 .. k2
  <2>1. Filed \cup {n} = Filed
    BY <1>1
  <2>2. QED
    BY <1>0, <2>1 DEF NumbersInv
<1>11. \A d \in Clients \ {c} : AtIssue(d, n) => n \in shared
  BY <1>0, <1>1, <1>7 DEF SharedInv
<1>12. QED
  BY <1>0, <1>4, <1>6, <1>8, <1>9, <1>10, <1>11, <1>13, IssueRowKept

\* A request alone with an issue removed all the labels it had, and inserts what it set.
LEMMA SetIssueLabelsKept ==
    ASSUME IssueInv, NEW c \in Clients, SetIssueLabels(c)
    PROVE  IssueInv'
<1>0. /\ IssueTypes /\ NumbersInv /\ SharedInv /\ TitleInv /\ TagsInv /\ UnfiledInv
      /\ post[c] \in Posting /\ post[c].at = "commit" /\ Ends(c) /\ IssuesAlone
      /\ UNCHANGED <<label, issue, named, shared, posts>>
  BY DEF IssueInv, IssueTypes, SetIssueLabels, IssuesAlone
<1>1. CASE UNCHANGED <<tagged, meant>>
  BY <1>0, <1>1, EndsKept
<1>2. PICK n \in Numbers, ls \in SUBSET Labels, k \in Nat, rest \in SUBSET tagged :
          /\ n = post[c].n /\ n \in Filed /\ ls = post[c].labels /\ k = post[c].k /\ rest = Remaining(c)
  BY <1>0, NumbersNat DEF NumbersInv, Posting, Remaining
<1>3. CASE /\ post[c].labels \subseteq There
           /\ tagged' = Remaining(c) \cup
                  {<<post[c].n, l, post[c].k>> : l \in
                      {l \in post[c].labels : \A t \in Remaining(c) : <<t[1], t[2]>> # <<post[c].n, l>>}}
           /\ meant' = [meant EXCEPT ![post[c].n] = post[c].labels]
  <2>1. PICK new \in SUBSET ls : /\ new = {l \in ls : \A t \in rest : <<t[1], t[2]>> # <<n, l>>}
                                 /\ tagged' = rest \cup {<<n, l, k>> : l \in new}
                                 /\ meant' = [meant EXCEPT ![n] = ls] /\ ls \subseteq There
    <3>1. /\ tagged' = rest \cup {<<n, l, k>> : l \in {x \in ls : \A t \in rest : <<t[1], t[2]>> # <<n, x>>}}
          /\ meant' = [meant EXCEPT ![n] = ls] /\ ls \subseteq There
      BY <1>2, <1>3
    <3>2. QED
      BY <3>1
  <2>2. /\ post' \in [Clients -> Posting] /\ post'[c] = NoPost
        /\ \A d \in Clients \ {c} : post'[d] = post[d]
    BY <1>0, NoPostTyped DEF IssueTypes, Ends
  <2>3. /\ meant' \in [Numbers -> SUBSET Labels] /\ meant'[n] = ls
        /\ \A m \in Numbers \ {n} : meant'[m] = meant[m]
    BY <1>0, <2>1 DEF IssueTypes
  <2>4. tagged' \subseteq Numbers \X Labels \X Nat
    BY <1>0, <2>1 DEF IssueTypes
  <2>5. IssueTypes'
    BY <1>0, <2>2, <2>3, <2>4 DEF IssueTypes
  <2>6. Filed' = Filed /\ There' = There
    BY <1>0 DEF Filed, There
  <2>7. \A d \in Clients \ {c}, m \in Numbers : AtIssue(d, m)' <=> AtIssue(d, m)
    BY <2>2 DEF AtIssue
  <2>8. \A m \in Numbers : ~AtIssue(c, m)'
    BY <2>2, NoPostTyped DEF AtIssue
  <2>9. NumbersInv'
    BY <1>0, <2>2, <2>6, NoPostTyped DEF NumbersInv
  <2>10. SharedInv'
    BY <1>0, <2>6, <2>7, <2>8, NumbersNat DEF SharedInv
  <2>11. TitleInv'
    BY <1>0, <2>2, <2>6, <2>7, <2>8, NumbersNat DEF TitleInv
  <2>12. \A t \in post[c].sees : t[1] = n
    BY <1>0, <1>2 DEF TagsInv
  <2>13. \A m \in Numbers \ {n} : TagsOf(m)' = TagsOf(m)
    <3>1. \A m \in Numbers \ {n} : \A t \in tagged : t[1] = m => t \in rest
      BY <1>2, <2>12 DEF Remaining
    <3>2. \A t \in tagged' : t \in tagged \/ t[1] = n
      BY <2>1
    <3>3. \A t \in rest : t \in tagged'
      BY <2>1
    <3>4. QED
      BY <3>1, <3>2, <3>3 DEF TagsOf
  <2>14. TagsInv'
    <3>1. \A t \in tagged' : t[1] \in Filed' /\ t[2] \in There'
      BY <1>0, <1>2, <2>1, <2>6 DEF TagsInv
    <3>2. ASSUME NEW t \in tagged', NEW u \in tagged', t[1] = u[1], t[2] = u[2] PROVE t = u
      <4>1. CASE t \in rest /\ u \in rest
        BY <1>0, <3>2, <4>1 DEF TagsInv
      <4>2. CASE t \in rest /\ u \notin rest
        <5>1. PICK l \in new : u = <<n, l, k>>
          BY <2>1, <3>2, <4>2
        <5>2. t[1] = n /\ t[2] = l
          BY <3>2, <5>1
        <5>3. <<t[1], t[2]>> # <<n, l>>
          BY <2>1, <4>2, <5>1
        <5>4. QED
          BY <5>2, <5>3
      <4>3. CASE u \in rest /\ t \notin rest
        <5>1. PICK l \in new : t = <<n, l, k>>
          BY <2>1, <3>2, <4>3
        <5>2. u[1] = n /\ u[2] = l
          BY <3>2, <5>1
        <5>3. <<u[1], u[2]>> # <<n, l>>
          BY <2>1, <4>3, <5>1
        <5>4. QED
          BY <5>2, <5>3
      <4>4. CASE t \notin rest /\ u \notin rest
        <5>1. PICK l \in new : t = <<n, l, k>>
          BY <2>1, <3>2, <4>4
        <5>2. PICK j \in new : u = <<n, j, k>>
          BY <2>1, <3>2, <4>4
        <5>3. QED
          BY <3>2, <5>1, <5>2
      <4>5. QED
        BY <4>1, <4>2, <4>3, <4>4
    <3>3. \A d \in Clients : post'[d].at = "commit" => \A t \in post'[d].sees : t[1] = post'[d].n
      BY <1>0, <2>2, NoPostTyped DEF TagsInv
    <3>4. \A m \in Filed' \ shared' : {t[2] : t \in TagsOf(m)'} = meant'[m]
      <4>1. SUFFICES ASSUME NEW m \in Filed \ shared PROVE {t[2] : t \in TagsOf(m)'} = meant'[m]
        BY <1>0, <2>6
      <4>2. CASE m # n
        BY <1>0, <2>3, <2>13, <4>1, <4>2, NumbersNat DEF TagsInv
      <4>3. CASE m = n
        <5>1. AtIssue(c, n)
          BY <1>0, <1>2 DEF AtIssue
        <5>2. TagsOf(n) \subseteq post[c].sees
          BY <1>0, <1>2, <4>1, <4>3, <5>1 DEF TagsInv
        <5>3. \A t \in rest : t[1] # n
          BY <1>2, <5>2 DEF TagsOf, Remaining
        <5>4. \A t \in rest, l \in ls : <<t[1], t[2]>> # <<n, l>>
          BY <5>3
        <5>5. new = ls
          BY <2>1, <5>4
        <5>6. TagsOf(n)' = {<<n, l, k>> : l \in ls}
          BY <2>1, <5>3, <5>5 DEF TagsOf
        <5>7. {t[2] : t \in {<<n, l, k>> : l \in ls}} = ls
          <6>1. \A l \in ls : <<n, l, k>>[2] = l
            OBVIOUS
          <6>2. \A t \in {<<n, l, k>> : l \in ls} : t[2] \in ls
            OBVIOUS
          <6>3. \A l \in ls : \E t \in {<<n, j, k>> : j \in ls} : t[2] = l
            <7>1. \A l \in ls : <<n, l, k>> \in {<<n, j, k>> : j \in ls}
              OBVIOUS
            <7>2. QED
              BY <6>1, <7>1
          <6>4. QED
            BY <6>2, <6>3
        <5>8. QED
          BY <2>3, <4>3, <5>6, <5>7
      <4>4. QED
        BY <4>2, <4>3
    <3>5. \A m \in Filed' \ shared' : \A d \in Clients :
              AtIssue(d, m)' /\ post'[d].at = "commit" => TagsOf(m)' \subseteq post'[d].sees
      <4>1. SUFFICES ASSUME NEW m \in Filed \ shared, NEW d \in Clients, AtIssue(d, m)', post'[d].at = "commit"
                     PROVE  TagsOf(m)' \subseteq post'[d].sees
        BY <1>0, <2>6
      <4>2. d # c /\ m \in Numbers /\ post'[d] = post[d] /\ AtIssue(d, m)
        BY <2>2, <2>7, <2>8, <4>1, NumbersNat
      <4>3. m # n
        <5>1. AtIssue(c, n)
          BY <1>0, <1>2 DEF AtIssue
        <5>2. QED
          BY <1>0, <4>1, <4>2, <5>1 DEF SharedInv
      <4>4. QED
        BY <1>0, <2>13, <4>1, <4>2, <4>3 DEF TagsInv
    <3>6. QED
      BY <3>1, <3>2, <3>3, <3>4, <3>5 DEF TagsInv
  <2>15. UnfiledInv'
    BY <1>0, <1>2, <2>3, <2>6 DEF UnfiledInv
  <2>16. QED
    BY <2>5, <2>9, <2>10, <2>11, <2>14, <2>15 DEF IssueInv
<1>4. QED
  BY <1>1, <1>3 DEF SetIssueLabels

\* No request moves; rows of labels are only removed.
LEMMA QuietKept ==
    ASSUME IssueInv, IssueTypes', UNCHANGED <<post, named, shared>>, Filed' = Filed,
           \A m \in Numbers : issue'[m].title = issue[m].title,
           tagged' \subseteq tagged, \A t \in tagged' : t[2] \in There',
           \A m \in Filed \ shared : {t[2] : t \in TagsOf(m)'} = meant'[m],
           \A m \in Numbers : meant'[m] \subseteq meant[m]
    PROVE  IssueInv'
<1>0. /\ IssueTypes /\ NumbersInv /\ SharedInv /\ TitleInv /\ TagsInv /\ UnfiledInv
  BY DEF IssueInv
<1>1. \A c \in Clients, m \in Numbers : AtIssue(c, m)' <=> AtIssue(c, m)
  BY DEF AtIssue
<1>2. NumbersInv'
  BY <1>0 DEF NumbersInv
<1>3. SharedInv'
  BY <1>0, <1>1, NumbersNat DEF SharedInv
<1>4. TitleInv'
  BY <1>0, <1>1, NumbersNat DEF TitleInv
<1>5. TagsInv'
  <2>1. \A m \in Numbers : TagsOf(m)' \subseteq TagsOf(m)
    BY DEF TagsOf
  <2>2. \A t \in tagged' : t[1] \in Filed' /\ t[2] \in There'
    BY <1>0 DEF TagsInv
  <2>3. \A t, u \in tagged' : t[1] = u[1] /\ t[2] = u[2] => t = u
    BY <1>0 DEF TagsInv
  <2>4. \A c \in Clients : post'[c].at = "commit" => \A t \in post'[c].sees : t[1] = post'[c].n
    BY <1>0 DEF TagsInv
  <2>5. \A m \in Filed' \ shared' : {t[2] : t \in TagsOf(m)'} = meant'[m]
    OBVIOUS
  <2>6. \A m \in Filed' \ shared' : \A c \in Clients :
            AtIssue(c, m)' /\ post'[c].at = "commit" => TagsOf(m)' \subseteq post'[c].sees
    BY <1>0, <1>1, <2>1, NumbersNat DEF TagsInv
  <2>7. QED
    BY <2>2, <2>3, <2>4, <2>5, <2>6 DEF TagsInv
<1>6. UnfiledInv'
  <2>1. \A m \in Numbers \ Filed : meant'[m] = {}
    BY <1>0 DEF UnfiledInv
  <2>2. QED
    BY <2>1 DEF UnfiledInv
<1>7. QED
  BY <1>0, <1>2, <1>3, <1>4, <1>5, <1>6 DEF IssueInv

LEMMA SetStatusKept ==
    ASSUME IssueInv, NEW n \in Numbers, NEW open \in BOOLEAN, SetStatus(n, open)
    PROVE  IssueInv'
<1>0. /\ IssueTypes /\ TagsInv /\ posts' = posts + 1 /\ n \in Filed
      /\ UNCHANGED <<label, tagged, post, meant, named, shared>>
  BY DEF IssueInv, SetStatus
<1>1. issue[n] \in IssueRow
  BY <1>0 DEF IssueTypes
<1>2. [issue[n] EXCEPT !.open = open] \in IssueRow
  BY <1>1 DEF IssueRow
<1>3. [issue[n] EXCEPT !.open = open].title = issue[n].title /\ [issue[n] EXCEPT !.open = open].is = issue[n].is
  BY <1>1 DEF IssueRow
<1>4. PICK r \in IssueRow : r.title = issue[n].title /\ r.is = issue[n].is /\ r = [issue[n] EXCEPT !.open = open]
  BY <1>2, <1>3
<1>5. issue' = [issue EXCEPT ![n] = r]
  BY <1>0, <1>4 DEF IssueTypes, SetStatus
<1>6. /\ issue' \in [Numbers -> IssueRow] /\ issue'[n] = r
      /\ \A m \in Numbers \ {n} : issue'[m] = issue[m]
  BY <1>0, <1>5 DEF IssueTypes
<1>7. IssueTypes'
  BY <1>0, <1>6 DEF IssueTypes
<1>8. Filed' = Filed
  BY <1>0, <1>4, <1>6 DEF Filed
<1>9. There' = There /\ \A m \in Numbers : TagsOf(m)' = TagsOf(m)
  BY <1>0 DEF There, TagsOf
<1>10. \A t \in tagged' : t[2] \in There'
  BY <1>0, <1>9 DEF TagsInv
<1>11. \A m \in Filed \ shared : {t[2] : t \in TagsOf(m)'} = meant'[m]
  BY <1>0, <1>9, NumbersNat DEF TagsInv
<1>12. QED
  BY <1>0, <1>4, <1>6, <1>7, <1>8, <1>10, <1>11, QuietKept

LEMMA CreateLabelKept ==
    ASSUME IssueInv, NEW l \in Labels, CreateLabel(l)
    PROVE  IssueInv'
<1>0. /\ IssueTypes /\ TagsInv /\ posts' = posts + 1 /\ label' = [label EXCEPT ![l] = "there"]
      /\ UNCHANGED <<issue, tagged, post, meant, named, shared>>
  BY DEF IssueInv, CreateLabel
<1>1. IssueTypes'
  BY <1>0 DEF IssueTypes
<1>2. Filed' = Filed /\ There \subseteq There' /\ \A m \in Numbers : TagsOf(m)' = TagsOf(m)
  BY <1>0 DEF Filed, There, TagsOf, IssueTypes
<1>3. \A t \in tagged' : t[2] \in There'
  BY <1>0, <1>2 DEF TagsInv
<1>4. \A m \in Filed \ shared : {t[2] : t \in TagsOf(m)'} = meant'[m]
  BY <1>0, <1>2, NumbersNat DEF TagsInv
<1>5. QED
  BY <1>0, <1>1, <1>2, <1>3, <1>4, QuietKept

LEMMA DeleteLabelKept ==
    ASSUME IssueInv, NEW l \in Labels, DeleteLabel(l)
    PROVE  IssueInv'
<1>0. /\ IssueTypes /\ TagsInv /\ posts' = posts /\ label' = [label EXCEPT ![l] = "gone"]
      /\ tagged' = {t \in tagged : t[2] # l} /\ meant' = [n \in Numbers |-> meant[n] \ {l}]
      /\ UNCHANGED <<issue, post, named, shared>>
  BY DEF IssueInv, DeleteLabel
<1>1. meant' \in [Numbers -> SUBSET Labels] /\ \A m \in Numbers : meant'[m] = meant[m] \ {l}
  BY <1>0 DEF IssueTypes
<1>2. tagged' \subseteq tagged
  BY <1>0
<1>3. IssueTypes'
  BY <1>0, <1>1, <1>2 DEF IssueTypes
<1>4. Filed' = Filed /\ There \ {l} \subseteq There'
  BY <1>0 DEF Filed, There, IssueTypes
<1>5. \A t \in tagged' : t[2] \in There'
  BY <1>0, <1>4 DEF TagsInv
<1>6. ASSUME NEW m \in Filed \ shared PROVE {t[2] : t \in TagsOf(m)'} = meant'[m]
  <2>1. TagsOf(m)' = {t \in TagsOf(m) : t[2] # l}
    BY <1>0 DEF TagsOf
  <2>2. {t[2] : t \in TagsOf(m)} = meant[m] /\ meant'[m] = meant[m] \ {l}
    BY <1>0, <1>1, <1>6, NumbersNat DEF TagsInv
  <2>3. QED
    BY <2>1, <2>2
<1>7. QED
  BY <1>0, <1>1, <1>2, <1>3, <1>4, <1>5, <1>6, QuietKept

LEMMA IssuesCrashKept ==
    ASSUME IssueInv, IssuesCrash
    PROVE  IssueInv'
<1>0. /\ IssueTypes /\ NumbersInv /\ TitleInv /\ TagsInv /\ UnfiledInv /\ post' = [c \in Clients |-> NoPost]
      /\ UNCHANGED <<label, issue, tagged, posts, meant, named, shared>>
  BY DEF IssueInv, IssuesCrash
<1>1. IssueTypes'
  BY <1>0, NoPostTyped DEF IssueTypes
<1>2. \A c \in Clients : post'[c].at = "idle" /\ post'[c].n = 0
  BY <1>0, NoPostTyped
<1>3. Filed' = Filed /\ There' = There /\ \A m \in Numbers : TagsOf(m)' = TagsOf(m)
  BY <1>0 DEF Filed, There, TagsOf
<1>4. NumbersInv'
  BY <1>0, <1>2, <1>3 DEF NumbersInv
<1>5. \A c \in Clients, m \in Numbers : ~AtIssue(c, m)'
  BY <1>2 DEF AtIssue
<1>6. SharedInv' /\ TitleInv'
  BY <1>0, <1>3, <1>5, NumbersNat DEF SharedInv, TitleInv
<1>7. TagsInv'
  <2>1. \A m \in Filed' \ shared' : {t[2] : t \in TagsOf(m)'} = meant'[m]
    BY <1>0, <1>3, NumbersNat DEF TagsInv
  <2>2. (\A t \in tagged' : t[1] \in Filed' /\ t[2] \in There')
        /\ \A t, u \in tagged' : t[1] = u[1] /\ t[2] = u[2] => t = u
    BY <1>0, <1>3 DEF TagsInv
  <2>3. \A c \in Clients : post'[c].at # "commit"
    BY <1>2
  <2>4. QED
    BY <2>1, <2>2, <2>3 DEF TagsInv
<1>8. UnfiledInv'
  BY <1>0, <1>3 DEF UnfiledInv
<1>9. QED
  BY <1>1, <1>4, <1>6, <1>7, <1>8 DEF IssueInv

LEMMA IssuesStillKept ==
    ASSUME IssueInv, UNCHANGED issueVars
    PROVE  IssueInv'
<1>0. IssueTypes /\ TagsInv /\ UNCHANGED <<label, issue, tagged, post, posts, meant, named, shared>>
  BY DEF IssueInv, issueVars
<1>1. IssueTypes'
  BY <1>0 DEF IssueTypes
<1>2. Filed' = Filed /\ There' = There /\ \A m \in Numbers : TagsOf(m)' = TagsOf(m)
  BY <1>0 DEF Filed, There, TagsOf
<1>3. \A t \in tagged' : t[2] \in There'
  BY <1>0, <1>2 DEF TagsInv
<1>4. \A m \in Filed \ shared : {t[2] : t \in TagsOf(m)'} = meant'[m]
  BY <1>0, <1>2, NumbersNat DEF TagsInv
<1>5. QED
  BY <1>0, <1>1, <1>2, <1>3, <1>4, QuietKept

LEMMA IssuesInitInv == IssuesInit => IssueInv
<1> SUFFICES ASSUME IssuesInit PROVE IssueInv
  OBVIOUS
<1>0. /\ label \in [Labels -> {"new", "there"}] /\ issue = [n \in Numbers |-> NoIssue]
      /\ tagged = {} /\ post = [c \in Clients |-> NoPost] /\ posts = 0
      /\ meant = [n \in Numbers |-> {}] /\ named = [n \in Numbers |-> 0] /\ shared = {}
  BY DEF IssuesInit
<1>1. NoIssue \in IssueRow /\ ~NoIssue.is
  BY DEF NoIssue, IssueRow
<1>2. IssueTypes
  BY <1>0, <1>1, NoPostTyped DEF IssueTypes
<1>3. Filed = 1 .. 0
  BY <1>0, <1>1 DEF Filed
<1>4. \A c \in Clients : post[c].at = "idle" /\ post[c].n = 0
  BY <1>0, NoPostTyped
<1>5. NumbersInv
  BY <1>3, <1>4 DEF NumbersInv
<1>6. SharedInv /\ TitleInv /\ TagsInv /\ UnfiledInv
  BY <1>0, <1>3, <1>4 DEF SharedInv, TitleInv, TagsInv, UnfiledInv
<1>7. QED
  BY <1>2, <1>5, <1>6 DEF IssueInv

LEMMA IssuesNextInv == IssueInv /\ [IssuesNext]_issueVars => IssueInv'
<1> SUFFICES ASSUME IssueInv, [IssuesNext]_issueVars PROVE IssueInv'
  OBVIOUS
<1>1. ASSUME NEW c \in Clients, NEW ls \in SUBSET Labels, CreateIssue(c, ls) PROVE IssueInv'
  BY <1>1, CreateIssueKept
<1>2. ASSUME NEW c \in Clients, NEW ls \in SUBSET Labels, NEW n \in Numbers, NEW renames \in BOOLEAN,
             NEW sets \in BOOLEAN, UpdateIssue(c, n, renames, sets, ls)
      PROVE  IssueInv'
  BY <1>2, UpdateIssueKept
<1>3. ASSUME NEW c \in Clients, NextNumber(c) PROVE IssueInv'
  BY <1>3, NextNumberKept
<1>4. ASSUME NEW c \in Clients, InsertIssue(c) PROVE IssueInv'
  BY <1>4, InsertIssueKept
<1>5. ASSUME NEW c \in Clients, WriteRow(c) PROVE IssueInv'
  BY <1>5, WriteRowKept
<1>6. ASSUME NEW c \in Clients, ClearLabels(c) PROVE IssueInv'
  BY <1>6, ClearLabelsKept
<1>7. ASSUME NEW c \in Clients, SetIssueLabels(c) PROVE IssueInv'
  BY <1>7, SetIssueLabelsKept
<1>8. ASSUME NEW c \in Clients, BreaksOff(c) PROVE IssueInv'
  BY <1>8, EndsKept DEF BreaksOff
<1>9. ASSUME NEW n \in Numbers, NEW open \in BOOLEAN, SetStatus(n, open) PROVE IssueInv'
  BY <1>9, SetStatusKept
<1>10. ASSUME NEW l \in Labels, DeleteLabel(l) \/ CreateLabel(l) PROVE IssueInv'
  BY <1>10, DeleteLabelKept, CreateLabelKept
<1>11. CASE IssuesCrash
  BY <1>11, IssuesCrashKept
<1>12. CASE UNCHANGED issueVars
  BY <1>12, IssuesStillKept
<1>13. QED
  BY <1>1, <1>2, <1>3, <1>4, <1>5, <1>6, <1>7, <1>8, <1>9, <1>10, <1>11, <1>12 DEF IssuesNext

LEMMA IssuesAlways == IssuesSpec => []IssueInv
BY IssuesInitInv, IssuesNextInv, PTL DEF IssuesSpec

LEMMA IssueInvTyped == IssueInv => IssuesTypeOK
<1>1. IssueTypes => \A c \in Clients : post[c].at \in PostPlaces
  BY DEF IssueTypes, Posting
<1>2. QED
  BY <1>1 DEF IssueInv, IssueTypes, TagsInv, IssuesTypeOK

\* The tables of issues stay what their columns and keys allow.
THEOREM IssuesTyped == IssuesSpec => []IssuesTypeOK
BY IssueInvTyped, IssuesAlways, PTL

\* The numbers have no gap, and an issue that no two requests were at once has the labels
\* and the title that were last asked for.
THEOREM IssuesSound == IssuesSpec => []IssuesAreSound
<1>1. IssueInv => IssuesAreSound
  <2> SUFFICES ASSUME IssueInv PROVE IssuesAreSound
    OBVIOUS
  <2>0. NumbersInv /\ TitleInv /\ TagsInv
    BY DEF IssueInv
  <2>1. \A n \in Filed : n > 1 => n - 1 \in Filed
    BY <2>0 DEF NumbersInv
  <2>2. \A n \in Filed \ shared : {t[2] : t \in {u \in tagged : u[1] = n}} = meant[n]
    BY <2>0 DEF TagsInv, TagsOf
  <2>3. \A n \in Filed \ shared : issue[n].title = named[n]
    BY <2>0 DEF TitleInv
  <2>4. QED
    BY <2>1, <2>2, <2>3 DEF IssuesAreSound
<1>2. QED
  BY <1>1, IssuesAlways, PTL

-----------------------------------------------------------------------------
(* Users, plans and apps *)

Roles == {"user", "admin"}
PlanRow == [is : BOOLEAN, active : BOOLEAN, default : BOOLEAN, apps : Allowances \cup {0, 1}]
UserRow == [is : BOOLEAN, role : Roles, plan : Plans \cup {NoPlan}, token : BOOLEAN]
AppRow == [owner : Users \cup {Nobody}, size : Sizes \cup {0}, counted : BOOLEAN]
Asking == [at : AskPlaces, who : Users \cup {Nobody}, v : Users \cup {Nobody}, role : Roles,
           p : Plans \cup {NoPlan}, row : PlanRow, sees : SUBSET Plans, a : Apps \cup {0},
           n : Nat, fresh : BOOLEAN]
AccountTypes ==
    /\ plan \in [Plans -> PlanRow]
    /\ account \in [Users -> UserRow]
    /\ app \in [Apps -> AppRow]
    /\ ask \in [Clients -> Asking]
    /\ asks \in Nat
    /\ granted \in [Users -> Plans \cup {NoPlan}]
    /\ appointed \in [Users -> Roles]
    /\ allowed \in [Users -> Nat]

\* What a request q works with, when users, plans and allowances are as given.
AskOK(q, users, plans, most) ==
    /\ q.at \in {"default", "assign", "enter", "count", "insert"} => q.who \in Users
    /\ q.at \in {"role", "grant"} => q.v \in Users
    /\ q.at \in {"assign", "grant", "row", "defaults", "commit"} => q.p \in Plans
    /\ q.at = "role" => users[q.v].is
    /\ q.at = "row" => plans[q.p].is /\ q.row.is
    /\ q.at = "count" => q.n <= most[q.who] /\ (q.p = NoPlan => MaxRows <= most[q.who])
    /\ q.at \in {"limits", "update"} => q.a \in Apps /\ q.n \in Sizes
AsksInv == \A c \in Clients : AskOK(ask[c], account, plan, allowed)

\* What admins gave stays, and who never logged in has nothing but the default role.
KeptInv ==
    \A u \in Users : /\ account[u].role = appointed[u]
                     /\ granted[u] \in {NoPlan, account[u].plan}
                     /\ ~account[u].is => account[u].role = "user"

\* A request at the defaults that was always alone has seen them all before it commits;
\* unless they are muddled, all are of this kind, and there is one default at most.
AtDefaults(q) == q.at \in {"row", "defaults", "commit"}
DefaultsInv ==
    /\ \A c \in Clients : AtDefaults(ask[c]) /\ ask[c].fresh => \A d \in Clients \ {c} : ~AtDefaults(ask[d])
    /\ \A c \in Clients : ask[c].at = "commit" /\ ask[c].fresh => Defaults \subseteq ask[c].sees
    /\ \/ muddled
       \/ /\ \A c \in Clients : AtDefaults(ask[c]) => ask[c].fresh
          /\ \A c \in Clients : ask[c].at = "row" => ask[c].row.default = plan[ask[c].p].default
          /\ \A p, q \in Defaults : p = q

\* A request that is to insert after it has counted all counts as an app.
CountedOf(u) == {a \in AppsOf(u) : app[a].counted}
Inserting(u) == {c \in Clients : ask[c].at = "insert" /\ ask[c].who = u /\ ask[c].fresh}
Bounded(u) ==
    \/ MaxRows <= allowed[u]
    \/ Cardinality(CountedOf(u)) + Cardinality(Inserting(u)) + 1 <= allowed[u] + Cardinality(Clients)
BoundedInv == \A u \in Users : Bounded(u)

AccountInv == AccountTypes /\ AsksInv /\ KeptInv /\ DefaultsInv /\ BoundedInv

\* A request c comes to be q, and the others stay, but that they may be stale or not alone
\* any more.
Same(q, r) == /\ q.at = r.at /\ q.who = r.who /\ q.v = r.v /\ q.role = r.role /\ q.p = r.p
              /\ q.row = r.row /\ q.sees = r.sees /\ q.a = r.a /\ q.n = r.n
Stale(q) == q.at = "limits"
AskStep(c, q) ==
    /\ ask' \in [Clients -> Asking] /\ ask'[c] = q
    /\ \A d \in Clients \ {c} :
          /\ Same(ask'[d], ask[d])
          /\ \/ ask'[d].fresh = ask[d].fresh
             \/ Stale(ask[d])
             \/ AtDefaults(q) /\ AtDefaults(ask[d]) /\ ~ask'[d].fresh

\* Rows of users and of plans do not go, and allowances are not taken back.
Grows ==
    /\ \A u \in Users : account[u].is => account'[u].is
    /\ \A p \in Plans : plan[p].is => plan'[p].is
    /\ \A u \in Users : allowed[u] <= allowed'[u]

LEMMA NoAskTyped == NoAsk \in Asking /\ NoAsk.at = "idle" /\ NoAsk.who = Nobody
<1>1. [NewPlan(0) EXCEPT !.is = FALSE] \in PlanRow
  BY DEF NewPlan, PlanRow
<1>2. QED
  BY <1>1 DEF NoAsk, Asking, AskPlaces, Roles

LEMMA NoAppTyped == NoApp \in AppRow /\ NoApp.owner = Nobody
BY DEF NoApp, AppRow

LEMMA PutsStep ==
    ASSUME AccountInv, NEW c \in Clients, NEW q \in Asking, ask' = [ask EXCEPT ![c] = q]
    PROVE  AskStep(c, q)
BY DEF AccountInv, AccountTypes, AskStep, Same

LEMMA ResizedStep ==
    ASSUME AccountInv, NEW c \in Clients, Resized(c)
    PROVE  AskStep(c, NoAsk)
<1>0. ask \in [Clients -> Asking]
  BY DEF AccountInv, AccountTypes
<1>1. ASSUME NEW d \in Clients
      PROVE  \E r \in Asking : /\ r = [ask[d] EXCEPT !.fresh = @ /\ ask[d].at # "limits"] /\ Same(r, ask[d])
                               /\ r.fresh = ask[d].fresh \/ Stale(ask[d])
  <2>1. PICK b \in BOOLEAN : b = (ask[d].fresh /\ ask[d].at # "limits")
    OBVIOUS
  <2>2. ask[d] \in Asking
    BY <1>0
  <2>3. /\ [ask[d] EXCEPT !.fresh = b] \in Asking /\ Same([ask[d] EXCEPT !.fresh = b], ask[d])
        /\ [ask[d] EXCEPT !.fresh = b].fresh = b
    BY <2>2 DEF Asking, Same
  <2>4. b = ask[d].fresh \/ Stale(ask[d])
    BY <2>1, <2>2 DEF Stale, Asking
  <2>5. QED
    BY <2>1, <2>3, <2>4
<1>2. \A d \in Clients : ask'[d] = IF d = c THEN NoAsk ELSE [ask[d] EXCEPT !.fresh = @ /\ ask[d].at # "limits"]
  BY DEF Resized
<1>3. \A d \in Clients \ {c} : /\ ask'[d] \in Asking /\ Same(ask'[d], ask[d])
                               /\ ask'[d].fresh = ask[d].fresh \/ Stale(ask[d])
  BY <1>1, <1>2
<1>4. ask'[c] = NoAsk
  BY <1>2
<1>5. ask' \in [Clients -> Asking]
  <2>1. \A d \in Clients : ask'[d] \in Asking
    BY <1>3, <1>4, NoAskTyped
  <2>2. ask' = [d \in Clients |-> ask'[d]]
    BY DEF Resized
  <2>3. QED
    BY <2>1, <2>2
<1>6. QED
  BY <1>3, <1>4, <1>5 DEF AskStep

LEMMA AsksKept ==
    ASSUME AccountInv, AccountTypes', NEW c \in Clients, NEW q \in Asking, AskStep(c, q), Grows,
           AskOK(q, account', plan', allowed')
    PROVE  AsksInv'
<1>1. ask'[c] = q /\ \A d \in Clients \ {c} : Same(ask'[d], ask[d])
  BY DEF AskStep
<1>2. ASSUME NEW d \in Clients \ {c} PROVE AskOK(ask'[d], account', plan', allowed')
  <2>1. Same(ask'[d], ask[d]) /\ AskOK(ask[d], account, plan, allowed)
    BY <1>1 DEF AccountInv, AsksInv
  <2>2. ask[d].n \in Nat /\ MaxRows \in Nat
    BY AccountsAssumption DEF AccountInv, AccountTypes, Asking
  <2>3. \A u \in Users : allowed[u] \in Nat /\ allowed'[u] \in Nat /\ allowed[u] <= allowed'[u]
    BY DEF AccountInv, AccountTypes, Grows
  <2>4. \A m \in Nat, u \in Users : m <= allowed[u] => m <= allowed'[u]
    BY <2>3
  <2>5. QED
    BY <2>1, <2>2, <2>4 DEF AskOK, Same, Grows
<1>3. AskOK(ask'[c], account', plan', allowed')
  BY <1>1
<1>4. QED
  BY <1>2, <1>3 DEF AsksInv

\* What may happen at the defaults when request c comes to be q.
DefaultsMove(c, q) ==
    /\ AtDefaults(q) => \A d \in Clients \ {c} : AtDefaults(ask[d]) => ~q.fresh /\ ~ask'[d].fresh
    /\ q.at = "commit" /\ q.fresh => Defaults' \subseteq q.sees
    /\ \A d \in Clients \ {c} : AtDefaults(ask[d]) /\ ask[d].fresh => Defaults' \subseteq Defaults
    /\ ~muddled' =>
          /\ AtDefaults(q) => q.fresh
          /\ q.at = "row" => q.row.default = plan'[q.p].default
          /\ \A p, r \in Defaults' : p = r
          /\ \A d \in Clients \ {c} : AtDefaults(ask[d]) =>
                /\ ~muddled /\ ~AtDefaults(q)
                /\ ask[d].at = "row" => plan'[ask[d].p].default = plan[ask[d].p].default

LEMMA DefaultsKept ==
    ASSUME AccountInv, NEW c \in Clients, NEW q \in Asking, AskStep(c, q), DefaultsMove(c, q)
    PROVE  DefaultsInv'
<1>0. /\ DefaultsInv /\ ask'[c] = q
      /\ \A d \in Clients \ {c} : /\ Same(ask'[d], ask[d])
                                  /\ AtDefaults(ask[d]) /\ ask'[d].fresh => ask[d].fresh
                                  /\ AtDefaults(ask[d]) /\ ~AtDefaults(q) => ask'[d].fresh = ask[d].fresh
  BY DEF AccountInv, AskStep, AtDefaults, Stale
<1>1. \A d \in Clients \ {c} : AtDefaults(ask'[d]) <=> AtDefaults(ask[d])
  BY <1>0 DEF Same, AtDefaults
<1>2. ASSUME NEW d \in Clients, AtDefaults(ask'[d]), ask'[d].fresh, NEW e \in Clients \ {d}
      PROVE  ~AtDefaults(ask'[e])
  <2>1. CASE d = c
    BY <1>0, <1>1, <1>2, <2>1 DEF DefaultsMove
  <2>2. CASE d # c /\ e = c
    BY <1>0, <1>1, <1>2, <2>2 DEF DefaultsMove
  <2>3. CASE d # c /\ e # c
    BY <1>0, <1>1, <1>2, <2>3 DEF DefaultsInv
  <2>4. QED
    BY <2>1, <2>2, <2>3
<1>3. ASSUME NEW d \in Clients, ask'[d].at = "commit", ask'[d].fresh PROVE Defaults' \subseteq ask'[d].sees
  <2>1. CASE d = c
    BY <1>0, <1>3, <2>1 DEF DefaultsMove
  <2>2. CASE d # c
    <3>1. ask[d].at = "commit" /\ AtDefaults(ask[d]) /\ ask[d].fresh /\ ask'[d].sees = ask[d].sees
      BY <1>0, <1>3, <2>2 DEF Same, AtDefaults
    <3>2. Defaults \subseteq ask[d].sees /\ Defaults' \subseteq Defaults
      BY <1>0, <2>2, <3>1 DEF DefaultsInv, DefaultsMove
    <3>3. QED
      BY <3>1, <3>2
  <2>3. QED
    BY <2>1, <2>2
<1>4. ASSUME ~muddled'
      PROVE  /\ \A d \in Clients : AtDefaults(ask'[d]) => ask'[d].fresh
             /\ \A d \in Clients : ask'[d].at = "row" => ask'[d].row.default = plan'[ask'[d].p].default
             /\ \A p, r \in Defaults' : p = r
  <2>1. ASSUME NEW d \in Clients \ {c}, AtDefaults(ask'[d])
        PROVE  ask'[d].fresh /\ (ask'[d].at = "row" => ask'[d].row.default = plan'[ask'[d].p].default)
    <3>1. AtDefaults(ask[d]) /\ ~muddled /\ ~AtDefaults(q)
      BY <1>1, <1>4, <2>1 DEF DefaultsMove
    <3>2. ask'[d].fresh
      BY <1>0, <3>1 DEF DefaultsInv
    <3>3. ask'[d].at = "row" => ask'[d].row.default = plan'[ask'[d].p].default
      BY <1>0, <1>4, <3>1 DEF DefaultsInv, DefaultsMove, Same
    <3>4. QED
      BY <3>2, <3>3
  <2>2. /\ AtDefaults(ask'[c]) => ask'[c].fresh
        /\ ask'[c].at = "row" => ask'[c].row.default = plan'[ask'[c].p].default
        /\ \A p, r \in Defaults' : p = r
    BY <1>0, <1>4 DEF DefaultsMove
  <2>3. \A d \in Clients : ask'[d].at = "row" => AtDefaults(ask'[d])
    BY DEF AtDefaults
  <2>4. QED
    BY <2>1, <2>2, <2>3
<1>5. QED
  BY <1>2, <1>3, <1>4 DEF DefaultsInv

LEMMA FiniteHere ==
    /\ IsFiniteSet(Apps) /\ Cardinality(Apps) = MaxRows /\ MaxRows \in Nat
    /\ IsFiniteSet(Clients) /\ Cardinality(Clients) \in Nat \ {0}
    /\ \A u : IsFiniteSet(AppsOf(u)) /\ Cardinality(AppsOf(u)) \in Nat /\ Cardinality(AppsOf(u)) <= MaxRows
    /\ \A u : /\ IsFiniteSet(CountedOf(u)) /\ Cardinality(CountedOf(u)) \in Nat
              /\ Cardinality(CountedOf(u)) <= Cardinality(AppsOf(u)) /\ Cardinality(CountedOf(u)) <= MaxRows
    /\ \A u : IsFiniteSet(Inserting(u)) /\ Cardinality(Inserting(u)) \in Nat
              /\ Cardinality(Inserting(u)) <= Cardinality(Clients)
<1>1. MaxRows \in Nat /\ Clients # {} /\ IsFiniteSet(Clients)
  BY AccountsAssumption, RequestsAssumption
<1>2. IsFiniteSet(Apps) /\ Cardinality(Apps) = MaxRows
  BY <1>1, FS_Interval DEF Apps
<1>3. Cardinality(Clients) \in Nat \ {0}
  BY <1>1, FS_CardinalityType, FS_EmptySet
<1>4. ASSUME NEW u
      PROVE  IsFiniteSet(AppsOf(u)) /\ Cardinality(AppsOf(u)) \in Nat /\ Cardinality(AppsOf(u)) <= MaxRows
  <2>1. AppsOf(u) \subseteq Apps
    BY DEF AppsOf
  <2>2. QED
    BY <1>2, <2>1, FS_Subset, FS_CardinalityType
<1>5. ASSUME NEW u
      PROVE  IsFiniteSet(Inserting(u)) /\ Cardinality(Inserting(u)) \in Nat
             /\ Cardinality(Inserting(u)) <= Cardinality(Clients)
  <2>1. Inserting(u) \subseteq Clients
    BY DEF Inserting
  <2>2. QED
    BY <1>1, <2>1, FS_Subset, FS_CardinalityType
<1>6. ASSUME NEW u
      PROVE  /\ IsFiniteSet(CountedOf(u)) /\ Cardinality(CountedOf(u)) \in Nat
             /\ Cardinality(CountedOf(u)) <= Cardinality(AppsOf(u)) /\ Cardinality(CountedOf(u)) <= MaxRows
  <2>1. CountedOf(u) \subseteq AppsOf(u)
    BY DEF CountedOf
  <2>2. IsFiniteSet(CountedOf(u)) /\ Cardinality(CountedOf(u)) \in Nat /\ Cardinality(CountedOf(u)) <= Cardinality(AppsOf(u))
    BY <1>4, <2>1, FS_Subset, FS_CardinalityType
  <2>3. QED
    BY <1>1, <1>4, <2>2
<1>7. QED
  BY <1>1, <1>2, <1>3, <1>4, <1>5, <1>6

LEMMA BoundedKept ==
    ASSUME AccountInv, AccountTypes', Grows,
           \A u \in Users : CountedOf(u)' \subseteq CountedOf(u) /\ Inserting(u)' \subseteq Inserting(u)
    PROVE  BoundedInv'
<1>1. ASSUME NEW u \in Users PROVE Bounded(u)'
  <2>1. PICK k \in Nat, j \in Nat, c \in Nat : k = allowed[u] /\ j = allowed'[u] /\ c = Cardinality(Clients) /\ k <= j
    BY FiniteHere DEF AccountInv, AccountTypes, Grows
  <2>2. PICK a \in Nat, b \in Nat : a = Cardinality(CountedOf(u)) /\ b = Cardinality(Inserting(u))
    BY FiniteHere
  <2>3. PICK a2 \in Nat : a2 = Cardinality(CountedOf(u)') /\ a2 <= a
    BY <2>2, FiniteHere, FS_Subset, FS_CardinalityType
  <2>4. PICK b2 \in Nat : b2 = Cardinality(Inserting(u)') /\ b2 <= b
    BY <2>2, FiniteHere, FS_Subset, FS_CardinalityType
  <2>5. MaxRows <= k \/ a + b + 1 <= k + c
    BY <2>1, <2>2 DEF AccountInv, BoundedInv, Bounded
  <2>6. MaxRows <= j \/ a2 + b2 + 1 <= j + c
    BY <2>1, <2>3, <2>4, <2>5, FiniteHere
  <2>7. QED
    BY <2>1, <2>3, <2>4, <2>6 DEF Bounded
<1>2. QED
  BY <1>1 DEF BoundedInv

\* A request that has nothing to do with the defaults goes on, and inserts no app.
LEMMA MoveKept ==
    ASSUME AccountInv, AccountTypes', KeptInv', Grows, NEW c \in Clients, NEW q \in Asking, AskStep(c, q),
           UNCHANGED <<plan, muddled>>, \A u \in Users : CountedOf(u)' \subseteq CountedOf(u),
           AskOK(q, account', plan', allowed'), ~AtDefaults(q), q.at # "insert"
    PROVE  AccountInv'
<1>1. AsksInv'
  BY AsksKept
<1>2. DefaultsMove(c, q)
  <2>1. Defaults' = Defaults
    BY DEF Defaults
  <2>2. muddled \/ \A p, r \in Defaults : p = r
    BY DEF AccountInv, DefaultsInv
  <2>3. QED
    BY <2>1, <2>2 DEF DefaultsMove, AtDefaults
<1>3. \A u \in Users : Inserting(u)' \subseteq Inserting(u)
  BY DEF Inserting, AskStep, Same, Stale
<1>4. QED
  BY <1>1, <1>2, <1>3, DefaultsKept, BoundedKept DEF AccountInv

\* Requests at the plans.
LEMMA PlansKept ==
    ASSUME AccountInv, NEW c \in Clients, NEW q \in Asking, AskStep(c, q), DefaultsMove(c, q),
           plan' \in [Plans -> PlanRow], \A p \in Plans : plan[p].is => plan'[p].is,
           asks' \in Nat, UNCHANGED <<account, granted, appointed, app, allowed>>,
           AskOK(q, account, plan', allowed), q.at # "insert"
    PROVE  AccountInv'
<1>1. AccountTypes'
  BY DEF AccountInv, AccountTypes, AskStep
<1>2. \A u \in Users : allowed[u] \in Nat
  BY DEF AccountInv, AccountTypes
<1>3. Grows
  BY <1>2 DEF Grows
<1>4. KeptInv'
  BY DEF AccountInv, KeptInv
<1>5. AsksInv'
  BY <1>1, <1>3, AsksKept
<1>6. \A u \in Users : CountedOf(u)' \subseteq CountedOf(u) /\ Inserting(u)' \subseteq Inserting(u)
  BY DEF CountedOf, AppsOf, Inserting, AskStep, Same, Stale, AtDefaults
<1>7. QED
  BY <1>1, <1>3, <1>4, <1>5, <1>6, DefaultsKept, BoundedKept DEF AccountInv

\* No request moves.
LEMMA QuietAccounts ==
    ASSUME AccountInv, UNCHANGED <<ask, muddled, account, granted, appointed, allowed>>, asks' \in Nat,
           plan' \in [Plans -> PlanRow], \A p \in Plans : plan[p].is => plan'[p].is /\ plan'[p].default = plan[p].default,
           Defaults' \subseteq Defaults, app' \in [Apps -> AppRow],
           \A u \in Users : CountedOf(u)' \subseteq CountedOf(u)
    PROVE  AccountInv'
<1>1. AccountTypes'
  BY DEF AccountInv, AccountTypes
<1>2. \A u \in Users : allowed[u] \in Nat
  BY DEF AccountInv, AccountTypes
<1>3. Grows
  BY <1>2 DEF Grows
<1>4. KeptInv'
  BY DEF AccountInv, KeptInv
<1>5. AsksInv'
  BY DEF AccountInv, AsksInv, AskOK
<1>6. DefaultsInv'
  <2>1. \A c \in Clients : ask[c].at = "row" => ask[c].p \in Plans /\ plan[ask[c].p].is
    BY DEF AccountInv, AsksInv, AskOK
  <2>2. QED
    BY <2>1 DEF AccountInv, DefaultsInv
<1>7. \A u \in Users : Inserting(u)' \subseteq Inserting(u)
  BY DEF Inserting
<1>8. QED
  BY <1>1, <1>3, <1>4, <1>5, <1>6, <1>7, BoundedKept DEF AccountInv

\* What a request begins with.
LEMMA AsksBegin ==
    ASSUME AccountInv, NEW c \in Clients, NEW q \in Asking, Asks(c, q)
    PROVE  AskStep(c, q) /\ asks' \in Nat
<1>1. ask' = [ask EXCEPT ![c] = q] /\ asks' = asks + 1
  BY DEF Asks
<1>2. asks \in Nat
  BY DEF AccountInv, AccountTypes
<1>3. AskStep(c, q)
  BY <1>1, PutsStep
<1>4. QED
  BY <1>1, <1>2, <1>3

\* What a request to the plans begins with; those beside it are not alone any more.
LEMMA PlansBegin ==
    ASSUME AccountInv, NEW c \in Clients, NEW q \in Asking, AtDefaults(q), AsksPlans(c, q)
    PROVE  \E r \in Asking : /\ AskStep(c, r) /\ Same(r, q) /\ asks' \in Nat
                             /\ r.fresh <=> AtPlans = {}
                             /\ \A d \in Clients \ {c} : AtDefaults(ask[d]) => ~r.fresh /\ ~ask'[d].fresh
                             /\ \A d \in Clients \ {c} : ~AtDefaults(ask[d]) => ask'[d] = ask[d]
<1>0. /\ ask \in [Clients -> Asking] /\ asks \in Nat /\ asks' = asks + 1
      /\ ask' = [d \in Clients |-> IF d = c THEN [q EXCEPT !.fresh = AtPlans = {}]
                                   ELSE [ask[d] EXCEPT !.fresh = @ /\ d \notin AtPlans]]
  BY DEF AccountInv, AccountTypes, AsksPlans
<1>1. PICK b \in BOOLEAN : b = (AtPlans = {})
  OBVIOUS
<1>2. PICK r \in Asking : r = [q EXCEPT !.fresh = b]
  BY DEF Asking
<1>3. Same(r, q) /\ r.fresh = b /\ AtDefaults(r)
  BY <1>2 DEF Same, Asking, AtDefaults
<1>4. ask'[c] = r
  BY <1>0, <1>1, <1>2
<1>5. ASSUME NEW d \in Clients \ {c}
      PROVE  /\ ask'[d] \in Asking /\ Same(ask'[d], ask[d])
             /\ AtDefaults(ask[d]) => ~b /\ ~ask'[d].fresh
             /\ ~AtDefaults(ask[d]) => ask'[d] = ask[d]
  <2>1. ask[d] \in Asking /\ (d \in AtPlans <=> AtDefaults(ask[d]))
    BY <1>0 DEF AtPlans, AtDefaults
  <2>2. PICK f \in BOOLEAN : f = (ask[d].fresh /\ d \notin AtPlans)
    OBVIOUS
  <2>3. ask'[d] = [ask[d] EXCEPT !.fresh = f]
    <3>1. ask'[d] = [ask[d] EXCEPT !.fresh = @ /\ d \notin AtPlans]
      BY <1>0
    <3>2. QED
      BY <2>1, <2>2, <3>1 DEF Asking
  <2>4. /\ ask'[d] \in Asking /\ Same(ask'[d], ask[d]) /\ ask'[d].fresh = f
        /\ f = ask[d].fresh => ask'[d] = ask[d]
    BY <2>1, <2>3 DEF Asking, Same
  <2>5. ask[d].fresh \in BOOLEAN
    BY <2>1 DEF Asking
  <2>6. QED
    BY <1>1, <2>1, <2>2, <2>4, <2>5
<1>6. ask' \in [Clients -> Asking]
  BY <1>0, <1>4, <1>5
<1>7. AskStep(c, r)
  BY <1>3, <1>4, <1>5, <1>6 DEF AskStep
<1>8. QED
  <2>1. r.fresh <=> AtPlans = {}
    BY <1>1, <1>3
  <2>2. /\ \A d \in Clients \ {c} : AtDefaults(ask[d]) => ~r.fresh /\ ~ask'[d].fresh
        /\ \A d \in Clients \ {c} : ~AtDefaults(ask[d]) => ask'[d] = ask[d]
    BY <1>3, <1>5
  <2>3. asks' \in Nat
    BY <1>0
  <2>4. QED
    BY <1>3, <1>7, <2>1, <2>2, <2>3

LEMMA RepliesEnd ==
    ASSUME AccountInv, NEW c \in Clients, Replies(c)
    PROVE  AskStep(c, NoAsk)
BY NoAskTyped, PutsStep DEF Replies

LEMMA NoAskOK == \A users, plans, most : AskOK(NoAsk, users, plans, most) /\ ~AtDefaults(NoAsk)
BY NoAskTyped DEF AskOK, AtDefaults

LEMMA MovesStep ==
    ASSUME AccountInv, NEW c \in Clients, NEW place \in AskPlaces, Moves(c, place)
    PROVE  \E q \in Asking : /\ AskStep(c, q) /\ q.at = place /\ q.who = ask[c].who /\ q.p = ask[c].p
                             /\ q.n = ask[c].n
<1>0. ask \in [Clients -> Asking] /\ ask[c] \in Asking
  BY DEF AccountInv, AccountTypes
<1>1. [ask[c] EXCEPT !.at = place] \in Asking
  BY <1>0 DEF Asking
<1>2. /\ [ask[c] EXCEPT !.at = place].at = place /\ [ask[c] EXCEPT !.at = place].who = ask[c].who
      /\ [ask[c] EXCEPT !.at = place].p = ask[c].p /\ [ask[c] EXCEPT !.at = place].n = ask[c].n
  BY <1>0 DEF Asking
<1>3. ask' = [ask EXCEPT ![c] = [ask[c] EXCEPT !.at = place]]
  BY <1>0 DEF Moves
<1>4. QED
  BY <1>1, <1>2, <1>3, PutsStep

-----------------------------------------------------------------------------
LEMMA LoginKept ==
    ASSUME AccountInv, NEW c \in Clients, NEW u \in Users, Login(c, u)
    PROVE  AccountInv'
<1>0. /\ AccountTypes /\ KeptInv /\ UNCHANGED <<plan, muddled, app, allowed, granted, appointed>>
  BY DEF AccountInv, Login, KeepPlans, KeepApps
<1>1. account[u] \in UserRow /\ RoleKept(u) \in Roles
  BY <1>0 DEF AccountTypes, RoleKept, UserRow, Roles
<1>2. PICK r \in Roles : r = RoleKept(u)
  BY <1>1
<1>3. PICK q \in Asking : Asks(c, q) /\ q.at = "default" /\ q.who = u
  <2>1. PICK w \in Asking : w = NoAsk
    BY NoAskTyped
  <2>2. "default" \in AskPlaces
    BY DEF AskPlaces
  <2>3. PICK q \in Asking : q = [w EXCEPT !.at = "default", !.who = u, !.role = r]
    BY <2>2 DEF Asking
  <2>4. q.at = "default" /\ q.who = u
    BY <2>3 DEF Asking
  <2>5. QED
    BY <1>2, <2>1, <2>3, <2>4 DEF Login
<1>4. AskStep(c, q) /\ asks' \in Nat
  BY <1>3, AsksBegin
<1>5. r = account[u].role
  BY <1>0, <1>2 DEF KeptInv, RoleKept
<1>6. PICK v \in UserRow : /\ v = [account[u] EXCEPT !.is = TRUE, !.role = r]
                           /\ v.is = TRUE /\ v.role = account[u].role /\ v.plan = account[u].plan
  <2>1. [account[u] EXCEPT !.is = TRUE, !.role = r] \in UserRow
    BY <1>1 DEF UserRow
  <2>2. /\ [account[u] EXCEPT !.is = TRUE, !.role = r].is = TRUE
        /\ [account[u] EXCEPT !.is = TRUE, !.role = r].role = r
        /\ [account[u] EXCEPT !.is = TRUE, !.role = r].plan = account[u].plan
    BY <1>1 DEF UserRow
  <2>3. QED
    BY <1>5, <2>1, <2>2
<1>7. account' = [account EXCEPT ![u] = v]
  <2>1. account' = [account EXCEPT ![u].is = TRUE, ![u].role = r]
    BY <1>2 DEF Login
  <2>2. QED
    BY <1>0, <1>6, <2>1 DEF AccountTypes
<1>8. /\ account' \in [Users -> UserRow] /\ account'[u] = v
      /\ \A x \in Users \ {u} : account'[x] = account[x]
  BY <1>0, <1>7 DEF AccountTypes
<1>9. AccountTypes'
  BY <1>0, <1>4, <1>8 DEF AccountTypes, AskStep
<1>10. KeptInv'
  BY <1>0, <1>6, <1>8 DEF KeptInv
<1>11. Grows
  <2>1. v.is
    BY <1>6
  <2>2. \A x \in Users : account[x].is => account'[x].is
    BY <1>8, <2>1
  <2>3. \A x \in Users : allowed[x] <= allowed'[x]
    BY <1>0 DEF AccountTypes
  <2>4. QED
    BY <1>0, <2>2, <2>3 DEF Grows
<1>12. AskOK(q, account', plan', allowed') /\ ~AtDefaults(q) /\ q.at # "insert"
  BY <1>3 DEF AskOK, AtDefaults
<1>13. \A x \in Users : CountedOf(x)' \subseteq CountedOf(x)
  BY <1>0 DEF CountedOf, AppsOf
<1>14. QED
  BY <1>0, <1>4, <1>9, <1>10, <1>11, <1>12, <1>13, MoveKept

\* A request goes on without a change of the tables.
LEMMA OnlyMoves ==
    ASSUME AccountInv, NEW c \in Clients, NEW q \in Asking, AskStep(c, q), asks' \in Nat,
           KeepUsers, KeepPlans, KeepApps, AskOK(q, account, plan, allowed), ~AtDefaults(q), q.at # "insert"
    PROVE  AccountInv'
<1>0. AccountTypes /\ KeptInv /\ UNCHANGED <<plan, muddled, app, allowed, account, granted, appointed>>
  BY DEF AccountInv, KeepUsers, KeepPlans, KeepApps
<1>1. AccountTypes'
  BY <1>0 DEF AccountTypes, AskStep
<1>2. KeptInv'
  BY <1>0 DEF KeptInv
<1>3. Grows
  BY <1>0 DEF Grows, AccountTypes
<1>4. \A x \in Users : CountedOf(x)' \subseteq CountedOf(x)
  BY <1>0 DEF CountedOf, AppsOf
<1>5. AskOK(q, account', plan', allowed')
  BY <1>0
<1>6. QED
  BY <1>0, <1>1, <1>2, <1>3, <1>4, <1>5, MoveKept

LEMMA FindDefaultKept ==
    ASSUME AccountInv, NEW c \in Clients, FindDefault(c)
    PROVE  AccountInv'
<1>0. /\ KeepUsers /\ KeepPlans /\ KeepApps /\ asks' \in Nat /\ ask \in [Clients -> Asking]
      /\ ask[c] \in Asking /\ ask[c].at = "default"
  BY DEF AccountInv, AccountTypes, FindDefault
<1>1. AskOK(ask[c], account, plan, allowed)
  BY DEF AccountInv, AsksInv
<1>2. CASE Moves(c, "enter")
  <2>1. "enter" \in AskPlaces
    BY DEF AskPlaces
  <2>2. PICK q \in Asking : AskStep(c, q) /\ q.at = "enter" /\ q.who = ask[c].who
    BY <1>2, <2>1, MovesStep
  <2>3. AskOK(q, account, plan, allowed) /\ ~AtDefaults(q) /\ q.at # "insert"
    BY <1>0, <1>1, <2>2 DEF AskOK, AtDefaults
  <2>4. QED
    BY <1>0, <2>2, <2>3, OnlyMoves
<1>3. ASSUME NEW p \in Plans, ask' = [ask EXCEPT ![c].at = "assign", ![c].p = p]
      PROVE  AccountInv'
  <2>1. "assign" \in AskPlaces
    BY DEF AskPlaces
  <2>2. PICK q \in Asking : q = [ask[c] EXCEPT !.at = "assign", !.p = p]
    BY <1>0, <2>1 DEF Asking
  <2>3. q.at = "assign" /\ q.p = p /\ q.who = ask[c].who
    BY <1>0, <2>2 DEF Asking
  <2>4. ask' = [ask EXCEPT ![c] = q]
    BY <1>0, <1>3, <2>2
  <2>5. AskStep(c, q)
    BY <2>4, PutsStep
  <2>6. AskOK(q, account, plan, allowed) /\ ~AtDefaults(q) /\ q.at # "insert"
    BY <1>0, <1>1, <2>3 DEF AskOK, AtDefaults
  <2>7. QED
    BY <1>0, <2>5, <2>6, OnlyMoves
<1>4. QED
  BY <1>2, <1>3 DEF FindDefault, Defaults

\* A user's row is written by a request that goes on.
LEMMA UserRowKept ==
    ASSUME AccountInv, NEW c \in Clients, NEW q \in Asking, AskStep(c, q), UNCHANGED asks, KeepPlans, KeepApps,
           NEW u \in Users, NEW v \in UserRow, account' = [account EXCEPT ![u] = v],
           v.is = account[u].is,
           NEW r \in Roles, appointed' = [appointed EXCEPT ![u] = r], v.role = r,
           v.is \/ r = "user",
           NEW p \in Plans \cup {NoPlan}, granted' = [granted EXCEPT ![u] = p], p \in {NoPlan, v.plan},
           AskOK(q, account, plan, allowed), ~AtDefaults(q), q.at # "insert", q.at # "role"
    PROVE  AccountInv'
<1>0. AccountTypes /\ KeptInv /\ UNCHANGED <<plan, muddled, app, allowed, asks>>
  BY DEF AccountInv, KeepPlans, KeepApps
<1>1. /\ account' \in [Users -> UserRow] /\ account'[u] = v
      /\ \A x \in Users \ {u} : account'[x] = account[x]
      /\ appointed' \in [Users -> Roles] /\ appointed'[u] = r
      /\ \A x \in Users \ {u} : appointed'[x] = appointed[x]
      /\ granted' \in [Users -> Plans \cup {NoPlan}] /\ granted'[u] = p
      /\ \A x \in Users \ {u} : granted'[x] = granted[x]
  BY <1>0 DEF AccountTypes
<1>2. AccountTypes'
  BY <1>0, <1>1 DEF AccountTypes, AskStep
<1>3. KeptInv'
  BY <1>0, <1>1 DEF KeptInv
<1>4. Grows
  BY <1>0, <1>1 DEF Grows, AccountTypes
<1>5. \A x \in Users : CountedOf(x)' \subseteq CountedOf(x)
  BY <1>0 DEF CountedOf, AppsOf
<1>6. AskOK(q, account', plan', allowed')
  BY <1>0 DEF AskOK
<1>7. QED
  BY <1>0, <1>2, <1>3, <1>4, <1>5, <1>6, MoveKept

LEMMA AssignDefaultKept ==
    ASSUME AccountInv, NEW c \in Clients, AssignDefault(c)
    PROVE  AccountInv'
<1>0. /\ KeepPlans /\ KeepApps /\ UNCHANGED <<granted, appointed, asks>> /\ AccountTypes /\ KeptInv
      /\ ask[c] \in Asking /\ ask[c].at = "assign" /\ Moves(c, "enter")
  BY DEF AccountInv, AccountTypes, AssignDefault
<1>1. AskOK(ask[c], account, plan, allowed)
  BY DEF AccountInv, AsksInv
<1>2. PICK u \in Users, p \in Plans : u = ask[c].who /\ p = ask[c].p
  BY <1>0, <1>1 DEF AskOK
<1>3. "enter" \in AskPlaces
  BY DEF AskPlaces
<1>4. PICK q \in Asking : AskStep(c, q) /\ q.at = "enter" /\ q.who = u
  BY <1>0, <1>2, <1>3, MovesStep
<1>5. AskOK(q, account, plan, allowed) /\ ~AtDefaults(q) /\ q.at # "insert" /\ q.at # "role"
  BY <1>4 DEF AskOK, AtDefaults
<1>6. CASE UNCHANGED account
  <2>1. KeepUsers /\ asks' \in Nat
    BY <1>0, <1>6 DEF KeepUsers, AccountTypes
  <2>2. QED
    BY <1>0, <1>4, <1>5, <2>1, OnlyMoves
<1>7. CASE HasNone(u) /\ account' = [account EXCEPT ![u].plan = p]
  <2>1. account[u] \in UserRow
    BY <1>0 DEF AccountTypes
  <2>2. PICK v \in UserRow : v = [account[u] EXCEPT !.plan = p]
    BY <2>1 DEF UserRow
  <2>3. v.is = account[u].is /\ v.role = account[u].role /\ v.plan = p
    BY <2>1, <2>2 DEF UserRow
  <2>4. account' = [account EXCEPT ![u] = v]
    BY <1>0, <1>7, <2>2 DEF AccountTypes
  <2>5. PICK r \in Roles : r = appointed[u] /\ appointed' = [appointed EXCEPT ![u] = r]
    BY <1>0 DEF AccountTypes
  <2>6. PICK g \in Plans \cup {NoPlan} : g = granted[u] /\ granted' = [granted EXCEPT ![u] = g]
    BY <1>0 DEF AccountTypes
  <2>7. v.role = r /\ (v.is \/ r = "user") /\ g \in {NoPlan, v.plan}
    BY <1>0, <1>7, <2>3, <2>5, <2>6 DEF KeptInv, HasNone
  <2>8. QED
    <3>1. AskStep(c, q) /\ UNCHANGED asks /\ KeepPlans /\ KeepApps
      BY <1>0, <1>4
    <3>2. account' = [account EXCEPT ![u] = v] /\ v.is = account[u].is
      BY <2>3, <2>4
    <3>3. appointed' = [appointed EXCEPT ![u] = r] /\ v.role = r /\ (v.is \/ r = "user")
      BY <2>5, <2>7
    <3>4. granted' = [granted EXCEPT ![u] = g] /\ g \in {NoPlan, v.plan}
      BY <2>6, <2>7
    <3>5. QED
      BY <1>5, <3>1, <3>2, <3>3, <3>4, UserRowKept, ZenonT(60)
<1>8. QED
  BY <1>2, <1>6, <1>7 DEF AssignDefault

LEMMA EnterKept ==
    ASSUME AccountInv, NEW c \in Clients, Enter(c)
    PROVE  AccountInv'
<1>0. /\ KeepPlans /\ KeepApps /\ UNCHANGED <<granted, appointed, asks>> /\ AccountTypes /\ KeptInv
      /\ ask[c].at = "enter" /\ Replies(c)
  BY DEF AccountInv, Enter
<1>1. PICK u \in Users : u = ask[c].who
  BY <1>0 DEF AccountInv, AsksInv, AskOK
<1>2. PICK b \in BOOLEAN : b = (account[u].token \/ ~paused \/ ask[c].role = "admin")
  OBVIOUS
<1>3. account[u] \in UserRow
  BY <1>0 DEF AccountTypes
<1>4. PICK v \in UserRow : v = [account[u] EXCEPT !.token = b]
  BY <1>3 DEF UserRow
<1>5. v.is = account[u].is /\ v.role = account[u].role /\ v.plan = account[u].plan
  BY <1>3, <1>4 DEF UserRow
<1>6. account' = [account EXCEPT ![u] = v]
  <2>1. account' = [account EXCEPT ![u].token = b]
    BY <1>1, <1>2 DEF Enter
  <2>2. QED
    BY <1>0, <1>4, <2>1 DEF AccountTypes
<1>7. PICK r \in Roles : r = appointed[u] /\ appointed' = [appointed EXCEPT ![u] = r]
  BY <1>0 DEF AccountTypes
<1>8. PICK g \in Plans \cup {NoPlan} : g = granted[u] /\ granted' = [granted EXCEPT ![u] = g]
  BY <1>0 DEF AccountTypes
<1>9. v.role = r /\ (v.is \/ r = "user") /\ g \in {NoPlan, v.plan}
  BY <1>0, <1>5, <1>7, <1>8 DEF KeptInv
<1>10. AskStep(c, NoAsk) /\ NoAsk \in Asking
  BY <1>0, RepliesEnd, NoAskTyped
<1>11. AskOK(NoAsk, account, plan, allowed) /\ ~AtDefaults(NoAsk) /\ NoAsk.at # "insert" /\ NoAsk.at # "role"
  BY NoAskOK, NoAskTyped
<1>12. QED
  BY <1>0, <1>5, <1>6, <1>7, <1>8, <1>9, <1>10, <1>11, UserRowKept

LEMMA UpdateRoleKept ==
    ASSUME AccountInv, NEW c \in Clients, UpdateRole(c)
    PROVE  AccountInv'
<1>0. /\ KeepPlans /\ KeepApps /\ UNCHANGED <<granted, asks>> /\ AccountTypes /\ KeptInv
      /\ ask[c].at = "role" /\ Replies(c) /\ ask[c] \in Asking
  BY DEF AccountInv, AccountTypes, UpdateRole
<1>1. PICK u \in Users, r \in Roles : u = ask[c].v /\ r = ask[c].role /\ account[u].is
  BY <1>0 DEF AccountInv, AsksInv, AskOK, Asking
<1>2. account[u] \in UserRow
  BY <1>0 DEF AccountTypes
<1>3. PICK v \in UserRow : v = [account[u] EXCEPT !.role = r]
  BY <1>2 DEF UserRow
<1>4. v.is = account[u].is /\ v.role = r /\ v.plan = account[u].plan
  BY <1>2, <1>3 DEF UserRow
<1>5. account' = [account EXCEPT ![u] = v] /\ appointed' = [appointed EXCEPT ![u] = r]
  <2>1. account' = [account EXCEPT ![u].role = r] /\ appointed' = [appointed EXCEPT ![u] = r]
    BY <1>1 DEF UpdateRole
  <2>2. QED
    BY <1>0, <1>3, <2>1 DEF AccountTypes
<1>6. PICK g \in Plans \cup {NoPlan} : g = granted[u] /\ granted' = [granted EXCEPT ![u] = g]
  BY <1>0 DEF AccountTypes
<1>7. (v.is \/ r = "user") /\ g \in {NoPlan, v.plan}
  BY <1>0, <1>1, <1>4, <1>6 DEF KeptInv
<1>8. AskStep(c, NoAsk) /\ NoAsk \in Asking
  BY <1>0, RepliesEnd, NoAskTyped
<1>9. AskOK(NoAsk, account, plan, allowed) /\ ~AtDefaults(NoAsk) /\ NoAsk.at # "insert" /\ NoAsk.at # "role"
  BY NoAskOK, NoAskTyped
<1>10. QED
  BY <1>0, <1>4, <1>5, <1>6, <1>7, <1>8, <1>9, UserRowKept

LEMMA UpdatePlanIDKept ==
    ASSUME AccountInv, NEW c \in Clients, UpdatePlanID(c)
    PROVE  AccountInv'
<1>0. /\ KeepPlans /\ KeepApps /\ UNCHANGED <<appointed, asks>> /\ AccountTypes /\ KeptInv
      /\ ask[c].at = "grant" /\ Replies(c)
  BY DEF AccountInv, UpdatePlanID
<1>1. PICK u \in Users, p \in Plans : u = ask[c].v /\ p = ask[c].p
  BY <1>0 DEF AccountInv, AsksInv, AskOK
<1>2. account[u] \in UserRow
  BY <1>0 DEF AccountTypes
<1>3. PICK v \in UserRow : v = [account[u] EXCEPT !.plan = p]
  BY <1>2 DEF UserRow
<1>4. v.is = account[u].is /\ v.role = account[u].role /\ v.plan = p
  BY <1>2, <1>3 DEF UserRow
<1>5. account' = [account EXCEPT ![u] = v] /\ granted' = [granted EXCEPT ![u] = p]
  <2>1. account' = [account EXCEPT ![u].plan = p] /\ granted' = [granted EXCEPT ![u] = p]
    BY <1>1 DEF UpdatePlanID
  <2>2. QED
    BY <1>0, <1>3, <2>1 DEF AccountTypes
<1>6. PICK r \in Roles : r = appointed[u] /\ appointed' = [appointed EXCEPT ![u] = r]
  BY <1>0 DEF AccountTypes
<1>7. v.role = r /\ (v.is \/ r = "user") /\ p \in {NoPlan, v.plan} /\ p \in Plans \cup {NoPlan}
  BY <1>0, <1>4, <1>6 DEF KeptInv
<1>8. AskStep(c, NoAsk) /\ NoAsk \in Asking
  BY <1>0, RepliesEnd, NoAskTyped
<1>9. AskOK(NoAsk, account, plan, allowed) /\ ~AtDefaults(NoAsk) /\ NoAsk.at # "insert" /\ NoAsk.at # "role"
  BY NoAskOK, NoAskTyped
<1>10. QED
  BY <1>0, <1>4, <1>5, <1>6, <1>7, <1>8, <1>9, UserRowKept

LEMMA UpdateUserRoleKept ==
    ASSUME AccountInv, NEW c \in Clients, NEW u \in Users, NEW v \in Users, NEW r \in Roles, UpdateUserRole(c, u, v, r)
    PROVE  AccountInv'
<1>0. KeepUsers /\ KeepPlans /\ KeepApps /\ account[v].is
  BY DEF UpdateUserRole
<1>1. PICK q \in Asking : Asks(c, q) /\ q.at = "role" /\ q.v = v
  <2>1. PICK w \in Asking : w = NoAsk
    BY NoAskTyped
  <2>2. "role" \in AskPlaces
    BY DEF AskPlaces
  <2>3. PICK q \in Asking : q = [w EXCEPT !.at = "role", !.who = u, !.v = v, !.role = r]
    BY <2>2 DEF Asking
  <2>4. q.at = "role" /\ q.v = v
    BY <2>3 DEF Asking
  <2>5. QED
    BY <2>1, <2>3, <2>4 DEF UpdateUserRole
<1>2. AskStep(c, q) /\ asks' \in Nat
  BY <1>1, AsksBegin
<1>3. AskOK(q, account, plan, allowed) /\ ~AtDefaults(q) /\ q.at # "insert"
  BY <1>0, <1>1 DEF AskOK, AtDefaults
<1>4. QED
  BY <1>0, <1>2, <1>3, OnlyMoves

LEMMA AssignUserPlanKept ==
    ASSUME AccountInv, NEW c \in Clients, NEW u \in Users, NEW v \in Users, NEW p \in Plans, AssignUserPlan(c, u, v, p)
    PROVE  AccountInv'
<1>0. KeepUsers /\ KeepPlans /\ KeepApps
  BY DEF AssignUserPlan
<1>1. PICK q \in Asking : Asks(c, q) /\ q.at = "grant" /\ q.v = v /\ q.p = p
  <2>1. PICK w \in Asking : w = NoAsk
    BY NoAskTyped
  <2>2. "grant" \in AskPlaces
    BY DEF AskPlaces
  <2>3. PICK q \in Asking : q = [w EXCEPT !.at = "grant", !.who = u, !.v = v, !.p = p]
    BY <2>2 DEF Asking
  <2>4. q.at = "grant" /\ q.v = v /\ q.p = p
    BY <2>3 DEF Asking
  <2>5. QED
    BY <2>1, <2>3, <2>4 DEF AssignUserPlan
<1>2. AskStep(c, q) /\ asks' \in Nat
  BY <1>1, AsksBegin
<1>3. AskOK(q, account, plan, allowed) /\ ~AtDefaults(q) /\ q.at # "insert"
  BY <1>1 DEF AskOK, AtDefaults
<1>4. QED
  BY <1>0, <1>2, <1>3, OnlyMoves
-----------------------------------------------------------------------------
LEMMA CreatePlanKept ==
    ASSUME AccountInv, NEW u \in Users, NEW p \in Plans, NEW n \in Allowances, CreatePlan(u, p, n)
    PROVE  AccountInv'
<1>0. /\ AccountTypes /\ ~plan[p].is /\ asks' = asks + 1
      /\ UNCHANGED <<ask, muddled, account, granted, appointed, allowed, app>>
  BY DEF AccountInv, CreatePlan, KeepUsers, KeepApps
<1>1. PICK v \in PlanRow : v = NewPlan(n) /\ v.is = TRUE /\ v.default = FALSE
  <2>1. NewPlan(n) \in PlanRow
    BY DEF NewPlan, PlanRow
  <2>2. NewPlan(n).is = TRUE /\ NewPlan(n).default = FALSE
    BY DEF NewPlan
  <2>3. QED
    BY <2>1, <2>2
<1>2. plan' = [plan EXCEPT ![p] = v]
  BY <1>1 DEF CreatePlan
<1>3. plan' \in [Plans -> PlanRow] /\ plan'[p] = v /\ \A x \in Plans \ {p} : plan'[x] = plan[x]
  BY <1>0, <1>2 DEF AccountTypes
<1>4. \A x \in Plans : plan[x].is => plan'[x].is /\ plan'[x].default = plan[x].default
  BY <1>0, <1>3
<1>5. Defaults' \subseteq Defaults
  BY <1>1, <1>3 DEF Defaults
<1>6. asks' \in Nat /\ app' \in [Apps -> AppRow] /\ \A x \in Users : CountedOf(x)' \subseteq CountedOf(x)
  BY <1>0 DEF AccountTypes, CountedOf, AppsOf
<1>7. QED
  BY <1>0, <1>3, <1>4, <1>5, <1>6, QuietAccounts

LEMMA DeletePlanKept ==
    ASSUME AccountInv, NEW u \in Users, NEW p \in Plans, DeletePlan(u, p)
    PROVE  AccountInv'
<1>0. /\ AccountTypes /\ plan[p].is /\ asks' = asks + 1 /\ plan[p] \in PlanRow
      /\ UNCHANGED <<ask, muddled, account, granted, appointed, allowed, app>>
  BY DEF AccountInv, AccountTypes, DeletePlan, KeepUsers, KeepApps
<1>1. PICK v \in PlanRow : v = [plan[p] EXCEPT !.active = FALSE]
  BY <1>0 DEF PlanRow
<1>2. v.is = plan[p].is /\ v.default = plan[p].default
  BY <1>0, <1>1 DEF PlanRow
<1>3. plan' = [plan EXCEPT ![p] = v]
  BY <1>0, <1>1 DEF DeletePlan, AccountTypes
<1>4. plan' \in [Plans -> PlanRow] /\ plan'[p] = v /\ \A x \in Plans \ {p} : plan'[x] = plan[x]
  BY <1>0, <1>3 DEF AccountTypes
<1>5. \A x \in Plans : plan[x].is => plan'[x].is /\ plan'[x].default = plan[x].default
  BY <1>2, <1>4
<1>6. Defaults' \subseteq Defaults
  BY <1>2, <1>4 DEF Defaults
<1>7. asks' \in Nat /\ app' \in [Apps -> AppRow] /\ \A x \in Users : CountedOf(x)' \subseteq CountedOf(x)
  BY <1>0 DEF AccountTypes, CountedOf, AppsOf
<1>8. QED
  BY <1>0, <1>4, <1>5, <1>6, <1>7, QuietAccounts

LEMMA UnmuddledOne ==
    ASSUME AccountInv, ~muddled
    PROVE  /\ \A p, r \in Defaults : p = r
           /\ \A c \in Clients : AtDefaults(ask[c]) => ask[c].fresh
           /\ \A c \in Clients : ask[c].at = "row" => ask[c].row.default = plan[ask[c].p].default
BY DEF AccountInv, DefaultsInv

\* Who is at the defaults with another is not fresh.
LEMMA FreshAlone ==
    ASSUME AccountInv, NEW c \in Clients, AtDefaults(ask[c])
    PROVE  /\ \A d \in Clients \ {c} : AtDefaults(ask[d]) => ~ask[d].fresh /\ ~ask[c].fresh
           /\ ask[c].at = "commit" /\ ask[c].fresh => Defaults \subseteq ask[c].sees
           /\ ~muddled => ask[c].fresh
BY DEF AccountInv, DefaultsInv

LEMMA AtPlansMeans == \A c \in Clients : c \in AtPlans <=> AtDefaults(ask[c])
BY DEF AtPlans, AtDefaults

LEMMA UpdatePlanKept ==
    ASSUME AccountInv, NEW c \in Clients, NEW u \in Users, NEW p \in Plans, NEW row \in PlanRow, row.is,
           UpdatePlan(c, u, p, row)
    PROVE  AccountInv'
<1>0. /\ AccountTypes /\ plan[p].is
      /\ UNCHANGED <<account, granted, appointed, app, allowed, plan>>
  BY DEF AccountInv, UpdatePlan, KeepUsers, KeepApps
<1>1. PICK q \in Asking : AsksPlans(c, q) /\ q.at = "row" /\ q.p = p /\ q.row = row
  <2>1. PICK w \in Asking : w = NoAsk
    BY NoAskTyped
  <2>2. "row" \in AskPlaces
    BY DEF AskPlaces
  <2>3. PICK q \in Asking : q = [w EXCEPT !.at = "row", !.who = u, !.p = p, !.row = row]
    BY <2>2 DEF Asking
  <2>4. q.at = "row" /\ q.p = p /\ q.row = row
    BY <2>3 DEF Asking
  <2>5. QED
    BY <2>1, <2>3, <2>4 DEF UpdatePlan
<1>2. PICK r \in Asking :
          /\ AskStep(c, r) /\ asks' \in Nat /\ r.at = "row" /\ r.p = p /\ r.row = row /\ (r.fresh <=> AtPlans = {})
          /\ \A d \in Clients \ {c} : AtDefaults(ask[d]) => ~r.fresh /\ ~ask'[d].fresh
  <2>1. AtDefaults(q)
    BY <1>1 DEF AtDefaults
  <2>2. QED
    BY <1>1, <2>1, PlansBegin DEF Same
<1>3. ~muddled' => ~muddled /\ AtPlans = {} /\ row.default = plan[p].default
  BY DEF UpdatePlan
<1>4. Defaults' = Defaults
  BY <1>0 DEF Defaults
<1>5. DefaultsMove(c, r)
  BY <1>0, <1>2, <1>3, <1>4, UnmuddledOne, AtPlansMeans DEF DefaultsMove
<1>6. AskOK(r, account, plan', allowed) /\ r.at # "insert"
  BY <1>0, <1>2 DEF AskOK
<1>7. QED
  BY <1>0, <1>2, <1>5, <1>6, PlansKept DEF AccountTypes

LEMMA SetDefaultKept ==
    ASSUME AccountInv, NEW c \in Clients, NEW u \in Users, NEW p \in Plans, SetDefault(c, u, p)
    PROVE  AccountInv'
<1>0. /\ AccountTypes /\ plan[p].is
      /\ UNCHANGED <<account, granted, appointed, app, allowed, plan>>
  BY DEF AccountInv, SetDefault, KeepUsers, KeepApps
<1>1. PICK q \in Asking : AsksPlans(c, q) /\ q.at = "defaults" /\ q.p = p
  <2>1. PICK w \in Asking : w = NoAsk
    BY NoAskTyped
  <2>2. "defaults" \in AskPlaces
    BY DEF AskPlaces
  <2>3. PICK q \in Asking : q = [w EXCEPT !.at = "defaults", !.who = u, !.p = p]
    BY <2>2 DEF Asking
  <2>4. q.at = "defaults" /\ q.p = p
    BY <2>3 DEF Asking
  <2>5. QED
    BY <2>1, <2>3, <2>4 DEF SetDefault
<1>2. PICK r \in Asking :
          /\ AskStep(c, r) /\ asks' \in Nat /\ r.at = "defaults" /\ r.p = p /\ (r.fresh <=> AtPlans = {})
          /\ \A d \in Clients \ {c} : AtDefaults(ask[d]) => ~r.fresh /\ ~ask'[d].fresh
  <2>1. AtDefaults(q)
    BY <1>1 DEF AtDefaults
  <2>2. QED
    BY <1>1, <2>1, PlansBegin DEF Same
<1>3. ~muddled' => ~muddled /\ AtPlans = {}
  BY DEF SetDefault
<1>4. Defaults' = Defaults
  BY <1>0 DEF Defaults
<1>5. DefaultsMove(c, r)
  BY <1>0, <1>2, <1>3, <1>4, UnmuddledOne, AtPlansMeans DEF DefaultsMove
<1>6. AskOK(r, account, plan', allowed) /\ r.at # "insert"
  BY <1>0, <1>2 DEF AskOK
<1>7. QED
  BY <1>0, <1>2, <1>5, <1>6, PlansKept DEF AccountTypes

LEMMA UnsetDefaultsKept ==
    ASSUME AccountInv, NEW c \in Clients, UnsetDefaults(c)
    PROVE  AccountInv'
<1>0. /\ AccountTypes /\ ask[c] \in Asking /\ ask[c].at = "defaults" /\ asks' \in Nat
      /\ UNCHANGED <<account, granted, appointed, app, allowed, plan, muddled>>
  BY DEF AccountInv, AccountTypes, UnsetDefaults, KeepUsers, KeepPlans, KeepApps
<1>1. PICK s \in SUBSET Plans : s = Defaults
  BY DEF Defaults
<1>2. "commit" \in AskPlaces
  BY DEF AskPlaces
<1>3. PICK q \in Asking : q = [ask[c] EXCEPT !.at = "commit", !.sees = s]
  BY <1>0, <1>2 DEF Asking
<1>4. q.at = "commit" /\ q.sees = s /\ q.p = ask[c].p /\ q.fresh = ask[c].fresh
  BY <1>0, <1>3 DEF Asking
<1>5. AskStep(c, q) /\ \A d \in Clients \ {c} : ask'[d] = ask[d]
  <2>1. ask' = [ask EXCEPT ![c] = q]
    BY <1>0, <1>1, <1>3 DEF UnsetDefaults, AccountTypes
  <2>2. QED
    BY <1>0, <2>1, PutsStep DEF AccountTypes
<1>6. Defaults' = Defaults
  BY <1>0 DEF Defaults
<1>7. AtDefaults(ask[c])
  BY <1>0 DEF AtDefaults
<1>8. DefaultsMove(c, q)
  BY <1>0, <1>1, <1>4, <1>5, <1>6, <1>7, FreshAlone, UnmuddledOne DEF DefaultsMove
<1>9. AskOK(q, account, plan', allowed)
  BY <1>0, <1>4 DEF AskOK, AccountInv, AsksInv
<1>10. QED
  BY <1>0, <1>4, <1>5, <1>8, <1>9, PlansKept DEF AccountTypes

LEMMA WritePlanKept ==
    ASSUME AccountInv, NEW c \in Clients, WritePlan(c)
    PROVE  AccountInv'
<1>0. /\ AccountTypes /\ ask[c] \in Asking /\ ask[c].at = "row" /\ asks' \in Nat /\ Replies(c)
      /\ UNCHANGED <<account, granted, appointed, app, allowed, muddled>>
  BY DEF AccountInv, AccountTypes, WritePlan, KeepUsers, KeepApps
<1>1. PICK p \in Plans, row \in PlanRow : p = ask[c].p /\ row = ask[c].row /\ row.is /\ plan[p].is
  BY <1>0 DEF AccountInv, AsksInv, AskOK, Asking
<1>2. plan' = [plan EXCEPT ![p] = row]
  BY <1>1 DEF WritePlan
<1>3. plan' \in [Plans -> PlanRow] /\ plan'[p] = row /\ \A x \in Plans \ {p} : plan'[x] = plan[x]
  BY <1>0, <1>2 DEF AccountTypes
<1>4. \A x \in Plans : plan[x].is => plan'[x].is
  BY <1>1, <1>3
<1>5. AtDefaults(ask[c])
  BY <1>0 DEF AtDefaults
<1>6. ~muddled => Defaults' = Defaults
  <2>1. ~muddled => row.default = plan[p].default
    BY <1>0, <1>1, UnmuddledOne
  <2>2. QED
    BY <1>1, <1>3, <2>1 DEF Defaults
<1>7. AskStep(c, NoAsk) /\ NoAsk \in Asking /\ NoAsk.at \notin {"row", "commit", "insert"} /\ ~AtDefaults(NoAsk)
  BY <1>0, RepliesEnd, NoAskTyped, NoAskOK
<1>8. DefaultsMove(c, NoAsk)
  BY <1>0, <1>5, <1>6, <1>7, FreshAlone, UnmuddledOne DEF DefaultsMove
<1>9. AskOK(NoAsk, account, plan', allowed)
  BY NoAskOK
<1>10. QED
  BY <1>0, <1>3, <1>4, <1>7, <1>8, <1>9, PlansKept

LEMMA SetNewDefaultKept ==
    ASSUME AccountInv, NEW c \in Clients, SetNewDefault(c)
    PROVE  AccountInv'
<1>0. /\ AccountTypes /\ ask[c] \in Asking /\ ask[c].at = "commit" /\ asks' \in Nat /\ Replies(c)
      /\ UNCHANGED <<account, granted, appointed, app, allowed>>
      /\ muddled' = (muddled /\ ~ask[c].fresh)
  BY DEF AccountInv, AccountTypes, SetNewDefault, KeepUsers, KeepApps
<1>1. PICK p \in Plans, s \in SUBSET Plans : p = ask[c].p /\ s = ask[c].sees
  BY <1>0 DEF AccountInv, AsksInv, AskOK, Asking
<1>2. plan' = [x \in Plans |-> IF x = p THEN [plan[x] EXCEPT !.default = TRUE]
                               ELSE IF x \in s THEN [plan[x] EXCEPT !.default = FALSE]
                               ELSE plan[x]]
  BY <1>1 DEF SetNewDefault
<1>3. ASSUME NEW x \in Plans
      PROVE  /\ plan'[x] \in PlanRow /\ plan'[x].is = plan[x].is
             /\ x # p => (x \in s => plan'[x].default = FALSE) /\ (x \notin s => plan'[x] = plan[x])
  <2>0. plan[x] \in PlanRow
    BY <1>0 DEF AccountTypes
  <2>1. CASE x = p
    <3>1. plan'[x] = [plan[x] EXCEPT !.default = TRUE]
      BY <1>2, <2>1
    <3>2. QED
      BY <2>0, <2>1, <3>1 DEF PlanRow
  <2>2. CASE x # p /\ x \in s
    <3>1. plan'[x] = [plan[x] EXCEPT !.default = FALSE]
      BY <1>2, <2>2
    <3>2. QED
      BY <2>0, <2>2, <3>1 DEF PlanRow
  <2>3. CASE x # p /\ x \notin s
    BY <1>2, <2>0, <2>3
  <2>4. QED
    BY <2>1, <2>2, <2>3
<1>4. plan' \in [Plans -> PlanRow]
  <2>1. plan' = [x \in Plans |-> plan'[x]]
    BY <1>2
  <2>2. QED
    BY <1>3, <2>1
<1>5. \A x \in Plans : plan[x].is => plan'[x].is
  BY <1>3
<1>6. AtDefaults(ask[c])
  BY <1>0 DEF AtDefaults
<1>7. ask[c].fresh => Defaults' \subseteq {p}
  <2>1. ask[c].fresh => Defaults \subseteq s
    BY <1>0, <1>1, <1>6, FreshAlone
  <2>2. QED
    BY <1>3, <2>1 DEF Defaults
<1>8. AskStep(c, NoAsk) /\ NoAsk \in Asking /\ NoAsk.at \notin {"row", "commit", "insert"} /\ ~AtDefaults(NoAsk)
  BY <1>0, RepliesEnd, NoAskTyped, NoAskOK
<1>9. DefaultsMove(c, NoAsk)
  <2>1. \A d \in Clients \ {c} : AtDefaults(ask[d]) => ~ask[d].fresh /\ ~ask[c].fresh
    BY <1>6, FreshAlone
  <2>2. ~muddled' => ask[c].fresh
    BY <1>0, <1>6, FreshAlone
  <2>3. QED
    BY <1>7, <1>8, <2>1, <2>2 DEF DefaultsMove
<1>10. AskOK(NoAsk, account, plan', allowed)
  BY NoAskOK
<1>11. QED
  BY <1>0, <1>4, <1>5, <1>8, <1>9, <1>10, PlansKept
-----------------------------------------------------------------------------
LEMMA CreateAppKept ==
    ASSUME AccountInv, NEW c \in Clients, NEW u \in Users, CreateApp(c, u)
    PROVE  AccountInv'
<1>0. /\ AccountTypes /\ KeptInv /\ UNCHANGED <<account, granted, appointed, app, plan, muddled>>
  BY DEF AccountInv, CreateApp, KeepUsers, KeepPlans
<1>1. PICK p \in Plans \cup {NoPlan} : p = account[u].plan
  BY <1>0 DEF AccountTypes, UserRow
<1>2. PICK n \in Nat : n = IF p = NoPlan THEN MaxRows ELSE plan[p].apps
  <2>1. CASE p = NoPlan
    BY <2>1, FiniteHere
  <2>2. CASE p # NoPlan
    <3>1. plan[p] \in PlanRow
      BY <1>0, <2>2 DEF AccountTypes
    <3>2. plan[p].apps \in Allowances \cup {0, 1}
      BY <3>1 DEF PlanRow
    <3>3. QED
      BY <2>2, <3>2, AccountsAssumption
  <2>3. QED
    BY <2>1, <2>2
<1>3. PICK q \in Asking : Asks(c, q) /\ q.at = "count" /\ q.who = u /\ q.p = p /\ q.n = n
  <2>1. PICK w \in Asking : w = NoAsk
    BY NoAskTyped
  <2>2. "count" \in AskPlaces
    BY DEF AskPlaces
  <2>3. PICK q \in Asking : q = [w EXCEPT !.at = "count", !.who = u, !.p = p, !.n = n]
    BY <2>2 DEF Asking
  <2>4. q.at = "count" /\ q.who = u /\ q.p = p /\ q.n = n
    BY <2>3 DEF Asking
  <2>5. Asks(c, [NoAsk EXCEPT !.at = "count", !.who = u, !.p = p, !.n = n])
    BY <1>1, <1>2 DEF CreateApp
  <2>6. QED
    BY <2>1, <2>3, <2>4, <2>5
<1>4. AskStep(c, q) /\ asks' \in Nat
  BY <1>3, AsksBegin
<1>5. PICK m \in Nat : m = IF allowed[u] < n THEN n ELSE allowed[u]
  BY <1>0 DEF AccountTypes
<1>6. n <= m /\ allowed[u] <= m
  BY <1>0, <1>5 DEF AccountTypes
<1>7. allowed' = [allowed EXCEPT ![u] = m]
  BY <1>1, <1>2, <1>5 DEF CreateApp
<1>8. allowed' \in [Users -> Nat] /\ allowed'[u] = m /\ \A x \in Users \ {u} : allowed'[x] = allowed[x]
  BY <1>0, <1>7 DEF AccountTypes
<1>9. AccountTypes'
  BY <1>0, <1>4, <1>8 DEF AccountTypes, AskStep
<1>10. KeptInv'
  BY <1>0 DEF KeptInv
<1>11. Grows
  <2>1. \A x \in Users : allowed[x] <= allowed'[x]
    BY <1>0, <1>6, <1>8 DEF AccountTypes
  <2>2. QED
    BY <1>0, <2>1 DEF Grows
<1>12. AskOK(q, account', plan', allowed') /\ ~AtDefaults(q) /\ q.at # "insert"
  BY <1>2, <1>3, <1>6, <1>8 DEF AskOK, AtDefaults
<1>13. \A x \in Users : CountedOf(x)' \subseteq CountedOf(x)
  BY <1>0 DEF CountedOf, AppsOf
<1>14. QED
  BY <1>0, <1>4, <1>9, <1>10, <1>11, <1>12, <1>13, MoveKept

\* Who is let through found less than the plan allows: the others that were let through
\* are not more than there are besides.
LEMMA CheckPlanKept ==
    ASSUME AccountInv, NEW c \in Clients, CheckPlan(c)
    PROVE  AccountInv'
<1>0. /\ AccountTypes /\ KeptInv /\ KeepUsers /\ KeepPlans /\ KeepApps /\ asks' \in Nat
      /\ ask[c] \in Asking /\ ask[c].at = "count" /\ asks' = asks
      /\ UNCHANGED <<account, granted, appointed, app, allowed, plan, muddled>>
  BY DEF AccountInv, AccountTypes, CheckPlan, KeepUsers, KeepPlans, KeepApps
<1>1. CASE Replies(c)
  <2>1. AskStep(c, NoAsk) /\ NoAsk \in Asking
    BY <1>1, RepliesEnd, NoAskTyped
  <2>2. AskOK(NoAsk, account, plan, allowed) /\ ~AtDefaults(NoAsk) /\ NoAsk.at # "insert"
    BY NoAskOK, NoAskTyped
  <2>3. QED
    BY <1>0, <2>1, <2>2, OnlyMoves
<1>2. ASSUME NEW found, ~AtLimit(c, found), NEW all, all = AppsOf(ask[c].who),
             ask' = [ask EXCEPT ![c].at = "insert", ![c].fresh = ask[c].p = NoPlan \/ found = all]
      PROVE  AccountInv'
  <2>0. "insert" \in AskPlaces
    BY DEF AskPlaces
  <2>a. PICK f \in BOOLEAN : f = (ask[c].p = NoPlan \/ found = all)
    OBVIOUS
  <2>b. PICK q \in Asking : q = [ask[c] EXCEPT !.at = "insert", !.fresh = f]
    BY <1>0, <2>0 DEF Asking
  <2>c. q.at = "insert" /\ q.who = ask[c].who /\ q.fresh = f
    BY <1>0, <2>b DEF Asking
  <2>d. ask' = [ask EXCEPT ![c] = q]
    BY <1>0, <1>2, <2>a, <2>b DEF AccountTypes
  <2>1. AskStep(c, q) /\ q.at = "insert" /\ q.who = ask[c].who /\ ask'[c] = q
    BY <1>0, <2>c, <2>d, PutsStep DEF AskStep
  <2>2. AccountTypes' /\ KeptInv'
    BY <1>0, <2>1 DEF AccountTypes, KeptInv, AskStep
  <2>3. Grows
    BY <1>0 DEF Grows, AccountTypes
  <2>4. AskOK(ask[c], account, plan, allowed)
    BY DEF AccountInv, AsksInv
  <2>5. AsksInv'
    <3>1. AskOK(q, account', plan', allowed')
      BY <1>0, <2>1, <2>4 DEF AskOK
    <3>2. QED
      BY <2>1, <2>2, <2>3, <3>1, AsksKept
  <2>6. DefaultsInv'
    <3>1. DefaultsMove(c, q)
      <4>1. Defaults' = Defaults
        BY <1>0 DEF Defaults
      <4>2. QED
        BY <1>0, <2>1, <4>1, UnmuddledOne DEF DefaultsMove, AtDefaults
    <3>2. QED
      BY <2>1, <3>1, DefaultsKept
  <2>7. BoundedInv'
    <3>1. SUFFICES ASSUME NEW u \in Users PROVE Bounded(u)'
      BY DEF BoundedInv
    <3>2. CountedOf(u)' = CountedOf(u)
      BY <1>0 DEF CountedOf, AppsOf
    <3>3. CASE u # ask[c].who
      <4>1. Inserting(u)' = Inserting(u)
        BY <1>0, <2>1, <3>3 DEF Inserting, AskStep, Same, Stale, AtDefaults
      <4>2. QED
        BY <1>0, <3>2, <4>1 DEF AccountInv, BoundedInv, Bounded
    <3>c. CASE u = ask[c].who /\ ~f
      <4>1. Inserting(u)' = Inserting(u)
        BY <1>0, <2>1, <2>c, <3>c DEF Inserting, AskStep, Same, Stale, AtDefaults
      <4>2. QED
        BY <1>0, <3>2, <4>1 DEF AccountInv, BoundedInv, Bounded
    <3>4. CASE u = ask[c].who /\ f
      <4>1. PICK a \in Nat, k \in Nat, n \in Nat :
                a = Cardinality(CountedOf(u)) /\ k = allowed[u] /\ n = ask[c].n
        BY <1>0, FiniteHere DEF AccountTypes, Asking
      <4>2. PICK b \in Nat : b = Cardinality(Inserting(u)') /\ b <= Cardinality(Clients)
        <5>1. Inserting(u)' \subseteq Clients
          BY DEF Inserting
        <5>2. QED
          BY <5>1, FiniteHere, FS_Subset, FS_CardinalityType
      <4>3. n <= k /\ (ask[c].p = NoPlan => MaxRows <= k)
        BY <1>0, <2>4, <3>4, <4>1 DEF AskOK
      <4>4. MaxRows <= k \/ a < n
        <5>1. CASE ask[c].p = NoPlan
          BY <4>3, <5>1
        <5>2. CASE ask[c].p # NoPlan
          <6>1. found = AppsOf(u) /\ ~(Cardinality(AppsOf(u)) >= n)
            BY <1>2, <2>a, <3>4, <4>1, <5>2 DEF AtLimit
          <6>2. Cardinality(AppsOf(u)) \in Nat /\ a <= Cardinality(AppsOf(u))
            BY <4>1, FiniteHere
          <6>3. QED
            BY <4>1, <6>1, <6>2
        <5>3. QED
          BY <5>1, <5>2
      <4>5. PICK m \in Nat : m = Cardinality(Clients)
        BY FiniteHere
      <4>6. MaxRows <= k \/ a + b + 1 <= k + m
        BY <4>2, <4>3, <4>4, <4>5
      <4>7. QED
        BY <1>0, <3>2, <4>1, <4>2, <4>5, <4>6 DEF Bounded
    <3>5. QED
      BY <3>3, <3>c, <3>4
  <2>8. QED
    BY <2>2, <2>5, <2>6, <2>7 DEF AccountInv
<1>3. QED
  <2>1. PICK all, found :
            /\ all = AppsOf(ask[c].who)
            /\ IF AtLimit(c, found) THEN Replies(c)
               ELSE ask' = [ask EXCEPT ![c].at = "insert", ![c].fresh = ask[c].p = NoPlan \/ found = all]
    BY DEF CheckPlan
  <2>2. QED
    BY <1>1, <1>2, <2>1

LEMMA InsertAppKept ==
    ASSUME AccountInv, NEW c \in Clients, InsertApp(c)
    PROVE  AccountInv'
<1>0. /\ AccountTypes /\ KeptInv /\ asks' = asks /\ asks \in Nat
      /\ ask[c] \in Asking /\ ask[c].at = "insert"
      /\ UNCHANGED <<account, granted, appointed, allowed, plan, muddled>>
  BY DEF AccountInv, AccountTypes, InsertApp, KeepUsers, KeepPlans
<1>1. AskStep(c, NoAsk) /\ NoAsk \in Asking
  BY ResizedStep, NoAskTyped DEF InsertApp
<1>2. PICK v \in Users : v = ask[c].who
  BY <1>0 DEF AccountInv, AsksInv, AskOK
<1>3. PICK a \in Apps, r \in AppRow :
          app[a].owner = Nobody /\ app' = [app EXCEPT ![a] = r] /\ r.owner = v /\ r.counted = ask[c].fresh
  <2>1. PICK f \in BOOLEAN : f = ask[c].fresh
    BY <1>0 DEF Asking
  <2>2. PICK a \in Apps, n \in Sizes :
            app[a].owner = Nobody /\ app' = [app EXCEPT ![a] = [owner |-> v, size |-> n, counted |-> f]]
    BY <1>2, <2>1 DEF InsertApp
  <2>3. [owner |-> v, size |-> n, counted |-> f] \in AppRow
    BY DEF AppRow
  <2>4. QED
    BY <2>1, <2>2, <2>3
<1>4. app[a].owner = Nobody /\ app' = [app EXCEPT ![a] = r]
  BY <1>3
<1>5. app' \in [Apps -> AppRow] /\ app'[a] = r /\ \A b \in Apps \ {a} : app'[b] = app[b]
  BY <1>0, <1>4 DEF AccountTypes
<1>6. AccountTypes' /\ KeptInv'
  BY <1>0, <1>1, <1>5 DEF AccountTypes, KeptInv, AskStep
<1>7. Grows
  BY <1>0 DEF Grows, AccountTypes
<1>8. AsksInv'
  BY <1>1, <1>6, <1>7, NoAskOK, AsksKept
<1>9. DefaultsInv'
  <2>1. Defaults' = Defaults
    BY <1>0 DEF Defaults
  <2>2. NoAsk.at \notin {"row", "commit"} /\ ~AtDefaults(NoAsk)
    BY NoAskTyped, NoAskOK
  <2>3. DefaultsMove(c, NoAsk)
    BY <1>0, <2>1, <2>2, UnmuddledOne DEF DefaultsMove
  <2>4. QED
    BY <1>1, <2>3, DefaultsKept
<1>10. BoundedInv'
  <2>1. SUFFICES ASSUME NEW u \in Users PROVE Bounded(u)'
    BY DEF BoundedInv
  <2>2. Nobody # u /\ Nobody # v
    BY AccountsAssumption
  <2>3. CASE u # v
    <3>1. CountedOf(u)' = CountedOf(u)
      BY <1>3, <1>4, <1>5, <2>2, <2>3 DEF CountedOf, AppsOf
    <3>2. Inserting(u)' = Inserting(u)
      BY <1>0, <1>1, <1>2, <2>3, NoAskTyped DEF Inserting, AskStep, Same, Stale, AtDefaults
    <3>3. QED
      BY <1>0, <3>1, <3>2 DEF AccountInv, BoundedInv, Bounded
  <2>s. CASE u = v /\ ~ask[c].fresh
    <3>1. CountedOf(u)' = CountedOf(u)
      BY <1>3, <1>4, <1>5, <2>2, <2>s DEF CountedOf, AppsOf
    <3>2. Inserting(u)' = Inserting(u)
      BY <1>0, <1>1, <1>2, <2>s, NoAskTyped DEF Inserting, AskStep, Same, Stale, AtDefaults
    <3>3. QED
      BY <1>0, <3>1, <3>2 DEF AccountInv, BoundedInv, Bounded
  <2>4. CASE u = v /\ ask[c].fresh
    <3>1. CountedOf(u)' = CountedOf(u) \cup {a} /\ a \notin CountedOf(u)
      BY <1>3, <1>4, <1>5, <2>2, <2>4 DEF CountedOf, AppsOf
    <3>2. Inserting(u)' = Inserting(u) \ {c} /\ c \in Inserting(u)
      BY <1>0, <1>1, <1>2, <2>4, NoAskTyped DEF Inserting, AskStep, Same, Stale, AtDefaults
    <3>3. PICK k \in Nat, m \in Nat : k = allowed[u] /\ m = Cardinality(Clients)
      BY <1>0, FiniteHere DEF AccountTypes
    <3>4. PICK x \in Nat, y \in Nat : x = Cardinality(CountedOf(u)) /\ y = Cardinality(Inserting(u))
      BY FiniteHere
    <3>5. Cardinality(CountedOf(u)') = x + 1
      <4>1. IsFiniteSet(CountedOf(u))
        BY FiniteHere
      <4>2. Cardinality(CountedOf(u) \cup {a}) = Cardinality(CountedOf(u)) + 1
        BY <3>1, <4>1, FS_AddElement
      <4> QED BY <3>1, <3>4, <4>2
    <3>6. Cardinality(Inserting(u)') = y - 1
      <4>1. IsFiniteSet(Inserting(u))
        BY FiniteHere
      <4>2. Cardinality(Inserting(u) \ {c}) = Cardinality(Inserting(u)) - 1
        BY <3>2, <4>1, FS_RemoveElement
      <4> QED BY <3>2, <3>4, <4>2
    <3>7. MaxRows <= k \/ x + y + 1 <= k + m
      BY <3>3, <3>4 DEF AccountInv, BoundedInv, Bounded
    <3>8. MaxRows <= k \/ (x + 1) + (y - 1) + 1 <= k + m
      BY <3>7
    <3>9. QED
      BY <1>0, <3>3, <3>5, <3>6, <3>8 DEF Bounded
  <2>5. QED
    BY <2>3, <2>4, <2>s
<1>11. QED
  BY <1>6, <1>8, <1>9, <1>10 DEF AccountInv

LEMMA DeleteAppKept ==
    ASSUME AccountInv, NEW u \in Users, NEW a \in Apps, DeleteApp(u, a)
    PROVE  AccountInv'
<1>0. /\ AccountTypes /\ asks' = asks + 1 /\ UNCHANGED <<ask, muddled, account, granted, appointed, allowed, plan>>
  BY DEF AccountInv, DeleteApp, KeepUsers, KeepPlans
<1>1. PICK r \in AppRow : r = NoApp /\ r.owner = Nobody
  BY NoAppTyped
<1>2. app' = [app EXCEPT ![a] = r]
  BY <1>1 DEF DeleteApp
<1>3. app' \in [Apps -> AppRow] /\ app'[a] = r /\ \A b \in Apps \ {a} : app'[b] = app[b]
  BY <1>0, <1>2 DEF AccountTypes
<1>4. \A x \in Users : CountedOf(x)' \subseteq CountedOf(x)
  BY <1>1, <1>3, AccountsAssumption DEF CountedOf, AppsOf
<1>5. asks' \in Nat /\ plan' \in [Plans -> PlanRow] /\ Defaults' = Defaults
  BY <1>0 DEF AccountTypes, Defaults
<1>6. \A x \in Plans : plan[x].is => plan'[x].is /\ plan'[x].default = plan[x].default
  BY <1>0
<1>7. QED
  BY <1>0, <1>3, <1>4, <1>5, <1>6, QuietAccounts

LEMMA UpdateAppLimitsKept ==
    ASSUME AccountInv, NEW c \in Clients, NEW u \in Users, NEW a \in Apps, NEW n \in Sizes, UpdateAppLimits(c, u, a, n)
    PROVE  AccountInv'
<1>0. KeepUsers /\ KeepPlans /\ KeepApps
  BY DEF UpdateAppLimits
<1>1. PICK q \in Asking : Asks(c, q) /\ q.at = "limits" /\ q.a = a /\ q.n = n
  <2>1. PICK w \in Asking : w = NoAsk
    BY NoAskTyped
  <2>2. "limits" \in AskPlaces /\ n \in Nat
    BY AccountsAssumption DEF AskPlaces
  <2>3. PICK found : Asks(c, [NoAsk EXCEPT !.at = "limits", !.who = u, !.a = a, !.n = n, !.fresh = found = Rows])
    BY DEF UpdateAppLimits
  <2>4. PICK f \in BOOLEAN : f = (found = Rows)
    OBVIOUS
  <2>5. PICK q \in Asking : q = [w EXCEPT !.at = "limits", !.who = u, !.a = a, !.n = n, !.fresh = f]
    BY <2>2 DEF Asking
  <2>6. q.at = "limits" /\ q.a = a /\ q.n = n
    BY <2>2, <2>5 DEF Asking
  <2>7. Asks(c, q)
    BY <2>1, <2>3, <2>4, <2>5
  <2>8. QED
    BY <2>6, <2>7
<1>2. AskStep(c, q) /\ asks' \in Nat
  BY <1>1, AsksBegin
<1>3. AskOK(q, account, plan, allowed) /\ ~AtDefaults(q) /\ q.at # "insert"
  BY <1>1 DEF AskOK, AtDefaults
<1>4. QED
  BY <1>0, <1>2, <1>3, OnlyMoves

\* A row is written whose limits alone are others.
LEMMA ResizeKept ==
    ASSUME AccountInv, NEW c \in Clients, asks' = asks, NEW a \in Apps, NEW n \in Sizes,
           UNCHANGED <<account, granted, appointed, allowed, plan, muddled>>,
           Resized(c), app' = [app EXCEPT ![a].size = n]
    PROVE  AccountInv'
<1>0. AccountTypes /\ KeptInv
  BY DEF AccountInv
<1>1. AskStep(c, NoAsk) /\ NoAsk \in Asking
  BY ResizedStep, NoAskTyped
<1>2. /\ app' \in [Apps -> AppRow]
      /\ \A b \in Apps : app'[b].owner = app[b].owner /\ app'[b].counted = app[b].counted
  <2>1. app[a] \in AppRow
    BY <1>0 DEF AccountTypes
  <2>2. PICK r \in AppRow : r = [app[a] EXCEPT !.size = n]
    BY <2>1 DEF AppRow
  <2>3. r.owner = app[a].owner /\ r.counted = app[a].counted
    BY <2>1, <2>2 DEF AppRow
  <2>4. app' = [app EXCEPT ![a] = r]
    BY <1>0, <2>2 DEF AccountTypes
  <2>5. QED
    BY <1>0, <2>3, <2>4 DEF AccountTypes
<1>3. AccountTypes' /\ KeptInv'
  BY <1>0, <1>1, <1>2 DEF AccountTypes, KeptInv, AskStep
<1>4. Grows
  BY <1>0 DEF Grows, AccountTypes
<1>5. \A x \in Users : CountedOf(x)' \subseteq CountedOf(x)
  BY <1>2 DEF CountedOf, AppsOf
<1>6. NoAsk.at # "insert"
  BY NoAskTyped
<1>7. QED
  BY <1>1, <1>3, <1>4, <1>5, <1>6, NoAskOK, MoveKept

LEMMA WritesRowKept ==
    ASSUME AccountInv, NEW c \in Clients, UpdateResourceLimits(c) \/ UpdateApp(c)
    PROVE  AccountInv'
<1>0. /\ AccountTypes /\ asks' = asks /\ asks' \in Nat /\ KeepUsers /\ KeepPlans /\ allowed' = allowed
      /\ UNCHANGED <<account, granted, appointed, allowed, plan, muddled>>
      /\ ask[c].at \in {"limits", "update"}
  BY DEF AccountInv, AccountTypes, UpdateResourceLimits, UpdateApp, KeepUsers, KeepPlans
<1>1. PICK a \in Apps, n \in Sizes : a = ask[c].a /\ n = ask[c].n
  BY <1>0 DEF AccountInv, AsksInv, AskOK
<1>2. CASE Replies(c) /\ UNCHANGED <<app, crowded>>
  <2>1. AskStep(c, NoAsk) /\ NoAsk \in Asking
    BY <1>2, RepliesEnd, NoAskTyped
  <2>2. AskOK(NoAsk, account, plan, allowed) /\ ~AtDefaults(NoAsk) /\ NoAsk.at # "insert"
    BY NoAskOK, NoAskTyped
  <2>3. KeepApps
    BY <1>0, <1>2 DEF KeepApps
  <2>4. QED
    BY <1>0, <2>1, <2>2, <2>3, OnlyMoves
<1>3. CASE Resized(c) /\ app' = [app EXCEPT ![a].size = n]
  BY <1>0, <1>3, ResizeKept
<1>4. QED
  BY <1>1, <1>2, <1>3 DEF UpdateResourceLimits, UpdateApp

LEMMA EditAppKept ==
    ASSUME AccountInv, NEW c \in Clients, NEW a \in Apps, NEW n \in Sizes, EditApp(c, a, n)
    PROVE  AccountInv'
<1>0. KeepUsers /\ KeepPlans /\ KeepApps
  BY DEF EditApp
<1>1. PICK q \in Asking : Asks(c, q) /\ q.at = "update" /\ q.a = a /\ q.n = n
  <2>1. PICK w \in Asking : w = NoAsk
    BY NoAskTyped
  <2>2. "update" \in AskPlaces /\ n \in Nat
    BY AccountsAssumption DEF AskPlaces
  <2>3. PICK q \in Asking : q = [w EXCEPT !.at = "update", !.a = a, !.n = n]
    BY <2>2 DEF Asking
  <2>4. q.at = "update" /\ q.a = a /\ q.n = n
    BY <2>2, <2>3 DEF Asking
  <2>5. QED
    BY <2>1, <2>3, <2>4 DEF EditApp
<1>2. AskStep(c, q) /\ asks' \in Nat
  BY <1>1, AsksBegin
<1>3. AskOK(q, account, plan, allowed) /\ ~AtDefaults(q) /\ q.at # "insert"
  BY <1>1 DEF AskOK, AtDefaults
<1>4. QED
  BY <1>0, <1>2, <1>3, OnlyMoves
-----------------------------------------------------------------------------
LEMMA AuthSettingsKept ==
    ASSUME AccountInv, NEW u \in Users, UpdateAuthSettings(u)
    PROVE  AccountInv'
<1>0. /\ AccountTypes /\ asks' = asks + 1 /\ UNCHANGED <<ask, muddled, account, granted, appointed, allowed, plan, app>>
  BY DEF AccountInv, UpdateAuthSettings, KeepUsers, KeepPlans, KeepApps
<1>1. asks' \in Nat /\ plan' \in [Plans -> PlanRow] /\ app' \in [Apps -> AppRow] /\ Defaults' = Defaults
  BY <1>0 DEF AccountTypes, Defaults
<1>2. \A x \in Plans : plan[x].is => plan'[x].is /\ plan'[x].default = plan[x].default
  BY <1>0
<1>3. \A x \in Users : CountedOf(x)' \subseteq CountedOf(x)
  BY <1>0 DEF CountedOf, AppsOf
<1>4. QED
  BY <1>0, <1>1, <1>2, <1>3, QuietAccounts

LEMMA AccountsStillKept ==
    ASSUME AccountInv, UNCHANGED accountVars
    PROVE  AccountInv'
<1>0. /\ AccountTypes /\ UNCHANGED <<ask, asks, muddled, account, granted, appointed, allowed, plan, app>>
  BY DEF AccountInv, accountVars
<1>1. asks' \in Nat /\ plan' \in [Plans -> PlanRow] /\ app' \in [Apps -> AppRow] /\ Defaults' = Defaults
  BY <1>0 DEF AccountTypes, Defaults
<1>2. \A x \in Plans : plan[x].is => plan'[x].is /\ plan'[x].default = plan[x].default
  BY <1>0
<1>3. \A x \in Users : CountedOf(x)' \subseteq CountedOf(x)
  BY <1>0 DEF CountedOf, AppsOf
<1>4. QED
  BY <1>0, <1>1, <1>2, <1>3, QuietAccounts

LEMMA AccountsCrashKept ==
    ASSUME AccountInv, AccountsCrash
    PROVE  AccountInv'
<1>0. /\ AccountTypes /\ KeptInv /\ ask' = [c \in Clients |-> NoAsk]
      /\ UNCHANGED <<asks, muddled, account, granted, appointed, allowed, plan, app>>
  BY DEF AccountInv, AccountsCrash, KeepUsers, KeepPlans, KeepApps
<1>1. AccountTypes' /\ KeptInv'
  BY <1>0, NoAskTyped DEF AccountTypes, KeptInv
<1>2. \A c \in Clients : ask'[c] = NoAsk
  BY <1>0
<1>3. AsksInv'
  BY <1>2, NoAskOK DEF AsksInv
<1>4. DefaultsInv'
  <2>1. Defaults' = Defaults
    BY <1>0 DEF Defaults
  <2>2. \A c \in Clients : ~AtDefaults(ask'[c]) /\ ask'[c].at = "idle"
    BY <1>2, NoAskOK, NoAskTyped
  <2>3. muddled \/ \A p, r \in Defaults : p = r
    BY DEF AccountInv, DefaultsInv
  <2>4. QED
    BY <1>0, <2>1, <2>2, <2>3 DEF DefaultsInv
<1>5. Grows
  BY <1>0 DEF Grows, AccountTypes
<1>6. \A u \in Users : CountedOf(u)' \subseteq CountedOf(u) /\ Inserting(u)' \subseteq Inserting(u)
  BY <1>0, <1>2, NoAskTyped DEF CountedOf, AppsOf, Inserting
<1>7. BoundedInv'
  BY <1>1, <1>5, <1>6, BoundedKept
<1>8. QED
  BY <1>1, <1>3, <1>4, <1>7 DEF AccountInv

LEMMA AccountsInitInv == AccountsInit => AccountInv
<1> SUFFICES ASSUME AccountsInit PROVE AccountInv
  OBVIOUS
<1>0. /\ plan = [p \in Plans |-> IF p = FirstPlan THEN [NewPlan(1) EXCEPT !.default = TRUE]
                                 ELSE [NewPlan(0) EXCEPT !.is = FALSE]]
      /\ account = [u \in Users |-> [is |-> u = Root, role |-> IF u = Root THEN "admin" ELSE "user",
                                     plan |-> NoPlan, token |-> u = Root]]
      /\ app = [a \in Apps |-> NoApp]
      /\ ask = [c \in Clients |-> NoAsk] /\ asks = 0
      /\ granted = [u \in Users |-> NoPlan] /\ appointed = [u \in Users |-> account[u].role]
      /\ allowed = [u \in Users |-> 0]
  BY DEF AccountsInit
<1>1. ASSUME NEW p \in Plans PROVE plan[p] \in PlanRow /\ (p # FirstPlan => plan[p].is = FALSE)
  <2>1. CASE p = FirstPlan
    <3>1. plan[p] = [NewPlan(1) EXCEPT !.default = TRUE]
      BY <1>0, <2>1
    <3>2. [NewPlan(1) EXCEPT !.default = TRUE] \in PlanRow
      BY DEF NewPlan, PlanRow
    <3>3. QED
      BY <2>1, <3>1, <3>2
  <2>2. CASE p # FirstPlan
    <3>1. plan[p] = [NewPlan(0) EXCEPT !.is = FALSE]
      BY <1>0, <2>2
    <3>2. [NewPlan(0) EXCEPT !.is = FALSE] \in PlanRow /\ [NewPlan(0) EXCEPT !.is = FALSE].is = FALSE
      BY DEF NewPlan, PlanRow
    <3>3. QED
      BY <3>1, <3>2
  <2>3. QED
    BY <2>1, <2>2
<1>2. ASSUME NEW u \in Users
      PROVE  /\ account[u] \in UserRow /\ account[u].plan = NoPlan
             /\ account[u].role \in Roles /\ (~account[u].is => account[u].role = "user")
  <2>1. CASE u = Root
    <3>1. account[u] = [is |-> TRUE, role |-> "admin", plan |-> NoPlan, token |-> TRUE]
      BY <1>0, <2>1
    <3>2. QED
      BY <3>1 DEF UserRow, Roles
  <2>2. CASE u # Root
    <3>1. account[u] = [is |-> FALSE, role |-> "user", plan |-> NoPlan, token |-> FALSE]
      BY <1>0, <2>2
    <3>2. QED
      BY <3>1 DEF UserRow, Roles
  <2>3. QED
    BY <2>1, <2>2
<1>3. AccountTypes
  <2>1. plan \in [Plans -> PlanRow]
    BY <1>0, <1>1
  <2>2. account \in [Users -> UserRow]
    BY <1>0, <1>2
  <2>3. app \in [Apps -> AppRow]
    BY <1>0, NoAppTyped
  <2>4. ask \in [Clients -> Asking]
    BY <1>0, NoAskTyped
  <2>5. appointed \in [Users -> Roles]
    BY <1>0, <1>2
  <2>6. granted \in [Users -> Plans \cup {NoPlan}] /\ allowed \in [Users -> Nat] /\ asks \in Nat
    BY <1>0
  <2>7. QED
    BY <2>1, <2>2, <2>3, <2>4, <2>5, <2>6 DEF AccountTypes
<1>4. AsksInv
  BY <1>0, NoAskOK DEF AsksInv
<1>5. KeptInv
  BY <1>0, <1>2 DEF KeptInv
<1>6. DefaultsInv
  <2>1. \A p \in Defaults : p = FirstPlan
    BY <1>1 DEF Defaults
  <2>2. \A c \in Clients : ~AtDefaults(ask[c]) /\ ask[c].at = "idle"
    BY <1>0, NoAskOK, NoAskTyped
  <2>3. QED
    BY <2>1, <2>2 DEF DefaultsInv
<1>7. BoundedInv
  <2>1. ASSUME NEW u \in Users PROVE Bounded(u)
    <3>1. CountedOf(u) = {}
      <4>1. \A a \in Apps : app[a].owner = Nobody
        BY <1>0, NoAppTyped
      <4>2. QED
        BY <4>1, AccountsAssumption DEF CountedOf, AppsOf
    <3>2. Inserting(u) = {}
      <4>1. \A c \in Clients : ask[c].at = "idle"
        BY <1>0, NoAskTyped
      <4>2. QED
        BY <4>1 DEF Inserting
    <3>3. Cardinality(CountedOf(u)) = 0 /\ Cardinality(Inserting(u)) = 0 /\ allowed[u] = 0
      BY <1>0, <3>1, <3>2, FS_EmptySet
    <3>4. QED
      BY <3>3, FiniteHere DEF Bounded
  <2>2. QED
    BY <2>1 DEF BoundedInv
<1>8. QED
  BY <1>3, <1>4, <1>5, <1>6, <1>7 DEF AccountInv

LEMMA AccountsNextInv == AccountInv /\ [AccountsNext]_accountVars => AccountInv'
<1> SUFFICES ASSUME AccountInv, [AccountsNext]_accountVars PROVE AccountInv'
  OBVIOUS
<1>1. ASSUME NEW c \in Clients, FindDefault(c) \/ AssignDefault(c) \/ Enter(c) \/ UpdateRole(c) \/ UpdatePlanID(c)
      PROVE  AccountInv'
  BY <1>1, FindDefaultKept, AssignDefaultKept, EnterKept, UpdateRoleKept, UpdatePlanIDKept
<1>2. ASSUME NEW c \in Clients, WritePlan(c) \/ UnsetDefaults(c) \/ SetNewDefault(c)
      PROVE  AccountInv'
  BY <1>2, WritePlanKept, UnsetDefaultsKept, SetNewDefaultKept
<1>3. ASSUME NEW c \in Clients,
             \/ CheckPlan(c) \/ InsertApp(c) \/ UpdateResourceLimits(c) \/ UpdateApp(c)
             \/ \E a \in Apps, n \in Sizes : EditApp(c, a, n)
      PROVE  AccountInv'
  BY <1>3, CheckPlanKept, InsertAppKept, WritesRowKept, EditAppKept
<1>4. ASSUME NEW c \in Clients, NEW u \in Users, Login(c, u) \/ CreateApp(c, u)
      PROVE  AccountInv'
  BY <1>4, LoginKept, CreateAppKept
<1>5. ASSUME NEW c \in Clients, NEW u \in Users, NEW v \in Users, NEW r \in {"user", "admin"}, UpdateUserRole(c, u, v, r)
      PROVE  AccountInv'
  BY <1>5, UpdateUserRoleKept DEF Roles
<1>6. ASSUME NEW c \in Clients, NEW u \in Users, NEW v \in Users, NEW p \in Plans, AssignUserPlan(c, u, v, p)
      PROVE  AccountInv'
  BY <1>6, AssignUserPlanKept
<1>7. ASSUME NEW c \in Clients, NEW u \in Users, NEW p \in Plans, SetDefault(c, u, p)
      PROVE  AccountInv'
  BY <1>7, SetDefaultKept
<1>8. ASSUME NEW p \in Plans, plan[p].is
      PROVE  /\ \A n \in Allowances : [plan[p] EXCEPT !.apps = n] \in PlanRow /\ [plan[p] EXCEPT !.apps = n].is
             /\ \A b \in BOOLEAN : /\ [plan[p] EXCEPT !.active = b] \in PlanRow /\ [plan[p] EXCEPT !.active = b].is
                                   /\ [plan[p] EXCEPT !.default = b] \in PlanRow /\ [plan[p] EXCEPT !.default = b].is
  <2>1. plan[p] \in PlanRow
    BY DEF AccountInv, AccountTypes
  <2>2. QED
    BY <1>8, <2>1 DEF PlanRow
<1>9. ASSUME NEW c \in Clients, NEW u \in Users, NEW p \in Plans, NEW n \in Allowances,
             UpdatePlan(c, u, p, [plan[p] EXCEPT !.apps = n])
      PROVE  AccountInv'
  <2>1. plan[p].is
    BY <1>9 DEF UpdatePlan
  <2>2. PICK row \in PlanRow : row = [plan[p] EXCEPT !.apps = n] /\ row.is
    BY <1>8, <2>1
  <2>3. QED
    BY <1>9, <2>2, UpdatePlanKept
<1>10. ASSUME NEW c \in Clients, NEW u \in Users, NEW p \in Plans, NEW b \in BOOLEAN,
              UpdatePlan(c, u, p, [plan[p] EXCEPT !.active = b])
       PROVE  AccountInv'
  <2>1. plan[p].is
    BY <1>10 DEF UpdatePlan
  <2>2. PICK row \in PlanRow : row = [plan[p] EXCEPT !.active = b] /\ row.is
    BY <1>8, <2>1
  <2>3. QED
    BY <1>10, <2>2, UpdatePlanKept
<1>11. ASSUME NEW c \in Clients, NEW u \in Users, NEW p \in Plans, NEW b \in BOOLEAN,
              UpdatePlan(c, u, p, [plan[p] EXCEPT !.default = b])
       PROVE  AccountInv'
  <2>1. plan[p].is
    BY <1>11 DEF UpdatePlan
  <2>2. PICK row \in PlanRow : row = [plan[p] EXCEPT !.default = b] /\ row.is
    BY <1>8, <2>1
  <2>3. QED
    BY <1>11, <2>2, UpdatePlanKept
<1>12. ASSUME NEW c \in Clients, NEW u \in Users, NEW a \in Apps, NEW n \in Sizes, UpdateAppLimits(c, u, a, n)
       PROVE  AccountInv'
  BY <1>12, UpdateAppLimitsKept
<1>13. ASSUME NEW u \in Users, UpdateAuthSettings(u) PROVE AccountInv'
  BY <1>13, AuthSettingsKept
<1>14. ASSUME NEW u \in Users, NEW p \in Plans, DeletePlan(u, p) \/ \E n \in Allowances : CreatePlan(u, p, n)
       PROVE  AccountInv'
  BY <1>14, DeletePlanKept, CreatePlanKept
<1>15. ASSUME NEW u \in Users, NEW a \in Apps, DeleteApp(u, a) PROVE AccountInv'
  BY <1>15, DeleteAppKept
<1>16. CASE AccountsCrash
  BY <1>16, AccountsCrashKept
<1>17. CASE UNCHANGED accountVars
  BY <1>17, AccountsStillKept
<1>18. CASE AccountsNext
  BY <1>1, <1>2, <1>3, <1>4, <1>5, <1>6, <1>7, <1>9, <1>10, <1>11, <1>12, <1>13, <1>14, <1>15, <1>16, <1>18
     DEF AccountsNext
<1>19. QED
  BY <1>17, <1>18

LEMMA AccountsAlways == AccountsSpec => []AccountInv
BY AccountsInitInv, AccountsNextInv, PTL DEF AccountsSpec

LEMMA AccountInvTyped == AccountInv => AccountsTypeOK
<1> SUFFICES ASSUME AccountInv PROVE AccountsTypeOK
  OBVIOUS
<1>0. AccountTypes
  BY DEF AccountInv
<1>1. \A p \in Plans : plan[p].apps \in Allowances \cup {0, 1}
  BY <1>0 DEF AccountTypes, PlanRow
<1>2. \A u \in Users : account[u].plan \in Plans \cup {NoPlan} /\ account[u].role \in {"user", "admin"}
  BY <1>0 DEF AccountTypes, UserRow, Roles
<1>3. \A a \in Apps : app[a].owner \in Users \cup {Nobody} /\ app[a].size \in Sizes \cup {0}
  BY <1>0 DEF AccountTypes, AppRow
<1>4. \A c \in Clients : ask[c].at \in AskPlaces
  BY <1>0 DEF AccountTypes, Asking
<1>5. QED
  BY <1>1, <1>2, <1>3, <1>4 DEF AccountsTypeOK

\* The rows of users, plans and apps stay what their columns allow.
THEOREM AccountsTyped == AccountsSpec => []AccountsTypeOK
BY AccountInvTyped, AccountsAlways, PTL

\* Logins and other requests do not undo the role and the plan that an admin gave; there
\* is one default plan, unless requests crossed since a SetDefault that was alone; and
\* however many creations run at once, of the apps that were created after all others were
\* counted a user has less than one too many for each request there can be.
THEOREM UsersSound == AccountsSpec => []UsersAreSound
<1>1. AccountInv => UsersAreSound
  <2> SUFFICES ASSUME AccountInv PROVE UsersAreSound
    OBVIOUS
  <2>1. \A u \in Users : account[u].role = appointed[u] /\ granted[u] \in {NoPlan, account[u].plan}
    BY DEF AccountInv, KeptInv
  <2>2. ASSUME ~muddled PROVE Cardinality(Defaults) <= 1
    <3>1. \A p, r \in Defaults : p = r
      BY <2>2 DEF AccountInv, DefaultsInv
    <3>2. CASE Defaults = {}
      BY <3>2, FS_EmptySet
    <3>3. ASSUME NEW p \in Defaults PROVE Cardinality(Defaults) <= 1
      <4>1. Defaults = {p}
        BY <3>1
      <4>2. QED
        <5>1. Cardinality({p}) = 1
          BY FS_Singleton
        <5>2. QED
          BY <4>1, <5>1
    <3>4. QED
      BY <3>2, <3>3
  <2>3. ASSUME NEW u \in Users PROVE Cardinality(CountedOf(u)) <= allowed[u] + Cardinality(Clients) - 1
    <3>1. PICK k \in Nat, m \in Nat \ {0} : k = allowed[u] /\ m = Cardinality(Clients)
      BY FiniteHere DEF AccountInv, AccountTypes
    <3>2. PICK x \in Nat, y \in Nat : x = Cardinality(CountedOf(u)) /\ y = Cardinality(Inserting(u)) /\ x <= MaxRows
      BY FiniteHere
    <3>3. MaxRows <= k \/ x + y + 1 <= k + m
      BY <3>1, <3>2 DEF AccountInv, BoundedInv, Bounded
    <3>4. x <= k + m - 1
      BY <3>2, <3>3, FiniteHere
    <3>5. QED
      BY <3>1, <3>2, <3>4
  <2>4. QED
    BY <2>1, <2>2, <2>3 DEF UsersAreSound, AccountsAreKept, AppsBounded, CountedOf
<1>2. QED
  BY <1>1, AccountsAlways, PTL
-----------------------------------------------------------------------------
(* The limits of apps *)

\* A request that has summed up the others' limits, and that no change of a row made stale,
\* still finds room for its own.
Summed(q) == q.at = "limits" /\ q.fresh => Taken(Rows \ {q.a}) + q.n <= Capacity
LimitsInv == LimitsFit /\ \A c \in Clients : Summed(ask[c])

LEMMA WeightsTyped ==
    ASSUME AccountTypes
    PROVE  /\ IsFiniteSet(Rows) /\ Rows \subseteq Apps /\ Capacity \in Nat /\ Sizes \subseteq Nat
           /\ \A a \in Apps : Weights[a] \in Nat /\ Weights[a] = app[a].size
           /\ \A S \in SUBSET Rows : IsFiniteSet(S) /\ Taken(S) \in Nat
<1>1. Sizes \subseteq Nat /\ Capacity \in Nat
  BY AccountsAssumption
<1>2. \A a \in Apps : app[a].size \in Sizes \cup {0}
  BY DEF AccountTypes, AppRow
<1>3. \A a \in Apps : Weights[a] \in Nat /\ Weights[a] = app[a].size
  BY <1>1, <1>2 DEF Weights
<1>4. Rows \subseteq Apps /\ IsFiniteSet(Rows)
  BY FiniteHere, FS_Subset DEF Rows
<1>5. ASSUME NEW S \in SUBSET Rows PROVE IsFiniteSet(S) /\ Taken(S) \in Nat
  <2>1. IsFiniteSet(S) /\ \A a \in S : Weights[a] \in Nat
    BY <1>3, <1>4, FS_Subset
  <2>2. QED
    BY <2>1, SumIsNat DEF Taken
<1>6. QED
  BY <1>1, <1>3, <1>4, <1>5

LEMMA WeightsNext ==
    AccountTypes' => IsFiniteSet(Rows') /\ Rows' \subseteq Apps /\ \A x \in Apps : Weights'[x] \in Nat
<1>1. AccountTypes => IsFiniteSet(Rows) /\ Rows \subseteq Apps /\ \A x \in Apps : Weights[x] \in Nat
  BY WeightsTyped
<1>2. AccountTypes' => (IsFiniteSet(Rows) /\ Rows \subseteq Apps /\ \A x \in Apps : Weights[x] \in Nat)'
  BY <1>1, PTL
<1>3. QED
  BY <1>2

LEMMA LimitsStill ==
    ASSUME LimitsInv, UNCHANGED <<app, crowded>>,
           \A d \in Clients : ask'[d] = ask[d] \/ ask'[d].at # "limits"
    PROVE  LimitsInv'
<1>1. Rows' = Rows /\ \A b : Taken(b)' = Taken(b)
  BY DEF Taken, Rows, Weights
<1>2. ASSUME NEW d \in Clients PROVE Summed(ask[d])'
  BY <1>1 DEF LimitsInv, Summed
<1>3. LimitsFit'
  BY <1>1 DEF LimitsInv, LimitsFit
<1>4. QED
  BY <1>2, <1>3 DEF LimitsInv

\* Steps that leave apps alone, and whose request does not come to be one that has summed up.
LEMMA PutLeaves ==
    ASSUME AccountTypes, LimitsInv, NEW c \in Clients, NEW q, ask' = [ask EXCEPT ![c] = q],
           q.at # "limits", UNCHANGED <<app, crowded>>
    PROVE  LimitsInv'
<1>1. \A d \in Clients : ask'[d] = ask[d] \/ ask'[d].at # "limits"
  BY DEF AccountTypes
<1>2. QED
  BY <1>1, LimitsStill

LEMMA AsksLeaves ==
    ASSUME AccountTypes, LimitsInv, NEW c \in Clients, NEW q, Asks(c, q), q.at # "limits", UNCHANGED <<app, crowded>>
    PROVE  LimitsInv'
BY PutLeaves DEF Asks

LEMMA PlansBegun ==
    ASSUME AccountInv, LimitsInv, NEW c \in Clients, NEW q \in Asking, AtDefaults(q), AsksPlans(c, q),
           UNCHANGED <<app, crowded>>
    PROVE  LimitsInv'
<1>1. PICK r \in Asking : /\ AskStep(c, r) /\ Same(r, q)
                          /\ \A d \in Clients \ {c} : ~AtDefaults(ask[d]) => ask'[d] = ask[d]
  BY PlansBegin
<1>2. ASSUME NEW d \in Clients PROVE ask'[d] = ask[d] \/ ask'[d].at # "limits"
  <2>1. CASE d = c
    BY <1>1, <2>1 DEF AskStep, Same, AtDefaults
  <2>2. CASE d # c
    BY <1>1, <2>2 DEF AskStep, Same, AtDefaults
  <2>3. QED
    BY <2>1, <2>2
<1>3. QED
  BY <1>2, LimitsStill

LEMMA RepliesLeaves ==
    ASSUME AccountTypes, LimitsInv, NEW c \in Clients, Replies(c), UNCHANGED <<app, crowded>>
    PROVE  LimitsInv'
BY PutLeaves, NoAskTyped DEF Replies

LEMMA MovesLeaves ==
    ASSUME AccountTypes, LimitsInv, NEW c \in Clients, NEW place \in AskPlaces \ {"limits"}, Moves(c, place),
           UNCHANGED <<app, crowded>>
    PROVE  LimitsInv'
<1>1. ask[c] \in Asking
  BY DEF AccountTypes
<1>2. ask' = [ask EXCEPT ![c] = [ask[c] EXCEPT !.at = place]] /\ [ask[c] EXCEPT !.at = place].at = place
  BY <1>1 DEF Moves, Asking, AccountTypes
<1>3. QED
  BY <1>2, PutLeaves

LEMMA LoginLeaves ==
    ASSUME AccountTypes, LimitsInv, NEW c \in Clients,
           \/ FindDefault(c) \/ AssignDefault(c) \/ Enter(c)
           \/ \E u \in Users : Login(c, u)
    PROVE  LimitsInv'
<1>0. UNCHANGED <<app, crowded>>
  BY DEF FindDefault, AssignDefault, Enter, Login, KeepApps
<1>1. CASE FindDefault(c)
  <2>1. ask[c] \in Asking /\ "enter" \in AskPlaces \ {"limits"}
    BY DEF AccountTypes, AskPlaces
  <2>2. ASSUME NEW p \in Defaults, ask' = [ask EXCEPT ![c].at = "assign", ![c].p = p] PROVE LimitsInv'
    <3>1. PICK q : q = [ask[c] EXCEPT !.at = "assign", !.p = p]
      OBVIOUS
    <3>2. q.at = "assign"
      BY <2>1, <3>1 DEF Asking
    <3>3. ask' = [ask EXCEPT ![c] = q]
      BY <2>2, <3>1 DEF AccountTypes
    <3>4. QED
      BY <1>0, <3>2, <3>3, PutLeaves
  <2>3. CASE Moves(c, "enter")
    BY <1>0, <2>1, <2>3, MovesLeaves
  <2>4. QED
    BY <1>1, <2>2, <2>3 DEF FindDefault
<1>2. CASE AssignDefault(c)
  <2>1. Moves(c, "enter") /\ "enter" \in AskPlaces \ {"limits"}
    BY <1>2 DEF AssignDefault, AskPlaces
  <2>2. QED
    BY <1>0, <2>1, MovesLeaves
<1>3. CASE Enter(c)
  BY <1>0, <1>3, RepliesLeaves DEF Enter
<1>4. ASSUME NEW u \in Users, Login(c, u) PROVE LimitsInv'
  <2>1. PICK w \in Asking, r \in {RoleKept(u)} : w = NoAsk
    BY NoAskTyped
  <2>2. PICK q : q = [w EXCEPT !.at = "default", !.who = u, !.role = r]
    OBVIOUS
  <2>3. q.at = "default"
    BY <2>2 DEF Asking
  <2>4. Asks(c, q)
    BY <1>4, <2>1, <2>2 DEF Login
  <2>5. QED
    BY <1>0, <2>3, <2>4, AsksLeaves
<1>5. QED
  BY <1>1, <1>2, <1>3, <1>4

LEMMA GrantsLeave ==
    ASSUME AccountTypes, LimitsInv, NEW c \in Clients,
           \/ UpdateRole(c) \/ UpdatePlanID(c)
           \/ \E u, v \in Users : \/ \E r \in {"user", "admin"} : UpdateUserRole(c, u, v, r)
                                  \/ \E p \in Plans : AssignUserPlan(c, u, v, p)
    PROVE  LimitsInv'
<1>0. UNCHANGED <<app, crowded>>
  BY DEF UpdateRole, UpdatePlanID, UpdateUserRole, AssignUserPlan, KeepApps
<1>1. PICK w \in Asking : w = NoAsk
  BY NoAskTyped
<1>2. CASE UpdateRole(c) \/ UpdatePlanID(c)
  BY <1>0, <1>2, RepliesLeaves DEF UpdateRole, UpdatePlanID
<1>3. ASSUME NEW u \in Users, NEW v \in Users, NEW r \in {"user", "admin"}, UpdateUserRole(c, u, v, r)
      PROVE  LimitsInv'
  <2>1. PICK q : q = [w EXCEPT !.at = "role", !.who = u, !.v = v, !.role = r]
    OBVIOUS
  <2>2. q.at = "role"
    BY <2>1 DEF Asking
  <2>3. Asks(c, q)
    BY <1>1, <1>3, <2>1 DEF UpdateUserRole
  <2>4. QED
    BY <1>0, <2>2, <2>3, AsksLeaves
<1>4. ASSUME NEW u \in Users, NEW v \in Users, NEW p \in Plans, AssignUserPlan(c, u, v, p) PROVE LimitsInv'
  <2>1. PICK q : q = [w EXCEPT !.at = "grant", !.who = u, !.v = v, !.p = p]
    OBVIOUS
  <2>2. q.at = "grant"
    BY <2>1 DEF Asking
  <2>3. Asks(c, q)
    BY <1>1, <1>4, <2>1 DEF AssignUserPlan
  <2>4. QED
    BY <1>0, <2>2, <2>3, AsksLeaves
<1>5. QED
  BY <1>2, <1>3, <1>4

LEMMA PlansLeave ==
    ASSUME AccountInv, LimitsInv, NEW c \in Clients,
           \/ WritePlan(c) \/ UnsetDefaults(c) \/ SetNewDefault(c)
           \/ \E u \in Users, p \in Plans : SetDefault(c, u, p) \/ \E row \in PlanRow : UpdatePlan(c, u, p, row)
    PROVE  LimitsInv'
<1>0. UNCHANGED <<app, crowded>> /\ AccountTypes
  BY DEF AccountInv, WritePlan, UnsetDefaults, SetNewDefault, SetDefault, UpdatePlan, KeepApps
<1>1. PICK w \in Asking : w = NoAsk
  BY NoAskTyped
<1>2. CASE WritePlan(c) \/ SetNewDefault(c)
  BY <1>0, <1>2, RepliesLeaves DEF WritePlan, SetNewDefault
<1>3. CASE UnsetDefaults(c)
  <2>1. PICK q : q = [ask[c] EXCEPT !.at = "commit", !.sees = Defaults]
    OBVIOUS
  <2>2. q.at = "commit"
    BY <2>1 DEF AccountTypes, Asking
  <2>3. ask' = [ask EXCEPT ![c] = q]
    BY <1>3, <2>1 DEF UnsetDefaults, AccountTypes
  <2>4. QED
    BY <1>0, <2>2, <2>3, PutLeaves
<1>4. ASSUME NEW u \in Users, NEW p \in Plans, SetDefault(c, u, p) PROVE LimitsInv'
  <2>1. "defaults" \in AskPlaces
    BY DEF AskPlaces
  <2>2. PICK q \in Asking : q = [w EXCEPT !.at = "defaults", !.who = u, !.p = p]
    BY <2>1 DEF Asking
  <2>3. AtDefaults(q)
    BY <2>2 DEF Asking, AtDefaults
  <2>4. AsksPlans(c, q)
    BY <1>1, <1>4, <2>2 DEF SetDefault
  <2>5. QED
    BY <1>0, <2>3, <2>4, PlansBegun
<1>5. ASSUME NEW u \in Users, NEW p \in Plans, NEW row \in PlanRow, UpdatePlan(c, u, p, row) PROVE LimitsInv'
  <2>1. "row" \in AskPlaces
    BY DEF AskPlaces
  <2>2. PICK q \in Asking : q = [w EXCEPT !.at = "row", !.who = u, !.p = p, !.row = row]
    BY <2>1 DEF Asking
  <2>3. AtDefaults(q)
    BY <2>2 DEF Asking, AtDefaults
  <2>4. AsksPlans(c, q)
    BY <1>1, <1>5, <2>2 DEF UpdatePlan
  <2>5. QED
    BY <1>0, <2>3, <2>4, PlansBegun
<1>6. QED
  BY <1>2, <1>3, <1>4, <1>5

LEMMA AppsLeave ==
    ASSUME AccountTypes, LimitsInv, NEW c \in Clients,
           \/ CheckPlan(c) \/ \E u \in Users : CreateApp(c, u)
           \/ \E a \in Apps, n \in Sizes : EditApp(c, a, n)
    PROVE  LimitsInv'
<1>0. UNCHANGED <<app, crowded>>
  BY DEF CheckPlan, CreateApp, EditApp, KeepApps
<1>1. CASE CheckPlan(c)
  <2>1. CASE Replies(c)
    BY <1>0, <2>1, RepliesLeaves
  <2>2. ASSUME NEW f, ask' = [ask EXCEPT ![c].at = "insert", ![c].fresh = f] PROVE LimitsInv'
    <3>1. PICK q : q = [ask[c] EXCEPT !.at = "insert", !.fresh = f]
      OBVIOUS
    <3>2. q.at = "insert"
      BY <3>1 DEF AccountTypes, Asking
    <3>3. ask' = [ask EXCEPT ![c] = q]
      BY <2>2, <3>1 DEF AccountTypes
    <3>4. QED
      BY <1>0, <3>2, <3>3, PutLeaves
  <2>3. PICK found, all :
            IF AtLimit(c, found) THEN Replies(c)
            ELSE ask' = [ask EXCEPT ![c].at = "insert", ![c].fresh = ask[c].p = NoPlan \/ found = all]
    BY <1>1 DEF CheckPlan
  <2>4. QED
    BY <2>1, <2>2, <2>3
<1>2. PICK w \in Asking : w = NoAsk
  BY NoAskTyped
<1>3. ASSUME NEW u \in Users, CreateApp(c, u) PROVE LimitsInv'
  <2>1. PICK p, n : Asks(c, [w EXCEPT !.at = "count", !.who = u, !.p = p, !.n = n])
    BY <1>2, <1>3 DEF CreateApp
  <2>2. PICK q : q = [w EXCEPT !.at = "count", !.who = u, !.p = p, !.n = n]
    OBVIOUS
  <2>3. q.at = "count"
    BY <2>2 DEF Asking
  <2>4. QED
    BY <1>0, <2>1, <2>2, <2>3, AsksLeaves
<1>4. ASSUME NEW a \in Apps, NEW n \in Sizes, EditApp(c, a, n) PROVE LimitsInv'
  <2>1. PICK q : q = [w EXCEPT !.at = "update", !.a = a, !.n = n]
    OBVIOUS
  <2>2. q.at = "update"
    BY <2>1 DEF Asking
  <2>3. Asks(c, q)
    BY <1>2, <1>4, <2>1 DEF EditApp
  <2>4. QED
    BY <1>0, <2>2, <2>3, AsksLeaves
<1>5. QED
  BY <1>1, <1>3, <1>4

\* A row that changes makes whoever has summed up stale.
LEMMA ResizedStales ==
    ASSUME AccountTypes, NEW c \in Clients, Resized(c), NEW d \in Clients
    PROVE  ~(ask'[d].at = "limits" /\ ask'[d].fresh)
<1>1. CASE d = c
  <2>1. ask'[d] = NoAsk
    BY <1>1 DEF Resized
  <2>2. QED
    BY <2>1, NoAskTyped
<1>2. CASE d # c
  <2>1. ask[d] \in Asking
    BY DEF AccountTypes
  <2>2. PICK b \in BOOLEAN : b = (ask[d].fresh /\ ask[d].at # "limits")
    OBVIOUS
  <2>3. ask'[d] = [ask[d] EXCEPT !.fresh = b]
    BY <1>2, <2>1, <2>2 DEF Resized
  <2>4. ask'[d].at = ask[d].at /\ ask'[d].fresh = b
    BY <2>1, <2>3 DEF Asking
  <2>5. QED
    BY <2>2, <2>4
<1>3. QED
  BY <1>1, <1>2

\* So does a row that is written whose limits were compared with nothing.
LEMMA UncomparedFits ==
    ASSUME AccountTypes, LimitsInv, NEW c \in Clients, InsertApp(c) \/ UpdateApp(c)
    PROVE  LimitsInv'
<1>1. CASE Replies(c) /\ UNCHANGED <<app, crowded>>
  BY <1>1, RepliesLeaves
<1>2. CASE Resized(c) /\ crowded'
  <2>1. \A d \in Clients : Summed(ask[d])'
    BY <1>2, ResizedStales DEF Summed
  <2>2. LimitsFit'
    BY <1>2 DEF LimitsFit
  <2>3. QED
    BY <2>1, <2>2 DEF LimitsInv
<1>3. QED
  BY <1>1, <1>2 DEF InsertApp, UpdateApp

LEMMA DeleteAppFits ==
    ASSUME AccountTypes, LimitsInv, NEW u \in Users, NEW a \in Apps, DeleteApp(u, a)
    PROVE  LimitsInv'
<1>0. app' = [app EXCEPT ![a] = NoApp] /\ crowded' = crowded /\ ask' = ask /\ app \in [Apps -> AppRow]
  BY DEF DeleteApp, AccountTypes
<1>1. Rows' \subseteq Rows /\ \A x \in Rows' : Weights'[x] = Weights[x]
  <2>1. app'[a].owner = Nobody /\ \A x \in Apps \ {a} : app'[x] = app[x]
    BY <1>0, NoAppTyped
  <2>2. QED
    BY <2>1 DEF Rows, Weights
<1>2. ASSUME NEW b PROVE Taken(Rows \ b)' <= Taken(Rows \ b) /\ Taken(Rows \ b)' \in Nat /\ Taken(Rows \ b) \in Nat
  <2>1. IsFiniteSet(Rows \ b) /\ \A x \in Rows \ b : Weights[x] \in Nat
    BY WeightsTyped, FS_Subset
  <2>2. Rows' \ b \subseteq Rows \ b /\ IsFiniteSet(Rows' \ b)
    BY <1>1, <2>1, FS_Subset
  <2>3. SumFunctionOnSet(Weights, Rows' \ b) <= SumFunctionOnSet(Weights, Rows \ b)
    BY <2>1, <2>2, SumOfFewer
  <2>4. SumFunctionOnSet(Weights', Rows' \ b) = SumFunctionOnSet(Weights, Rows' \ b)
    BY <1>1, <2>2, SumIsSame
  <2>5. SumFunctionOnSet(Weights, Rows' \ b) \in Nat /\ SumFunctionOnSet(Weights, Rows \ b) \in Nat
    BY <2>1, <2>2, SumIsNat
  <2>6. QED
    BY <2>3, <2>4, <2>5 DEF Taken
<1>3. LimitsFit'
  <2>1. Taken(Rows)' <= Taken(Rows) /\ Taken(Rows)' \in Nat /\ Taken(Rows) \in Nat
    <3>1. Rows \ {} = Rows /\ Rows' \ {} = Rows'
      OBVIOUS
    <3>2. PICK none : none = {}
      OBVIOUS
    <3>3. Taken(Rows \ none)' <= Taken(Rows \ none) /\ Taken(Rows \ none)' \in Nat /\ Taken(Rows \ none) \in Nat
      BY <1>2
    <3>4. QED
      BY <3>1, <3>2, <3>3
  <2>2. QED
    BY <1>0, <2>1, WeightsTyped DEF LimitsInv, LimitsFit
<1>4. ASSUME NEW d \in Clients PROVE Summed(ask[d])'
  <2>1. CASE ask[d].at # "limits" \/ ~ask[d].fresh
    BY <1>0, <2>1 DEF Summed
  <2>2. CASE ask[d].at = "limits" /\ ask[d].fresh
    <3>1. PICK s : s = {ask[d].a}
      OBVIOUS
    <3>2. Taken(Rows \ s) + ask[d].n <= Capacity
      BY <2>2, <3>1 DEF LimitsInv, Summed
    <3>3. ask[d].n \in Nat /\ Capacity \in Nat
      BY WeightsTyped DEF AccountTypes, Asking
    <3>4. Taken(Rows \ s)' + ask[d].n <= Capacity
      <4>1. PICK x \in Nat, y \in Nat : x = Taken(Rows \ s)' /\ y = Taken(Rows \ s) /\ x <= y
        BY <1>2
      <4>2. y + ask[d].n <= Capacity
        BY <3>2, <4>1
      <4>3. x + ask[d].n <= Capacity
        BY <3>3, <4>1, <4>2
      <4>4. QED
        BY <4>1, <4>3
    <3>5. QED
      BY <1>0, <3>1, <3>4 DEF Summed
  <2>3. QED
    BY <2>1, <2>2
<1>5. QED
  BY <1>3, <1>4 DEF LimitsInv

LEMMA UpdateAppLimitsFits ==
    ASSUME AccountTypes, LimitsInv, NEW c \in Clients, NEW u \in Users, NEW a \in Apps, NEW n \in Sizes,
           UpdateAppLimits(c, u, a, n)
    PROVE  LimitsInv'
<1>0. UNCHANGED <<app, crowded>>
  BY DEF UpdateAppLimits, KeepApps
<1>1. PICK found :
          /\ Taken(found \ {a}) + n <= Capacity
          /\ Asks(c, [NoAsk EXCEPT !.at = "limits", !.who = u, !.a = a, !.n = n, !.fresh = found = Rows])
  BY DEF UpdateAppLimits
<1>2. PICK w \in Asking, f \in BOOLEAN : w = NoAsk /\ f = (found = Rows)
  BY NoAskTyped
<1>3. PICK q : q = [w EXCEPT !.at = "limits", !.who = u, !.a = a, !.n = n, !.fresh = f]
  OBVIOUS
<1>4. q.a = a /\ q.n = n /\ q.fresh = f
  BY <1>3 DEF Asking
<1>5. ask' = [ask EXCEPT ![c] = q]
  BY <1>1, <1>2, <1>3 DEF Asks
<1>6. Rows' = Rows /\ \A b : Taken(b)' = Taken(b)
  BY <1>0 DEF Taken, Rows, Weights
<1>7. ASSUME NEW d \in Clients PROVE Summed(ask[d])'
  <2>1. CASE d = c
    <3>1. ask'[d] = q
      BY <1>5, <2>1 DEF AccountTypes
    <3>2. f => Taken(Rows \ {a}) + n <= Capacity
      BY <1>1, <1>2
    <3>3. QED
      BY <1>4, <1>6, <3>1, <3>2 DEF Summed
  <2>2. CASE d # c
    <3>1. ask'[d] = ask[d]
      BY <1>5, <2>2 DEF AccountTypes
    <3>2. QED
      BY <1>6, <3>1 DEF LimitsInv, Summed
  <2>3. QED
    BY <2>1, <2>2
<1>8. LimitsFit'
  BY <1>0, <1>6 DEF LimitsInv, LimitsFit
<1>9. QED
  BY <1>7, <1>8 DEF LimitsInv

LEMMA UpdateResourceLimitsFits ==
    ASSUME AccountTypes, AccountTypes', AsksInv, LimitsInv, NEW c \in Clients, UpdateResourceLimits(c)
    PROVE  LimitsInv'
<1>1. CASE Replies(c) /\ UNCHANGED <<app, crowded>>
  BY <1>1, RepliesLeaves
<1>2. ASSUME app[ask[c].a].owner # Nobody, Resized(c), app' = [app EXCEPT ![ask[c].a].size = ask[c].n],
             crowded' = ~ask[c].fresh
      PROVE  LimitsInv'
  <2>1. \A d \in Clients : Summed(ask[d])'
    BY <1>2, ResizedStales DEF Summed
  <2>2. CASE ~ask[c].fresh
    BY <1>2, <2>1, <2>2 DEF LimitsInv, LimitsFit
  <2>3. CASE ask[c].fresh
    <3>1. PICK a \in Apps, n \in Sizes : a = ask[c].a /\ n = ask[c].n
      BY DEF AsksInv, AskOK, UpdateResourceLimits
    <3>2. Taken(Rows \ {a}) + n <= Capacity
      BY <2>3, <3>1 DEF LimitsInv, Summed, UpdateResourceLimits
    <3>3. app' = [app EXCEPT ![a].size = n] /\ app \in [Apps -> AppRow]
      BY <1>2, <3>1 DEF AccountTypes
    <3>4. app'[a].size = n /\ app'[a].owner = app[a].owner /\ \A x \in Apps \ {a} : app'[x] = app[x]
      <4>1. app[a] \in AppRow
        BY <3>3
      <4>2. QED
        BY <3>3, <4>1 DEF AppRow
    <3>5. Rows' = Rows /\ a \in Rows
      BY <1>2, <3>1, <3>4 DEF Rows
    <3>6. Weights'[a] = n /\ \A x \in Rows \ {a} : Weights'[x] = Weights[x]
      BY <3>4, <3>5 DEF Weights, Rows
    <3>7. IsFiniteSet(Rows') /\ Rows' \subseteq Apps /\ \A x \in Apps : Weights'[x] \in Nat
      BY WeightsNext
    <3>8. SumFunctionOnSet(Weights', Rows') = Weights'[a] + SumFunctionOnSet(Weights', Rows' \ {a})
      BY <3>5, <3>7, SumWithout
    <3>9. SumFunctionOnSet(Weights', Rows \ {a}) = SumFunctionOnSet(Weights, Rows \ {a})
      <4>1. IsFiniteSet(Rows \ {a})
        BY WeightsTyped, FS_Subset
      <4>2. QED
        BY <3>6, <4>1, SumIsSame
    <3>10. /\ Taken(Rows)' = SumFunctionOnSet(Weights', Rows')
           /\ Taken(Rows \ {a}) = SumFunctionOnSet(Weights, Rows \ {a})
           /\ Taken(Rows \ {a}) \in Nat /\ n \in Nat /\ Capacity \in Nat
      BY WeightsTyped DEF Taken
    <3>11. Taken(Rows)' <= Capacity
      BY <3>2, <3>5, <3>6, <3>8, <3>9, <3>10
    <3>12. QED
      BY <2>1, <3>11 DEF LimitsInv, LimitsFit
  <2>4. QED
    BY <2>2, <2>3
<1>3. QED
  BY <1>1, <1>2 DEF UpdateResourceLimits

LEMMA LimitsInitInv == AccountsInit => LimitsInv
<1> SUFFICES ASSUME AccountsInit PROVE LimitsInv
  OBVIOUS
<1>1. app = [a \in Apps |-> NoApp] /\ ask = [c \in Clients |-> NoAsk]
  BY DEF AccountsInit
<1>2. Rows = {}
  BY <1>1, NoAppTyped DEF Rows
<1>3. Taken({}) = 0
  BY SumOfNone DEF Taken
<1>4. LimitsFit
  BY <1>2, <1>3, AccountsAssumption DEF LimitsFit
<1>5. \A c \in Clients : Summed(ask[c])
  BY <1>1, NoAskTyped DEF Summed
<1>6. QED
  BY <1>4, <1>5 DEF LimitsInv

LEMMA LimitsNextInv == AccountInv /\ AccountInv' /\ LimitsInv /\ [AccountsNext]_accountVars => LimitsInv'
<1> SUFFICES ASSUME AccountInv, AccountInv', LimitsInv, [AccountsNext]_accountVars PROVE LimitsInv'
  OBVIOUS
<1>0. AccountTypes /\ AccountTypes' /\ AsksInv
  BY DEF AccountInv
<1>1. ASSUME NEW c \in Clients,
             \/ FindDefault(c) \/ AssignDefault(c) \/ Enter(c) \/ UpdateRole(c) \/ UpdatePlanID(c)
             \/ WritePlan(c) \/ UnsetDefaults(c) \/ SetNewDefault(c) \/ CheckPlan(c)
      PROVE  LimitsInv'
  BY <1>0, <1>1, LoginLeaves, GrantsLeave, PlansLeave, AppsLeave
<1>2. ASSUME NEW c \in Clients,
             \/ InsertApp(c) \/ UpdateResourceLimits(c) \/ UpdateApp(c)
             \/ \E a \in Apps, n \in Sizes : EditApp(c, a, n)
      PROVE  LimitsInv'
  BY <1>0, <1>2, UncomparedFits, UpdateResourceLimitsFits, AppsLeave
<1>3. ASSUME NEW c \in Clients, NEW u \in Users, Login(c, u) \/ CreateApp(c, u) PROVE LimitsInv'
  BY <1>0, <1>3, LoginLeaves, AppsLeave
<1>4. ASSUME NEW c \in Clients, NEW u \in Users, NEW v \in Users,
             \/ \E r \in {"user", "admin"} : UpdateUserRole(c, u, v, r)
             \/ \E p \in Plans : AssignUserPlan(c, u, v, p)
      PROVE  LimitsInv'
  BY <1>0, <1>4, GrantsLeave
<1>5. ASSUME NEW c \in Clients, NEW u \in Users, NEW p \in Plans,
             \/ SetDefault(c, u, p)
             \/ \E n \in Allowances : UpdatePlan(c, u, p, [plan[p] EXCEPT !.apps = n])
             \/ \E b \in BOOLEAN : \/ UpdatePlan(c, u, p, [plan[p] EXCEPT !.active = b])
                                   \/ UpdatePlan(c, u, p, [plan[p] EXCEPT !.default = b])
      PROVE  LimitsInv'
  <2>1. plan[p] \in PlanRow
    BY <1>0 DEF AccountTypes
  <2>2. /\ \A n \in Allowances : [plan[p] EXCEPT !.apps = n] \in PlanRow
        /\ \A b \in BOOLEAN : /\ [plan[p] EXCEPT !.active = b] \in PlanRow
                              /\ [plan[p] EXCEPT !.default = b] \in PlanRow
    BY <2>1 DEF PlanRow
  <2>3. SetDefault(c, u, p) \/ \E row \in PlanRow : UpdatePlan(c, u, p, row)
    BY <1>5, <2>2
  <2>4. QED
    BY <2>3, PlansLeave
<1>6. ASSUME NEW c \in Clients, NEW u \in Users, NEW a \in Apps, NEW n \in Sizes, UpdateAppLimits(c, u, a, n)
      PROVE  LimitsInv'
  BY <1>0, <1>6, UpdateAppLimitsFits
<1>7. ASSUME NEW u \in Users, NEW a \in Apps, DeleteApp(u, a) PROVE LimitsInv'
  BY <1>0, <1>7, DeleteAppFits
<1>8. ASSUME \/ UNCHANGED accountVars \/ AccountsCrash
             \/ \E u \in Users : \/ UpdateAuthSettings(u)
                                 \/ \E p \in Plans : DeletePlan(u, p) \/ \E n \in Allowances : CreatePlan(u, p, n)
      PROVE  LimitsInv'
  <2>1. UNCHANGED <<app, crowded>>
    BY <1>8 DEF accountVars, AccountsCrash, UpdateAuthSettings, DeletePlan, CreatePlan, KeepApps
  <2>2. ask' = ask \/ ask' = [c \in Clients |-> NoAsk]
    BY <1>8 DEF accountVars, AccountsCrash, UpdateAuthSettings, DeletePlan, CreatePlan
  <2>3. \A d \in Clients : ask'[d] = ask[d] \/ ask'[d].at # "limits"
    BY <2>2, NoAskTyped
  <2>4. QED
    BY <2>1, <2>3, LimitsStill
<1>9. CASE AccountsNext
  BY <1>1, <1>2, <1>3, <1>4, <1>5, <1>6, <1>7, <1>8, <1>9 DEF AccountsNext
<1>10. QED
  BY <1>8, <1>9

\* The limits of all apps fit the host once more as soon as a change to them has seen all
\* others: the requests that summed up before a row changed are told from the rest.
THEOREM HostFits == AccountsSpec => []LimitsFit
<1>1. AccountsSpec => []LimitsInv
  BY AccountsAlways, LimitsInitInv, LimitsNextInv, PTL DEF AccountsSpec
<1>2. LimitsInv => LimitsFit
  BY DEF LimitsInv
<1>3. QED
  BY <1>1, <1>2, PTL

-----------------------------------------------------------------------------
(* Page views *)

Hour(t) == Trunc(t, HourLen)
Day(t) == Trunc(t, DayLen)

LEMMA TruncRange ==
    ASSUME NEW t \in Int, NEW len \in Nat \ {0}
    PROVE  Trunc(t, len) \in Int /\ Trunc(t, len) <= t /\ t < Trunc(t, len) + len
BY DEF Trunc

LEMMA TruncNat ==
    ASSUME NEW t \in Nat, NEW len \in Nat \ {0}
    PROVE  Trunc(t, len) >= 0
<1> DEFINE q == t \div len
<1>1. Trunc(t, len) = len * q /\ q \in Int /\ t < len * q + len
  BY DEF Trunc
<1> HIDE DEF q
<1>2. q >= 0
  <2> SUFFICES ASSUME q + 1 <= 0 PROVE FALSE
    BY <1>1
  <2>1. len * (q + 1) <= 0
    BY <1>1
  <2>2. QED
    BY <1>1, <2>1
<1>3. QED
  BY <1>1, <1>2

LEMMA TruncTimes ==
    ASSUME NEW t \in Int, NEW len \in Nat \ {0}
    PROVE  Trunc(t, len) = len * (t \div len)
BY DEF Trunc

LEMMA TruncIs ==
    ASSUME NEW t \in Int, NEW q \in Int, NEW len \in Nat \ {0}, len * q <= t, t < len * q + len
    PROVE  Trunc(t, len) = len * q
<1>1. t \div len = q
  OBVIOUS
<1>2. QED
  BY <1>1, TruncTimes

LEMMA Divides ==
    ASSUME NEW a \in Nat, NEW b \in Nat \ {0}, a % b = 0
    PROVE  a \div b \in Int /\ a = b * (a \div b)
OBVIOUS

LEMMA HoursOfDay ==
    ASSUME NEW t \in Int
    PROVE  Day(Hour(t)) = Day(t) /\ Hour(t) + HourLen <= Day(t) + DayLen
<1> DEFINE h == t \div HourLen
           d == t \div DayLen
           k == DayLen \div HourLen
<1>1. HourLen \in Nat \ {0} /\ DayLen \in Nat \ {0} /\ DayLen % HourLen = 0
  BY AnalyticsAssumption
<1>2. h \in Int /\ d \in Int /\ k \in Int /\ DayLen = HourLen * k
  <2>1. DayLen = HourLen * (DayLen \div HourLen) /\ DayLen \div HourLen \in Int
    BY <1>1, Divides
  <2>2. QED
    BY <1>1, <2>1
<1>3. Hour(t) = HourLen * h /\ Day(t) = DayLen * d /\ DayLen * d = HourLen * (k * d)
  <2>1. Hour(t) = HourLen * h /\ Day(t) = DayLen * d
    BY <1>1 DEF Hour, Day, Trunc
  <2>2. (HourLen * k) * d = HourLen * (k * d)
    BY <1>1, <1>2
  <2>3. QED
    BY <1>2, <2>1, <2>2
<1>4. HourLen * h <= t /\ t < HourLen * h + HourLen /\ DayLen * d <= t /\ t < DayLen * d + DayLen
  BY <1>1, <1>3, TruncRange DEF Hour, Day
<1>5. k * d <= h
  <2>1. HourLen * (k * d) < HourLen * (h + 1)
    BY <1>1, <1>2, <1>3, <1>4
  <2>2. k * d < h + 1
    BY <1>1, <1>2, <2>1
  <2>3. QED
    BY <1>2, <2>2
<1>6. h + 1 <= k * d + k
  <2>1. HourLen * h < HourLen * (k * d + k)
    BY <1>1, <1>2, <1>3, <1>4
  <2>2. h < k * d + k
    BY <1>1, <1>2, <2>1
  <2>3. QED
    BY <1>2, <2>2
<1>7. DayLen * d <= HourLen * h /\ HourLen * h + HourLen <= DayLen * d + DayLen
  <2>1. HourLen * (k * d) <= HourLen * h
    BY <1>1, <1>2, <1>5
  <2>2. HourLen * (h + 1) <= HourLen * (k * d + k)
    BY <1>1, <1>2, <1>6
  <2>3. QED
    BY <1>1, <1>2, <1>3, <2>1, <2>2
<1>8. Trunc(Hour(t), DayLen) = DayLen * d
  BY <1>1, <1>2, <1>3, <1>4, <1>7, TruncIs
<1>9. QED
  BY <1>3, <1>7, <1>8 DEF Day

Line == [at : Times, owner : Owners, page : BOOLEAN]
AggRow == [owner : Owners, grain : {"hour", "day"}, bucket : Int, copy : Nat, counts : [Times -> Nat]]

ViewTypes ==
    /\ now \in Times /\ there \subseteq Sites
    /\ file \in Seq(Line) /\ offset \in Nat /\ troubles \in 0 .. MaxTroubles
    /\ visits \subseteq Line /\ IsFiniteSet(visits)
    /\ \A i \in 1 .. Len(file) : file[i] \in visits
    /\ raw \subseteq collected /\ collected \subseteq visits
    /\ agg \subseteq AggRow /\ IsFiniteSet(agg)
    /\ threshold \in [hourly : Int, daily : Int]
    /\ at \in {"idle", "aggregate", "compact", "purge raw", "purge hours", "purge days"}

\* A visit is counted in one hour and one day, and each of these once.
VisitsOnce == \A v, w \in visits : v.at = w.at /\ v.owner = w.owner => v = w
RowsOnce == \A r, s \in agg : r.owner # Platform /\ SameKey(r, s) => r = s
CountedOnce(r) == \A t \in Times : r.owner # Platform => r.counts[t] <= 1
InItsBucket(r) ==
    /\ \E t \in Times : r.counts[t] > 0
    /\ \A t \in Times : r.counts[t] > 0 => r.bucket = IF r.grain = "hour" THEN Hour(t) ELSE Day(t)
OnceInv == VisitsOnce /\ RowsOnce /\ \A r \in agg : CountedOnce(r) /\ InItsBucket(r)

LEMMA ImageIsFinite ==
    ASSUME NEW S, IsFiniteSet(S), NEW f
    PROVE  IsFiniteSet({f[x] : x \in S})
<1> DEFINE T == {f[x] : x \in S}
           g == [x \in S |-> f[x]]
<1>1. g \in Surjection(S, T)
  BY DEF Surjection
<1>2. IsFiniteSet(T)
  <2> HIDE DEF T, g
  <2> QED
    BY <1>1, FS_Surjection
<1>3. QED
  BY <1>2

LEMMA AgesTyped ==
    /\ {HourLen, DayLen, RawAge, HourlyAge, DailyAge, BatchSize} \subseteq Nat \ {0}
    /\ {MaxNow, LastVisit, MaxLines, MaxTroubles} \subseteq Nat
    /\ RawAge + HourLen <= HourlyAge /\ MaxTroubles + HourLen <= RawAge + 1
    /\ Platform \notin Sites
BY AnalyticsAssumption

LEMMA HoursTyped ==
    ASSUME NEW t \in Int
    PROVE  /\ Hour(t) \in Int /\ Day(t) \in Int
           /\ Hour(t) <= t /\ t < Hour(t) + HourLen /\ Day(t) <= t /\ t < Day(t) + DayLen
           /\ Day(t) <= Hour(t)
<1>1. HourLen \in Nat \ {0} /\ DayLen \in Nat \ {0}
  BY AgesTyped
<1>2. /\ Hour(t) \in Int /\ Hour(t) <= t /\ t < Hour(t) + HourLen
      /\ Day(t) \in Int /\ Day(t) <= t /\ t < Day(t) + DayLen
  BY <1>1, TruncRange DEF Hour, Day
<1>3. Day(Hour(t)) = Day(t)
  BY HoursOfDay
<1>4. Day(Hour(t)) <= Hour(t)
  BY <1>1, <1>2, TruncRange DEF Day
<1>5. QED
  BY <1>2, <1>3, <1>4

\* What a row of an hour counts.
Seen(o, b, t) == {w \in OldRaw : w.at = t /\ w.owner = o /\ Trunc(t, HourLen) = b}
HourRow(o, b) == Row(o, "hour", b, [t \in Times |-> Cardinality(Seen(o, b, t))])

\* What an aggregating statement writes: a row for each hour of the views that are old.
LEMMA HourlyRowsAre ==
    ASSUME ViewTypes, VisitsOnce
    PROVE  /\ IsFiniteSet(HourlyRows)
           /\ \A n \in HourlyRows :
                /\ n \in AggRow /\ n.grain = "hour" /\ CountedOnce(n) /\ InItsBucket(n)
                /\ \E v \in OldRaw : n.owner = v.owner /\ n.bucket = Hour(v.at)
           /\ \A m, n \in HourlyRows : SameKey(m, n) => m = n
           /\ \A v \in OldRaw : \E n \in HourlyRows :
                n.owner = v.owner /\ n.bucket = Hour(v.at) /\ n.counts[v.at] > 0
<1>1. /\ IsFiniteSet(OldRaw) /\ OldRaw \subseteq visits
      /\ \A v \in OldRaw : v.at \in Times /\ v.at \in Int /\ v.owner \in Owners /\ Hour(v.at) \in Int
  <2>1. OldRaw \subseteq visits
    BY DEF ViewTypes, OldRaw
  <2>2. \A v \in OldRaw : v.at \in Times /\ v.owner \in Owners
    BY <2>1 DEF ViewTypes, Line
  <2>3. \A v \in OldRaw : v.at \in Int
    BY <2>2, AgesTyped DEF Times
  <2>4. QED
    BY <2>1, <2>2, <2>3, HoursTyped, FS_Subset DEF ViewTypes
<1>2. HourlyRows = {HourRow(v.owner, Hour(v.at)) : v \in OldRaw}
  BY DEF HourlyRows, Hour, HourRow, Seen
<1>3. IsFiniteSet(HourlyRows)
  <2> DEFINE f == [v \in OldRaw |-> HourRow(v.owner, Hour(v.at))]
  <2>1. IsFiniteSet({f[v] : v \in OldRaw})
    <3> HIDE DEF f
    <3> QED
      BY <1>1, ImageIsFinite
  <2>2. HourlyRows = {f[v] : v \in OldRaw}
    BY <1>2
  <2>3. QED
    BY <2>1, <2>2
<1>4. ASSUME NEW o, NEW b, NEW t
      PROVE  /\ IsFiniteSet(Seen(o, b, t)) /\ Cardinality(Seen(o, b, t)) \in Nat
             /\ Cardinality(Seen(o, b, t)) <= 1
             /\ Cardinality(Seen(o, b, t)) > 0 <=> Seen(o, b, t) # {}
  <2>1. IsFiniteSet(Seen(o, b, t)) /\ Cardinality(Seen(o, b, t)) \in Nat
    BY <1>1, FS_Subset, FS_CardinalityType DEF Seen
  <2>2. Cardinality(Seen(o, b, t)) = 0 <=> Seen(o, b, t) = {}
    BY <2>1, FS_EmptySet
  <2>3. \A v, w \in Seen(o, b, t) : v = w
    BY <1>1 DEF VisitsOnce, Seen
  <2>4. Cardinality(Seen(o, b, t)) <= 1
    <3>1. CASE Seen(o, b, t) = {}
      BY <2>2, <3>1
    <3>2. CASE Seen(o, b, t) # {}
      <4>1. PICK v \in Seen(o, b, t) : TRUE
        BY <3>2
      <4>2. Seen(o, b, t) = {v}
        BY <2>3, <4>1
      <4>3. QED
        BY <4>2, FS_Singleton
    <3>3. QED
      BY <3>1, <3>2
  <2>5. QED
    BY <2>1, <2>2, <2>4
<1>5. ASSUME NEW v \in OldRaw
      PROVE  LET n == HourRow(v.owner, Hour(v.at)) IN
             /\ n \in AggRow /\ n.grain = "hour" /\ CountedOnce(n) /\ InItsBucket(n)
             /\ n.owner = v.owner /\ n.bucket = Hour(v.at) /\ n.counts[v.at] > 0
  <2> DEFINE n == HourRow(v.owner, Hour(v.at))
  <2>1. /\ n.owner = v.owner /\ n.grain = "hour" /\ n.bucket = Hour(v.at) /\ n.copy = 1
        /\ n.counts = [t \in Times |-> Cardinality(Seen(v.owner, Hour(v.at), t))]
    BY DEF Row, HourRow
  <2>2. n.counts \in [Times -> Nat]
    BY <1>4, <2>1
  <2>3. n \in AggRow
    BY <1>1, <2>1, <2>2 DEF Row, HourRow, AggRow
  <2>4. \A t \in Times : n.counts[t] = Cardinality(Seen(v.owner, Hour(v.at), t))
    BY <2>1
  <2>5. CountedOnce(n)
    BY <1>4, <2>4 DEF CountedOnce
  <2>6. n.counts[v.at] > 0
    <3>1. v \in Seen(v.owner, Hour(v.at), v.at)
      BY DEF Hour, Seen
    <3>2. QED
      BY <1>1, <1>4, <2>4, <3>1
  <2>7. InItsBucket(n)
    <3>1. ASSUME NEW t \in Times, n.counts[t] > 0
          PROVE  n.bucket = Hour(t)
      <4>1. Seen(v.owner, Hour(v.at), t) # {}
        BY <1>4, <2>4, <3>1
      <4>2. QED
        BY <2>1, <4>1 DEF Hour, Seen
    <3>2. QED
      BY <1>1, <2>1, <2>6, <3>1 DEF InItsBucket
  <2>8. QED
    BY <2>1, <2>3, <2>5, <2>6, <2>7
<1>6. \A m, n \in HourlyRows : SameKey(m, n) => m = n
  <2> SUFFICES ASSUME NEW v \in OldRaw, NEW w \in OldRaw,
                      SameKey(HourRow(v.owner, Hour(v.at)), HourRow(w.owner, Hour(w.at)))
               PROVE  HourRow(v.owner, Hour(v.at)) = HourRow(w.owner, Hour(w.at))
    BY <1>2
  <2>1. v.owner = w.owner /\ Hour(v.at) = Hour(w.at)
    BY DEF SameKey, Row, HourRow
  <2>2. QED
    BY <2>1
<1>7. QED
  BY <1>2, <1>3, <1>5, <1>6

LEMMA AddingIs ==
    ASSUME NEW rs, IsFiniteSet(rs), rs \subseteq AggRow, NEW t \in Times
    PROVE  /\ Adding(rs)[t] \in Nat
           /\ Adding(rs)[t] > 0 <=> \E r \in rs : r.counts[t] > 0
           /\ (\A r \in rs : r.counts[t] <= 1) /\ (\A r, s \in rs : r.counts[t] > 0 /\ s.counts[t] > 0 => r = s)
                => Adding(rs)[t] <= 1
<1> DEFINE f == [r \in rs |-> r.counts[t]]
<1>1. Adding(rs)[t] = SumFunctionOnSet(f, rs)
  BY DEF Adding
<1>2. \A r \in rs : f[r] = r.counts[t] /\ r.counts[t] \in Nat
  BY DEF AggRow
<1> HIDE DEF f
<1>3. \A r \in rs : f[r] \in Nat
  BY <1>2
<1>4. SumFunctionOnSet(f, rs) \in Nat /\ (SumFunctionOnSet(f, rs) > 0 <=> \E r \in rs : f[r] > 0)
  BY <1>3, SumIsNat, SumIsPositive
<1>5. ASSUME \A r \in rs : r.counts[t] <= 1, \A r, s \in rs : r.counts[t] > 0 /\ s.counts[t] > 0 => r = s
      PROVE  SumFunctionOnSet(f, rs) <= 1
  <2>1. (\A r \in rs : f[r] \in Nat /\ f[r] <= 1) /\ (\A r, s \in rs : f[r] > 0 /\ f[s] > 0 => r = s)
    BY <1>2, <1>5
  <2>2. QED
    BY <2>1, SumOfOne
<1>6. QED
  BY <1>1, <1>2, <1>4, <1>5

\* What a row of a day adds up.
Parts(o, b) == {s \in OldHours : s.owner = o /\ Trunc(s.bucket, DayLen) = b}
DayRow(o, b) == Row(o, "day", b, Adding(Parts(o, b)))

LEMMA DailyRowsAre ==
    ASSUME ViewTypes, OnceInv
    PROVE  /\ IsFiniteSet(DailyRows)
           /\ \A n \in DailyRows :
                /\ n \in AggRow /\ n.grain = "day" /\ CountedOnce(n) /\ InItsBucket(n)
                /\ \E r \in OldHours : n.owner = r.owner /\ n.bucket = Day(r.bucket)
           /\ \A m, n \in DailyRows : SameKey(m, n) => m = n
           /\ \A r \in OldHours : \E n \in DailyRows :
                /\ n.owner = r.owner /\ n.bucket = Day(r.bucket)
                /\ \A t \in Times : r.counts[t] > 0 => n.counts[t] > 0
<1>1. /\ IsFiniteSet(OldHours) /\ OldHours \subseteq agg /\ OldHours \subseteq AggRow
      /\ \A r \in OldHours : r.owner \in Owners /\ r.bucket \in Int /\ r.grain = "hour" /\ Day(r.bucket) \in Int
  <2>1. OldHours \subseteq agg /\ OldHours \subseteq AggRow /\ IsFiniteSet(OldHours)
    BY FS_Subset DEF ViewTypes, OldHours
  <2>2. \A r \in OldHours : r.owner \in Owners /\ r.bucket \in Int /\ r.grain = "hour"
    BY <2>1 DEF OldHours, AggRow
  <2>3. QED
    BY <2>1, <2>2, HoursTyped
<1>2. DailyRows = {DayRow(r.owner, Day(r.bucket)) : r \in OldHours}
  BY DEF DailyRows, Day, DayRow, Parts
<1>3. IsFiniteSet(DailyRows)
  <2> DEFINE f == [r \in OldHours |-> DayRow(r.owner, Day(r.bucket))]
  <2>1. IsFiniteSet({f[r] : r \in OldHours})
    <3> HIDE DEF f
    <3> QED
      BY <1>1, ImageIsFinite
  <2>2. DailyRows = {f[r] : r \in OldHours}
    BY <1>2
  <2>3. QED
    BY <2>1, <2>2
<1>4. ASSUME NEW o, NEW b, NEW t \in Times
      PROVE  /\ Adding(Parts(o, b))[t] \in Nat
             /\ Adding(Parts(o, b))[t] > 0 <=> \E s \in Parts(o, b) : s.counts[t] > 0
             /\ o # Platform => Adding(Parts(o, b))[t] <= 1
  <2>1. /\ IsFiniteSet(Parts(o, b)) /\ Parts(o, b) \subseteq AggRow
        /\ \A s \in Parts(o, b) : s \in OldHours /\ s \in agg /\ s.owner = o /\ s.grain = "hour"
    BY <1>1, FS_Subset DEF Parts
  <2>2. ASSUME o # Platform, NEW r \in Parts(o, b), NEW s \in Parts(o, b), r.counts[t] > 0, s.counts[t] > 0
        PROVE  r = s
    <3>1. r.bucket = Hour(t) /\ s.bucket = Hour(t)
      BY <2>1, <2>2 DEF OnceInv, InItsBucket
    <3>2. SameKey(r, s)
      BY <2>1, <3>1 DEF SameKey
    <3>3. QED
      BY <2>1, <2>2, <3>2 DEF OnceInv, RowsOnce
  <2>3. o # Platform => \A s \in Parts(o, b) : s.counts[t] <= 1
    BY <2>1 DEF OnceInv, CountedOnce
  <2>4. QED
    BY <2>1, <2>2, <2>3, AddingIs
<1>5. ASSUME NEW r \in OldHours
      PROVE  LET n == DayRow(r.owner, Day(r.bucket)) IN
             /\ n \in AggRow /\ n.grain = "day" /\ CountedOnce(n) /\ InItsBucket(n)
             /\ n.owner = r.owner /\ n.bucket = Day(r.bucket)
             /\ \A t \in Times : r.counts[t] > 0 => n.counts[t] > 0
  <2> DEFINE n == DayRow(r.owner, Day(r.bucket))
             ps == Parts(r.owner, Day(r.bucket))
  <2>1. /\ n.owner = r.owner /\ n.grain = "day" /\ n.bucket = Day(r.bucket) /\ n.copy = 1
        /\ n.counts = Adding(ps)
    BY DEF Row, DayRow
  <2>2. Adding(ps) = [t \in Times |-> Adding(ps)[t]]
    BY DEF Adding
  <2>3. Adding(ps) \in [Times -> Nat]
    BY <1>4, <2>2
  <2>4. n \in AggRow
    BY <1>1, <2>1, <2>3 DEF Row, DayRow, AggRow
  <2>5. CountedOnce(n)
    BY <1>4, <2>1 DEF CountedOnce
  <2>6. \A t \in Times : r.counts[t] > 0 => n.counts[t] > 0
    <3>1. r \in ps
      BY DEF Parts, Day
    <3>2. QED
      BY <1>4, <2>1, <3>1
  <2>7. InItsBucket(n)
    <3>1. ASSUME NEW t \in Times, n.counts[t] > 0
          PROVE  n.bucket = Day(t)
      <4>1. PICK s \in ps : s.counts[t] > 0
        BY <1>4, <2>1, <3>1
      <4>2. s \in agg /\ s.grain = "hour" /\ Trunc(s.bucket, DayLen) = Day(r.bucket)
        BY <1>1, <4>1 DEF Parts
      <4>3. s.bucket = Hour(t)
        BY <4>1, <4>2 DEF OnceInv, InItsBucket
      <4>4. Day(Hour(t)) = Day(t)
        BY HoursOfDay, AgesTyped DEF Times
      <4>5. QED
        BY <2>1, <4>2, <4>3, <4>4 DEF Day
    <3>2. \E t \in Times : r.counts[t] > 0
      BY <1>1 DEF OnceInv, InItsBucket
    <3>3. QED
      BY <2>1, <2>6, <3>1, <3>2 DEF InItsBucket
  <2>8. QED
    BY <2>1, <2>4, <2>5, <2>6, <2>7
<1>6. \A m, n \in DailyRows : SameKey(m, n) => m = n
  <2> SUFFICES ASSUME NEW r \in OldHours, NEW s \in OldHours,
                      SameKey(DayRow(r.owner, Day(r.bucket)), DayRow(s.owner, Day(s.bucket)))
               PROVE  DayRow(r.owner, Day(r.bucket)) = DayRow(s.owner, Day(s.bucket))
    BY <1>2
  <2>1. r.owner = s.owner /\ Day(r.bucket) = Day(s.bucket)
    BY DEF SameKey, Row, DayRow
  <2>2. QED
    BY <2>1
<1>7. QED
  BY <1>2, <1>3, <1>5, <1>6

\* What an upsert leaves: rows that no new one is for, and the new ones.
LEMMA UpsertedAre ==
    ASSUME ViewTypes, OnceInv, NEW new, IsFiniteSet(new),
           \A n \in new : n \in AggRow /\ CountedOnce(n) /\ InItsBucket(n),
           \A m, n \in new : SameKey(m, n) => m = n
    PROVE  LET up == Upserted(new) IN
           /\ IsFiniteSet(up) /\ up \subseteq AggRow
           /\ \A r \in up : CountedOnce(r) /\ InItsBucket(r)
           /\ \A r, s \in up : r.owner # Platform /\ SameKey(r, s) => r = s
           /\ \A r \in agg : (\A n \in new : ~SameKey(r, n)) => r \in up
           /\ \A n \in new : n.owner # Platform => n \in up
           /\ \A r \in up : \/ r \in agg
                            \/ \E n \in new : r.owner = n.owner /\ r.grain = n.grain /\ r.bucket = n.bucket
<1> DEFINE kept == {r \in agg : r.owner = Platform \/ \A n \in new : ~SameKey(r, n)}
           put == [n \in new |-> IF n.owner = Platform
                                 THEN [n EXCEPT !.copy = 1 + Cardinality({r \in agg : SameKey(r, n)})] ELSE n]
           up == kept \cup {put[n] : n \in new}
<1>1. Upserted(new) = up
  BY DEF Upserted
<1>2. ASSUME NEW n \in new
      PROVE  /\ put[n] \in AggRow /\ CountedOnce(put[n]) /\ InItsBucket(put[n])
             /\ put[n].owner = n.owner /\ put[n].grain = n.grain /\ put[n].bucket = n.bucket
             /\ n.owner # Platform => put[n] = n
  <2> DEFINE k == 1 + Cardinality({r \in agg : SameKey(r, n)})
  <2>1. k \in Nat
    <3>1. IsFiniteSet({r \in agg : SameKey(r, n)})
      BY FS_Subset DEF ViewTypes
    <3>2. QED
      BY <3>1, FS_CardinalityType
  <2>2. CASE n.owner = Platform
    <3> HIDE DEF k
    <3>1. put[n] = [n EXCEPT !.copy = k]
      BY <2>2 DEF k
    <3>2. /\ put[n] \in AggRow /\ put[n].owner = n.owner /\ put[n].grain = n.grain
          /\ put[n].bucket = n.bucket /\ put[n].counts = n.counts
      BY <2>1, <3>1 DEF AggRow
    <3> HIDE DEF put
    <3>3. CountedOnce(put[n]) /\ InItsBucket(put[n])
      BY <3>2 DEF CountedOnce, InItsBucket
    <3>4. QED
      BY <2>2, <3>2, <3>3
  <2>3. CASE n.owner # Platform
    BY <2>3
  <2>4. QED
    BY <2>2, <2>3
<1>3. IsFiniteSet(kept) /\ kept \subseteq agg
  BY FS_Subset DEF ViewTypes
<1>4. IsFiniteSet({put[n] : n \in new})
  <2> HIDE DEF put
  <2> QED
    BY ImageIsFinite
<1>5. IsFiniteSet(up)
  <2> HIDE DEF put, kept
  <2> QED
    BY <1>3, <1>4, FS_Union
<1> HIDE DEF put
<1>6. up \subseteq AggRow /\ \A r \in up : CountedOnce(r) /\ InItsBucket(r)
  BY <1>2 DEF ViewTypes, OnceInv
<1>7. ASSUME NEW r \in up, NEW s \in up, r.owner # Platform, SameKey(r, s)
      PROVE  r = s
  <2>1. r \in kept /\ s \in kept => r = s
    BY <1>3, <1>7 DEF OnceInv, RowsOnce
  <2>2. ASSUME NEW q \in kept, NEW n \in new, q.owner # Platform \/ n.owner # Platform
        PROVE  ~SameKey(q, n) /\ ~SameKey(n, q)
    BY <2>2 DEF SameKey
  <2>3. s.owner # Platform
    BY <1>7 DEF SameKey
  <2>4. r \notin kept => \E n \in new : r = n
    BY <1>2, <1>7
  <2>5. s \notin kept => \E n \in new : s = n
    BY <1>2, <2>3
  <2>6. QED
    BY <1>7, <2>1, <2>2, <2>3, <2>4, <2>5
<1>8. /\ \A r \in agg : (\A n \in new : ~SameKey(r, n)) => r \in up
      /\ \A n \in new : n.owner # Platform => n \in up
  BY <1>2
<1>9. \A r \in up : \/ r \in agg
                    \/ \E n \in new : r.owner = n.owner /\ r.grain = n.grain /\ r.bucket = n.bucket
  BY <1>2
<1>10. QED
  BY <1>1, <1>5, <1>6, <1>7, <1>8, <1>9

-----------------------------------------------------------------------------
\* A view is held where a row of its hour, or of its day, counts it.
Counts(o, g, b, t) == \E r \in agg : r.owner = o /\ r.grain = g /\ r.bucket = b /\ r.counts[t] > 0
InHour(v) == Counts(v.owner, "hour", Hour(v.at), v.at)
InDay(v) == Counts(v.owner, "day", Day(v.at), v.at)
Uncut(v) == Hour(v.at) \notin cut.hour /\ Day(v.at) \notin cut.day

\* What is not read is as late as there were troubles.
UnreadInv == \A i \in From + 1 .. Len(file) : file[i].at + troubles >= now

\* A run works with the thresholds of the moment, and what they cut is noted.
ThresholdInv ==
    at # "idle" =>
        /\ threshold = [hourly |-> now - RawAge, daily |-> now - HourlyAge]
        /\ CutBy(threshold.hourly, HourLen, 1) \subseteq cut.hour
        /\ CutBy(threshold.daily, DayLen, HourLen) \subseteq cut.day

\* Of an hour that no threshold cut all views are purged or none, and it is over.
HourOver(h) == h + HourLen <= now - RawAge /\ \A w \in raw : Hour(w.at) # h
PurgedInv == \A v \in collected \ raw : Hour(v.at) \in cut.hour \/ HourOver(Hour(v.at))

\* Views are counted in their hour before they are purged, ...
AggregatedInv ==
    at \in {"compact", "purge raw"} /\ ~excused =>
        \A v \in raw : v.owner \in Sites /\ v.at < threshold.hourly => InHour(v)
YoungInv == at = "purge hours" /\ ~excused => \A w \in raw : w.at >= threshold.hourly
\* ... and hours in their day.
CompactedInv ==
    at \in {"purge raw", "purge hours"} /\ ~excused =>
        \A r \in agg, t \in Times :
            r.owner \in Sites /\ r.grain = "hour" /\ r.bucket < threshold.daily /\ r.counts[t] > 0
                => Counts(r.owner, "day", Day(r.bucket), t)

\* A view is held by its hour, or by its day when nothing else of that day is left or
\* will come.
DayOver(o, d) ==
    /\ d + DayLen <= now - RawAge
    /\ \A w \in raw : Day(w.at) # d
    /\ \A r \in agg : r.owner = o /\ r.grain = "hour" => Day(r.bucket) # d
Held(v) == \/ InHour(v)
           \/ (Kept(v) => InDay(v)) /\ DayOver(v.owner, Day(v.at))
HeldInv == ~excused => \A v \in collected \ raw : v.owner \in Sites /\ Uncut(v) => Held(v)

ViewsInv == /\ ViewTypes /\ OnceInv /\ UnreadInv /\ ThresholdInv /\ PurgedInv
            /\ AggregatedInv /\ YoungInv /\ CompactedInv /\ HeldInv

LEMMA ViewsInvInit == AnalyticsInit => ViewsInv
<1> SUFFICES ASSUME AnalyticsInit PROVE ViewsInv
  OBVIOUS
<1>1. ViewTypes
  BY FS_EmptySet, AgesTyped DEF AnalyticsInit, ViewTypes
<1>2. OnceInv
  BY DEF AnalyticsInit, OnceInv, VisitsOnce, RowsOnce
<1>3. UnreadInv
  BY DEF AnalyticsInit, UnreadInv, From
<1>4. ThresholdInv /\ PurgedInv /\ AggregatedInv /\ YoungInv /\ CompactedInv /\ HeldInv
  BY DEF AnalyticsInit, ThresholdInv, PurgedInv, AggregatedInv, YoungInv, CompactedInv, HeldInv
<1>5. QED
  BY <1>1, <1>2, <1>3, <1>4 DEF ViewsInv

\* Facts about the times of views.
LEMMA ViewFacts ==
    ASSUME ViewTypes
    PROVE  /\ now \in Int /\ now \in Nat /\ troubles \in Nat /\ troubles <= MaxTroubles /\ Len(file) \in Nat
           /\ \A v \in visits : /\ v.at \in Times /\ v.at \in Int /\ v.owner \in Owners
                                /\ Hour(v.at) \in Int /\ Day(v.at) \in Int
           /\ \A v \in collected : v \in visits
           /\ \A v \in raw : v \in visits /\ v \in collected
<1>1. now \in Int /\ now \in Nat /\ troubles \in Nat /\ troubles <= MaxTroubles /\ Len(file) \in Nat
  <2>1. file \in Seq(Line) /\ now \in Times /\ troubles \in 0 .. MaxTroubles
    BY DEF ViewTypes
  <2>2. Len(file) \in Nat
    BY <2>1
  <2>3. MaxNow \in Nat /\ MaxTroubles \in Nat
    BY AgesTyped
  <2>4. QED
    BY <2>1, <2>2, <2>3 DEF Times
<1>2. \A v \in visits : v.at \in Times /\ v.owner \in Owners
  BY DEF ViewTypes, Line
<1>3. \A v \in visits : v.at \in Int
  BY <1>2, AgesTyped DEF Times
<1>4. QED
  BY <1>1, <1>2, <1>3, HoursTyped DEF ViewTypes

\* Steps that leave the tables and the worker that aggregates alone.
LEMMA TablesKept ==
    ASSUME ViewsInv, UNCHANGED <<now, raw, agg, threshold, collected, cut, excused>>, at' \in {at, "idle"}
    PROVE  ThresholdInv' /\ PurgedInv' /\ AggregatedInv' /\ YoungInv' /\ CompactedInv' /\ HeldInv'
<1>1. ThresholdInv'
  BY DEF ViewsInv, ThresholdInv
<1>2. PurgedInv'
  BY DEF ViewsInv, PurgedInv, HourOver
<1>3. AggregatedInv' /\ YoungInv'
  BY DEF ViewsInv, AggregatedInv, YoungInv, InHour, Counts
<1>4. CompactedInv'
  BY DEF ViewsInv, CompactedInv, Counts
<1>5. HeldInv'
  BY DEF ViewsInv, HeldInv, Held, Uncut, Kept, InHour, InDay, Counts, DayOver
<1>6. QED
  BY <1>1, <1>2, <1>3, <1>4, <1>5

LEMMA TickKept ==
    ASSUME ViewsInv, Tick
    PROVE  ViewsInv'
<1>1. /\ now' = now + 1 /\ now < MaxNow /\ at = "idle" /\ at' = at
      /\ UNCHANGED <<there, file, offset, visits, raw, agg, threshold, collected, cut, excused>>
      /\ IF offset = Len(file) THEN troubles' = troubles ELSE troubles < MaxTroubles /\ troubles' = troubles + 1
  BY DEF Tick, Fine, Trouble, LogStill, AggregatorStill
<1>2. now \in Nat /\ troubles \in Nat /\ troubles <= MaxTroubles /\ Len(file) \in Nat /\ offset \in Nat
  BY ViewFacts DEF ViewsInv, ViewTypes
<1>3. ViewTypes'
  <2>1. now' \in Times /\ troubles' \in 0 .. MaxTroubles
    <3>1. MaxNow \in Nat /\ MaxTroubles \in Nat
      BY AgesTyped
    <3>2. QED
      BY <1>1, <1>2, <3>1 DEF Times
  <2>2. QED
    BY <1>1, <2>1 DEF ViewsInv, ViewTypes
<1>4. OnceInv'
  BY <1>1 DEF ViewsInv, OnceInv, VisitsOnce, RowsOnce
<1>5. UnreadInv'
  <2> SUFFICES ASSUME NEW i \in From + 1 .. Len(file)
               PROVE  file[i].at + troubles' >= now'
    BY <1>1 DEF UnreadInv, From
  <2>1. offset # Len(file)
    BY <1>2 DEF From
  <2>2. file[i].at + troubles >= now
    BY DEF ViewsInv, UnreadInv
  <2>3. file[i].at \in Int
    <3>1. i \in 1 .. Len(file)
      BY <1>2 DEF From
    <3>2. file[i] \in visits
      BY <3>1 DEF ViewsInv, ViewTypes
    <3>3. QED
      BY <3>2, ViewFacts DEF ViewsInv
  <2>4. QED
    BY <1>1, <1>2, <2>1, <2>2, <2>3
<1>6. RawAge \in Nat /\ DailyAge \in Nat /\ HourLen \in Nat /\ DayLen \in Nat
  BY AgesTyped
<1>7. PurgedInv'
  <2> SUFFICES ASSUME NEW v \in collected \ raw, ~(Hour(v.at) \in cut.hour)
               PROVE  HourOver(Hour(v.at))'
    BY <1>1 DEF PurgedInv
  <2>1. HourOver(Hour(v.at)) /\ Hour(v.at) \in Int
    BY ViewFacts DEF ViewsInv, PurgedInv
  <2>2. QED
    BY <1>1, <1>2, <1>6, <2>1 DEF HourOver
<1>8. HeldInv'
  <2> SUFFICES ASSUME ~excused, NEW v \in collected \ raw, v.owner \in Sites, Uncut(v)
               PROVE  Held(v)'
    BY <1>1 DEF HeldInv, Uncut
  <2>1. Held(v) /\ Day(v.at) \in Int
    BY ViewFacts DEF ViewsInv, HeldInv
  <2>2. Kept(v)' => Kept(v)
    BY <1>1, <1>2, <1>6, <2>1 DEF Kept, Day
  <2>3. DayOver(v.owner, Day(v.at)) => DayOver(v.owner, Day(v.at))'
    BY <1>1, <1>2, <1>6, <2>1 DEF DayOver
  <2>4. (InHour(v) => InHour(v)') /\ (InDay(v) => InDay(v)')
    BY <1>1 DEF InHour, InDay, Counts
  <2>5. QED
    BY <2>1, <2>2, <2>3, <2>4 DEF Held
<1>9. QED
  BY <1>1, <1>3, <1>4, <1>5, <1>7, <1>8 DEF ViewsInv, ThresholdInv, AggregatedInv, YoungInv, CompactedInv

LEMMA VisitKept ==
    ASSUME ViewsInv, NEW o \in Owners, NEW page \in BOOLEAN, Visit(o, page)
    PROVE  ViewsInv'
<1> DEFINE line == [at |-> now, owner |-> o, page |-> page]
<1>1. /\ \A v \in visits : ~(v.at = now /\ v.owner = o)
      /\ file' = Append(file, line) /\ visits' = visits \cup {line} /\ troubles' = troubles
      /\ UNCHANGED <<now, there, offset, raw, agg, at, threshold, collected, cut, excused>>
  BY DEF Visit, Fine, EngineStill, AggregatorStill
<1>2. /\ line \in Line /\ line.at = now /\ line.owner = o
      /\ file \in Seq(Line) /\ offset \in Nat /\ now \in Nat /\ troubles \in Nat
  BY ViewFacts DEF ViewsInv, ViewTypes, Line
<1> HIDE DEF line
<1>3. /\ file' \in Seq(Line) /\ Len(file') = Len(file) + 1 /\ file'[Len(file) + 1] = line
      /\ \A i \in 1 .. Len(file) : file'[i] = file[i]
  BY <1>1, <1>2
<1>4. ViewTypes'
  <2>1. IsFiniteSet(visits \cup {line})
    BY FS_AddElement DEF ViewsInv, ViewTypes
  <2>2. \A i \in 1 .. Len(file') : file'[i] \in visits'
    <3>1. \A i \in 1 .. Len(file) : file[i] \in visits
      BY DEF ViewsInv, ViewTypes
    <3>2. Len(file) \in Nat
      BY <1>2
    <3>3. QED
      BY <1>1, <1>3, <3>1, <3>2
  <2>3. QED
    BY <1>1, <1>2, <1>3, <2>1, <2>2 DEF ViewsInv, ViewTypes
<1>5. OnceInv'
  BY <1>1, <1>2 DEF ViewsInv, OnceInv, VisitsOnce, RowsOnce
<1>6. UnreadInv'
  <2> SUFFICES ASSUME NEW i \in From' + 1 .. Len(file')
               PROVE  file'[i].at + troubles >= now
    BY <1>1 DEF UnreadInv
  <2>1. CASE i = Len(file) + 1
    BY <1>2, <1>3, <2>1
  <2>2. CASE i # Len(file) + 1
    <3>1. i \in From + 1 .. Len(file) /\ i \in 1 .. Len(file)
      BY <1>1, <1>2, <1>3, <2>2 DEF From
    <3>2. QED
      BY <1>3, <3>1 DEF ViewsInv, UnreadInv
  <2>3. QED
    BY <2>1, <2>2
<1>7. QED
  BY <1>1, <1>4, <1>5, <1>6, TablesKept DEF ViewsInv

LEMMA RestStill ==
    ASSUME ViewsInv, RotateLog \/ CollectApps \/ RestartAnalytics \/ UNCHANGED analyticsVars
    PROVE  ViewsInv'
<1>1. /\ UNCHANGED <<now, there, visits, raw, agg, threshold, collected, cut, excused>> /\ at' \in {at, "idle"}
      /\ \/ troubles' = troubles
         \/ troubles < MaxTroubles /\ troubles' = troubles + 1
      /\ \/ file' = <<>> /\ offset' = offset
         \/ file' = file /\ offset' \in {offset, Len(file)}
  <2>1. CASE RotateLog
    BY <2>1 DEF RotateLog, Trouble, EngineStill, AggregatorStill
  <2>2. CASE CollectApps
    BY <2>2 DEF CollectApps, Fine, LogStill, EngineStill, AggregatorStill
  <2>3. CASE RestartAnalytics
    BY <2>3 DEF RestartAnalytics, Trouble
  <2>4. CASE UNCHANGED analyticsVars
    BY <2>4 DEF analyticsVars
  <2>5. QED
    BY <2>1, <2>2, <2>3, <2>4
<1>2. /\ file \in Seq(Line) /\ offset \in Nat /\ now \in Int /\ troubles \in Nat /\ Len(file) \in Nat
      /\ troubles <= MaxTroubles /\ MaxTroubles \in Nat
  BY ViewFacts, AgesTyped DEF ViewsInv, ViewTypes
<1>3. ViewTypes'
  <2>1. troubles' \in 0 .. MaxTroubles
    BY <1>1, <1>2
  <2>2. file' \in Seq(Line) /\ offset' \in Nat /\ \A i \in 1 .. Len(file') : file'[i] \in visits
    <3>1. \A i \in 1 .. Len(file) : file[i] \in visits
      BY DEF ViewsInv, ViewTypes
    <3>2. <<>> \in Seq(Line) /\ Len(<<>>) = 0
      OBVIOUS
    <3>3. CASE file' = <<>> /\ offset' = offset
      BY <1>2, <3>2, <3>3
    <3>4. CASE file' = file /\ offset' \in {offset, Len(file)}
      BY <1>2, <3>1, <3>4
    <3>5. QED
      BY <1>1, <3>3, <3>4
  <2>3. QED
    BY <1>1, <2>1, <2>2 DEF ViewsInv, ViewTypes
<1>4. OnceInv'
  BY <1>1 DEF ViewsInv, OnceInv, VisitsOnce, RowsOnce
<1>5. UnreadInv'
  <2> SUFFICES ASSUME NEW i \in From' + 1 .. Len(file')
               PROVE  file'[i].at + troubles' >= now
    BY <1>1 DEF UnreadInv
  <2>1. file' = file /\ offset' = offset /\ i \in From + 1 .. Len(file) /\ i \in 1 .. Len(file)
    BY <1>1, <1>2 DEF From
  <2>2. file[i].at + troubles >= now /\ file[i].at \in Int
    BY <2>1, ViewFacts DEF ViewsInv, UnreadInv, ViewTypes
  <2>3. QED
    BY <1>1, <1>2, <2>1, <2>2
<1>6. QED
  BY <1>1, <1>3, <1>4, <1>5, TablesKept DEF ViewsInv

LEMMA DeleteSiteKept ==
    ASSUME ViewsInv, NEW a \in Sites, DeleteSite(a)
    PROVE  ViewsInv'
<1>1. /\ there' = there \ {a} /\ raw' = {v \in raw : v.owner # a}
      /\ agg' = {r \in agg : r.owner # a} /\ collected' = {v \in collected : v.owner # a}
      /\ UNCHANGED <<now, file, offset, troubles, visits, at, threshold, cut, excused>>
  BY DEF DeleteSite, Fine, LogStill
<1>2. raw' \subseteq raw /\ collected' \ raw' \subseteq collected \ raw /\ agg' \subseteq agg
  BY <1>1
<1>3. ViewTypes'
  <2>1. IsFiniteSet(agg')
    BY <1>2, FS_Subset DEF ViewsInv, ViewTypes
  <2>2. QED
    BY <1>1, <1>2, <2>1 DEF ViewsInv, ViewTypes
<1>4. OnceInv' /\ UnreadInv' /\ ThresholdInv'
  BY <1>1, <1>2 DEF ViewsInv, OnceInv, VisitsOnce, RowsOnce, UnreadInv, From, ThresholdInv
<1>5. PurgedInv' /\ YoungInv'
  BY <1>1, <1>2 DEF ViewsInv, PurgedInv, HourOver, YoungInv
<1>6. \A o, g, b, t : o # a /\ Counts(o, g, b, t) => Counts(o, g, b, t)'
  BY <1>1 DEF Counts
<1>7. AggregatedInv'
  BY <1>1, <1>2, <1>6 DEF ViewsInv, AggregatedInv, InHour
<1>8. CompactedInv'
  <2>1. \A r \in agg' : r \in agg /\ r.owner # a
    BY <1>1
  <2>2. QED
    BY <1>1, <1>6, <2>1 DEF ViewsInv, CompactedInv
<1>9. HeldInv'
  <2> SUFFICES ASSUME ~excused, NEW v \in collected' \ raw', v.owner \in Sites, Uncut(v)
               PROVE  Held(v)'
    BY <1>1 DEF HeldInv, Uncut
  <2>1. v \in collected \ raw /\ v.owner # a /\ Held(v)
    BY <1>1, <1>2 DEF ViewsInv, HeldInv
  <2>2. (InHour(v) => InHour(v)') /\ (InDay(v) => InDay(v)')
    BY <1>6, <2>1 DEF InHour, InDay
  <2>3. Kept(v)' = Kept(v)
    BY <1>1 DEF Kept
  <2>4. DayOver(v.owner, Day(v.at)) => DayOver(v.owner, Day(v.at))'
    BY <1>1, <1>2 DEF DayOver
  <2>5. QED
    BY <2>1, <2>2, <2>3, <2>4 DEF Held
<1>10. QED
  BY <1>3, <1>4, <1>5, <1>7, <1>8, <1>9 DEF ViewsInv

\* What is collected is young: no threshold has reached its hour yet.
LEMMA CollectShape ==
    ASSUME ViewsInv, Collect
    PROVE  \E vs \in SUBSET visits :
             /\ raw' = raw \cup vs /\ collected' = collected \cup vs
             /\ \A v \in vs : v.at >= now - RawAge + HourLen - 1
<1>1. PICK ok \in SUBSET Batches : /\ raw' = raw \cup UNION {Batch(k) : k \in ok}
                                   /\ collected' = collected \cup UNION {Batch(k) : k \in ok}
  BY DEF Collect
<1> DEFINE vs == UNION {Batch(k) : k \in ok}
<1>2. \A v \in vs : \E i \in From + 1 .. Len(file) : v = file[i]
  BY DEF Batch, Views
<1>3. /\ file \in Seq(Line) /\ Len(file) \in Nat /\ offset \in Nat /\ now \in Int
      /\ troubles \in Nat /\ troubles <= MaxTroubles
  BY ViewFacts DEF ViewsInv, ViewTypes
<1>4. /\ MaxTroubles \in Nat /\ HourLen \in Nat /\ RawAge \in Nat /\ MaxTroubles + HourLen <= RawAge + 1
  BY AgesTyped
<1>5. ASSUME NEW i \in From + 1 .. Len(file)
      PROVE  file[i] \in visits /\ file[i].at >= now - RawAge + HourLen - 1
  <2>1. i \in 1 .. Len(file)
    BY <1>3 DEF From
  <2>2. file[i] \in visits
    BY <2>1 DEF ViewsInv, ViewTypes
  <2>3. file[i].at \in Int
    BY <2>2, ViewFacts DEF ViewsInv
  <2>4. file[i].at + troubles >= now
    BY DEF ViewsInv, UnreadInv
  <2>5. QED
    BY <1>3, <1>4, <2>2, <2>3, <2>4
<1>6. vs \subseteq visits /\ \A v \in vs : v.at >= now - RawAge + HourLen - 1
  BY <1>2, <1>5
<1>7. QED
  BY <1>1, <1>6

LEMMA CollectKept ==
    ASSUME ViewsInv, Collect
    PROVE  ViewsInv'
<1>1. /\ offset' = Len(file)
      /\ UNCHANGED <<now, there, file, troubles, visits, agg, at, threshold, cut, excused>>
  BY DEF Collect, Fine, EngineStill, AggregatorStill
<1>2. PICK vs \in SUBSET visits :
             /\ raw' = raw \cup vs /\ collected' = collected \cup vs
             /\ \A v \in vs : v.at >= now - RawAge + HourLen - 1
  BY CollectShape
<1>3. /\ now \in Int /\ Len(file) \in Nat
      /\ \A v \in visits : /\ v.at \in Int /\ Hour(v.at) \in Int /\ Day(v.at) \in Int
                           /\ Hour(v.at) <= v.at /\ v.at < Hour(v.at) + HourLen
                           /\ Day(v.at) <= v.at /\ v.at < Day(v.at) + DayLen
  BY ViewFacts, HoursTyped DEF ViewsInv
<1>4. /\ RawAge \in Nat /\ HourlyAge \in Nat /\ HourLen \in Nat \ {0} /\ DayLen \in Nat \ {0}
  BY AgesTyped
<1>5. ViewTypes'
  BY <1>1, <1>2, <1>3 DEF ViewsInv, ViewTypes
<1>6. OnceInv' /\ ThresholdInv'
  BY <1>1 DEF ViewsInv, OnceInv, VisitsOnce, RowsOnce, ThresholdInv
<1>7. UnreadInv'
  BY <1>1, <1>3 DEF UnreadInv, From
<1>8. collected' \ raw' \subseteq collected \ raw
  BY <1>2
<1>9. PurgedInv'
  <2> SUFFICES ASSUME NEW v \in collected \ raw, ~(Hour(v.at) \in cut.hour)
               PROVE  HourOver(Hour(v.at))'
    BY <1>1, <1>8 DEF PurgedInv
  <2>1. HourOver(Hour(v.at)) /\ Hour(v.at) \in Int
    BY ViewFacts DEF ViewsInv, PurgedInv
  <2>2. \A w \in vs : Hour(w.at) # Hour(v.at)
    BY <1>2, <1>3, <1>4, <2>1 DEF HourOver
  <2>3. QED
    BY <1>1, <1>2, <2>1, <2>2 DEF HourOver
<1>10. \A v : (InHour(v) <=> InHour(v)') /\ (InDay(v) <=> InDay(v)')
  BY <1>1 DEF InHour, InDay, Counts
<1>11. at # "idle" => \A v \in vs : v.at >= threshold.hourly
  BY <1>2, <1>3, <1>4 DEF ViewsInv, ThresholdInv
<1>12. AggregatedInv'
  <2>1. threshold.hourly \in Int
    BY DEF ViewsInv, ViewTypes
  <2>2. ASSUME at # "idle", NEW v \in vs
        PROVE  ~(v.at < threshold.hourly)
    <3>1. v.at \in Int /\ v.at >= threshold.hourly
      BY <1>3, <1>11, <2>2
    <3>2. QED
      BY <2>1, <3>1
  <2>3. ASSUME at \in {"compact", "purge raw"}, ~excused, NEW v \in raw', v.owner \in Sites, v.at < threshold.hourly
        PROVE  InHour(v)'
    <3>1. v \in raw
      BY <1>2, <2>2, <2>3
    <3>2. QED
      BY <1>10, <2>3, <3>1 DEF ViewsInv, AggregatedInv
  <2>4. QED
    BY <1>1, <2>3 DEF AggregatedInv
<1>13. YoungInv'
  BY <1>1, <1>2, <1>11 DEF ViewsInv, YoungInv
<1>14. CompactedInv'
  BY <1>1 DEF ViewsInv, CompactedInv, Counts
<1>15. HeldInv'
  <2> SUFFICES ASSUME ~excused, NEW v \in collected \ raw, v.owner \in Sites, Uncut(v)
               PROVE  Held(v)'
    BY <1>1, <1>8 DEF HeldInv, Uncut
  <2>1. Held(v) /\ Day(v.at) \in Int
    BY ViewFacts DEF ViewsInv, HeldInv
  <2>2. Kept(v)' = Kept(v)
    BY <1>1 DEF Kept
  <2>3. ASSUME DayOver(v.owner, Day(v.at))
        PROVE  DayOver(v.owner, Day(v.at))'
    <3>1. \A w \in vs : Day(w.at) # Day(v.at)
      BY <1>2, <1>3, <1>4, <2>1, <2>3 DEF DayOver
    <3>2. QED
      BY <1>1, <1>2, <2>3, <3>1 DEF DayOver
  <2>4. QED
    BY <1>10, <2>1, <2>2, <2>3 DEF Held
<1>16. QED
  BY <1>5, <1>6, <1>7, <1>9, <1>12, <1>13, <1>14, <1>15 DEF ViewsInv

LEMMA BeginRunKept ==
    ASSUME ViewsInv, BeginRun
    PROVE  ViewsInv'
<1>1. /\ at' = "aggregate"
      /\ threshold' = [hourly |-> now - RawAge, daily |-> now - HourlyAge]
      /\ cut' = [hour |-> cut.hour \cup CutBy(now - RawAge, HourLen, 1),
                 day |-> cut.day \cup CutBy(now - HourlyAge, DayLen, HourLen)]
      /\ UNCHANGED <<now, there, file, offset, visits, troubles, raw, agg, collected, excused>>
  BY DEF BeginRun, Fine, EngineStill, LogStill
<1>2. now \in Int /\ RawAge \in Int /\ HourlyAge \in Int
  BY ViewFacts, AgesTyped DEF ViewsInv
<1>3. ViewTypes'
  <2>1. threshold' \in [hourly : Int, daily : Int]
    BY <1>1, <1>2
  <2>2. QED
    BY <1>1, <2>1 DEF ViewsInv, ViewTypes
<1>4. OnceInv' /\ UnreadInv'
  BY <1>1 DEF ViewsInv, OnceInv, VisitsOnce, RowsOnce, UnreadInv, From
<1>5. ThresholdInv'
  BY <1>1 DEF ThresholdInv, CutBy, Times
<1>6. PurgedInv'
  BY <1>1 DEF ViewsInv, PurgedInv, HourOver
<1>7. AggregatedInv' /\ YoungInv' /\ CompactedInv'
  BY <1>1 DEF AggregatedInv, YoungInv, CompactedInv
<1>8. HeldInv'
  <2>1. \A v : Uncut(v)' => Uncut(v)
    BY <1>1 DEF Uncut
  <2>2. \A v : Held(v) => Held(v)'
    BY <1>1 DEF Held, InHour, InDay, Counts, Kept, DayOver
  <2>3. QED
    BY <1>1, <2>1, <2>2 DEF ViewsInv, HeldInv
<1>9. QED
  BY <1>3, <1>4, <1>5, <1>6, <1>7, <1>8 DEF ViewsInv

-----------------------------------------------------------------------------
\* What the statements of a run leave alone.
LEMMA RunLeaves ==
    ASSUME ViewsInv, RunStill, \/ Fine /\ excused' = excused
                               \/ Trouble /\ (excused => excused')
                               \/ Fine /\ excused' = TRUE
    PROVE  /\ UNCHANGED <<now, there, file, offset, visits, threshold, collected, cut>>
           /\ UnreadInv' /\ troubles' \in 0 .. MaxTroubles /\ (excused => excused')
<1>1. /\ UNCHANGED <<now, there, file, offset, visits, threshold, collected, cut>>
      /\ \/ troubles' = troubles
         \/ troubles < MaxTroubles /\ troubles' = troubles + 1
  BY DEF RunStill, Fine, Trouble, EngineStill, LogStill
<1>2. /\ now \in Int /\ troubles \in Nat /\ troubles <= MaxTroubles /\ MaxTroubles \in Nat
      /\ Len(file) \in Nat /\ offset \in Nat
  BY ViewFacts, AgesTyped DEF ViewsInv, ViewTypes
<1>3. troubles' \in 0 .. MaxTroubles /\ troubles' >= troubles
  BY <1>1, <1>2
<1>4. UnreadInv'
  <2> SUFFICES ASSUME NEW i \in From + 1 .. Len(file)
               PROVE  file[i].at + troubles' >= now
    BY <1>1 DEF UnreadInv, From
  <2>1. i \in 1 .. Len(file)
    BY <1>2 DEF From
  <2>2. file[i].at + troubles >= now /\ file[i].at \in Int
    BY <2>1, ViewFacts DEF ViewsInv, UnreadInv, ViewTypes
  <2>3. QED
    BY <1>2, <1>3, <2>2
<1>5. QED
  BY <1>1, <1>3, <1>4

\* An hour that is over has no view among those that are aggregated.
LEMMA AggregateHourlyKept ==
    ASSUME ViewsInv, AggregateHourly
    PROVE  ViewsInv'
<1>1. /\ at = "aggregate" /\ at' = "compact" /\ raw' = raw /\ RunStill
      /\ \/ Fine /\ agg' = Upserted(HourlyRows) /\ excused' = excused
         \/ Trouble /\ agg' = agg /\ excused' = TRUE
  BY DEF AggregateHourly
<1>2. /\ UNCHANGED <<now, there, file, offset, visits, threshold, collected, cut>>
      /\ UnreadInv' /\ troubles' \in 0 .. MaxTroubles /\ (excused => excused')
  BY <1>1, RunLeaves
<1>3. ViewTypes /\ OnceInv /\ VisitsOnce
  BY DEF ViewsInv, OnceInv
<1>4. CASE agg' = agg /\ excused' = TRUE
  <2>1. ViewTypes' /\ OnceInv'
    BY <1>1, <1>2, <1>4 DEF ViewsInv, ViewTypes, OnceInv, VisitsOnce, RowsOnce
  <2>2. ThresholdInv' /\ PurgedInv'
    BY <1>1, <1>2 DEF ViewsInv, ThresholdInv, PurgedInv, HourOver
  <2>3. QED
    BY <1>1, <1>2, <1>4, <2>1, <2>2 DEF ViewsInv, AggregatedInv, YoungInv, CompactedInv, HeldInv
<1>5. CASE agg' = Upserted(HourlyRows) /\ excused' = excused
  <2>1. /\ IsFiniteSet(HourlyRows)
        /\ \A n \in HourlyRows :
             /\ n \in AggRow /\ n.grain = "hour" /\ CountedOnce(n) /\ InItsBucket(n)
             /\ \E v \in OldRaw : n.owner = v.owner /\ n.bucket = Hour(v.at)
        /\ \A m, n \in HourlyRows : SameKey(m, n) => m = n
        /\ \A v \in OldRaw : \E n \in HourlyRows :
             n.owner = v.owner /\ n.bucket = Hour(v.at) /\ n.counts[v.at] > 0
    BY <1>3, HourlyRowsAre
  <2>2. /\ IsFiniteSet(agg') /\ agg' \subseteq AggRow
        /\ \A r \in agg' : CountedOnce(r) /\ InItsBucket(r)
        /\ \A r, s \in agg' : r.owner # Platform /\ SameKey(r, s) => r = s
        /\ \A r \in agg : (\A n \in HourlyRows : ~SameKey(r, n)) => r \in agg'
        /\ \A n \in HourlyRows : n.owner # Platform => n \in agg'
        /\ \A r \in agg' : \/ r \in agg
                           \/ \E n \in HourlyRows : r.owner = n.owner /\ r.grain = n.grain /\ r.bucket = n.bucket
    BY <1>3, <1>5, <2>1, UpsertedAre
  <2>3. ViewTypes'
    BY <1>1, <1>2, <2>2 DEF ViewsInv, ViewTypes
  <2>4. OnceInv'
    BY <1>2, <2>2 DEF ViewsInv, OnceInv, VisitsOnce, RowsOnce
  <2>5. ThresholdInv' /\ PurgedInv'
    BY <1>1, <1>2 DEF ViewsInv, ThresholdInv, PurgedInv, HourOver
  <2>6. AggregatedInv'
    <3> SUFFICES ASSUME NEW v \in raw, v.owner \in Sites, v.at < threshold.hourly
                 PROVE  InHour(v)'
      BY <1>1, <1>2 DEF AggregatedInv
    <3>1. v \in OldRaw
      BY DEF OldRaw
    <3>2. PICK n \in HourlyRows : n.owner = v.owner /\ n.bucket = Hour(v.at) /\ n.counts[v.at] > 0
      BY <2>1, <3>1
    <3>3. n \in agg' /\ n.grain = "hour"
      BY <2>1, <2>2, <3>2, AgesTyped
    <3>4. QED
      BY <3>2, <3>3 DEF InHour, Counts
  <2>7. YoungInv' /\ CompactedInv'
    BY <1>1 DEF YoungInv, CompactedInv
  <2>8. HeldInv'
    <3> SUFFICES ASSUME ~excused, NEW v \in collected \ raw, v.owner \in Sites, Uncut(v)
                 PROVE  Held(v)'
      BY <1>1, <1>2, <1>5 DEF HeldInv, Uncut
    <3>1. Held(v) /\ HourOver(Hour(v.at))
      BY DEF ViewsInv, HeldInv, PurgedInv, Uncut
    <3>2. Kept(v)' = Kept(v)
      BY <1>2 DEF Kept
    <3>3. ASSUME NEW n \in HourlyRows
          PROVE  \E w \in raw : n.bucket = Hour(w.at) /\ n.grain = "hour" /\ n.bucket # Hour(v.at)
      BY <2>1, <3>1 DEF OldRaw, HourOver
    <3>4. InHour(v) => InHour(v)'
      BY <2>2, <3>3 DEF InHour, Counts, SameKey
    <3>5. InDay(v) => InDay(v)'
      BY <2>2, <3>3 DEF InDay, Counts, SameKey
    <3>6. ASSUME DayOver(v.owner, Day(v.at))
          PROVE  DayOver(v.owner, Day(v.at))'
      <4>1. ASSUME NEW n \in HourlyRows
            PROVE  Day(n.bucket) # Day(v.at)
        <5>1. PICK w \in raw : n.bucket = Hour(w.at)
          BY <3>3
        <5>2. Day(n.bucket) = Day(w.at)
          BY <5>1, ViewFacts, HoursOfDay DEF ViewsInv
        <5>3. QED
          BY <3>6, <5>2 DEF DayOver
      <4>2. \A r \in agg' : r.owner = v.owner /\ r.grain = "hour" => Day(r.bucket) # Day(v.at)
        BY <2>2, <3>6, <4>1 DEF DayOver
      <4>3. QED
        BY <1>1, <1>2, <3>6, <4>2 DEF DayOver
    <3>7. QED
      BY <3>1, <3>2, <3>4, <3>5, <3>6 DEF Held
  <2>9. QED
    BY <1>2, <2>3, <2>4, <2>5, <2>6, <2>7, <2>8 DEF ViewsInv
<1>6. QED
  BY <1>1, <1>4, <1>5

LEMMA CompactToDailyKept ==
    ASSUME ViewsInv, CompactToDaily
    PROVE  ViewsInv'
<1>1. /\ at = "compact" /\ at' = "purge raw" /\ raw' = raw /\ RunStill
      /\ \/ Fine /\ agg' = Upserted(DailyRows) /\ excused' = excused
         \/ Trouble /\ agg' = agg /\ excused' = TRUE
  BY DEF CompactToDaily
<1>2. /\ UNCHANGED <<now, there, file, offset, visits, threshold, collected, cut>>
      /\ UnreadInv' /\ troubles' \in 0 .. MaxTroubles /\ (excused => excused')
  BY <1>1, RunLeaves
<1>3. ViewTypes /\ OnceInv /\ VisitsOnce
  BY DEF ViewsInv, OnceInv
<1>4. ThresholdInv' /\ PurgedInv'
  BY <1>1, <1>2 DEF ViewsInv, ThresholdInv, PurgedInv, HourOver
<1>5. CASE agg' = agg /\ excused' = TRUE
  <2>1. ViewTypes' /\ OnceInv'
    BY <1>1, <1>2, <1>5 DEF ViewsInv, ViewTypes, OnceInv, VisitsOnce, RowsOnce
  <2>2. QED
    BY <1>1, <1>2, <1>4, <1>5, <2>1 DEF ViewsInv, AggregatedInv, YoungInv, CompactedInv, HeldInv
<1>6. CASE agg' = Upserted(DailyRows) /\ excused' = excused
  <2>1. /\ IsFiniteSet(DailyRows)
        /\ \A n \in DailyRows :
             /\ n \in AggRow /\ n.grain = "day" /\ CountedOnce(n) /\ InItsBucket(n)
             /\ \E r \in OldHours : n.owner = r.owner /\ n.bucket = Day(r.bucket)
        /\ \A m, n \in DailyRows : SameKey(m, n) => m = n
        /\ \A r \in OldHours : \E n \in DailyRows :
             /\ n.owner = r.owner /\ n.bucket = Day(r.bucket)
             /\ \A t \in Times : r.counts[t] > 0 => n.counts[t] > 0
    BY <1>3, DailyRowsAre
  <2>2. /\ IsFiniteSet(agg') /\ agg' \subseteq AggRow
        /\ \A r \in agg' : CountedOnce(r) /\ InItsBucket(r)
        /\ \A r, s \in agg' : r.owner # Platform /\ SameKey(r, s) => r = s
        /\ \A r \in agg : (\A n \in DailyRows : ~SameKey(r, n)) => r \in agg'
        /\ \A n \in DailyRows : n.owner # Platform => n \in agg'
        /\ \A r \in agg' : \/ r \in agg
                           \/ \E n \in DailyRows : r.owner = n.owner /\ r.grain = n.grain /\ r.bucket = n.bucket
    BY <1>3, <1>6, <2>1, UpsertedAre
  <2>3. ViewTypes'
    BY <1>1, <1>2, <2>2 DEF ViewsInv, ViewTypes
  <2>4. OnceInv'
    BY <1>2, <2>2 DEF ViewsInv, OnceInv, VisitsOnce, RowsOnce
  <2>5. \A o, b, t : Counts(o, "hour", b, t) => Counts(o, "hour", b, t)'
    BY <2>1, <2>2 DEF Counts, SameKey
  <2>6. AggregatedInv'
    BY <1>1, <1>2, <1>6, <2>5 DEF ViewsInv, AggregatedInv, InHour
  <2>7. CompactedInv'
    <3> SUFFICES ASSUME NEW r \in agg', NEW t \in Times, r.owner \in Sites, r.grain = "hour",
                        r.bucket < threshold.daily, r.counts[t] > 0
                 PROVE  Counts(r.owner, "day", Day(r.bucket), t)'
      BY <1>2 DEF CompactedInv
    <3>1. r \in OldHours
      BY <2>1, <2>2 DEF OldHours
    <3>2. PICK n \in DailyRows : n.owner = r.owner /\ n.bucket = Day(r.bucket) /\ n.counts[t] > 0
      BY <2>1, <3>1
    <3>3. n \in agg' /\ n.grain = "day"
      BY <2>1, <2>2, <3>2, AgesTyped
    <3>4. QED
      BY <3>2, <3>3 DEF Counts
  <2>8. YoungInv'
    BY <1>1 DEF YoungInv
  <2>9. HeldInv'
    <3> SUFFICES ASSUME ~excused, NEW v \in collected \ raw, v.owner \in Sites, Uncut(v)
                 PROVE  Held(v)'
      BY <1>1, <1>2, <1>6 DEF HeldInv, Uncut
    <3>1. Held(v)
      BY DEF ViewsInv, HeldInv
    <3>2. Kept(v)' = Kept(v)
      BY <1>2 DEF Kept
    <3>3. InHour(v) => InHour(v)'
      BY <2>5 DEF InHour
    <3>4. ASSUME DayOver(v.owner, Day(v.at))
          PROVE  DayOver(v.owner, Day(v.at))' /\ (InDay(v) => InDay(v)')
      <4>1. ASSUME NEW n \in DailyRows, n.owner = v.owner
            PROVE  n.bucket # Day(v.at)
        BY <2>1, <3>4, <4>1 DEF DayOver, OldHours
      <4>2. InDay(v) => InDay(v)'
        BY <2>2, <4>1 DEF InDay, Counts, SameKey
      <4>3. \A r \in agg' : r.owner = v.owner /\ r.grain = "hour" => Day(r.bucket) # Day(v.at)
        BY <2>1, <2>2, <3>4 DEF DayOver
      <4>4. QED
        BY <1>1, <1>2, <3>4, <4>2, <4>3 DEF DayOver
    <3>5. QED
      BY <3>1, <3>2, <3>3, <3>4 DEF Held
  <2>10. QED
    BY <1>2, <1>4, <2>3, <2>4, <2>6, <2>7, <2>8, <2>9 DEF ViewsInv
<1>7. QED
  BY <1>1, <1>5, <1>6

\* What a threshold passes and does not cut lies before it, as a whole.
LEMMA CutAll ==
    ASSUME ViewsInv, at # "idle", NEW v \in visits
    PROVE  /\ Hour(v.at) < threshold.hourly /\ Hour(v.at) \notin cut.hour => Hour(v.at) + HourLen <= threshold.hourly
           /\ Day(v.at) < threshold.daily /\ Day(v.at) \notin cut.day
                => /\ threshold.daily > Day(v.at) + DayLen - HourLen
                   /\ Day(v.at) + DayLen <= threshold.hourly
<1>1. /\ v.at \in Times /\ v.at \in Int /\ now \in Int /\ Hour(v.at) \in Int /\ Day(v.at) \in Int
  BY ViewFacts DEF ViewsInv
<1>2. /\ RawAge \in Nat /\ HourlyAge \in Nat /\ HourLen \in Nat \ {0} /\ DayLen \in Nat \ {0}
      /\ RawAge + HourLen <= HourlyAge
  BY AgesTyped
<1>3. /\ threshold.hourly = now - RawAge /\ threshold.daily = now - HourlyAge
      /\ CutBy(threshold.hourly, HourLen, 1) \subseteq cut.hour
      /\ CutBy(threshold.daily, DayLen, HourLen) \subseteq cut.day
  BY DEF ViewsInv, ThresholdInv
<1>4. ASSUME Hour(v.at) < threshold.hourly, Hour(v.at) \notin cut.hour
      PROVE  Hour(v.at) + HourLen <= threshold.hourly
  <2>1. Hour(v.at) \notin CutBy(threshold.hourly, HourLen, 1)
    BY <1>3, <1>4
  <2>2. ~(threshold.hourly <= Hour(v.at) + HourLen - 1)
    BY <1>1, <1>4, <2>1 DEF CutBy, Hour
  <2>3. QED
    BY <1>1, <1>2, <1>3, <2>2
<1>5. ASSUME Day(v.at) < threshold.daily, Day(v.at) \notin cut.day
      PROVE  /\ threshold.daily > Day(v.at) + DayLen - HourLen
             /\ Day(v.at) + DayLen <= threshold.hourly
  <2>1. Day(v.at) \notin CutBy(threshold.daily, DayLen, HourLen)
    BY <1>3, <1>5
  <2>2. ~(threshold.daily <= Day(v.at) + DayLen - HourLen)
    BY <1>1, <1>5, <2>1 DEF CutBy, Day
  <2>3. QED
    BY <1>1, <1>2, <1>3, <2>2
<1>6. QED
  BY <1>4, <1>5

LEMMA DeleteOlderThanKept ==
    ASSUME ViewsInv, DeleteOlderThan
    PROVE  ViewsInv'
<1>1. /\ at = "purge raw" /\ at' = "purge hours" /\ agg' = agg /\ RunStill
      /\ \/ Fine /\ raw' = raw \ OldRaw /\ excused' = excused
         \/ Trouble /\ raw' = raw /\ excused' = TRUE
  BY DEF DeleteOlderThan, PurgedViews
<1>2. /\ UNCHANGED <<now, there, file, offset, visits, threshold, collected, cut>>
      /\ UnreadInv' /\ troubles' \in 0 .. MaxTroubles /\ (excused => excused')
  BY <1>1, RunLeaves
<1>3. /\ raw' \subseteq raw /\ raw \subseteq collected /\ raw \subseteq visits
      /\ raw \ raw' \subseteq OldRaw /\ (raw' = raw \/ raw' = raw \ OldRaw)
  BY <1>1 DEF ViewsInv, ViewTypes
<1>4. ViewTypes' /\ OnceInv' /\ ThresholdInv'
  BY <1>1, <1>2, <1>3 DEF ViewsInv, ViewTypes, OnceInv, VisitsOnce, RowsOnce, ThresholdInv
<1>5. threshold.hourly = now - RawAge /\ threshold.hourly \in Int
  <2>1. threshold = [hourly |-> now - RawAge, daily |-> now - HourlyAge]
    BY <1>1 DEF ViewsInv, ThresholdInv
  <2>2. threshold \in [hourly : Int, daily : Int]
    BY DEF ViewsInv, ViewTypes
  <2>3. QED
    BY <2>1, <2>2
<1>6. /\ HourLen \in Nat \ {0}
      /\ \A v \in visits : /\ v.at \in Int /\ Hour(v.at) \in Int
                           /\ Hour(v.at) <= v.at /\ v.at < Hour(v.at) + HourLen
  BY AgesTyped, ViewFacts, HoursTyped DEF ViewsInv
<1>7. PurgedInv'
  <2> SUFFICES ASSUME NEW v \in collected \ raw', Hour(v.at) \notin cut.hour
               PROVE  HourOver(Hour(v.at))'
    BY <1>2 DEF PurgedInv
  <2>1. CASE v \notin raw
    <3>1. HourOver(Hour(v.at))
      BY <2>1 DEF ViewsInv, PurgedInv
    <3>2. QED
      BY <1>2, <1>3, <3>1 DEF HourOver
  <2>2. CASE v \in raw
    <3>1. v.at < threshold.hourly /\ raw' = raw \ OldRaw
      BY <1>3, <2>2 DEF OldRaw
    <3>2. Hour(v.at) + HourLen <= threshold.hourly
      <4>1. Hour(v.at) < threshold.hourly
        BY <1>3, <1>5, <1>6, <2>2, <3>1
      <4>2. QED
        BY <1>1, <1>3, <2>2, <4>1, CutAll
    <3>3. ASSUME NEW w \in raw'
          PROVE  Hour(w.at) # Hour(v.at)
      <4>1. w \in raw /\ ~(w.at < threshold.hourly)
        BY <3>1 DEF OldRaw
      <4>2. QED
        BY <1>3, <1>5, <1>6, <2>2, <3>2, <4>1
    <3>4. QED
      BY <1>2, <1>5, <3>2, <3>3 DEF HourOver
  <2>3. QED
    BY <2>1, <2>2
<1>8. YoungInv'
  <2> SUFFICES ASSUME ~excused', NEW w \in raw'
               PROVE  w.at >= threshold.hourly
    BY <1>2 DEF YoungInv
  <2>1. w \in raw /\ ~(w.at < threshold.hourly)
    BY <1>1 DEF OldRaw
  <2>2. QED
    BY <1>3, <1>5, <1>6, <2>1
<1>9. AggregatedInv' /\ CompactedInv'
  BY <1>1, <1>2 DEF ViewsInv, AggregatedInv, CompactedInv, Counts
<1>10. HeldInv'
  <2> SUFFICES ASSUME ~excused', NEW v \in collected \ raw', v.owner \in Sites, Uncut(v)
               PROVE  Held(v)'
    BY <1>2 DEF HeldInv, Uncut
  <2>1. (InHour(v) => InHour(v)') /\ (InDay(v) => InDay(v)') /\ Kept(v)' = Kept(v)
    BY <1>1, <1>2 DEF InHour, InDay, Counts, Kept
  <2>2. CASE v \notin raw
    <3>1. Held(v)
      BY <1>2, <2>2 DEF ViewsInv, HeldInv
    <3>2. DayOver(v.owner, Day(v.at)) => DayOver(v.owner, Day(v.at))'
      BY <1>1, <1>2, <1>3 DEF DayOver
    <3>3. QED
      BY <2>1, <3>1, <3>2 DEF Held
  <2>3. CASE v \in raw
    <3>1. v.at < threshold.hourly /\ ~excused
      BY <1>2, <1>3, <2>3 DEF OldRaw
    <3>2. InHour(v)
      BY <1>1, <2>3, <3>1 DEF ViewsInv, AggregatedInv
    <3>3. QED
      BY <2>1, <3>2 DEF Held
  <2>4. QED
    BY <2>2, <2>3
<1>11. QED
  BY <1>2, <1>4, <1>7, <1>8, <1>9, <1>10 DEF ViewsInv

LEMMA DeleteHourlyKept ==
    ASSUME ViewsInv, DeleteHourlyOlderThan
    PROVE  ViewsInv'
<1>1. /\ at = "purge hours" /\ at' = "purge days" /\ raw' = raw /\ excused' = excused /\ RunStill
      /\ Fine \/ Trouble
      /\ agg' = agg \ OldHours \/ agg' = agg
  BY DEF DeleteHourlyOlderThan
<1>2. /\ UNCHANGED <<now, there, file, offset, visits, threshold, collected, cut>>
      /\ UnreadInv' /\ troubles' \in 0 .. MaxTroubles /\ (excused => excused')
  BY <1>1, RunLeaves
<1>3. agg' \subseteq agg /\ IsFiniteSet(agg')
  BY <1>1, FS_Subset DEF ViewsInv, ViewTypes
<1>4. ViewTypes' /\ OnceInv' /\ ThresholdInv'
  BY <1>1, <1>2, <1>3 DEF ViewsInv, ViewTypes, OnceInv, VisitsOnce, RowsOnce, ThresholdInv
<1>5. PurgedInv' /\ AggregatedInv' /\ YoungInv' /\ CompactedInv'
  BY <1>1, <1>2 DEF ViewsInv, PurgedInv, HourOver, AggregatedInv, YoungInv, CompactedInv
<1>6. ASSUME ~excused, NEW v \in collected \ raw, v.owner \in Sites, Uncut(v)
      PROVE  Held(v)'
  <2>1. Held(v) /\ v \in visits
    BY <1>6 DEF ViewsInv, HeldInv, ViewTypes
  <2>2. /\ v.at \in Times /\ v.at \in Int /\ now \in Int
        /\ Hour(v.at) \in Int /\ Day(v.at) \in Int /\ Day(v.at) <= Hour(v.at)
    BY <2>1, ViewFacts, HoursTyped DEF ViewsInv
  <2>3. /\ HourLen \in Nat \ {0} /\ DayLen \in Nat \ {0}
        /\ threshold.hourly = now - RawAge /\ threshold.hourly \in Int /\ threshold.daily \in Int
    <3>1. threshold = [hourly |-> now - RawAge, daily |-> now - HourlyAge]
      BY <1>1 DEF ViewsInv, ThresholdInv
    <3>2. threshold \in [hourly : Int, daily : Int]
      BY DEF ViewsInv, ViewTypes
    <3>3. QED
      BY <3>1, <3>2, AgesTyped
  <2>4. Kept(v)' = Kept(v)
    BY <1>2 DEF Kept
  <2>5. InDay(v) => InDay(v)'
    BY <1>1 DEF InDay, Counts, OldHours
  <2>6. DayOver(v.owner, Day(v.at)) => DayOver(v.owner, Day(v.at))'
    BY <1>1, <1>2, <1>3 DEF DayOver
  <2>7. CASE ~InHour(v)
    BY <2>1, <2>4, <2>5, <2>6, <2>7 DEF Held
  <2>8. CASE InHour(v) /\ ~InHour(v)'
    <3>1. PICK r \in agg : r.owner = v.owner /\ r.grain = "hour" /\ r.bucket = Hour(v.at) /\ r.counts[v.at] > 0
      BY <2>8 DEF InHour, Counts
    <3>2. r \in OldHours /\ agg' = agg \ OldHours
      BY <1>1, <2>8, <3>1 DEF InHour, Counts
    <3>3. Hour(v.at) < threshold.daily
      BY <3>1, <3>2 DEF OldHours
    <3>4. InDay(v)
      <4>1. Counts(r.owner, "day", Day(r.bucket), v.at)
        BY <1>1, <1>6, <2>2, <3>1, <3>3 DEF ViewsInv, CompactedInv
      <4>2. QED
        BY <2>2, <3>1, <4>1, HoursOfDay DEF InDay
    <3>5. threshold.daily > Day(v.at) + DayLen - HourLen /\ Day(v.at) + DayLen <= threshold.hourly
      <4>1. Day(v.at) < threshold.daily /\ Day(v.at) \notin cut.day
        BY <1>6, <2>2, <2>3, <3>3 DEF Uncut
      <4>2. QED
        BY <1>1, <2>1, <4>1, CutAll
    <3>6. ASSUME NEW w \in raw
          PROVE  Day(w.at) # Day(v.at)
      <4>1. w.at \in Int /\ Day(w.at) \in Int /\ w.at < Day(w.at) + DayLen
        BY ViewFacts, HoursTyped DEF ViewsInv
      <4>2. w.at >= threshold.hourly
        BY <1>1, <1>6 DEF ViewsInv, YoungInv
      <4>3. QED
        BY <2>2, <2>3, <3>5, <4>1, <4>2
    <3>7. ASSUME NEW q \in agg', q.grain = "hour"
          PROVE  Day(q.bucket) # Day(v.at)
      <4>1. q \in agg /\ q \in AggRow /\ ~(q.bucket < threshold.daily)
        BY <1>3, <3>2, <3>7 DEF ViewsInv, ViewTypes, OldHours
      <4>2. q.bucket \in Int
        BY <4>1 DEF AggRow
      <4>3. PICK t \in Times : q.counts[t] > 0
        BY <4>1 DEF ViewsInv, OnceInv, InItsBucket
      <4>4. q.bucket = Hour(t)
        BY <3>7, <4>1, <4>3 DEF ViewsInv, OnceInv, InItsBucket
      <4>5. t \in Int
        BY AgesTyped DEF Times
      <4>6. Day(q.bucket) = Day(t) /\ q.bucket + HourLen <= Day(t) + DayLen /\ Day(t) \in Int
        BY <4>4, <4>5, HoursOfDay, HoursTyped
      <4>7. QED
        BY <2>2, <2>3, <3>5, <4>1, <4>2, <4>6
    <3>8. DayOver(v.owner, Day(v.at))'
      BY <1>1, <1>2, <2>3, <3>5, <3>6, <3>7 DEF DayOver
    <3>9. QED
      BY <2>5, <3>4, <3>8 DEF Held
  <2>9. QED
    BY <2>7, <2>8 DEF Held
<1>7. HeldInv'
  BY <1>1, <1>2, <1>6 DEF HeldInv, Uncut
<1>8. QED
  BY <1>2, <1>4, <1>5, <1>7 DEF ViewsInv

LEMMA DeleteDailyKept ==
    ASSUME ViewsInv, DeleteDailyOlderThan
    PROVE  ViewsInv'
<1>1. /\ at' = "idle" /\ raw' = raw /\ excused' = excused /\ RunStill
      /\ Fine \/ Trouble
      /\ agg' = {r \in agg : r.grain = "hour" \/ r.bucket >= now - DailyAge} \/ agg' = agg
  BY DEF DeleteDailyOlderThan
<1>2. /\ UNCHANGED <<now, there, file, offset, visits, threshold, collected, cut>>
      /\ UnreadInv' /\ troubles' \in 0 .. MaxTroubles /\ (excused => excused')
  BY <1>1, RunLeaves
<1>3. agg' \subseteq agg /\ IsFiniteSet(agg')
  BY <1>1, FS_Subset DEF ViewsInv, ViewTypes
<1>4. ViewTypes' /\ OnceInv' /\ ThresholdInv'
  BY <1>1, <1>2, <1>3 DEF ViewsInv, ViewTypes, OnceInv, VisitsOnce, RowsOnce, ThresholdInv
<1>5. PurgedInv' /\ AggregatedInv' /\ YoungInv' /\ CompactedInv'
  BY <1>1, <1>2 DEF ViewsInv, PurgedInv, HourOver, AggregatedInv, YoungInv, CompactedInv
<1>6. HeldInv'
  <2> SUFFICES ASSUME ~excused, NEW v \in collected \ raw, v.owner \in Sites, Uncut(v)
               PROVE  Held(v)'
    BY <1>1, <1>2 DEF HeldInv, Uncut
  <2>1. Held(v)
    BY DEF ViewsInv, HeldInv
  <2>2. InHour(v) => InHour(v)'
    BY <1>1 DEF InHour, Counts
  <2>3. Kept(v)' /\ InDay(v) => InDay(v)'
    BY <1>1, <1>2 DEF InDay, Counts, Kept, Day
  <2>4. Kept(v)' = Kept(v)
    BY <1>2 DEF Kept
  <2>5. DayOver(v.owner, Day(v.at)) => DayOver(v.owner, Day(v.at))'
    BY <1>1, <1>2, <1>3 DEF DayOver
  <2>6. QED
    BY <2>1, <2>2, <2>3, <2>4, <2>5 DEF Held
<1>7. QED
  BY <1>2, <1>4, <1>5, <1>6 DEF ViewsInv

LEMMA ViewsInvKept == ViewsInv /\ [AnalyticsNext]_analyticsVars => ViewsInv'
<1> SUFFICES ASSUME ViewsInv, [AnalyticsNext]_analyticsVars PROVE ViewsInv'
  OBVIOUS
<1>1. CASE Tick
  BY <1>1, TickKept
<1>2. CASE \E o \in Owners, page \in BOOLEAN : Visit(o, page)
  BY <1>2, VisitKept
<1>3. CASE \E a \in Sites : DeleteSite(a)
  BY <1>3, DeleteSiteKept
<1>4. CASE RotateLog \/ CollectApps \/ RestartAnalytics \/ UNCHANGED analyticsVars
  BY <1>4, RestStill
<1>5. CASE Collect
  BY <1>5, CollectKept
<1>6. CASE Aggregates
  BY <1>6, BeginRunKept, AggregateHourlyKept, CompactToDailyKept, DeleteOlderThanKept,
     DeleteHourlyKept, DeleteDailyKept DEF Aggregates
<1>7. QED
  BY <1>1, <1>2, <1>3, <1>4, <1>5, <1>6 DEF AnalyticsNext

LEMMA ViewsInvHolds == AnalyticsSpec => []ViewsInv
BY ViewsInvInit, ViewsInvKept, PTL DEF AnalyticsSpec

LEMMA ViewsInvTyped == ViewsInv => AnalyticsTypeOK
<1> SUFFICES ASSUME ViewsInv PROVE AnalyticsTypeOK
  OBVIOUS
<1>1. \A r \in agg : r.owner \in Owners /\ r.grain \in {"hour", "day"} /\ r.counts \in [Times -> Nat]
  BY DEF ViewsInv, ViewTypes, AggRow
<1>2. QED
  BY <1>1 DEF ViewsInv, ViewTypes, AnalyticsTypeOK

\* What an overview of the aggregates counts.
LEMMA CountedIs ==
    ASSUME ViewsInv, NEW rs \in SUBSET agg, NEW o, NEW start, NEW end, NEW t \in Times
    PROVE  LET S == {r \in rs : r.owner = o /\ r.bucket >= start /\ r.bucket < end} IN
           /\ Counted(rs, o, start, end)[t] > 0 <=> \E r \in S : r.counts[t] > 0
           /\ (\A r \in S : r.counts[t] <= 1) /\ (\A r, s \in S : r.counts[t] > 0 /\ s.counts[t] > 0 => r = s)
                => Counted(rs, o, start, end)[t] <= 1
<1> DEFINE S == {r \in rs : r.owner = o /\ r.bucket >= start /\ r.bucket < end}
<1>1. S \subseteq agg
  OBVIOUS
<1>2. IsFiniteSet(S) /\ S \subseteq AggRow
  BY <1>1, FS_Subset DEF ViewsInv, ViewTypes
<1>3. Counted(rs, o, start, end) = Adding(S)
  BY DEF Counted
<1> HIDE DEF S
<1>4. /\ Adding(S)[t] > 0 <=> \E r \in S : r.counts[t] > 0
      /\ (\A r \in S : r.counts[t] <= 1) /\ (\A r, s \in S : r.counts[t] > 0 /\ s.counts[t] > 0 => r = s)
           => Adding(S)[t] <= 1
  BY <1>2, AddingIs
<1>5. QED
  BY <1>3, <1>4 DEF S

LEMMA ViewsInvCounts == ViewsInv => NoViewTwice
<1> SUFFICES ASSUME ViewsInv, NEW a \in Sites, NEW grain \in {"hour", "day"}, NEW t \in Times
             PROVE  OverviewSeries(a, grain, 0, Ever)[t] <= 1
  BY DEF NoViewTwice
<1> DEFINE rs == {r \in agg : r.grain = grain}
           S == {r \in rs : r.owner = a /\ r.bucket >= 0 /\ r.bucket < Ever}
<1>1. \A r \in S : r \in agg /\ r.owner = a /\ r.grain = grain /\ a # Platform
  BY AgesTyped
<1>2. \A r \in S : r.counts[t] <= 1
  BY <1>1 DEF ViewsInv, OnceInv, CountedOnce
<1>3. ASSUME NEW r \in S, NEW s \in S, r.counts[t] > 0, s.counts[t] > 0
      PROVE  r = s
  <2>1. r.bucket = s.bucket
    BY <1>1, <1>3 DEF ViewsInv, OnceInv, InItsBucket
  <2>2. SameKey(r, s)
    BY <1>1, <2>1 DEF SameKey
  <2>3. QED
    BY <1>1, <2>2 DEF ViewsInv, OnceInv, RowsOnce
<1>4. Counted(rs, a, 0, Ever)[t] <= 1
  BY <1>2, <1>3, CountedIs
<1>5. QED
  BY <1>4 DEF OverviewSeries

LEMMA ViewsInvShows == ViewsInv => WholeHoursKept
<1> SUFFICES ASSUME ViewsInv, ~excused, NEW v \in collected, v.owner # Platform, Kept(v), Uncut(v)
             PROVE  Shown(v)
  BY DEF WholeHoursKept, Uncut, Hour, Day
<1>1. /\ v \in visits /\ v.at \in Times /\ v.at \in Int /\ v.at >= 0 /\ v.at <= MaxNow
      /\ v.owner \in Sites
  <2>1. v \in visits /\ v.at \in Times /\ v.at \in Int /\ v.owner \in Owners
    BY ViewFacts DEF ViewsInv
  <2>2. QED
    BY <2>1, AgesTyped DEF Times, Owners
<1>2. RawAge \in Nat \ {0} /\ MaxNow \in Nat /\ HourLen \in Nat \ {0} /\ DayLen \in Nat \ {0}
  BY AgesTyped
<1>3. CASE v \in raw
  <2>1. (v.at + 1) - v.at <= RawAge /\ v.at >= v.at /\ v.at < v.at + 1
    BY <1>1, <1>2
  <2>2. Overview(v.owner, v.at, v.at + 1)[v.at] = 1
    BY <1>1, <1>3, <2>1 DEF Overview
  <2>3. QED
    BY <2>2 DEF Shown
<1>4. CASE v \notin raw
  <2>1. Held(v)
    BY <1>1, <1>4 DEF ViewsInv, HeldInv
  <2>2. PICK r \in agg : /\ r.owner = v.owner /\ r.counts[v.at] > 0
                         /\ r.bucket = Hour(v.at) \/ r.bucket = Day(v.at)
    BY <2>1 DEF Held, InHour, InDay, Counts
  <2>3. /\ Hour(v.at) \in Int /\ Hour(v.at) >= 0 /\ Hour(v.at) <= v.at
        /\ Day(v.at) \in Int /\ Day(v.at) >= 0 /\ Day(v.at) <= v.at
    BY <1>1, <1>2, HoursTyped, TruncNat DEF Hour, Day
  <2>4. Ever \in Int /\ Ever - 0 > RawAge /\ r.bucket >= 0 /\ r.bucket < Ever
    BY <1>1, <1>2, <2>2, <2>3 DEF Ever
  <2>5. Counted(agg, v.owner, 0, Ever)[v.at] > 0
    BY <1>1, <2>2, <2>4, CountedIs
  <2>6. Overview(v.owner, 0, Ever) = Counted(agg, v.owner, 0, Ever)
    BY <1>2, <2>4 DEF Overview
  <2>7. QED
    BY <2>5, <2>6 DEF Shown
<1>5. QED
  BY <1>3, <1>4

\* The tables of views hold what the code puts there.
THEOREM AnalyticsTyped == AnalyticsSpec => []AnalyticsTypeOK
BY ViewsInvHolds, ViewsInvTyped, PTL

\* Wherever statements fail, are repeated and are overtaken by restarts: no hour and no
\* day counts a view of an app twice.
THEOREM ViewsCountedOnce == AnalyticsSpec => []NoViewTwice
BY ViewsInvHolds, ViewsInvCounts, PTL

\* And a view of an app is shown until its time has come, if no threshold fell into its
\* hour or its day, and no aggregating statement and no purge of views failed.
THEOREM ViewsAreKept == AnalyticsSpec => []WholeHoursKept
BY ViewsInvHolds, ViewsInvShows, PTL
-----------------------------------------------------------------------------
(* All of them *)

\* Whatever a behaviour exercises keeps its invariant; nothing is claimed of the rest.
RecordsInv ==
    /\ focus = "pulls" => PullInv
    /\ focus = "repositories" => RepoInv
    /\ focus = "issues" => IssueInv
    /\ focus = "views" => ViewsInv
    /\ focus \in {"alerts", "cleanup"} => MonInv
    /\ focus = "accounts" => AccountInv /\ LimitsInv

LEMMA RecordsInvInit == Init => RecordsInv
<1>1. PullRequestsInit => PullInv
  BY InitTypes, PullsInitInv DEF PullInv
<1>2. QED
  BY <1>1, RepoInitInv, IssuesInitInv, ViewsInvInit, MonInvInit, AccountsInitInv, LimitsInitInv DEF Init, RecordsInv

LEMMA RecordsInvKept == RecordsInv /\ [Next]_records => RecordsInv'
<1> SUFFICES ASSUME RecordsInv, [Next]_records PROVE RecordsInv'
  OBVIOUS
<1>0. focus' = focus
  BY DEF Next, records
<1>1. ASSUME focus = "pulls" PROVE PullInv'
  <2>1. [PullRequestsNext]_prVars
    BY <1>1 DEF Next, records
  <2>2. QED
    BY <1>1, <2>1, InvKept DEF RecordsInv
<1>2. ASSUME focus = "repositories" PROVE RepoInv'
  <2>1. [RepositoriesNext]_repoVars
    BY <1>2 DEF Next, records
  <2>2. QED
    BY <1>2, <2>1, RepoInvKept DEF RecordsInv
<1>3. ASSUME focus = "issues" PROVE IssueInv'
  <2>1. [IssuesNext]_issueVars
    BY <1>3 DEF Next, records
  <2>2. QED
    BY <1>3, <2>1, IssuesNextInv DEF RecordsInv
<1>4. ASSUME focus = "views" PROVE ViewsInv'
  <2>1. [AnalyticsNext]_analyticsVars
    BY <1>4 DEF Next, records
  <2>2. QED
    BY <1>4, <2>1, ViewsInvKept DEF RecordsInv
<1>5. ASSUME focus \in {"alerts", "cleanup"} PROVE MonInv'
  <2>1. [MonitoringNext]_monVars
    BY <1>5 DEF Next, records
  <2>2. QED
    BY <1>5, <2>1, MonInvKept DEF RecordsInv
<1>6. ASSUME focus = "accounts" PROVE AccountInv' /\ LimitsInv'
  <2>1. [AccountsNext]_accountVars
    BY <1>6 DEF Next, records
  <2>2. AccountInv /\ LimitsInv
    BY <1>6 DEF RecordsInv
  <2>3. QED
    BY <2>1, <2>2, AccountsNextInv, LimitsNextInv
<1>7. QED
  BY <1>0, <1>1, <1>2, <1>3, <1>4, <1>5, <1>6 DEF RecordsInv

\* What MCRecords checks on its instance: the tables hold what the code puts there, ...
THEOREM RecordsTyped == Spec => []RecordsTypeOK
<1>1. RecordsInv => RecordsTypeOK
  BY RepoInvTyped, IssueInvTyped, ViewsInvTyped, MonInvTyped, AccountInvTyped DEF RecordsInv, RecordsTypeOK, PullInv
<1>2. QED
  BY <1>1, RecordsInvInit, RecordsInvKept, PTL DEF Spec

\* ... and what is added up is right: views are counted once and kept their time, and the
\* limits of apps fit the host.
THEOREM SumsRight == Spec => []SumsAreRight
<1>1. RecordsInv => SumsAreRight
  BY ViewsInvCounts, ViewsInvShows DEF RecordsInv, SumsAreRight, LimitsInv
<1>2. QED
  BY <1>1, RecordsInvInit, RecordsInvKept, PTL DEF Spec
=============================================================================
