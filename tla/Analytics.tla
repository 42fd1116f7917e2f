------------------------------- MODULE Analytics -------------------------------
(***************************************************************************)
(* Page views: the worker that reads them from Traefik's access log, the   *)
(* one that compacts them into hours and days and purges what it compacted,*)
(* and the overview that adds them up.                                     *)
(***************************************************************************)
EXTENDS Integers, Sequences, FiniteSets, Functions

CONSTANTS
    Sites,         \* the apps that are visited
    Platform,      \* the owner of views of the platform itself: app_id is NULL
    HourLen,       \* an hour, in ticks
    DayLen,        \* a day, in ticks
    RawAge,        \* the age at which views are aggregated by the hour
    HourlyAge,     \* the age at which hours are compacted into days
    DailyAge,      \* the age at which days are dropped
    BatchSize,     \* how many views one INSERT has at most
    MaxNow,        \* bound on time
    LastVisit,     \* bound on the time of visits
    MaxLines,      \* bound on the lines of the log
    MaxTroubles    \* bound on what happens besides: a read that is a tick late, a
                   \* statement that fails, a log that is rotated, a restart

ASSUME AnalyticsAssumption ==
    /\ {HourLen, DayLen, RawAge, HourlyAge, DailyAge, BatchSize} \subseteq Nat \ {0}
    /\ DayLen % HourLen = 0 /\ RawAge + HourLen <= HourlyAge /\ HourlyAge < DailyAge
    /\ {MaxNow, LastVisit, MaxLines, MaxTroubles} \subseteq Nat
    /\ MaxTroubles + HourLen <= RawAge + 1
    /\ Platform \notin Sites

VARIABLES
    now,
    file, offset,  \* the access log, and how much of it was read
    troubles,      \* how much went wrong
    there,         \* apps that exist
    listed,        \* the apps the collector knows, Nothing outside of collect
    raw,           \* table pageviews
    agg,           \* table pageview_aggregations
    at,            \* the statement the aggregation worker is at
    due,           \* when it runs next
    threshold,     \* of its run
    visits,        \* history: every line that was written
    collected,     \* history: every view that came into the table, of apps that exist
    cut,           \* history: hours and days that a threshold fell into
    excused        \* history: an aggregating statement, or a purge of views, failed

analyticsVars == <<now, file, offset, troubles, there, listed, raw, agg, at, due,
                   threshold, visits, collected, cut, excused>>

Times == 0 .. MaxNow
Owners == Sites \cup {Platform}
Nothing == [known |-> FALSE, apps |-> {}]

\* date_trunc
Trunc(t, len) == t - (t % len)

\* An aggregate has the number of its views; here, how often it counts each.
Row(o, grain, bucket, counts) == [owner |-> o, grain |-> grain, bucket |-> bucket, copy |-> 1, counts |-> counts]
SameKey(r, s) == r.owner = s.owner /\ r.grain = s.grain /\ r.bucket = s.bucket
Adding(rs) == [t \in Times |-> SumFunctionOnSet([r \in rs |-> r.counts[t]], rs)]

AnalyticsInit ==
    /\ now \in Times /\ now < DayLen /\ due = now
    /\ file = <<>> /\ offset = 0 /\ troubles = 0
    /\ there = Sites /\ listed = Nothing
    /\ raw = {} /\ agg = {} /\ at = "idle"
    /\ threshold = [hourly |-> 0, daily |-> 0]
    /\ visits = {} /\ collected = {}
    /\ cut = [hour |-> {}, day |-> {}] /\ excused = FALSE

LogStill == UNCHANGED <<file, offset, visits>>
AggregatorStill == UNCHANGED <<agg, at, due, threshold, cut>>
EngineStill == UNCHANGED <<now, there>>
-----------------------------------------------------------------------------
Trouble == troubles < MaxTroubles /\ troubles' = troubles + 1
Fine == troubles' = troubles

\* The workers' tickers are fast against a tick; the collector fails when the apps
\* cannot be listed.
Tick ==
    /\ now < MaxNow /\ now' = now + 1
    /\ at = "idle" /\ now < due /\ ~listed.known
    /\ IF offset = Len(file) THEN Fine ELSE Trouble
    /\ UNCHANGED <<there, listed, raw, collected, excused>> /\ LogStill /\ AggregatorStill

\* Traefik writes a line: a page, or something ParseLine leaves out.
Visit(o, page) ==
    /\ Cardinality(visits) < MaxLines /\ now <= LastVisit
    /\ \A v \in visits : ~(v.at = now /\ v.owner = o)
    /\ LET line == [at |-> now, owner |-> o, page |-> page] IN
       file' = Append(file, line) /\ visits' = visits \cup {line}
    /\ Fine /\ UNCHANGED <<offset, listed, raw, collected, excused>>
    /\ EngineStill /\ AggregatorStill

RotateLog ==
    /\ Trouble
    /\ file' = <<>>
    /\ UNCHANGED <<offset, visits, listed, raw, collected, excused>> /\ EngineStill /\ AggregatorStill

\* The rows of an app go with it.
DeleteSite(a) ==
    /\ a \in there /\ there' = there \ {a}
    /\ raw' = {v \in raw : v.owner # a}
    /\ agg' = {r \in agg : r.owner # a}
    /\ collected' = {v \in collected : v.owner # a}
    /\ Fine /\ UNCHANGED <<now, listed, at, due, threshold, cut, excused>> /\ LogStill

\* ParseLine: pages of the platform and of the apps that were listed.
ParseLine(line) == line.page /\ line.owner \in listed.apps \cup {Platform}

\* collect; with nothing to read it does nothing.
CollectApps ==
    /\ ~listed.known /\ offset # Len(file)
    /\ listed' = [known |-> TRUE, apps |-> there]
    /\ Fine /\ UNCHANGED <<raw, collected, excused>> /\ EngineStill /\ LogStill /\ AggregatorStill

\* A file smaller than what was read of it is a new one.
From == IF Len(file) < offset THEN 0 ELSE offset
\* Where the views are among the lines that were not read, and the batches they go in.
Views == {i \in From + 1 .. Len(file) : ParseLine(file[i])}
Batch(k) == {file[i] : i \in {j \in Views : Cardinality({h \in Views : h < j}) \div BatchSize = k}}
Batches == {k \in 0 .. Len(file) : Batch(k) # {}}

\* A row whose app is gone fails the batch it is in.
CanInsert(vs) == \A v \in vs : v.owner \in there \cup {Platform}

\* The offset moves on, whatever became of the batches.
Collect ==
    /\ listed.known /\ listed' = Nothing
    /\ \E ok \in SUBSET {k \in Batches : CanInsert(Batch(k))} :
         LET vs == UNION {Batch(k) : k \in ok} IN
         /\ raw' = raw \cup vs
         /\ collected' = collected \cup vs
    /\ offset' = Len(file)
    /\ Fine /\ UNCHANGED <<excused, file, visits>> /\ EngineStill /\ AggregatorStill
-----------------------------------------------------------------------------
\* Buckets of which a threshold leaves one part for the next run.
CutBy(t, len, part) == {b \in {Trunc(s, len) : s \in Times} : b < t /\ t <= b + len - part}

\* run, at startup and every 24 hours from then.
BeginRun ==
    /\ at = "idle" /\ now >= due
    /\ due' = due + DayLen
    /\ threshold' = [hourly |-> now - RawAge, daily |-> now - HourlyAge]
    /\ cut' = [hour |-> cut.hour \cup CutBy(now - RawAge, HourLen, 1),
               day |-> cut.day \cup CutBy(now - HourlyAge, DayLen, HourLen)]
    /\ at' = "aggregate"
    /\ Fine /\ UNCHANGED <<listed, raw, agg, collected, excused>> /\ EngineStill /\ LogStill

\* ON CONFLICT DO UPDATE: the views of a row that is there are replaced.  No two
\* NULLs are in conflict, so rows of the platform are added.
Upserted(new) ==
    {r \in agg : r.owner = Platform \/ \A n \in new : ~SameKey(r, n)}
        \cup {IF n.owner = Platform
              THEN [n EXCEPT !.copy = 1 + Cardinality({r \in agg : SameKey(r, n)})] ELSE n : n \in new}

OldRaw == {v \in raw : v.at < threshold.hourly}
OldHours == {r \in agg : r.grain = "hour" /\ r.bucket < threshold.daily}

HourlyRows ==
    {Row(v.owner, "hour", Trunc(v.at, HourLen),
         [t \in Times |-> Cardinality({w \in OldRaw : w.at = t /\ w.owner = v.owner /\ Trunc(t, HourLen) = Trunc(v.at, HourLen)})])
       : v \in OldRaw}
DailyRows ==
    {Row(r.owner, "day", Trunc(r.bucket, DayLen),
         Adding({s \in OldHours : s.owner = r.owner /\ Trunc(s.bucket, DayLen) = Trunc(r.bucket, DayLen)}))
       : r \in OldHours}

RunStill == UNCHANGED <<listed, collected, due, threshold, cut>> /\ EngineStill /\ LogStill

\* Each statement may fail; the next is executed all the same.
AggregateHourly ==
    /\ at = "aggregate" /\ at' = "compact"
    /\ \/ Fine /\ agg' = Upserted(HourlyRows) /\ excused' = excused
       \/ Trouble /\ agg' = agg /\ excused' = TRUE
    /\ UNCHANGED raw /\ RunStill

CompactToDaily ==
    /\ at = "compact" /\ at' = "purge raw"
    /\ \/ Fine /\ agg' = Upserted(DailyRows) /\ excused' = excused
       \/ Trouble /\ agg' = agg /\ excused' = TRUE
    /\ UNCHANGED raw /\ RunStill

PurgedViews == OldRaw

DeleteOlderThan ==
    /\ at = "purge raw" /\ at' = "purge hours"
    /\ \/ Fine /\ raw' = raw \ PurgedViews /\ excused' = excused
       \/ Trouble /\ raw' = raw /\ excused' = TRUE
    /\ UNCHANGED agg /\ RunStill

DeleteHourlyOlderThan ==
    /\ at = "purge hours" /\ at' = "purge days"
    /\ \/ Fine /\ agg' = agg \ OldHours
       \/ Trouble /\ agg' = agg
    /\ UNCHANGED <<raw, excused>> /\ RunStill

DeleteDailyOlderThan ==
    /\ at = "purge days" /\ at' = "idle"
    /\ \/ Fine /\ agg' = {r \in agg : r.grain = "hour" \/ r.bucket >= now - DailyAge}
       \/ Trouble /\ agg' = agg
    /\ UNCHANGED <<raw, excused>> /\ RunStill

\* The next process skips what the log has by then, and aggregates at once.
RestartAnalytics ==
    /\ Trouble
    /\ offset' = Len(file) /\ listed' = Nothing
    /\ at' = "idle" /\ due' = now
    /\ UNCHANGED <<now, there, file, visits, raw, agg, threshold, collected, cut, excused>>

Aggregates ==
    \/ BeginRun \/ AggregateHourly \/ CompactToDaily
    \/ DeleteOlderThan \/ DeleteHourlyOlderThan \/ DeleteDailyOlderThan

AnalyticsNext ==
    \/ Tick \/ RotateLog \/ (\E a \in Sites : DeleteSite(a))
    \/ \E o \in Owners, page \in BOOLEAN : Visit(o, page)
    \/ CollectApps \/ Collect \/ Aggregates \/ RestartAnalytics

AnalyticsSpec == AnalyticsInit /\ [][AnalyticsNext]_analyticsVars
-----------------------------------------------------------------------------
AnalyticsTypeOK ==
    /\ now \in Times /\ there \subseteq Sites
    /\ raw \subseteq collected /\ collected \subseteq visits
    /\ \A r \in agg : r.owner \in Owners /\ r.grain \in {"hour", "day"} /\ r.counts \in [Times -> Nat]
    /\ at \in {"idle", "aggregate", "compact", "purge raw", "purge hours", "purge days"}

\* Overview: what it counts for owner o from start to end.  Up to seven days are read
\* from the views, longer ranges from the aggregates: the totals from hours and days
\* together, the series from one of them.
Counted(rs, o, start, end) == Adding({r \in rs : r.owner = o /\ r.bucket >= start /\ r.bucket < end})
\* Slip: the first moment is not counted.
OverviewAfter(o, start, end) ==
    IF end - start <= RawAge
    THEN [t \in Times |-> IF t > start /\ t < end /\ \E v \in raw : v.owner = o /\ v.at = t THEN 1 ELSE 0]
    ELSE Counted(agg, o, start, end)
Overview(o, start, end) ==
    IF end - start <= RawAge
    THEN [t \in Times |-> IF t >= start /\ t < end /\ \E v \in raw : v.owner = o /\ v.at = t THEN 1 ELSE 0]
    ELSE Counted(agg, o, start, end)
OverviewSeries(o, grain, start, end) == Counted({r \in agg : r.grain = grain}, o, start, end)

Ever == MaxNow + RawAge + 1
Shown(v) == Overview(v.owner, v.at, v.at + 1)[v.at] > 0 \/ Overview(v.owner, 0, Ever)[v.at] > 0
Kept(v) == Trunc(v.at, DayLen) >= now - DailyAge

\* Views move from table to table in statements that fail one by one, are repeated
\* after failures and overtaken by restarts.  Even so no series counts a view of an
\* app twice.  (Rows of the platform are doubled when a purge of views fails.)
NoViewTwice ==
    \A a \in Sites, grain \in {"hour", "day"}, t \in Times : OverviewSeries(a, grain, 0, Ever)[t] <= 1

\* And no view of an app disappears before its time, unless an aggregating statement
\* failed or views were not purged, ...
ViewsKept == excused \/ \A v \in collected : v.owner \in Sites /\ Kept(v) => Shown(v)

\* ... which the code keeps only for hours and days that no threshold fell into: an
\* upsert replaces what it should add to.
WholeHoursKept ==
    excused \/ \A v \in collected :
        \/ v.owner = Platform \/ ~Kept(v) \/ Shown(v)
        \/ Trunc(v.at, HourLen) \in cut.hour \/ Trunc(v.at, DayLen) \in cut.day
=============================================================================
