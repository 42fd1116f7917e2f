------------------------------ MODULE Backups -------------------------------
(***************************************************************************)
(* Backups of the platform's databases: rows of backups, each with a       *)
(* directory of dumps.  Run and Restore exclude one another by a flag;     *)
(* Delete and the retention's Cleanup know nothing of it.  What a request  *)
(* started goes on with the context of a request that is answered, where   *)
(* every statement fails; the daily run has the engine's own context.      *)
(***************************************************************************)
EXTENDS Requests

CONSTANTS
    Databases,     \* the databases that are saved
    MaxBackups,    \* bound on the rows ever inserted
    MaxSeconds,    \* bound on the clock that names directories
    MaxAsks        \* bound on the operations begun

Scheduler == "scheduler"

ASSUME BackupsAssumption ==
    /\ IsFiniteSet(Databases) /\ MaxBackups \in Nat /\ MaxSeconds \in Nat /\ MaxAsks \in Nat
    /\ Scheduler \notin Clients

VARIABLES
    bak,        \* bak[b]: the row of backup b
    dir,        \* dir[d]: the directory named d
    running,    \* BackupService.running
    proc,       \* proc[g]: what goroutine g is doing
    second,     \* the clock
    asks,       \* how many operations were begun
    touched,    \* history: directories that two runs made, or that a removal reached
    failed      \* history: directories of nightly backups of which a statement or a
                \* removal failed although its context was alive

backupVars == <<bak, dir, running, proc, second, asks, touched, failed, crashes>>

Ids == 1 .. MaxBackups
\* buildBackupDirName: the second of the start, and whether a request triggered it.
DirName == (0 .. MaxSeconds) \X BOOLEAN
\* none: not inserted yet; gone: deleted.
BackupStatus == {"none", "running", "completed", "failed", "restoring", "gone"}
Backup == [status : BackupStatus, dir : DirName, old : BOOLEAN]
Manual(b) == bak[b].dir[2]

Goroutines == Clients \cup {Scheduler}
\* bid: the row at work, 0 if none yet; left: databases still to do; todo: rows to
\* remove; alive: the context of the statements is not cancelled.
BackupPlaces == {"idle", "run", "create", "dump", "find", "mark", "restore", "close",
                 "clean", "files", "rows"}
NoProc == [at |-> "idle", bid |-> 0, where |-> <<0, FALSE>>, left |-> {}, todo |-> {},
           alive |-> TRUE, result |-> "none"]

BackupsInit ==
    /\ bak = [b \in Ids |-> [status |-> "none", dir |-> <<0, FALSE>>, old |-> FALSE]]
    /\ dir = [d \in DirName |-> [made |-> FALSE, dumps |-> {}]]
    /\ running = FALSE
    /\ proc = [g \in Goroutines |-> NoProc]
    /\ second = 0
    /\ asks = 0
    /\ touched = {}
    /\ failed = {}
    /\ RequestsInit

Listed(b) == bak[b].status \notin {"none", "gone"}
Sleeps(g) == proc[g].at = "idle"
Does(g, at) == proc' = [proc EXCEPT ![g].at = at]
\* Run returns: the scheduled one is followed by Cleanup, whatever came of it.
Returned(g) == IF g = Scheduler THEN [NoProc EXCEPT !.at = "clean"] ELSE NoProc
Returns(g) == proc' = [proc EXCEPT ![g] = Returned(g)]
Begun(g) == Sleeps(g) /\ asks < MaxAsks /\ asks' = asks + 1
-----------------------------------------------------------------------------
\* BackupHandler.Trigger: the flag is looked at before the goroutine is started.
Trigger(c) ==
    /\ Begun(c) /\ ~running
    /\ Does(c, "run")
    /\ UNCHANGED <<bak, dir, running, second, touched, failed, crashes>>

\* BackupWorker.check at three o'clock.
Schedule ==
    /\ Begun(Scheduler)
    /\ Does(Scheduler, "run")
    /\ UNCHANGED <<bak, dir, running, second, touched, failed, crashes>>

MayRun == ~running

\* Run takes the flag and makes the directory.
BeginRun(g) ==
    /\ proc[g].at = "run" /\ MayRun
    /\ LET d == <<second, g # Scheduler>>
       IN  /\ dir' = [dir EXCEPT ![d].made = TRUE]
           /\ touched' = IF dir[d].made \/ \E b \in Ids : Listed(b) /\ bak[b].dir = d
                         THEN touched \cup {d} ELSE touched
           /\ proc' = [proc EXCEPT ![g].at = "create", ![g].where = d, ![g].left = Databases]
    /\ running' = TRUE
    /\ UNCHANGED <<bak, second, asks, failed, crashes>>

\* The flag is set, or the directory cannot be made.
RunRefused(g) ==
    /\ proc[g].at = "run"
    /\ Returns(g)
    /\ UNCHANGED <<bak, dir, running, second, asks, touched, failed, crashes>>

\* A statement about directory d can fail while its context is alive.
Fails(g, d) == failed' = failed \cup {e \in {d} : proc[g].alive /\ ~e[2]}

\* The INSERT; without a row the run is over and its directory stays.
CreateRow(g) ==
    /\ proc[g].at = "create" /\ proc[g].alive
    /\ \E b \in Ids :
           /\ bak[b].status = "none" /\ \A n \in 1 .. b - 1 : bak[n].status # "none"
           /\ bak' = [bak EXCEPT ![b] = [status |-> "running", dir |-> proc[g].where, old |-> FALSE]]
           /\ proc' = [proc EXCEPT ![g].at = "dump", ![g].bid = b]
    /\ UNCHANGED <<dir, running, second, asks, touched, failed, crashes>>

CreateRowFails(g) ==
    /\ proc[g].at = "create"
    /\ Fails(g, proc[g].where)
    /\ Returns(g)
    /\ running' = FALSE
    /\ UNCHANGED <<bak, dir, second, asks, touched, crashes>>

\* execDump of one database into a file that is created or emptied first.
Dump(g, db) ==
    /\ proc[g].at = "dump" /\ db \in proc[g].left
    /\ dir[proc[g].where].made
    /\ dir' = [dir EXCEPT ![proc[g].where].dumps = @ \cup {db}]
    /\ proc' = [proc EXCEPT ![g].left = @ \ {db}]
    /\ UNCHANGED <<bak, running, second, asks, touched, failed, crashes>>

\* Slip: the loop goes on, and only the last error counts.
DumpForgets(g, db) ==
    /\ proc[g].at = "dump" /\ db \in proc[g].left
    /\ proc' = [proc EXCEPT ![g].left = @ \ {db}]
    /\ UNCHANGED <<bak, dir, running, second, asks, touched, failed, crashes>>

\* The first failure ends the loop.
DumpFails(g, db) ==
    /\ proc[g].at = "dump" /\ db \in proc[g].left
    /\ dir' = [dir EXCEPT ![proc[g].where].dumps = @ \ {db}]
    /\ proc' = [proc EXCEPT ![g].at = "close", ![g].result = "failed"]
    /\ UNCHANGED <<bak, running, second, asks, touched, failed, crashes>>

AllDumped(g) ==
    /\ proc[g].at = "dump" /\ proc[g].left = {}
    /\ proc' = [proc EXCEPT ![g].at = "close", ![g].result = "completed"]
    /\ UNCHANGED <<bak, dir, running, second, asks, touched, failed, crashes>>

\* UpdateStatus with a context: a row that is there gets the status, if it can; a
\* failure is logged at most.
SetStatus(g, status) ==
    \/ /\ proc[g].alive
       /\ bak' = IF Listed(proc[g].bid) THEN [bak EXCEPT ![proc[g].bid].status = status] ELSE bak
       /\ failed' = failed
    \/ bak' = bak /\ Fails(g, proc[g].where)

\* The end of Run and of Restore: the verdict, then the deferred release of the flag.
Close(g) ==
    /\ proc[g].at = "close"
    /\ SetStatus(g, proc[g].result)
    /\ running' = FALSE
    /\ Returns(g)
    /\ UNCHANGED <<dir, second, asks, touched, crashes>>
-----------------------------------------------------------------------------
\* BackupHandler.Restore
AskRestore(c, b) ==
    /\ Begun(c) /\ ~running /\ Listed(b)
    /\ proc' = [proc EXCEPT ![c].at = "find", ![c].bid = b]
    /\ UNCHANGED <<bak, dir, running, second, touched, failed, crashes>>

\* Restore takes the flag and reads the row.
BeginRestore(c) ==
    /\ proc[c].at = "find" /\ MayRun
    /\ proc[c].alive /\ bak[proc[c].bid].status = "completed"
    /\ running' = TRUE
    /\ proc' = [proc EXCEPT ![c].at = "mark", ![c].where = bak[proc[c].bid].dir, ![c].left = Databases]
    /\ UNCHANGED <<bak, dir, second, asks, touched, failed, crashes>>

\* The flag is set, the row is not that of a completed backup, or it cannot be read.
RestoreRefused(c) ==
    /\ proc[c].at = "find"
    /\ Returns(c)
    /\ UNCHANGED <<bak, dir, running, second, asks, touched, failed, crashes>>

MarkRestoring(c) ==
    /\ proc[c].at = "mark"
    /\ SetStatus(c, "restoring")
    /\ Does(c, "restore")
    /\ UNCHANGED <<dir, running, second, asks, touched, crashes>>

RestoreOne(c, db) ==
    /\ proc[c].at = "restore" /\ db \in proc[c].left
    /\ db \in dir[proc[c].where].dumps
    /\ proc' = [proc EXCEPT ![c].left = @ \ {db}]
    /\ UNCHANGED <<bak, dir, running, second, asks, touched, failed, crashes>>

\* All are restored, or one of them could not be: the row says completed again.
RestoreEnds(c) ==
    /\ proc[c].at = "restore"
    /\ proc' = [proc EXCEPT ![c].at = "close", ![c].result = "completed"]
    /\ UNCHANGED <<bak, dir, running, second, asks, touched, failed, crashes>>
-----------------------------------------------------------------------------
\* BackupHandler.Delete; it never looks at the flag.
DeleteBackup(c, b) ==
    /\ Begun(c) /\ Listed(b)
    /\ proc' = [proc EXCEPT ![c].at = "files", ![c].todo = {b}]
    /\ UNCHANGED <<bak, dir, running, second, touched, failed, crashes>>

\* Cleanup after the scheduled run: the rows that are older than the retention.
ListOld ==
    /\ proc[Scheduler].at = "clean"
    /\ proc' = [proc EXCEPT ![Scheduler].at = "files",
                            ![Scheduler].todo = {b \in Ids : Listed(b) /\ bak[b].old}]
    /\ UNCHANGED <<bak, dir, running, second, asks, touched, failed, crashes>>

\* The list cannot be read.
CleanupEnds ==
    /\ proc[Scheduler].at = "clean"
    /\ proc' = [proc EXCEPT ![Scheduler] = NoProc]
    /\ UNCHANGED <<bak, dir, running, second, asks, touched, failed, crashes>>

\* os.RemoveAll of each directory; its error is ignored.
RemoveFiles(g) ==
    /\ proc[g].at = "files"
    /\ LET reached == {bak[b].dir : b \in proc[g].todo}
       IN  /\ \E gone \in SUBSET reached :
                  /\ dir' = [d \in DirName |-> IF d \in gone THEN [made |-> FALSE, dumps |-> {}] ELSE dir[d]]
                  /\ failed' = failed \cup {d \in reached \ gone : ~d[2]}
           /\ touched' = touched \cup reached
    /\ Does(g, "rows")
    /\ UNCHANGED <<bak, running, second, asks, crashes>>

\* The rows go; the statement fails when the request was broken off by its client, or
\* without that.
RemoveRows(g) ==
    /\ proc[g].at = "rows"
    /\ \/ /\ proc[g].alive
          /\ bak' = [b \in Ids |-> IF b \in proc[g].todo THEN [bak[b] EXCEPT !.status = "gone"] ELSE bak[b]]
       \/ bak' = bak
    /\ proc' = [proc EXCEPT ![g] = NoProc]
    /\ UNCHANGED <<dir, running, second, asks, touched, failed, crashes>>
-----------------------------------------------------------------------------
\* The handler has answered, or its client hung up: the context is cancelled.
Answered(c) ==
    /\ ~Sleeps(c) /\ proc[c].alive
    /\ proc' = [proc EXCEPT ![c].alive = FALSE]
    /\ UNCHANGED <<bak, dir, running, second, asks, touched, failed, crashes>>

Tick ==
    /\ second < MaxSeconds
    /\ second' = second + 1
    /\ UNCHANGED <<bak, dir, running, proc, asks, touched, failed, crashes>>

\* A row outlives the retention; there is a row of another day by then.
GrowOld(b) ==
    /\ Listed(b) /\ ~bak[b].old /\ bak[b].dir[1] < second
    /\ bak' = [bak EXCEPT ![b].old = TRUE]
    /\ UNCHANGED <<dir, running, proc, second, asks, touched, failed, crashes>>

BackupsCrash ==
    /\ EngineDies
    /\ proc' = [g \in Goroutines |-> NoProc]
    /\ running' = FALSE
    /\ UNCHANGED <<bak, dir, second, asks, touched, failed>>

BackupsNext ==
    \/ \E c \in Clients : Trigger(c) \/ Answered(c) \/ BeginRestore(c) \/ RestoreRefused(c) \/ MarkRestoring(c)
                          \/ RestoreEnds(c)
    \/ \E c \in Clients, b \in Ids : AskRestore(c, b) \/ DeleteBackup(c, b)
    \/ \E c \in Clients, db \in Databases : RestoreOne(c, db)
    \/ Schedule \/ ListOld \/ CleanupEnds
    \/ \E g \in Goroutines : BeginRun(g) \/ RunRefused(g) \/ CreateRow(g) \/ CreateRowFails(g) \/ AllDumped(g)
                             \/ Close(g) \/ RemoveFiles(g) \/ RemoveRows(g)
    \/ \E g \in Goroutines, db \in Databases : Dump(g, db) \/ DumpFails(g, db)
    \/ (\E b \in Ids : GrowOld(b)) \/ Tick \/ BackupsCrash

BackupsSpec == BackupsInit /\ [][BackupsNext]_backupVars
-----------------------------------------------------------------------------
BackupsTypeOK ==
    /\ bak \in [Ids -> Backup]
    /\ dir \in [DirName -> [made : BOOLEAN, dumps : SUBSET Databases]]
    /\ running \in BOOLEAN
    /\ proc \in [Goroutines -> [at : BackupPlaces, bid : 0 .. MaxBackups, where : DirName,
                               left : SUBSET Databases, todo : SUBSET Ids, alive : BOOLEAN,
                               result : {"none", "completed", "failed"}]]
    /\ second \in 0 .. MaxSeconds
    /\ asks \in 0 .. MaxAsks
    /\ touched \in SUBSET DirName
    /\ failed \in SUBSET DirName

\* backup-system-design.md: "Only one backup or restore operation runs at a time
\* (mutex)".  However requests, the worker and answered contexts mix, nobody runs
\* beside another, and the flag never stays set when nobody runs.
Runs(g) == proc[g].at \in {"create", "dump", "mark", "restore", "close"}
OneAtATime ==
    /\ \A g, h \in Goroutines : Runs(g) /\ Runs(h) => g = h
    /\ running <=> \E g \in Goroutines : Runs(g)

\* A backup that is listed as completed can be restored: its directory has a whole
\* dump of every database, unless a second run of the same second wrote into it, or
\* a removal reached it.
CompletedIsWhole ==
    \A b \in Ids : bak[b].status = "completed" /\ bak[b].dir \notin touched
        => dir[bak[b].dir].dumps = Databases

\* The nightly backup gets its verdict, whatever requests are answered or broken off
\* beside it, and leaves no directory that no row tells of.  Short of a crash, of a
\* statement or a removal of its own that the database or the disk refuses, and of
\* nightly runs, that is: a manual one keeps "running", or a stray directory, when
\* its request was answered too early.
NightlyEndsClean ==
    crashes = 0 =>
        /\ \A b \in Ids : bak[b].status = "running" /\ ~Manual(b) /\ bak[b].dir \notin failed
                            => Runs(Scheduler) /\ proc[Scheduler].bid = b
        /\ \A d \in DirName \ failed : dir[d].made /\ ~d[2] =>
               \/ \E b \in Ids : Listed(b) /\ bak[b].dir = d
               \/ Runs(Scheduler) /\ proc[Scheduler].where = d

\* Backups that are under way, listed or on disk: one runs at a time, what is listed
\* is whole, and the nightly one tidies up.
BackupsAreWhole == OneAtATime /\ CompletedIsWhole /\ NightlyEndsClean
=============================================================================
