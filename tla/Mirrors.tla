------------------------------- MODULE Mirrors -------------------------------
(***************************************************************************)
(* The mirrors of one repository.  A push marks them pending and starts a  *)
(* sync of each; a user may start one; a worker syncs every minute what    *)
(* is still pending.  Syncs take turns under a mutex.                      *)
(***************************************************************************)
EXTENDS Requests

CONSTANTS
    Remotes,       \* the mirrors
    NoRemote,      \* the mirror of a goroutine that is idle
    MaxChanges     \* bound on the changes of the repository

\* The worker that syncs what is pending, and the holder of a mutex that is free.
Worker == "worker"
Nobody == "nobody"

ASSUME MirrorsAssumption ==
    /\ NoRemote \notin Remotes /\ IsFiniteSet(Remotes) /\ MaxChanges \in Nat
    /\ Worker \notin Clients /\ Nobody \notin Clients

VARIABLES
    refs,      \* the repository's refs, by the number of their last change
    marked,    \* history: the last change that was announced to the mirrors
    remote,    \* remote[m]: last_sync_status, and the refs the mirror has
    sync,      \* sync[g]: what goroutine g is doing
    backupMu,  \* who holds the mutex
    excused    \* history: mirrors that are behind because a lookup, a statement or a sync
               \* failed, or the engine died, since they were last marked or taken up again

mirrorVars == <<refs, marked, remote, sync, backupMu, excused, crashes>>

Syncers == Clients \cup {Worker}
SyncStatus == {"none", "pending", "success", "failed"}
\* todo: the mirrors still to do.
SyncPlaces == {"idle", "mark", "event", "take", "pend", "push", "write"}
NoSync == [at |-> "idle", todo |-> {}, on |-> NoRemote, ok |-> FALSE]

MirrorsInit ==
    /\ refs = 0 /\ marked = 0
    /\ remote = [m \in Remotes |-> [status |-> "none", has |-> 0]]
    /\ sync = [g \in Syncers |-> NoSync]
    /\ backupMu = Nobody
    /\ excused = {}
    /\ RequestsInit

Stands(g) == sync[g].at = "idle"
Rest(S) == IF S = {} THEN NoSync ELSE [NoSync EXCEPT !.at = "take", !.todo = S]
-----------------------------------------------------------------------------
\* ReceivePack: git has changed the refs.
PushRefs(c) ==
    /\ Stands(c) /\ refs < MaxChanges
    /\ refs' = refs + 1
    /\ sync' = [sync EXCEPT ![c].at = "mark"]
    /\ UNCHANGED <<marked, remote, backupMu, excused, crashes>>

\* MarkBackupsPending, a statement whose error is only logged: then this goroutine
\* alone knows.
MarkPending(c) ==
    /\ sync[c].at = "mark"
    /\ marked' = refs
    /\ \/ remote' = [m \in Remotes |-> [remote[m] EXCEPT !.status = "pending"]] /\ excused' = {}
       \/ remote' = remote /\ excused' = Remotes
    /\ sync' = [sync EXCEPT ![c].at = "event"]
    /\ UNCHANGED <<refs, backupMu, crashes>>

\* HandlePush, and SyncAllBackups in the background
StartSyncs(c) ==
    /\ sync[c].at = "event"
    /\ sync' = [sync EXCEPT ![c] = Rest(Remotes)]
    /\ UNCHANGED <<refs, marked, remote, backupMu, excused, crashes>>

\* Its mark was written over, or is about to be, by a sync that has pushed already.
Overtaken == {m \in Remotes : \/ remote[m].status # "pending"
                              \/ \E g \in Syncers : sync[g].at = "write" /\ sync[g].on = m}

\* One of their lookups fails and they return: what is still pending is the worker's.
StartSyncsFails(c) ==
    /\ sync[c].at = "event"
    /\ sync' = [sync EXCEPT ![c] = NoSync]
    /\ excused' = excused \cup Overtaken
    /\ UNCHANGED <<refs, marked, remote, backupMu, crashes>>

\* A merge of a pull request, a branch or a tag made by the API: nothing is marked.
ChangeRefs ==
    /\ refs < MaxChanges
    /\ refs' = refs + 1
    /\ UNCHANGED <<marked, remote, sync, backupMu, excused, crashes>>

\* SyncRemote
AskSync(c, m) ==
    /\ Stands(c)
    /\ sync' = [sync EXCEPT ![c] = Rest({m})]
    /\ UNCHANGED <<refs, marked, remote, backupMu, excused, crashes>>

\* Slip: the worker lists what failed.
FailedOnly == {m \in Remotes : remote[m].status = "failed"}

Pending == {m \in Remotes : remote[m].status = "pending"}

\* RepositoryBackupWorker.processPending
ListPending ==
    /\ Stands(Worker) /\ Pending # {}
    /\ sync' = [sync EXCEPT ![Worker] = Rest(Pending)]
    /\ excused' = excused \ Pending
    /\ UNCHANGED <<refs, marked, remote, backupMu, crashes>>

\* SyncBackup of the next mirror waits for the mutex ...
TakeMutex(g, m) ==
    /\ sync[g].at = "take" /\ m \in sync[g].todo /\ backupMu = Nobody
    /\ backupMu' = g
    /\ sync' = [sync EXCEPT ![g].at = "pend", ![g].on = m, ![g].todo = @ \ {m}]
    /\ UNCHANGED <<refs, marked, remote, excused, crashes>>

\* ... writes pending ...
WritePending(g) ==
    /\ sync[g].at = "pend"
    /\ remote' = [remote EXCEPT ![sync[g].on].status = "pending"]
    /\ sync' = [sync EXCEPT ![g].at = "push"]
    /\ UNCHANGED <<refs, marked, backupMu, excused, crashes>>

\* ... pushes all refs ...
PushMirror(g) ==
    /\ sync[g].at = "push"
    /\ remote' = [remote EXCEPT ![sync[g].on].has = refs]
    /\ sync' = [sync EXCEPT ![g].at = "write", ![g].ok = TRUE]
    /\ UNCHANGED <<refs, marked, backupMu, excused, crashes>>

\* ... which fails, like the making of its URL ...
PushMirrorFails(g) ==
    /\ sync[g].at = "push"
    /\ sync' = [sync EXCEPT ![g].at = "write", ![g].ok = FALSE]
    /\ excused' = excused \cup {sync[g].on}
    /\ UNCHANGED <<refs, marked, remote, backupMu, crashes>>

Leaves(g) == sync' = [sync EXCEPT ![g] = Rest(sync[g].todo)] /\ backupMu' = Nobody

\* ... and writes the status, over a pending that a push has written meanwhile.
WriteSynced(g) ==
    /\ sync[g].at = "write"
    /\ \/ remote' = [remote EXCEPT ![sync[g].on].status = IF sync[g].ok THEN "success" ELSE "failed"]
       \/ remote' = remote
    /\ Leaves(g)
    /\ UNCHANGED <<refs, marked, excused, crashes>>

\* A lookup or the statement that writes pending fails: SyncBackup returns.
SyncFails(g) ==
    /\ sync[g].at = "pend"
    /\ Leaves(g)
    /\ excused' = excused \cup {sync[g].on}
    /\ UNCHANGED <<refs, marked, remote, crashes>>

MirrorsCrash ==
    /\ EngineDies
    /\ sync' = [g \in Syncers |-> NoSync]
    /\ backupMu' = Nobody
    /\ excused' = excused \cup {m \in Remotes : remote[m].status # "pending"}
    /\ UNCHANGED <<refs, marked, remote>>

Syncing(g) ==
    \/ (\E m \in Remotes : TakeMutex(g, m)) \/ WritePending(g) \/ PushMirror(g) \/ PushMirrorFails(g)
    \/ WriteSynced(g) \/ SyncFails(g)

Announces(c) == MarkPending(c) \/ StartSyncs(c) \/ StartSyncsFails(c)

MirrorsNext ==
    \/ \E c \in Clients : PushRefs(c) \/ Announces(c) \/ (\E m \in Remotes : AskSync(c, m))
    \/ ChangeRefs \/ ListPending \/ (\E g \in Syncers : Syncing(g)) \/ MirrorsCrash

\* sync.Mutex does not starve its waiters; the worker's ticker goes on.
MirrorsFairness ==
    /\ \A c \in Clients : WF_mirrorVars(Announces(c))
    /\ WF_mirrorVars(ListPending)
    /\ \A g \in Syncers : SF_mirrorVars(Syncing(g))

MirrorsSpec == MirrorsInit /\ [][MirrorsNext]_mirrorVars /\ MirrorsFairness
-----------------------------------------------------------------------------
MirrorsTypeOK ==
    /\ refs \in 0 .. MaxChanges /\ marked \in 0 .. MaxChanges
    /\ remote \in [Remotes -> [status : SyncStatus, has : 0 .. MaxChanges]]
    /\ sync \in [Syncers -> [at : SyncPlaces, todo : SUBSET Remotes, on : Remotes \cup {NoRemote}, ok : BOOLEAN]]
    /\ backupMu \in Syncers \cup {Nobody}
    /\ excused \in SUBSET Remotes

\* What was pushed and marked reaches every mirror in the end, whichever syncs
\* overlap and whoever writes the status last.  A failed sync is not tried again
\* before the next push; and a status that an older sync wrote over the "pending" of
\* a push is lost work when the push's own sync does not start or the engine dies
\* before it.
MirrorConverges == \A m \in Remotes : []<>(remote[m].has >= marked \/ m \in excused)
=============================================================================
