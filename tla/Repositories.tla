----------------------------- MODULE Repositories -----------------------------
(***************************************************************************)
(* The hosted repositories of one user: their rows, and their bare git     *)
(* directories on disk.  Creations, imports, deletions, pushes and clones  *)
(* go from one to the other in steps that may fail.                        *)
(***************************************************************************)
EXTENDS Requests

CONSTANTS
    Repos,         \* ids: each creation has one of its own
    Slugs,         \* the names in the URLs
    MaxObjects,    \* the quota of a repository, in pushes
    Imports,       \* what an import may bring, in pushes
    MaxCalls       \* bound on the requests

ASSUME RepositoriesAssumption ==
    /\ IsFiniteSet(Repos) /\ MaxObjects \in Nat \ {0} /\ Imports \subseteq Nat /\ MaxCalls \in Nat

VARIABLES
    repository,    \* repository[r]: the row
    storage,       \* storage[p]: what is at path p
    rq,            \* rq[c]: the request of client c
    calls,         \* how many requests there were
    doomed,        \* history: repositories whose deletion began, or whose insertion was
                   \* done without its reply getting through
    litter,        \* history: paths where a failed init or removal, a crash or a race left something
    brought        \* history: brought[p]: what the init or import that made the directory brought

repoVars == <<repository, storage, rq, calls, doomed, litter, brought, crashes>>

NoRow == [is |-> FALSE, slug |-> ""]
Listed == {r \in Repos : repository[r].is}
\* partial: a directory that git does not take for a repository.
Bare(n) == [is |-> "bare", objects |-> n]
Nowhere == [is |-> "none", objects |-> 0]
Partial == [is |-> "partial", objects |-> 0]
RepoPlaces == {"idle", "init", "hook", "insert", "remove", "drop", "prepare", "rules", "capacity",
               "receive"}
NoCall == [at |-> "idle", id |-> "", slug |-> "", import |-> FALSE]

RepositoriesInit ==
    /\ repository = [r \in Repos |-> NoRow]
    /\ storage = [r \in Repos |-> Nowhere]
    /\ rq = [c \in Clients |-> NoCall]
    /\ calls = 0 /\ doomed = {} /\ litter = {}
    /\ brought = [r \in Repos |-> 0]
    /\ RequestsInit

\* Slip: the path is made of the name.
PathBySlug(r, slug) ==
    LET same == {s \in Listed : repository[s].slug = slug} IN IF same = {} THEN r ELSE CHOOSE s \in same : TRUE
\* repositoryPath
PathOf(r, slug) == r

Calls(c, call) ==
    /\ rq[c] = NoCall /\ calls < MaxCalls /\ calls' = calls + 1
    /\ rq' = [rq EXCEPT ![c] = call]
    /\ UNCHANGED <<repository, storage, doomed, litter, brought, crashes>>
GoesOn(c, at) == rq' = [rq EXCEPT ![c].at = at]
Answers(c) == rq' = [rq EXCEPT ![c] = NoCall]
Path(c) == PathOf(rq[c].id, rq[c].slug)
Puts(c, thing) == storage' = [storage EXCEPT ![Path(c)] = thing]
\* os.RemoveAll, whose error is ignored: all, some or none of it goes.
Discards(c) ==
    \E left \in {Nowhere, Partial, storage[Path(c)]} :
        Puts(c, left) /\ litter' = IF left = Nowhere THEN litter ELSE litter \cup {Path(c)}
Brings(c, n) == brought' = [brought EXCEPT ![Path(c)] = n]
RowsStill == UNCHANGED <<repository, doomed>>
CallsStill == UNCHANGED <<calls, brought, crashes>>
-----------------------------------------------------------------------------
InUse(r) == repository[r].is \/ storage[r] # Nowhere \/ r \in doomed \/ \E c \in Clients : rq[c].id = r

\* Create and ImportFromRemote: a new id.
CreateRepository(c, r, slug, import) ==
    ~InUse(r) /\ Calls(c, [NoCall EXCEPT !.at = "init", !.id = r, !.slug = slug, !.import = import])

\* init; what a failed one left is not removed.
GitInit(c) ==
    /\ rq[c].at = "init" /\ ~rq[c].import
    /\ \/ Puts(c, Bare(0)) /\ Brings(c, 0) /\ GoesOn(c, "hook") /\ litter' = litter
       \/ /\ (\E left \in {Nowhere, Partial} : Puts(c, left)) /\ litter' = litter \cup {Path(c)}
          /\ Answers(c) /\ brought' = brought
    /\ RowsStill /\ UNCHANGED <<calls, crashes>>

\* clone --mirror: whatever is there, with no regard to the quota.
GitClone(c) ==
    /\ rq[c].at = "init" /\ rq[c].import
    /\ \/ \E n \in Imports : Puts(c, Bare(n)) /\ Brings(c, n) /\ GoesOn(c, "hook") /\ litter' = litter
       \/ Discards(c) /\ Answers(c) /\ brought' = brought
    /\ RowsStill /\ UNCHANGED <<calls, crashes>>

EnsureFirstHook(c) ==
    /\ rq[c].at = "hook"
    /\ \/ GoesOn(c, "insert") /\ UNCHANGED <<storage, litter>>
       \/ Answers(c) /\ Discards(c)
    /\ RowsStill /\ CallsStill

SlugFree(c) == \A r \in Listed : repository[r].slug # rq[c].slug
\* The row is inserted last; when that fails, or its client left before the reply
\* came, the directory is removed again.
InsertRepository(c) ==
    /\ rq[c].at = "insert" /\ Answers(c)
    /\ LET r == rq[c].id
           row == [is |-> TRUE, slug |-> rq[c].slug]
       IN \/ /\ SlugFree(c) /\ repository' = [repository EXCEPT ![r] = row]
             /\ UNCHANGED <<storage, doomed, litter>>
          \/ Discards(c) /\ RowsStill
          \/ /\ SlugFree(c) /\ repository' = [repository EXCEPT ![r] = row]
             /\ Discards(c) /\ doomed' = doomed \cup {r}
    /\ CallsStill
-----------------------------------------------------------------------------
\* Delete: the directory first, then the row; either may fail.
DeleteRepository(c, r) ==
    /\ r \in Listed
    /\ Calls(c, [NoCall EXCEPT !.at = "remove", !.id = r, !.slug = repository[r].slug])

RemoveStorage(c) ==
    /\ rq[c].at = "remove" /\ doomed' = doomed \cup {rq[c].id}
    /\ \/ Puts(c, Nowhere) /\ GoesOn(c, "drop")
       \/ /\ Answers(c)
          /\ IF storage[Path(c)] = Nowhere THEN storage' = storage
             ELSE \E left \in {storage[Path(c)], Partial} : Puts(c, left)
    /\ CallsStill /\ UNCHANGED <<repository, litter>>

DropRepository(c) ==
    /\ rq[c].at = "drop" /\ Answers(c)
    /\ \/ repository' = [repository EXCEPT ![rq[c].id] = NoRow]
       \/ repository' = repository
    /\ CallsStill /\ UNCHANGED <<storage, doomed, litter>>
-----------------------------------------------------------------------------
\* ReceivePack: the owner's push.  (InfoRefs goes as far as "rules".)
Push(c, r) ==
    /\ r \in Listed
    /\ Calls(c, [NoCall EXCEPT !.at = "prepare", !.id = r, !.slug = repository[r].slug])

\* prepareReceivePack and EnsureReceiveHook look the repository up again, ...
Prepare(c) ==
    /\ rq[c].at = "prepare"
    /\ IF rq[c].id \in Listed THEN GoesOn(c, "rules") ELSE Answers(c)
    /\ RowsStill /\ CallsStill /\ UNCHANGED <<storage, litter>>

\* ... and write into its directory, making it where there is none.
EnsureReceiveHook(c) ==
    /\ rq[c].at = "rules"
    /\ Answers(c) \/ GoesOn(c, "capacity")
    /\ IF storage[Path(c)] = Nowhere
       THEN Puts(c, Partial) /\ litter' = litter \cup {Path(c)}
       ELSE UNCHANGED <<storage, litter>>
    /\ RowsStill /\ CallsStill

RoomAt(p) == storage[p].objects < MaxObjects

CheckRepositoryCapacity(c) ==
    /\ rq[c].at = "capacity"
    /\ IF rq[c].id \in Listed /\ storage[Path(c)].is = "bare" /\ RoomAt(Path(c))
       THEN GoesOn(c, "receive") ELSE Answers(c)
    /\ RowsStill /\ CallsStill /\ UNCHANGED <<storage, litter>>

\* receive-pack, whose hook may refuse.
ReceiveObjects(c) ==
    /\ rq[c].at = "receive" /\ Answers(c)
    /\ \/ storage[Path(c)].is = "bare" /\ Puts(c, Bare(storage[Path(c)].objects + 1))
       \/ storage' = storage
    /\ RowsStill /\ CallsStill /\ UNCHANGED litter
-----------------------------------------------------------------------------
RepositoriesCrash ==
    /\ EngineDies
    /\ litter' = litter \cup {Path(c) : c \in {d \in Clients : rq[d].at \in {"init", "hook", "insert"}}}
    /\ rq' = [c \in Clients |-> NoCall]
    /\ UNCHANGED <<repository, storage, calls, doomed, brought>>

RepositoriesNext ==
    \/ \E c \in Clients :
         \/ \E r \in Repos, slug \in Slugs, import \in BOOLEAN : CreateRepository(c, r, slug, import)
         \/ GitInit(c) \/ GitClone(c) \/ EnsureFirstHook(c) \/ InsertRepository(c)
         \/ \E r \in Repos : DeleteRepository(c, r) \/ Push(c, r)
         \/ RemoveStorage(c) \/ DropRepository(c)
         \/ Prepare(c) \/ EnsureReceiveHook(c) \/ CheckRepositoryCapacity(c) \/ ReceiveObjects(c)
    \/ RepositoriesCrash

RepositoriesSpec == RepositoriesInit /\ [][RepositoriesNext]_repoVars
-----------------------------------------------------------------------------
RepositoriesTypeOK ==
    /\ \A r \in Listed : repository[r].slug \in Slugs
    /\ \A r, s \in Listed : repository[r].slug = repository[s].slug => r = s
    /\ \A p \in Repos : storage[p].is \in {"none", "partial", "bare"}
    /\ \A c \in Clients : rq[c].at \in RepoPlaces

\* A repository that is listed has its directory, unless its deletion began, which
\* removes that first and may end there, or the reply to its insertion was lost.
\* A directory that nobody works at is a listed repository's, unless an init failed
\* half way, a removal failed, the engine died, or a push met a deletion: it makes the
\* directory again for its hook.  And a quota is overrun only by what the requests under
\* way add, or by what an import brought, to which no push adds any more.
StorageMatchesRows ==
    /\ \A r \in Listed \ doomed : storage[r].is = "bare"
    /\ \A r \in Repos : storage[r] # Nowhere =>
           r \in Listed \cup litter \/ \E c \in Clients : rq[c].id = r
    /\ \A r \in Repos : \/ storage[r].objects < MaxObjects + Cardinality(Clients)
                       \/ storage[r].objects = brought[r]
=============================================================================
