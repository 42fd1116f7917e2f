------------------------- MODULE Repositories_proofs -------------------------
(***************************************************************************)
(* Proofs about Repositories, for any repositories, names, clients and     *)
(* bounds.                                                                 *)
(***************************************************************************)
EXTENDS Repositories, FiniteSetTheorems, TLAPS

RepoRow == [is : BOOLEAN, slug : Slugs \cup {""}]
Call == [at : RepoPlaces, id : Repos \cup {""}, slug : Slugs \cup {""}, import : BOOLEAN]
\* A request that makes a repository, which nobody else can know of.
Creating == {"init", "hook", "insert"}
Receivers(r) == {c \in Clients : rq[c].at = "receive" /\ rq[c].id = r}

CallTypes ==
    /\ repository \in [Repos -> RepoRow]
    /\ rq \in [Clients -> Call]
    /\ \A c \in Clients : rq[c] = NoCall \/ (rq[c].id \in Repos /\ rq[c].slug \in Slugs)
    /\ \A r \in Listed : repository[r].slug \in Slugs

\* What is on disk: where there is nothing, there are no objects.
StorageTypes ==
    /\ storage \in [Repos -> [is : {"none", "partial", "bare"}, objects : Nat]]
    /\ \A r \in Repos : storage[r].is = "none" => storage[r] = Nowhere
    /\ brought \in [Repos -> Nat]

\* No two listed repositories have one name.
NamesInv == \A r, s \in Listed : repository[r].slug = repository[s].slug => r = s

\* Who makes a repository is alone with its id, and knows what is at its path.
MakerInv ==
    \A c \in Clients : rq[c].at \in Creating =>
        /\ rq[c].id \notin Listed /\ rq[c].id \notin doomed /\ rq[c].id # ""
        /\ \A d \in Clients : rq[d].id = rq[c].id => d = c
        /\ rq[c].at = "init" => storage[rq[c].id] = Nowhere
        /\ rq[c].at # "init" => storage[rq[c].id].is = "bare"

\* A deletion that goes on to the row left nothing at the path.
DropInv ==
    \A c \in Clients : rq[c].at = "drop" =>
        /\ rq[c].id \in doomed
        /\ storage[rq[c].id] # Nowhere => rq[c].id \in litter

\* Every directory is listed, known to have been left, or being made.
OwnedInv ==
    \A r \in Repos : storage[r] # Nowhere =>
        r \in Listed \cup litter \/ \E c \in Clients : rq[c].at \in Creating /\ rq[c].id = r

\* A listed repository has its directory.
ListedInv == \A r \in Listed \ doomed : storage[r].is = "bare"

\* Every push that was let in counts as if it were done; or there are the objects that an
\* import brought, and no push was let in.
WithinQuota(r) == storage[r].objects + Cardinality(Receivers(r)) <= MaxObjects - 1 + Cardinality(Clients)
AsBrought(r) == storage[r].objects = brought[r] /\ Receivers(r) = {}
QuotaInv == \A r \in Repos : WithinQuota(r) \/ AsBrought(r)

RepoInv ==
    /\ CallTypes /\ StorageTypes /\ NamesInv /\ MakerInv /\ DropInv /\ OwnedInv /\ ListedInv /\ QuotaInv
-----------------------------------------------------------------------------
(* The steps of a request *)

\* What a step does to the requests, to the disk, and what it leaves alone.
OtherCalls(c) == \A d \in Clients \ {c} : rq'[d] = rq[d]
EndsCall(c) == rq'[c] = NoCall /\ OtherCalls(c)
Goes(c, from, to) ==
    /\ rq[c].at = from /\ rq'[c].at = to /\ rq'[c].id = rq[c].id /\ rq'[c].slug = rq[c].slug /\ OtherCalls(c)
Begins(c, r, at) ==
    rq[c] = NoCall /\ rq'[c].at = at /\ rq'[c].id = r /\ rq'[c].slug \in Slugs /\ OtherCalls(c)
Lays(r, thing) ==
    /\ storage' = [storage EXCEPT ![r] = thing]
    /\ storage'[r] = thing /\ \A s \in Repos \ {r} : storage'[s] = storage[s]
KnownStill == UNCHANGED <<repository, doomed, litter, brought>>
\* What is left where a directory was to be removed: nothing, or litter.
Swept(r) ==
    \/ Lays(r, Nowhere) /\ UNCHANGED litter
    \/ (Lays(r, Partial) \/ Lays(r, storage[r])) /\ litter' = litter \cup {r}

LEMMA NoCallType == NoCall \in Call /\ NoCall.at = "idle"
BY DEF NoCall, Call, RepoPlaces

LEMMA CallsEffect ==
    ASSUME CallTypes, NEW c \in Clients, NEW r \in Repos, NEW at \in RepoPlaces, NEW slug \in Slugs, NEW i \in BOOLEAN,
           \/ Calls(c, [NoCall EXCEPT !.at = at, !.id = r, !.slug = slug, !.import = i])
           \/ Calls(c, [NoCall EXCEPT !.at = at, !.id = r, !.slug = slug])
    PROVE  Begins(c, r, at) /\ rq' \in [Clients -> Call] /\ UNCHANGED storage /\ KnownStill
<1>1. PICK m \in Call : m.at = at /\ m.id = r /\ m.slug = slug /\ rq' = [rq EXCEPT ![c] = m]
  BY NoCallType DEF Calls, Call
<1>2. QED
  BY <1>1 DEF CallTypes, Calls, Begins, OtherCalls, KnownStill

LEMMA GoesOnEffect ==
    ASSUME CallTypes, NEW c \in Clients, NEW at \in RepoPlaces, GoesOn(c, at)
    PROVE  Goes(c, rq[c].at, at) /\ rq' \in [Clients -> Call]
<1>1. rq' = [rq EXCEPT ![c] = [rq[c] EXCEPT !.at = at]]
  BY DEF GoesOn, CallTypes
<1>2. rq[c] \in Call
  BY DEF CallTypes
<1>3. QED
  BY <1>1, <1>2 DEF CallTypes, Goes, OtherCalls, Call

LEMMA AnswersEffect ==
    ASSUME CallTypes, NEW c \in Clients, Answers(c)
    PROVE  EndsCall(c) /\ rq' \in [Clients -> Call]
BY NoCallType DEF CallTypes, Answers, EndsCall, OtherCalls

\* Who is on the way knows its repository.
LEMMA AtWork ==
    ASSUME CallTypes, NEW c \in Clients, rq[c].at # "idle"
    PROVE  rq[c].id \in Repos /\ rq[c].slug \in Slugs /\ rq[c] \in Call
BY NoCallType DEF CallTypes

LEMMA PutsEffect ==
    ASSUME CallTypes, StorageTypes, NEW c \in Clients, rq[c].at # "idle", NEW thing, Puts(c, thing)
    PROVE  Lays(rq[c].id, thing)
<1>1. PICK r \in Repos : r = rq[c].id
  BY AtWork
<1>2. storage' = [storage EXCEPT ![r] = thing]
  BY <1>1 DEF Puts, Path, PathOf
<1>3. QED
  BY <1>1, <1>2 DEF Lays, StorageTypes

LEMMA DiscardsEffect ==
    ASSUME CallTypes, StorageTypes, NEW c \in Clients, rq[c].at # "idle", Discards(c)
    PROVE  Swept(rq[c].id)
<1>1. PICK left \in {Nowhere, Partial, storage[rq[c].id]} :
        Puts(c, left) /\ litter' = IF left = Nowhere THEN litter ELSE litter \cup {rq[c].id}
  BY DEF Discards, Path, PathOf
<1>2. Lays(rq[c].id, left)
  BY <1>1, PutsEffect
<1>3. QED
  BY <1>1, <1>2 DEF Swept

\* A new repository gets an id that nobody knows; what follows needs a listed one.
LEMMA BeginShape ==
    ASSUME CallTypes, NEW c \in Clients, NEW r \in Repos,
           \/ \E slug \in Slugs, import \in BOOLEAN : CreateRepository(c, r, slug, import)
           \/ DeleteRepository(c, r) \/ Push(c, r)
    PROVE  /\ rq' \in [Clients -> Call] /\ UNCHANGED storage /\ KnownStill
           /\ \/ Begins(c, r, "init") /\ ~InUse(r)
              \/ \E at \in {"remove", "prepare"} : Begins(c, r, at) /\ r \in Listed
<1>1. ASSUME NEW slug \in Slugs, NEW import \in BOOLEAN, CreateRepository(c, r, slug, import)
      PROVE  Begins(c, r, "init") /\ ~InUse(r) /\ rq' \in [Clients -> Call] /\ UNCHANGED storage /\ KnownStill
  <2>1. "init" \in RepoPlaces
    BY DEF RepoPlaces
  <2>2. QED
    BY <1>1, <2>1, CallsEffect DEF CreateRepository
<1>2. ASSUME NEW at \in {"remove", "prepare"}, r \in Listed,
             Calls(c, [NoCall EXCEPT !.at = at, !.id = r, !.slug = repository[r].slug])
      PROVE  Begins(c, r, at) /\ rq' \in [Clients -> Call] /\ UNCHANGED storage /\ KnownStill
  <2>1. at \in RepoPlaces /\ repository[r].slug \in Slugs
    BY <1>2 DEF RepoPlaces, CallTypes
  <2>2. PICK slug \in Slugs : slug = repository[r].slug
    BY <2>1
  <2>3. QED
    BY <1>2, <2>1, <2>2, CallsEffect
<1>3. QED
  BY <1>1, <1>2 DEF DeleteRepository, Push

\* What the making of a repository does.
LEMMA MakeShape ==
    ASSUME CallTypes, StorageTypes, NEW c \in Clients, GitInit(c) \/ GitClone(c) \/ EnsureFirstHook(c)
    PROVE  /\ rq' \in [Clients -> Call] /\ rq[c].at \in {"init", "hook"} /\ UNCHANGED <<repository, doomed>>
           /\ \/ \E n \in Nat : /\ Goes(c, "init", "hook") /\ Lays(rq[c].id, Bare(n)) /\ UNCHANGED litter
                                /\ brought' = [brought EXCEPT ![rq[c].id] = n]
              \/ Goes(c, "hook", "insert") /\ UNCHANGED <<storage, litter, brought>>
              \/ EndsCall(c) /\ Swept(rq[c].id) /\ UNCHANGED brought
              \/ EndsCall(c) /\ Lays(rq[c].id, Partial) /\ litter' = litter \cup {rq[c].id} /\ UNCHANGED brought
              \/ EndsCall(c) /\ Lays(rq[c].id, Nowhere) /\ litter' = litter \cup {rq[c].id} /\ UNCHANGED brought
<1>0. "hook" \in RepoPlaces /\ "insert" \in RepoPlaces /\ Path(c) = rq[c].id
  BY DEF RepoPlaces, Path, PathOf
<1>1. ASSUME NEW n \in Nat, rq[c].at = "init", Puts(c, Bare(n)), Brings(c, n), GoesOn(c, "hook")
      PROVE  /\ rq' \in [Clients -> Call]
             /\ Goes(c, "init", "hook") /\ Lays(rq[c].id, Bare(n)) /\ brought' = [brought EXCEPT ![rq[c].id] = n]
  BY <1>0, <1>1, GoesOnEffect, PutsEffect DEF Brings
<1>2. CASE GitInit(c)
  <2>0. rq[c].at = "init" /\ UNCHANGED <<repository, doomed>>
    BY <1>2 DEF GitInit, RowsStill
  <2>1. CASE Puts(c, Bare(0)) /\ Brings(c, 0) /\ GoesOn(c, "hook") /\ litter' = litter
    BY <1>1, <2>0, <2>1
  <2>2. ASSUME Answers(c), NEW left \in {Nowhere, Partial}, Puts(c, left)
        PROVE  EndsCall(c) /\ rq' \in [Clients -> Call] /\ Lays(rq[c].id, left)
    BY <2>0, <2>2, AnswersEffect, PutsEffect
  <2>3. QED
    BY <1>0, <1>2, <2>0, <2>1, <2>2 DEF GitInit
<1>3. CASE GitClone(c)
  <2>0. rq[c].at = "init" /\ UNCHANGED <<repository, doomed>>
    BY <1>3 DEF GitClone, RowsStill
  <2>1. ASSUME NEW n \in Imports, Puts(c, Bare(n)), Brings(c, n), GoesOn(c, "hook"), litter' = litter
        PROVE  /\ rq' \in [Clients -> Call]
               /\ \E m \in Nat : /\ Goes(c, "init", "hook") /\ Lays(rq[c].id, Bare(m)) /\ UNCHANGED litter
                                 /\ brought' = [brought EXCEPT ![rq[c].id] = m]
    BY <1>1, <2>0, <2>1, RepositoriesAssumption
  <2>2. ASSUME Discards(c), Answers(c)
        PROVE  EndsCall(c) /\ rq' \in [Clients -> Call] /\ Swept(rq[c].id)
    BY <2>0, <2>2, AnswersEffect, DiscardsEffect
  <2>3. QED
    BY <1>3, <2>0, <2>1, <2>2 DEF GitClone
<1>4. CASE EnsureFirstHook(c)
  <2>0. rq[c].at = "hook" /\ UNCHANGED <<repository, doomed, brought>>
    BY <1>4 DEF EnsureFirstHook, RowsStill, CallsStill
  <2>1. CASE GoesOn(c, "insert") /\ UNCHANGED <<storage, litter>>
    BY <1>0, <2>0, <2>1, GoesOnEffect
  <2>2. CASE Answers(c) /\ Discards(c)
    BY <2>0, <2>2, AnswersEffect, DiscardsEffect
  <2>3. QED
    BY <1>4, <2>1, <2>2 DEF EnsureFirstHook
<1>5. QED
  BY <1>2, <1>3, <1>4

Inserted(c) ==
    /\ SlugFree(c) /\ rq[c].id \in Repos /\ rq[c].slug \in Slugs
    /\ repository' = [repository EXCEPT ![rq[c].id] = [is |-> TRUE, slug |-> rq[c].slug]]

LEMMA InsertShape ==
    ASSUME CallTypes, StorageTypes, NEW c \in Clients, InsertRepository(c)
    PROVE  /\ rq' \in [Clients -> Call] /\ rq[c].at = "insert" /\ EndsCall(c) /\ UNCHANGED brought
           /\ \/ Inserted(c) /\ UNCHANGED <<storage, doomed, litter>>
              \/ Swept(rq[c].id) /\ UNCHANGED <<repository, doomed>>
              \/ Inserted(c) /\ Swept(rq[c].id) /\ doomed' = doomed \cup {rq[c].id}
<1>1. rq[c].at = "insert" /\ EndsCall(c) /\ rq' \in [Clients -> Call]
  BY AnswersEffect DEF InsertRepository
<1>2. QED
  BY <1>1, AtWork, DiscardsEffect DEF InsertRepository, Inserted, RowsStill, CallsStill

LEMMA DeleteShape ==
    ASSUME CallTypes, StorageTypes, NEW c \in Clients, RemoveStorage(c)
    PROVE  /\ rq' \in [Clients -> Call] /\ rq[c].at = "remove" /\ UNCHANGED <<repository, litter, brought>>
           /\ doomed' = doomed \cup {rq[c].id}
           /\ \/ Goes(c, "remove", "drop") /\ Lays(rq[c].id, Nowhere)
              \/ EndsCall(c) /\ UNCHANGED storage
              \/ EndsCall(c) /\ storage[rq[c].id] # Nowhere /\ Lays(rq[c].id, storage[rq[c].id])
              \/ EndsCall(c) /\ storage[rq[c].id] # Nowhere /\ Lays(rq[c].id, Partial)
<1>0. rq[c].at = "remove" /\ "drop" \in RepoPlaces /\ Path(c) = rq[c].id
  BY DEF RemoveStorage, RepoPlaces, Path, PathOf
<1>1. CASE Puts(c, Nowhere) /\ GoesOn(c, "drop")
  BY <1>0, <1>1, GoesOnEffect, PutsEffect DEF RemoveStorage, CallsStill
<1>2. CASE Answers(c) /\ storage' = storage
  BY <1>0, <1>2, AnswersEffect DEF RemoveStorage, CallsStill
<1>3. CASE Answers(c) /\ storage[Path(c)] # Nowhere /\ Puts(c, storage[Path(c)])
  BY <1>0, <1>3, AnswersEffect, PutsEffect DEF RemoveStorage, CallsStill
<1>4. CASE Answers(c) /\ storage[Path(c)] # Nowhere /\ Puts(c, Partial)
  BY <1>0, <1>4, AnswersEffect, PutsEffect DEF RemoveStorage, CallsStill
<1>5. QED
  BY <1>1, <1>2, <1>3, <1>4 DEF RemoveStorage

LEMMA DropShape ==
    ASSUME CallTypes, NEW c \in Clients, DropRepository(c)
    PROVE  /\ rq' \in [Clients -> Call] /\ rq[c].at = "drop" /\ rq[c].id \in Repos
           /\ EndsCall(c) /\ UNCHANGED <<storage, doomed, litter, brought>>
           /\ repository' = repository \/ repository' = [repository EXCEPT ![rq[c].id] = NoRow]
BY AnswersEffect, AtWork DEF DropRepository, CallsStill

\* What a push does before its objects arrive, and with them.
LEMMA PushShape ==
    ASSUME CallTypes, StorageTypes, NEW c \in Clients,
           Prepare(c) \/ EnsureReceiveHook(c) \/ CheckRepositoryCapacity(c) \/ ReceiveObjects(c)
    PROVE  /\ rq' \in [Clients -> Call] /\ rq[c].at \in {"prepare", "rules", "capacity", "receive"}
           /\ UNCHANGED <<repository, doomed, brought>>
           /\ \/ (EndsCall(c) \/ Goes(c, "prepare", "rules") \/ Goes(c, "rules", "capacity")) /\ UNCHANGED <<storage, litter>>
              \/ /\ EndsCall(c) \/ Goes(c, "rules", "capacity")
                 /\ storage[rq[c].id] = Nowhere /\ Lays(rq[c].id, Partial) /\ litter' = litter \cup {rq[c].id}
              \/ /\ Goes(c, "capacity", "receive") /\ UNCHANGED <<storage, litter>>
                 /\ storage[rq[c].id].objects < MaxObjects
              \/ /\ rq[c].at = "receive" /\ EndsCall(c) /\ UNCHANGED litter
                 /\ storage[rq[c].id].is = "bare" /\ Lays(rq[c].id, Bare(storage[rq[c].id].objects + 1))
<1>0. Path(c) = rq[c].id /\ {"rules", "capacity", "receive"} \subseteq RepoPlaces
  BY DEF Path, PathOf, RepoPlaces
<1>1. CASE Prepare(c)
  BY <1>0, <1>1, GoesOnEffect, AnswersEffect DEF Prepare, RowsStill, CallsStill
<1>2. CASE EnsureReceiveHook(c)
  <2>1. rq[c].at = "rules" /\ rq' \in [Clients -> Call] /\ (EndsCall(c) \/ Goes(c, "rules", "capacity"))
    BY <1>0, <1>2, GoesOnEffect, AnswersEffect DEF EnsureReceiveHook
  <2>2. QED
    BY <1>0, <1>2, <2>1, PutsEffect DEF EnsureReceiveHook, RowsStill, CallsStill
<1>3. CASE CheckRepositoryCapacity(c)
  BY <1>0, <1>3, GoesOnEffect, AnswersEffect DEF CheckRepositoryCapacity, RowsStill, CallsStill, RoomAt
<1>4. CASE ReceiveObjects(c)
  <2>1. rq[c].at = "receive" /\ rq' \in [Clients -> Call] /\ EndsCall(c)
    BY <1>4, AnswersEffect DEF ReceiveObjects
  <2>2. QED
    BY <1>0, <1>4, <2>1, PutsEffect DEF ReceiveObjects, RowsStill, CallsStill
<1>5. QED
  BY <1>1, <1>2, <1>3, <1>4

\* Every step of a request is of one of these kinds.
Makes(c) == GitInit(c) \/ GitClone(c) \/ EnsureFirstHook(c)
Pushes(c) == Prepare(c) \/ EnsureReceiveHook(c) \/ CheckRepositoryCapacity(c) \/ ReceiveObjects(c)
Comes(c, r) ==
    \/ \E slug \in Slugs, import \in BOOLEAN : CreateRepository(c, r, slug, import)
    \/ DeleteRepository(c, r) \/ Push(c, r)
RequestStep(c) ==
    \/ \E r \in Repos : Comes(c, r)
    \/ Makes(c) \/ InsertRepository(c) \/ RemoveStorage(c) \/ DropRepository(c) \/ Pushes(c)

LEMMA NextSteps ==
    ASSUME [RepositoriesNext]_repoVars
    PROVE  (\E c \in Clients : RequestStep(c)) \/ RepositoriesCrash \/ UNCHANGED repoVars
BY DEF RepositoriesNext, RequestStep, Comes, Makes, Pushes

LEMMA Stutter ==
    ASSUME UNCHANGED repoVars
    PROVE  rq' = rq /\ storage' = storage /\ KnownStill
BY DEF repoVars, KnownStill

LEMMA CrashShape ==
    ASSUME RepositoriesCrash
    PROVE  /\ \A c \in Clients : rq'[c] = NoCall
           /\ rq' = [c \in Clients |-> NoCall] /\ UNCHANGED <<repository, storage, doomed, brought>>
           /\ litter \subseteq litter'
           /\ \A c \in Clients : rq[c].at \in Creating => rq[c].id \in litter'
BY DEF RepositoriesCrash, Creating, Path, PathOf

\* What an inserted row changes: there is one repository more.
LEMMA InsertedEffect ==
    ASSUME CallTypes, NamesInv, NEW c \in Clients, Inserted(c)
    PROVE  /\ repository' \in [Repos -> RepoRow] /\ NamesInv'
           /\ Listed' = Listed \cup {rq[c].id}
           /\ \A r \in Listed' : repository'[r].slug \in Slugs
<1>1. PICK q \in Repos, slug \in Slugs : q = rq[c].id /\ slug = rq[c].slug
  BY DEF Inserted
<1>2. repository' = [repository EXCEPT ![q] = [is |-> TRUE, slug |-> slug]]
  BY <1>1 DEF Inserted
<1>3. [is |-> TRUE, slug |-> slug] \in RepoRow
  BY DEF RepoRow
<1>4. repository' \in [Repos -> RepoRow]
  BY <1>2, <1>3 DEF CallTypes
<1>5. /\ repository'[q].is /\ repository'[q].slug = slug
      /\ \A r \in Repos \ {q} : repository'[r] = repository[r]
  BY <1>2 DEF CallTypes
<1>6. Listed' = Listed \cup {q}
  BY <1>5 DEF Listed
<1>7. \A r \in Listed : repository[r].slug # slug
  BY <1>1 DEF Inserted, SlugFree
<1>8. NamesInv'
  BY <1>5, <1>6, <1>7 DEF NamesInv, Listed
<1>9. \A r \in Listed' : repository'[r].slug \in Slugs
  BY <1>5, <1>6 DEF CallTypes, Listed
<1>10. QED
  BY <1>1, <1>4, <1>6, <1>8, <1>9

LEMMA DroppedEffect ==
    ASSUME CallTypes, NamesInv, NEW q \in Repos, repository' = [repository EXCEPT ![q] = NoRow]
    PROVE  /\ repository' \in [Repos -> RepoRow] /\ NamesInv'
           /\ Listed' = Listed \ {q}
           /\ \A r \in Listed' : repository'[r].slug \in Slugs
<1>1. NoRow \in RepoRow /\ ~NoRow.is
  BY DEF NoRow, RepoRow
<1>2. repository' \in [Repos -> RepoRow] /\ ~repository'[q].is /\ \A r \in Repos \ {q} : repository'[r] = repository[r]
  BY <1>1 DEF CallTypes
<1>3. Listed' = Listed \ {q}
  BY <1>2 DEF Listed
<1>4. QED
  BY <1>2, <1>3 DEF NamesInv, CallTypes, Listed

\* What there is of a row, unless it is inserted or dropped.
LEMMA RowsEffect ==
    ASSUME CallTypes, StorageTypes, NamesInv, NEW c \in Clients, RequestStep(c)
    PROVE  \/ UNCHANGED repository
           \/ rq[c].at = "insert" /\ Inserted(c)
           \/ /\ rq[c].at = "drop" /\ rq[c].id \in Repos /\ UNCHANGED <<storage, doomed, litter>>
              /\ repository' = [repository EXCEPT ![rq[c].id] = NoRow]
<1>1. ASSUME NEW r \in Repos, Comes(c, r)
      PROVE  UNCHANGED repository
  BY <1>1, BeginShape DEF Comes, KnownStill
<1>2. CASE Makes(c) \/ Pushes(c) \/ RemoveStorage(c)
  BY <1>2, MakeShape, PushShape, DeleteShape DEF Makes, Pushes
<1>3. CASE InsertRepository(c)
  BY <1>3, InsertShape
<1>4. CASE DropRepository(c)
  BY <1>4, DropShape
<1>5. QED
  BY <1>1, <1>2, <1>3, <1>4 DEF RequestStep

\* What a request becomes.
LEMMA CallEffect ==
    ASSUME CallTypes, StorageTypes, NEW c \in Clients, RequestStep(c)
    PROVE  /\ rq' \in [Clients -> Call] /\ OtherCalls(c)
           /\ \/ EndsCall(c)
              \/ \E r \in Repos : Begins(c, r, "init") /\ ~InUse(r) /\ UNCHANGED storage /\ KnownStill
              \/ \E r \in Listed, at \in {"remove", "prepare"} : Begins(c, r, at) /\ UNCHANGED storage /\ KnownStill
              \/ \E from \in RepoPlaces \ {"idle"}, to \in RepoPlaces : Goes(c, from, to)
<1>0. \A at \in {"init", "hook", "insert", "remove", "drop", "prepare", "rules", "capacity", "receive"} : at \in RepoPlaces \ {"idle"}
  BY DEF RepoPlaces
<1>1. ASSUME NEW r \in Repos, Comes(c, r)
      PROVE  /\ rq' \in [Clients -> Call] /\ OtherCalls(c)
             /\ \/ \E q \in Repos : Begins(c, q, "init") /\ ~InUse(q) /\ UNCHANGED storage /\ KnownStill
                \/ \E q \in Listed, at \in {"remove", "prepare"} : Begins(c, q, at) /\ UNCHANGED storage /\ KnownStill
  <2>1. rq' \in [Clients -> Call] /\ UNCHANGED storage /\ KnownStill
    BY <1>1, BeginShape DEF Comes
  <2>2. CASE Begins(c, r, "init") /\ ~InUse(r)
    BY <2>1, <2>2 DEF Begins
  <2>3. ASSUME NEW at \in {"remove", "prepare"}, Begins(c, r, at), r \in Listed
        PROVE  OtherCalls(c) /\ \E q \in Listed, t \in {"remove", "prepare"} : Begins(c, q, t)
    BY <2>3 DEF Begins
  <2>4. QED
    BY <1>1, <2>1, <2>2, <2>3, BeginShape DEF Comes
<1>2. CASE Makes(c)
  BY <1>0, <1>2, MakeShape DEF Makes, Goes, EndsCall
<1>3. CASE Pushes(c)
  BY <1>0, <1>3, PushShape DEF Pushes, Goes, EndsCall
<1>4. CASE RemoveStorage(c)
  BY <1>0, <1>4, DeleteShape DEF Goes, EndsCall
<1>5. CASE InsertRepository(c) \/ DropRepository(c)
  BY <1>5, InsertShape, DropShape DEF EndsCall
<1>6. QED
  BY <1>1, <1>2, <1>3, <1>4, <1>5 DEF RequestStep

LEMMA TypesKept ==
    ASSUME CallTypes, StorageTypes, NamesInv, [RepositoriesNext]_repoVars
    PROVE  CallTypes' /\ StorageTypes' /\ NamesInv'
<1>1. ASSUME NEW c \in Clients, RequestStep(c)
      PROVE  CallTypes' /\ StorageTypes' /\ NamesInv'
  <2>1. /\ repository' \in [Repos -> RepoRow] /\ NamesInv'
        /\ \A r \in Listed' : repository'[r].slug \in Slugs
    <3>1. CASE UNCHANGED repository
      BY <3>1 DEF CallTypes, NamesInv, Listed
    <3>2. QED
      BY <1>1, <3>1, RowsEffect, InsertedEffect, DroppedEffect
  <2>2. /\ rq' \in [Clients -> Call]
        /\ \A d \in Clients : rq'[d] = NoCall \/ (rq'[d].id \in Repos /\ rq'[d].slug \in Slugs)
    <3>1. \A r \in Listed : r \in Repos
      BY DEF Listed
    <3>2. ASSUME NEW from \in RepoPlaces \ {"idle"}, NEW to, Goes(c, from, to), rq' \in [Clients -> Call]
          PROVE  rq'[c].id \in Repos /\ rq'[c].slug \in Slugs
      BY <3>2, AtWork DEF Goes, CallTypes
    <3>3. QED
      BY <1>1, <3>1, <3>2, CallEffect DEF CallTypes, OtherCalls, Begins, EndsCall
  <2>3. StorageTypes'
    <3>0. brought' \in [Repos -> Nat]
      <4>1. UNCHANGED brought \/ \E n \in Nat : brought' = [brought EXCEPT ![rq[c].id] = n]
        BY <1>1, BeginShape, MakeShape, InsertShape, DropShape, DeleteShape, PushShape
           DEF RequestStep, Comes, Makes, Pushes, KnownStill
      <4>2. QED
        BY <4>1 DEF StorageTypes
    <3>1. CASE UNCHANGED storage
      BY <3>0, <3>1 DEF StorageTypes
    <3>2. ASSUME NEW thing \in [is : {"none", "partial", "bare"}, objects : Nat], thing.is = "none" => thing = Nowhere,
                 rq[c].id \in Repos, Lays(rq[c].id, thing)
          PROVE  StorageTypes'
      BY <3>0, <3>2 DEF StorageTypes, Lays
    <3>3. \A n \in Nat : Bare(n) \in [is : {"none", "partial", "bare"}, objects : Nat] /\ Bare(n).is # "none"
      BY DEF Bare
    <3>4. /\ Nowhere \in [is : {"none", "partial", "bare"}, objects : Nat]
          /\ Partial \in [is : {"none", "partial", "bare"}, objects : Nat] /\ Partial.is # "none"
      BY DEF Nowhere, Partial
    <3>5. CASE rq[c].id \in Repos
      <4>1. /\ storage[rq[c].id] \in [is : {"none", "partial", "bare"}, objects : Nat]
            /\ storage[rq[c].id].is = "none" => storage[rq[c].id] = Nowhere
            /\ storage[rq[c].id].objects + 1 \in Nat
        BY <3>5 DEF StorageTypes
      <4>2. CASE Makes(c)
        BY <3>1, <3>2, <3>3, <3>4, <3>5, <4>1, <4>2, MakeShape DEF Makes, Swept
      <4>3. CASE InsertRepository(c) \/ DropRepository(c)
        BY <3>1, <3>2, <3>4, <3>5, <4>1, <4>3, InsertShape, DropShape DEF Swept
      <4>4. CASE RemoveStorage(c)
        BY <3>1, <3>2, <3>4, <3>5, <4>1, <4>4, DeleteShape
      <4>5. CASE Pushes(c)
        BY <3>1, <3>2, <3>3, <3>4, <3>5, <4>1, <4>5, PushShape DEF Pushes
      <4>6. ASSUME NEW r \in Repos, Comes(c, r)
            PROVE  UNCHANGED storage
        BY <4>6, BeginShape DEF Comes
      <4>7. QED
        BY <1>1, <3>1, <4>2, <4>3, <4>4, <4>5, <4>6 DEF RequestStep
    <3>6. CASE rq[c].id \notin Repos
      <4>1. rq[c].at = "idle"
        BY <3>6, AtWork
      <4>2. UNCHANGED storage
        BY <1>1, <4>1, BeginShape, MakeShape, InsertShape, DropShape, DeleteShape, PushShape
           DEF RequestStep, Comes, Makes, Pushes
      <4>3. QED
        BY <3>1, <4>2
    <3>7. QED
      BY <3>5, <3>6
  <2>4. QED
    BY <2>1, <2>2, <2>3 DEF CallTypes
<1>2. CASE RepositoriesCrash
  BY <1>2, CrashShape, NoCallType DEF CallTypes, StorageTypes, NamesInv, Listed
<1>3. CASE UNCHANGED repoVars
  BY <1>3, Stutter DEF CallTypes, StorageTypes, NamesInv, Listed, KnownStill
<1>4. QED
  BY <1>1, <1>2, <1>3, NextSteps

\* A request changes nothing but its own repository.
LEMMA OwnOnly ==
    ASSUME CallTypes, StorageTypes, NamesInv, NEW c \in Clients, RequestStep(c), NEW r \in Repos, r # rq[c].id
    PROVE  /\ storage'[r] = storage[r]
           /\ r \in Listed' <=> r \in Listed
           /\ r \in doomed' <=> r \in doomed
           /\ r \in litter' <=> r \in litter
<1>1. r \in Listed' <=> r \in Listed
  <2>1. CASE UNCHANGED repository
    BY <2>1 DEF Listed
  <2>2. QED
    BY <2>1, RowsEffect, InsertedEffect, DroppedEffect
<1>2. ASSUME NEW q \in Repos, Comes(c, q)
      PROVE  UNCHANGED <<storage, doomed, litter>>
  BY <1>2, BeginShape DEF Comes, KnownStill
<1>3. CASE Makes(c)
  BY <1>1, <1>3, MakeShape DEF Makes, Lays, Swept
<1>4. CASE Pushes(c)
  BY <1>1, <1>4, PushShape DEF Pushes, Lays
<1>5. CASE RemoveStorage(c)
  BY <1>1, <1>5, DeleteShape DEF Lays
<1>6. CASE InsertRepository(c)
  BY <1>1, <1>6, InsertShape DEF Lays, Swept
<1>7. CASE DropRepository(c)
  BY <1>1, <1>7, DropShape
<1>8. QED
  BY <1>1, <1>2, <1>3, <1>4, <1>5, <1>6, <1>7 DEF RequestStep

LEMMA MakerKept ==
    ASSUME RepoInv, [RepositoriesNext]_repoVars
    PROVE  MakerInv'
<1> SUFFICES ASSUME NEW c \in Clients, rq'[c].at \in Creating
             PROVE  /\ rq'[c].id \notin Listed' /\ rq'[c].id \notin doomed' /\ rq'[c].id # ""
                    /\ \A d \in Clients : rq'[d].id = rq'[c].id => d = c
                    /\ rq'[c].at = "init" => storage'[rq'[c].id] = Nowhere
                    /\ rq'[c].at # "init" => storage'[rq'[c].id].is = "bare"
  BY DEF MakerInv
<1>0. CallTypes /\ StorageTypes /\ NamesInv /\ MakerInv /\ NoCall.id = "" /\ NoCall.at \notin Creating
  BY DEF RepoInv, NoCall, Creating
<1>1. ASSUME NEW d \in Clients, RequestStep(d), d # c
      PROVE  /\ rq'[c].id \notin Listed' /\ rq'[c].id \notin doomed' /\ rq'[c].id # ""
             /\ \A e \in Clients : rq'[e].id = rq'[c].id => e = c
             /\ rq'[c].at = "init" => storage'[rq'[c].id] = Nowhere
             /\ rq'[c].at # "init" => storage'[rq'[c].id].is = "bare"
  <2>1. rq'[c] = rq[c] /\ \A e \in Clients \ {d} : rq'[e] = rq[e]
    BY <1>0, <1>1, CallEffect DEF OtherCalls
  <2>2. /\ rq[c].id \in Repos /\ rq[c].id # rq[d].id
        /\ rq[c].id \notin Listed /\ rq[c].id \notin doomed /\ rq[c].id # ""
        /\ \A e \in Clients : rq[e].id = rq[c].id => e = c
        /\ rq[c].at = "init" => storage[rq[c].id] = Nowhere
        /\ rq[c].at # "init" => storage[rq[c].id].is = "bare"
    BY <1>0, <1>1, <2>1, AtWork DEF MakerInv, Creating
  <2>3. rq'[d].id # rq[c].id
    BY <1>0, <1>1, <2>2, CallEffect DEF EndsCall, Begins, Goes, InUse
  <2>4. QED
    BY <1>0, <1>1, <2>1, <2>2, <2>3, OwnOnly
<1>2. CASE RequestStep(c)
  <2>1. ASSUME NEW r \in Repos, Begins(c, r, "init"), ~InUse(r), UNCHANGED storage, KnownStill
        PROVE  /\ r \notin Listed' /\ r \notin doomed' /\ r # "" /\ storage'[r] = Nowhere
               /\ \A d \in Clients : rq'[d].id = r => d = c
    BY <1>0, <2>1 DEF Begins, InUse, KnownStill, Listed, OtherCalls
  <2>2. ASSUME NEW r \in Repos, Comes(c, r)
        PROVE  \E q \in Repos : Begins(c, q, "init") /\ ~InUse(q) /\ UNCHANGED storage /\ KnownStill
    BY <1>0, <2>2, BeginShape DEF Comes, Begins, Creating
  <2>3. CASE Makes(c)
    <3>1. /\ rq[c].id \in Repos /\ rq[c].id \notin Listed /\ rq[c].id \notin doomed /\ rq[c].id # ""
          /\ \A e \in Clients : rq[e].id = rq[c].id => e = c
          /\ rq[c].at # "init" => storage[rq[c].id].is = "bare"
      BY <1>0, <2>3, MakeShape, AtWork DEF MakerInv, Creating, Makes
    <3>2. Listed' = Listed /\ doomed' = doomed
      BY <1>0, <2>3, MakeShape DEF Makes, Listed
    <3>3. ASSUME NEW n, Goes(c, "init", "hook"), Lays(rq[c].id, Bare(n))
          PROVE  /\ rq'[c].id \notin Listed' /\ rq'[c].id \notin doomed' /\ rq'[c].id # ""
                 /\ \A d \in Clients : rq'[d].id = rq'[c].id => d = c
                 /\ rq'[c].at = "init" => storage'[rq'[c].id] = Nowhere
                 /\ rq'[c].at # "init" => storage'[rq'[c].id].is = "bare"
      <4>1. storage'[rq[c].id].is = "bare"
        BY <3>3 DEF Lays, Bare
      <4>2. QED
        BY <3>1, <3>2, <3>3, <4>1 DEF Goes, OtherCalls
    <3>4. CASE Goes(c, "hook", "insert") /\ UNCHANGED storage
      BY <3>1, <3>2, <3>4 DEF Goes, OtherCalls
    <3>5. QED
      BY <1>0, <2>3, <3>3, <3>4, MakeShape DEF Makes, EndsCall
  <2>4. ~InsertRepository(c) /\ ~DropRepository(c)
    BY <1>0, InsertShape, DropShape DEF EndsCall
  <2>5. ~RemoveStorage(c) /\ ~Pushes(c)
    BY <1>0, DeleteShape, PushShape DEF Pushes, EndsCall, Goes, Creating
  <2>6. ASSUME NEW r \in Repos, Begins(c, r, "init")
        PROVE  rq'[c].at = "init" /\ rq'[c].id = r
    BY <2>6 DEF Begins
  <2>7. QED
    BY <1>2, <2>1, <2>2, <2>3, <2>4, <2>5, <2>6 DEF RequestStep
<1>3. CASE RepositoriesCrash
  BY <1>0, <1>3, CrashShape
<1>4. CASE UNCHANGED repoVars
  BY <1>0, <1>4, Stutter DEF MakerInv, KnownStill, Listed
<1>5. QED
  BY <1>1, <1>2, <1>3, <1>4, NextSteps

LEMMA DropKept ==
    ASSUME RepoInv, [RepositoriesNext]_repoVars
    PROVE  DropInv'
<1> SUFFICES ASSUME NEW c \in Clients, rq'[c].at = "drop"
             PROVE  rq'[c].id \in doomed' /\ (storage'[rq'[c].id] # Nowhere => rq'[c].id \in litter')
  BY DEF DropInv
<1>0. CallTypes /\ StorageTypes /\ NamesInv /\ MakerInv /\ DropInv /\ NoCall.at # "drop"
  BY DEF RepoInv, NoCall
<1>1. ASSUME NEW d \in Clients, RequestStep(d), rq'[c] = rq[c], rq[c].at = "drop"
      PROVE  rq[c].id \in doomed' /\ (storage'[rq[c].id] # Nowhere => rq[c].id \in litter')
  <2>1. rq[c].id \in Repos /\ rq[c].id \in doomed /\ (storage[rq[c].id] # Nowhere => rq[c].id \in litter)
    BY <1>0, <1>1, AtWork DEF DropInv
  <2>2. CASE rq[d].id # rq[c].id
    BY <1>0, <1>1, <2>1, <2>2, OwnOnly
  <2>3. CASE rq[d].id = rq[c].id
    <3>1. rq[d].at \notin Creating
      BY <1>0, <2>1, <2>3 DEF MakerInv
    <3>2. ASSUME NEW r \in Repos, Comes(d, r)
          PROVE  UNCHANGED <<storage, doomed, litter>>
      BY <1>0, <3>2, BeginShape DEF Comes, KnownStill
    <3>3. ~Makes(d) /\ ~InsertRepository(d)
      BY <1>0, <3>1, MakeShape, InsertShape DEF Creating, Makes
    <3>4. CASE RemoveStorage(d)
      BY <1>0, <2>1, <2>3, <3>4, DeleteShape DEF Lays
    <3>5. CASE DropRepository(d)
      BY <1>0, <2>1, <3>5, DropShape
    <3>6. CASE Pushes(d)
      <4>1. Nowhere.is = "none"
        BY DEF Nowhere
      <4>2. QED
        BY <1>0, <2>1, <2>3, <3>6, <4>1, PushShape DEF Pushes, Lays
    <3>7. QED
      BY <1>1, <2>1, <3>2, <3>3, <3>4, <3>5, <3>6 DEF RequestStep
  <2>4. QED
    BY <2>2, <2>3
<1>2. ASSUME NEW d \in Clients, RequestStep(d), d # c
      PROVE  rq'[c] = rq[c]
  BY <1>0, <1>2, CallEffect DEF OtherCalls
<1>3. CASE RequestStep(c)
  <2>1. ASSUME NEW r \in Repos, Comes(c, r)
        PROVE  FALSE
    BY <1>0, <2>1, BeginShape DEF Comes, Begins
  <2>2. ~Makes(c) /\ ~InsertRepository(c) /\ ~DropRepository(c) /\ ~Pushes(c)
    BY <1>0, MakeShape, InsertShape, DropShape, PushShape DEF Makes, Pushes, EndsCall, Goes
  <2>3. CASE RemoveStorage(c)
    BY <1>0, <2>3, DeleteShape DEF EndsCall, Goes, Lays
  <2>4. QED
    BY <1>3, <2>1, <2>2, <2>3 DEF RequestStep
<1>4. CASE RepositoriesCrash
  BY <1>0, <1>4, CrashShape
<1>5. CASE UNCHANGED repoVars
  BY <1>0, <1>5, Stutter DEF DropInv, KnownStill
<1>6. QED
  BY <1>1, <1>2, <1>3, <1>4, <1>5, NextSteps

LEMMA OwnedKept ==
    ASSUME RepoInv, [RepositoriesNext]_repoVars
    PROVE  OwnedInv'
<1> SUFFICES ASSUME NEW r \in Repos, storage'[r] # Nowhere
             PROVE  r \in Listed' \cup litter' \/ \E c \in Clients : rq'[c].at \in Creating /\ rq'[c].id = r
  BY DEF OwnedInv
<1>0. /\ CallTypes /\ StorageTypes /\ NamesInv /\ MakerInv
      /\ storage[r] # Nowhere => r \in Listed \cup litter \/ \E c \in Clients : rq[c].at \in Creating /\ rq[c].id = r
  BY DEF RepoInv, OwnedInv
<1>1. ASSUME NEW d \in Clients, RequestStep(d)
      PROVE  r \in Listed' \cup litter' \/ \E c \in Clients : rq'[c].at \in Creating /\ rq'[c].id = r
  <2>0. \A c \in Clients \ {d} : rq'[c] = rq[c]
    BY <1>0, <1>1, CallEffect DEF OtherCalls
  <2>1. CASE rq[d].id # r
    <3>1. storage[r] # Nowhere /\ (r \in Listed <=> r \in Listed') /\ (r \in litter <=> r \in litter')
      BY <1>0, <1>1, <2>1, OwnOnly
    <3>2. QED
      BY <1>0, <2>0, <2>1, <3>1
  <2>2. CASE rq[d].id = r /\ rq[d].at \notin Creating
    <3>1. storage[r] # Nowhere => r \in Listed \cup litter
      BY <1>0, <2>2 DEF MakerInv
    <3>2. ASSUME NEW q \in Repos, Comes(d, q)
          PROVE  storage' = storage /\ Listed' = Listed /\ litter' = litter
      BY <1>0, <3>2, BeginShape DEF Comes, KnownStill, Listed
    <3>3. ~Makes(d) /\ ~InsertRepository(d)
      BY <1>0, <2>2, MakeShape, InsertShape DEF Creating, Makes
    <3>4. CASE RemoveStorage(d)
      <4>1. Listed' = Listed /\ litter' = litter
        BY <1>0, <3>4, DeleteShape DEF Listed
      <4>2. storage[r] # Nowhere
        BY <1>0, <2>2, <3>4, DeleteShape DEF Lays
      <4>3. QED
        BY <3>1, <4>1, <4>2
    <3>5. CASE DropRepository(d)
      BY <1>0, <2>2, <3>5, DropShape DEF RepoInv, DropInv
    <3>6. CASE Pushes(d)
      <4>1. Nowhere.is = "none"
        BY DEF Nowhere
      <4>2. Listed' = Listed /\ litter \subseteq litter'
        BY <1>0, <3>6, PushShape DEF Pushes, Listed
      <4>3. storage[r] # Nowhere \/ r \in litter'
        BY <1>0, <2>2, <3>6, <4>1, PushShape DEF Pushes, Lays
      <4>4. QED
        BY <3>1, <4>2, <4>3
    <3>7. QED
      BY <1>1, <3>1, <3>2, <3>3, <3>4, <3>5, <3>6 DEF RequestStep
  <2>3. CASE rq[d].id = r /\ rq[d].at \in Creating
    <3>1. CASE Makes(d)
      BY <1>0, <2>3, <3>1, MakeShape DEF Makes, Goes, Lays, Creating, Swept
    <3>2. CASE InsertRepository(d)
      BY <1>0, <2>3, <3>2, InsertShape, InsertedEffect DEF Lays, Listed, Swept
    <3>3. ~RemoveStorage(d) /\ ~DropRepository(d) /\ ~Pushes(d)
      BY <1>0, <2>3, DeleteShape, DropShape, PushShape DEF Pushes, Creating
    <3>4. ASSUME NEW q \in Repos, Comes(d, q)
          PROVE  FALSE
      BY <1>0, <2>3, <3>4, BeginShape, NoCallType DEF Comes, Begins, Creating
    <3>5. QED
      BY <1>1, <3>1, <3>2, <3>3, <3>4 DEF RequestStep
  <2>4. QED
    BY <2>1, <2>2, <2>3
<1>2. CASE RepositoriesCrash
  BY <1>0, <1>2, CrashShape DEF Listed
<1>3. CASE UNCHANGED repoVars
  BY <1>0, <1>3, Stutter DEF KnownStill, Listed
<1>4. QED
  BY <1>1, <1>2, <1>3, NextSteps

LEMMA ListedKept ==
    ASSUME RepoInv, [RepositoriesNext]_repoVars
    PROVE  ListedInv'
<1> SUFFICES ASSUME NEW r \in Repos, r \in Listed', r \notin doomed'
             PROVE  storage'[r].is = "bare"
  BY DEF ListedInv, Listed
<1>0. /\ CallTypes /\ StorageTypes /\ NamesInv /\ MakerInv
      /\ r \in Listed /\ r \notin doomed => storage[r].is = "bare"
  BY DEF RepoInv, ListedInv
<1>1. ASSUME NEW d \in Clients, RequestStep(d)
      PROVE  storage'[r].is = "bare"
  <2>1. CASE rq[d].id # r
    BY <1>0, <1>1, <2>1, OwnOnly
  <2>2. CASE rq[d].id = r
    <3>1. ASSUME NEW q \in Repos, Comes(d, q)
          PROVE  storage' = storage /\ Listed' = Listed /\ doomed' = doomed
      BY <1>0, <3>1, BeginShape DEF Comes, KnownStill, Listed
    <3>2. ~Makes(d)
      BY <1>0, <2>2, MakeShape DEF Makes, MakerInv, Creating, Listed
    <3>3. CASE InsertRepository(d)
      <4>1. rq[d].at = "insert" /\ storage[r].is = "bare" /\ r \notin Listed
        BY <1>0, <2>2, <3>3, InsertShape DEF MakerInv, Creating
      <4>2. CASE Inserted(d) /\ UNCHANGED <<storage, doomed>>
        BY <4>1, <4>2
      <4>3. CASE UNCHANGED repository
        BY <4>1, <4>3 DEF Listed
      <4>4. QED
        BY <1>0, <2>2, <3>3, <4>2, <4>3, InsertShape
    <3>4. ~RemoveStorage(d)
      BY <1>0, <2>2, DeleteShape
    <3>5. CASE DropRepository(d)
      <4>1. r \in Listed
        BY <1>0, <2>2, <3>5, DropShape, DroppedEffect DEF Listed
      <4>2. QED
        BY <1>0, <3>5, <4>1, DropShape
    <3>6. CASE Pushes(d)
      <4>1. /\ Listed' = Listed /\ doomed' = doomed /\ Nowhere.is = "none"
            /\ \A n : Bare(n).is = "bare"
        BY <1>0, <3>6, PushShape DEF Pushes, Listed, Nowhere, Bare
      <4>2. QED
        BY <1>0, <2>2, <3>6, <4>1, PushShape DEF Pushes, Lays
    <3>7. QED
      BY <1>0, <1>1, <3>1, <3>2, <3>3, <3>4, <3>5, <3>6 DEF RequestStep
  <2>3. QED
    BY <2>1, <2>2
<1>2. CASE RepositoriesCrash
  BY <1>0, <1>2, CrashShape DEF Listed
<1>3. CASE UNCHANGED repoVars
  BY <1>0, <1>3, Stutter DEF KnownStill, Listed
<1>4. QED
  BY <1>1, <1>2, <1>3, NextSteps

\* What a step does to the objects of a repository and to those who may add to them.
LEMMA QuotaStep ==
    ASSUME CallTypes, StorageTypes, NEW d \in Clients, RequestStep(d), NEW r \in Repos
    PROVE  \/ /\ storage'[r].objects \in {0, storage[r].objects} /\ brought'[r] = brought[r]
              /\ Receivers(r)' \subseteq Receivers(r)
           \/ storage'[r].objects = brought'[r] /\ Receivers(r)' = Receivers(r) \ {d} /\ rq[d].id = r /\ rq[d].at = "init"
           \/ storage'[r].objects < MaxObjects /\ Receivers(r)' \subseteq Clients
           \/ /\ storage'[r].objects = storage[r].objects + 1
              /\ d \in Receivers(r) /\ Receivers(r)' = Receivers(r) \ {d}
<1>0. /\ storage[r].objects \in Nat /\ Nowhere.objects = 0 /\ Partial.objects = 0
      /\ \A n : Bare(n).objects = n
  BY DEF StorageTypes, Nowhere, Partial, Bare
<1>1. \A c \in Clients \ {d} : rq'[c] = rq[c]
  BY CallEffect DEF OtherCalls
<1>2. ASSUME rq'[d].at # "receive"
      PROVE  Receivers(r)' = Receivers(r) \ {d}
  BY <1>1, <1>2 DEF Receivers
<1> DEFINE Falls == /\ storage'[r].objects \in {0, storage[r].objects} /\ brought'[r] = brought[r]
                    /\ Receivers(r)' \subseteq Receivers(r)
<1>3. ASSUME NEW thing, NEW q, Lays(q, thing), thing.objects = 0, rq'[d].at # "receive", q \in Repos, brought' = brought
      PROVE  Falls
  <2>1. storage'[r].objects = 0 \/ storage'[r] = storage[r]
    BY <1>3 DEF Lays
  <2>2. QED
    BY <1>0, <1>2, <1>3, <2>1
<1>4. ASSUME storage' = storage, rq'[d].at # "receive", brought' = brought
      PROVE  Falls
  BY <1>0, <1>2, <1>4
<1>5. ASSUME EndsCall(d)
      PROVE  rq'[d].at # "receive"
  BY <1>5, NoCallType DEF EndsCall
<1>6. ASSUME NEW q \in Repos, Comes(d, q)
      PROVE  storage' = storage /\ rq'[d].at # "receive" /\ brought' = brought
  BY <1>6, BeginShape DEF Comes, Begins, KnownStill
<1>6a. ASSUME NEW q \in Repos, Swept(q), rq'[d].at # "receive", brought' = brought
       PROVE  Falls
  <2>1. CASE Lays(q, storage[q])
    <3>1. storage'[r] = storage[r]
      BY <2>1 DEF Lays
    <3>2. QED
      BY <1>0, <1>2, <1>6a, <3>1
  <2>2. QED
    BY <1>0, <1>3, <1>6a, <2>1 DEF Swept
<1>7. CASE Makes(d)
  <2>1. rq'[d].at # "receive" /\ rq[d].id \in Repos
    BY <1>5, <1>7, MakeShape, AtWork DEF Makes, Goes
  <2>2. ASSUME NEW n \in Nat, Goes(d, "init", "hook"), Lays(rq[d].id, Bare(n)),
               brought' = [brought EXCEPT ![rq[d].id] = n]
        PROVE  \/ Falls
               \/ storage'[r].objects = brought'[r] /\ Receivers(r)' = Receivers(r) \ {d} /\ rq[d].id = r /\ rq[d].at = "init"
    <3>1. CASE r = rq[d].id
      BY <1>0, <1>2, <2>1, <2>2, <3>1 DEF Lays, Goes, StorageTypes
    <3>2. CASE r # rq[d].id
      BY <1>0, <1>2, <2>1, <2>2, <3>2 DEF Lays, StorageTypes
    <3>3. QED
      BY <3>1, <3>2
  <2>3. CASE UNCHANGED brought /\ (storage' = storage \/ Swept(rq[d].id) \/ Lays(rq[d].id, Partial) \/ Lays(rq[d].id, Nowhere))
    BY <1>0, <1>3, <1>4, <1>6a, <2>1, <2>3
  <2>4. QED
    BY <1>7, <2>2, <2>3, MakeShape DEF Makes
<1>8. CASE InsertRepository(d) \/ DropRepository(d)
  <2>1. rq'[d].at # "receive" /\ rq[d].id \in Repos
    BY <1>5, <1>8, InsertShape, DropShape, AtWork
  <2>2. QED
    BY <1>0, <1>4, <1>8, <1>6a, <2>1, InsertShape, DropShape
<1>9. CASE RemoveStorage(d)
  <2>1. rq'[d].at # "receive" /\ rq[d].id \in Repos /\ brought' = brought
    BY <1>5, <1>9, DeleteShape, AtWork DEF Goes
  <2>2. CASE Lays(rq[d].id, storage[rq[d].id])
    <3>1. storage'[r] = storage[r]
      BY <2>2 DEF Lays
    <3>2. QED
      BY <1>0, <1>2, <2>1, <3>1
  <2>3. QED
    BY <1>0, <1>3, <1>4, <1>9, <2>1, <2>2, DeleteShape
<1>10. CASE Pushes(d)
  <2>0. rq[d].id \in Repos /\ brought' = brought
    BY <1>10, PushShape, AtWork DEF Pushes
  <2>1. CASE EndsCall(d) \/ Goes(d, "prepare", "rules") \/ Goes(d, "rules", "capacity")
    <3>1. rq'[d].at # "receive"
      BY <1>5, <2>1 DEF Goes
    <3>2. CASE storage' = storage
      BY <1>4, <2>0, <3>1, <3>2
    <3>3. CASE Lays(rq[d].id, Partial)
      BY <1>0, <1>3, <2>0, <3>1, <3>3
    <3>4. CASE rq[d].at = "receive" /\ Lays(rq[d].id, Bare(storage[rq[d].id].objects + 1))
      <4>1. CASE r = rq[d].id
        BY <1>0, <1>2, <3>1, <3>4, <4>1 DEF Lays, Receivers
      <4>2. CASE r # rq[d].id
        BY <1>0, <1>2, <2>0, <3>1, <3>4, <4>2 DEF Lays
      <4>3. QED
        BY <4>1, <4>2
    <3>5. QED
      BY <1>10, <3>1, <3>2, <3>3, <3>4, PushShape DEF Pushes, Goes
  <2>2. CASE Goes(d, "capacity", "receive") /\ storage' = storage /\ storage[rq[d].id].objects < MaxObjects
    <3>1. CASE r = rq[d].id
      BY <2>2, <3>1 DEF Receivers
    <3>2. CASE r # rq[d].id
      BY <1>0, <1>1, <2>0, <2>2, <3>2 DEF Goes, Receivers
    <3>3. QED
      BY <3>1, <3>2
  <2>3. QED
    BY <1>10, <2>1, <2>2, PushShape DEF Pushes
<1>11. QED
  BY <1>4, <1>6, <1>7, <1>8, <1>9, <1>10 DEF RequestStep

LEMMA QuotaKept ==
    ASSUME RepoInv, [RepositoriesNext]_repoVars
    PROVE  QuotaInv'
<1> SUFFICES ASSUME NEW r \in Repos
             PROVE  (WithinQuota(r) \/ AsBrought(r))'
  BY DEF QuotaInv
<1>0. /\ CallTypes /\ StorageTypes /\ NamesInv /\ MakerInv
      /\ WithinQuota(r) \/ AsBrought(r)
  BY DEF RepoInv, QuotaInv
<1>1. /\ IsFiniteSet(Clients) /\ Cardinality(Clients) \in Nat /\ MaxObjects \in Nat \ {0}
      /\ storage[r].objects \in Nat /\ storage'[r].objects \in Nat
  <2>1. StorageTypes'
    BY <1>0, TypesKept
  <2>2. QED
    BY <1>0, <2>1, RequestsAssumption, RepositoriesAssumption, FS_CardinalityType DEF StorageTypes
<1>2. /\ IsFiniteSet(Receivers(r)) /\ Cardinality(Receivers(r)) \in Nat
  <2>1. Receivers(r) \subseteq Clients
    BY DEF Receivers
  <2>2. QED
    BY <1>1, <2>1, FS_Subset, FS_CardinalityType
<1>3. ASSUME storage'[r].objects \in {0, storage[r].objects}, Receivers(r)' \subseteq Receivers(r), brought'[r] = brought[r]
      PROVE  (WithinQuota(r) \/ AsBrought(r))'
  <2>1. Cardinality(Receivers(r)') <= Cardinality(Receivers(r)) /\ Cardinality(Receivers(r)') \in Nat
    BY <1>2, <1>3, FS_Subset, FS_CardinalityType
  <2>2. CASE WithinQuota(r)
    BY <1>1, <1>2, <1>3, <2>1, <2>2 DEF WithinQuota
  <2>3. CASE AsBrought(r) /\ storage'[r].objects = storage[r].objects
    BY <1>3, <2>3 DEF AsBrought
  <2>4. CASE AsBrought(r) /\ storage'[r].objects = 0
    <3>1. Cardinality(Receivers(r)) = 0
      BY <2>4, FS_EmptySet DEF AsBrought
    <3>2. QED
      BY <1>1, <2>1, <2>4, <3>1 DEF WithinQuota
  <2>5. QED
    BY <1>0, <1>3, <2>2, <2>3, <2>4
<1>4. ASSUME storage'[r].objects < MaxObjects, Receivers(r)' \subseteq Clients
      PROVE  (WithinQuota(r) \/ AsBrought(r))'
  <2>1. Cardinality(Receivers(r)') <= Cardinality(Clients) /\ Cardinality(Receivers(r)') \in Nat
    BY <1>1, <1>4, FS_Subset, FS_CardinalityType
  <2>2. QED
    BY <1>1, <1>4, <2>1 DEF WithinQuota
<1>5. ASSUME NEW d \in Receivers(r), storage'[r].objects = storage[r].objects + 1, Receivers(r)' = Receivers(r) \ {d}
      PROVE  (WithinQuota(r) \/ AsBrought(r))'
  <2>1. Cardinality(Receivers(r)') = Cardinality(Receivers(r)) - 1
    BY <1>2, <1>5, FS_RemoveElement
  <2>2. QED
    BY <1>0, <1>1, <1>2, <1>5, <2>1 DEF WithinQuota, AsBrought
<1>6. ASSUME NEW d \in Clients, storage'[r].objects = brought'[r], Receivers(r)' = Receivers(r) \ {d},
             rq[d].id = r, rq[d].at = "init"
      PROVE  (WithinQuota(r) \/ AsBrought(r))'
  <2>1. \A e \in Clients : rq[e].id = r => e = d
    BY <1>0, <1>6 DEF MakerInv, Creating
  <2>2. Receivers(r) = {}
    BY <1>6, <2>1 DEF Receivers
  <2>3. QED
    BY <1>6, <2>2 DEF AsBrought
<1>7. ASSUME NEW d \in Clients, RequestStep(d)
      PROVE  (WithinQuota(r) \/ AsBrought(r))'
  BY <1>0, <1>3, <1>4, <1>5, <1>6, <1>7, QuotaStep
<1>8. CASE RepositoriesCrash
  <2>1. storage' = storage /\ Receivers(r)' \subseteq Receivers(r) /\ brought' = brought
    BY <1>8, CrashShape, NoCallType DEF Receivers
  <2>2. QED
    BY <1>3, <2>1
<1>9. CASE UNCHANGED repoVars
  <2>1. storage' = storage /\ Receivers(r)' = Receivers(r) /\ brought' = brought
    BY <1>9, Stutter DEF Receivers, KnownStill
  <2>2. QED
    BY <1>3, <2>1
<1>10. QED
  BY <1>7, <1>8, <1>9, NextSteps

LEMMA RepoInitInv == RepositoriesInit => RepoInv
<1> SUFFICES ASSUME RepositoriesInit PROVE RepoInv
  OBVIOUS
<1>1. /\ \A r \in Repos : repository[r] = NoRow /\ ~repository[r].is
      /\ \A r \in Repos : storage[r] = Nowhere /\ storage[r].is = "none" /\ storage[r].objects = 0
      /\ \A c \in Clients : rq[c] = NoCall /\ rq[c].at = "idle"
  BY NoCallType DEF RepositoriesInit, NoRow, Nowhere
<1>2. Listed = {}
  BY <1>1 DEF Listed
<1>3. CallTypes
  <2>1. NoRow \in RepoRow
    BY DEF NoRow, RepoRow
  <2>2. QED
    BY <1>1, <1>2, <2>1, NoCallType DEF RepositoriesInit, CallTypes
<1>4. StorageTypes
  BY <1>1 DEF RepositoriesInit, StorageTypes, Nowhere
<1>5. NamesInv /\ MakerInv /\ DropInv /\ OwnedInv /\ ListedInv
  BY <1>1, <1>2 DEF NamesInv, MakerInv, DropInv, OwnedInv, ListedInv, Creating
<1>6. QuotaInv
  <2>1. \A r \in Repos : Receivers(r) = {}
    BY <1>1 DEF Receivers
  <2>2. Cardinality({}) = 0 /\ Cardinality(Clients) \in Nat
    BY RequestsAssumption, FS_EmptySet, FS_CardinalityType
  <2>3. 0 <= MaxObjects - 1 + Cardinality(Clients)
    BY <2>2, RepositoriesAssumption
  <2>4. \A r \in Repos : storage[r].objects + Cardinality(Receivers(r)) = 0
    BY <1>1, <2>1, <2>2
  <2>5. QED
    BY <2>3, <2>4 DEF QuotaInv, WithinQuota
<1>7. QED
  BY <1>3, <1>4, <1>5, <1>6 DEF RepoInv

LEMMA RepoInvKept == RepoInv /\ [RepositoriesNext]_repoVars => RepoInv'
BY TypesKept, MakerKept, DropKept, OwnedKept, ListedKept, QuotaKept DEF RepoInv

LEMMA RepoInvHolds == RepositoriesSpec => []RepoInv
BY RepoInitInv, RepoInvKept, PTL DEF RepositoriesSpec

LEMMA RepoInvTyped == RepoInv => RepositoriesTypeOK
BY DEF RepoInv, CallTypes, StorageTypes, NamesInv, RepositoriesTypeOK, Call
-----------------------------------------------------------------------------
(* Theorems *)

\* Rows, directories and requests are ones the code knows, and no name is given twice.
THEOREM RepositoriesTyped == RepositoriesSpec => []RepositoriesTypeOK
BY RepoInvHolds, RepoInvTyped, PTL

\* However creations, imports, deletions and pushes overlap, fail and die: a listed
\* repository has its directory, a directory has an owner or is known to be litter, and
\* pushes overrun a quota by no more than there are requests, and bring nothing to an
\* import that fills it.
THEOREM StorageFollowsRows == RepositoriesSpec => []StorageMatchesRows
<1>1. RepoInv => StorageMatchesRows
  <2> SUFFICES ASSUME RepoInv PROVE StorageMatchesRows
    OBVIOUS
  <2>1. \A r \in Listed \ doomed : storage[r].is = "bare"
    BY DEF RepoInv, ListedInv
  <2>2. \A r \in Repos : storage[r] # Nowhere => r \in Listed \cup litter \/ \E c \in Clients : rq[c].id = r
    BY DEF RepoInv, OwnedInv
  <2>3. ASSUME NEW r \in Repos
        PROVE  storage[r].objects < MaxObjects + Cardinality(Clients) \/ storage[r].objects = brought[r]
    <3>1. Receivers(r) \subseteq Clients /\ IsFiniteSet(Clients)
      BY RequestsAssumption DEF Receivers
    <3>2. Cardinality(Receivers(r)) \in Nat /\ Cardinality(Clients) \in Nat
      BY <3>1, FS_Subset, FS_CardinalityType
    <3>3. /\ storage[r].objects \in Nat
          /\ WithinQuota(r) \/ AsBrought(r)
      BY DEF RepoInv, StorageTypes, QuotaInv
    <3>4. QED
      BY <3>2, <3>3, RepositoriesAssumption DEF WithinQuota, AsBrought
  <2>4. QED
    BY <2>1, <2>2, <2>3 DEF StorageMatchesRows
<1>2. QED
  BY <1>1, RepoInvHolds, PTL
=============================================================================
