------------------------- MODULE PullRequests_proofs -------------------------
(***************************************************************************)
(* Proofs about PullRequests, for any pull requests, clients and bounds.   *)
(***************************************************************************)
EXTENDS PullRequests, TLAPS

\* Requests that are at a pull request, and merges that were let through.
AtPR == {"protect", "clone", "fetch", "push", "write", "close"}
LetThrough == {"clone", "fetch", "push", "write"}

\* Who is at a pull request, and who is not.
PlaceInv ==
    \A c \in Clients :
        /\ IF mr[c].at \in AtPR THEN mr[c].pr \in PRs ELSE mr[c].pr = Direct
        /\ mr[c].at \in {"push", "write"} => mr[c].head > 0

\* What was pushed stays in the base branch until its row is written.
PushedInv ==
    \A c \in Clients : mr[c].at = "write" /\ ~forced => Of(mr[c].pr, mr[c].head) \subseteq base

\* Who does not race is alone at a pull request that is open.
AloneInv ==
    \A p \in PRs \ raced :
        /\ \A c, d \in At(p) : c = d
        /\ \A c \in At(p) : pr[p].status = "open"

\* While the head stays, what a merge works on is the head, and what was let through.
HeadInv ==
    \A p \in PRs \ moved : \A c \in At(p) :
        /\ mr[c].head = head[p]
        /\ mr[c].at \in LetThrough => mr[c].head <= passed[p]

\* The hook of a push that has no other one beside it reads what the push wrote.
HookInv ==
    \A c \in Clients : InReceive(c) /\ mr[c].alone =>
        /\ \A d \in Clients : InReceive(d) => d = c
        /\ mr[c].at = "receive" /\ mr[c].rule => policy

PullRequestsInv ==
    /\ PlaceInv /\ PushedInv /\ AloneInv /\ HeadInv /\ HookInv
    /\ RowTellsBase /\ MergedIsChecked

PullInv == PullRequestsTypeOK /\ PullRequestsInv
-----------------------------------------------------------------------------
(* Types *)

Request == [at : MergePlaces, pr : PRs \cup {Direct}, head : 0 .. MaxHead,
            base : SUBSET Changes, rule : BOOLEAN, alone : BOOLEAN]

LEMMA NoMergeType == NoMerge \in Request
BY PullRequestsAssumption DEF NoMerge, Request, MergePlaces, Changes

LEMMA OfType ==
    ASSUME NEW p \in PRs, NEW n \in 0 .. MaxHead
    PROVE  Of(p, n) \subseteq Changes
BY PullRequestsAssumption DEF Of, Changes

LEMMA InitTypes == PullRequestsInit => PullRequestsTypeOK
<1> SUFFICES ASSUME PullRequestsInit PROVE PullRequestsTypeOK
  OBVIOUS
<1>1. pr \in [PRs -> PR] /\ head \in [PRs -> 1 .. MaxHead] /\ passed \in [PRs -> 0 .. MaxHead]
  BY PullRequestsAssumption DEF PullRequestsInit, PR, PRStatus
<1>2. mr \in [Clients -> Request]
  BY NoMergeType DEF PullRequestsInit
<1>3. directs \in 0 .. MaxDirect /\ rules \in 0 .. MaxRules
  BY PullRequestsAssumption DEF PullRequestsInit
<1>4. QED
  BY <1>1, <1>2, <1>3 DEF PullRequestsInit, PullRequestsTypeOK, Request

\* A row of which a few columns are written.
LEMMA RowTypes ==
    ASSUME pr \in [PRs -> PR], NEW p \in PRs,
           NEW s \in PRStatus, NEW h \in 0 .. MaxHead, NEW m \in 0 .. MaxHead
    PROVE  /\ [pr EXCEPT ![p].status = s, ![p].head = h] \in [PRs -> PR]
           /\ [pr EXCEPT ![p].status = s, ![p].merge = m] \in [PRs -> PR]
<1>1. [pr[p] EXCEPT !.status = s, !.head = h] \in PR
  BY DEF PR
<1>2. [pr[p] EXCEPT !.status = s, !.merge = m] \in PR
  BY DEF PR
<1>3. QED
  BY <1>1, <1>2

\* A request that goes on to another place.
LEMMA TurnEffect ==
    ASSUME PullRequestsTypeOK, NEW c \in Clients, NEW at \in MergePlaces, Turn(c, at)
    PROVE  /\ mr' \in [Clients -> Request]
           /\ mr'[c] = [mr[c] EXCEPT !.at = at]
           /\ \A d \in Clients \ {c} : mr'[d] = mr[d]
BY DEF PullRequestsTypeOK, Turn, Request

\* A request that ends.
LEMMA DoneEffect ==
    ASSUME PullRequestsTypeOK, NEW c \in Clients, Done(c)
    PROVE  /\ mr' \in [Clients -> Request]
           /\ mr'[c] = NoMerge
           /\ \A d \in Clients \ {c} : mr'[d] = mr[d]
BY NoMergeType DEF PullRequestsTypeOK, Done, Request

LEMMA HeadTypes ==
    ASSUME pr \in [PRs -> PR], NEW p \in PRs, NEW h \in 0 .. MaxHead
    PROVE  [pr EXCEPT ![p].head = h] \in [PRs -> PR]
<1>1. [pr[p] EXCEPT !.head = h] \in PR
  BY DEF PR
<1>2. QED
  BY <1>1

\* The head that Get returns is a commit of the branch, or of the row.
LEMMA SeenType ==
    ASSUME PullRequestsTypeOK, NEW p \in PRs
    PROVE  SeenHeads(p) \subseteq 0 .. MaxHead
BY PullRequestsAssumption DEF PullRequestsTypeOK, PR, SeenHeads

LEMMA NextTypes ==
    ASSUME PullRequestsTypeOK, PlaceInv, [PullRequestsNext]_prVars
    PROVE  PullRequestsTypeOK'
<1>0. /\ mr \in [Clients -> Request] /\ pr \in [PRs -> PR] /\ passed \in [PRs -> 0 .. MaxHead]
      /\ \A p \in PRs : head[p] \in 0 .. MaxHead
  BY PullRequestsAssumption DEF PullRequestsTypeOK, Request
<1>1. ASSUME NEW p \in PRs, Reviewing(p)
      PROVE  PullRequestsTypeOK'
  <2>1. CASE OpenPR(p)
    <3>1. pr' \in [PRs -> PR]
      <4>1. pr' = [pr EXCEPT ![p].status = "open", ![p].head = head[p]]
        BY <2>1 DEF OpenPR
      <4>2. QED
        BY <1>0, <4>1, RowTypes DEF PRStatus
    <3>2. QED
      BY <2>1, <3>1 DEF OpenPR, PullRequestsTypeOK
  <2>2. CASE PushHead(p)
    <3>1. head' \in [PRs -> 1 .. MaxHead]
      BY <2>2, PullRequestsAssumption DEF PushHead, PullRequestsTypeOK
    <3>2. QED
      BY <2>2, <3>1 DEF PushHead, PullRequestsTypeOK
  <2>3. CASE AddReview(p)
    <3>1. pr' \in [PRs -> PR]
      <4>1. PICK h \in SeenHeads(p) : Refreshes(p, h)
        BY <2>3 DEF AddReview
      <4>2. QED
        BY <1>0, <4>1, SeenType, HeadTypes DEF Refreshes
    <3>2. QED
      BY <2>3, <3>1 DEF AddReview, PullRequestsTypeOK
  <2>4. ASSUME NEW n \in 1 .. MaxHead, RunCheck(p, n)
        PROVE  PullRequestsTypeOK'
    BY <2>4 DEF RunCheck, PullRequestsTypeOK
  <2>5. QED
    BY <1>1, <2>1, <2>2, <2>3, <2>4 DEF Reviewing
<1>2. ASSUME NEW c \in Clients, Merging(c)
      PROVE  PullRequestsTypeOK'
  <2>0. mr[c] \in Request
    BY <1>0
  <2>1. ASSUME NEW p \in PRs, NEW at \in {"protect", "close"}, Opens(c, p, at)
        PROVE  PullRequestsTypeOK'
    <3>0. PICK h \in SeenHeads(p) :
            /\ Refreshes(p, h)
            /\ mr' = [mr EXCEPT ![c] = [NoMerge EXCEPT !.at = at, !.pr = p, !.head = h]]
            /\ moved' = IF h # head[p] THEN moved \cup {p} ELSE moved
      BY <2>1 DEF Opens
    <3>1. pr' \in [PRs -> PR] /\ moved' \in SUBSET PRs
      <4>1. h \in 0 .. MaxHead
        BY <3>0, SeenType
      <4>2. pr' \in [PRs -> PR]
        BY <1>0, <3>0, <4>1, HeadTypes DEF Refreshes
      <4>3. QED
        BY <3>0, <4>2 DEF PullRequestsTypeOK
    <3>2. mr' \in [Clients -> Request]
      <4>1. [NoMerge EXCEPT !.at = at, !.pr = p, !.head = h] \in Request
        BY <1>0, SeenType, NoMergeType DEF Request, MergePlaces
      <4>2. QED
        BY <3>0, <1>0, <4>1
    <3>3. QED
      BY <2>1, <3>1, <3>2 DEF Opens, Request, PullRequestsTypeOK
  <2>2. CASE EnforceProtection(c)
    <3>1. mr' \in [Clients -> Request]
      BY <2>2, TurnEffect, DoneEffect DEF EnforceProtection, MergePlaces
    <3>2. mr[c].head \in 0 .. MaxHead
      BY <2>0 DEF Request
    <3>3. passed' \in [PRs -> 0 .. MaxHead]
      BY <1>0, <2>2, <3>2 DEF EnforceProtection
    <3>4. QED
      BY <2>2, <3>1, <3>3 DEF EnforceProtection, Request, PullRequestsTypeOK
  <2>3. CASE CloneBase(c)
    <3>1. [mr[c] EXCEPT !.at = "fetch", !.base = base] \in Request
      BY <2>0 DEF Request, MergePlaces, PullRequestsTypeOK
    <3>2. mr' = [mr EXCEPT ![c] = [mr[c] EXCEPT !.at = "fetch", !.base = base]]
      BY <2>3, <1>0 DEF CloneBase
    <3>3. QED
      BY <2>3, <1>0, <3>1, <3>2 DEF CloneBase, Request, PullRequestsTypeOK
  <2>4. CASE FetchHead(c)
    <3>1. mr[c].pr \in PRs
      BY <2>4 DEF FetchHead, PlaceInv, AtPR
    <3>2. [mr[c] EXCEPT !.at = "push", !.head = head[mr[c].pr]] \in Request
      BY <1>0, <2>0, <3>1 DEF Request, MergePlaces
    <3>3. mr' = [mr EXCEPT ![c] = [mr[c] EXCEPT !.at = "push", !.head = head[mr[c].pr]]]
      BY <2>4, <1>0 DEF FetchHead
    <3>4. QED
      BY <2>4, <1>0, <3>2, <3>3 DEF FetchHead, Request, PullRequestsTypeOK
  <2>5. CASE MergeFails(c) \/ PushGoesAway(c)
    BY <2>5, DoneEffect DEF MergeFails, PushGoesAway, Request, PullRequestsTypeOK
  <2>6. CASE PushMerge(c)
    <3>1. CASE FastForward(c)
      <4>1. mr[c].pr \in PRs /\ mr[c].base \subseteq Changes /\ mr[c].head \in 0 .. MaxHead
        BY <2>6, <2>0 DEF PushMerge, PlaceInv, AtPR, Request
      <4>2. base' \in SUBSET Changes
        BY <2>6, <3>1, <4>1, OfType DEF PushMerge
      <4>3. [mr[c] EXCEPT !.at = "write", !.base = {}] \in Request
        BY <2>0 DEF Request, MergePlaces
      <4>4. mr' = [mr EXCEPT ![c] = [mr[c] EXCEPT !.at = "write", !.base = {}]]
        BY <2>6, <3>1, <1>0 DEF PushMerge
      <4>5. QED
        BY <2>6, <1>0, <4>2, <4>3, <4>4 DEF PushMerge, Request, PullRequestsTypeOK
    <3>2. CASE ~FastForward(c)
      BY <2>6, <3>2, DoneEffect DEF PushMerge, Request, PullRequestsTypeOK
    <3>3. QED
      BY <3>1, <3>2
  <2>7. CASE WriteMerged(c) \/ WriteClosed(c)
    <3>1. mr[c].pr \in PRs /\ mr[c].head \in 0 .. MaxHead
      BY <2>7, <2>0 DEF WriteMerged, WriteClosed, PlaceInv, AtPR, Request
    <3>2. \/ pr' = pr
          \/ pr' = [pr EXCEPT ![mr[c].pr].status = "merged", ![mr[c].pr].merge = mr[c].head]
          \/ pr' = [pr EXCEPT ![mr[c].pr].status = "closed", ![mr[c].pr].merge = 0]
      BY <2>7 DEF WriteMerged, WriteClosed
    <3>3. pr' \in [PRs -> PR]
      <4>1. PICK p \in PRs, h \in 0 .. MaxHead : p = mr[c].pr /\ h = mr[c].head
        BY <3>1
      <4>2. 0 \in 0 .. MaxHead
        BY PullRequestsAssumption
      <4>3. CASE pr' = [pr EXCEPT ![p].status = "merged", ![p].merge = h]
        BY <1>0, <4>3, RowTypes DEF PRStatus
      <4>4. CASE pr' = [pr EXCEPT ![p].status = "closed", ![p].merge = 0]
        BY <1>0, <4>2, <4>4, RowTypes DEF PRStatus
      <4>5. QED
        BY <1>0, <3>2, <4>1, <4>3, <4>4
    <3>4. QED
      BY <2>7, <3>1, <3>3, DoneEffect DEF WriteMerged, WriteClosed, Request, PullRequestsTypeOK
  <2>8. CASE BeginPush(c)
    <3>1. \A b \in BOOLEAN, q \in BOOLEAN :
             [NoMerge EXCEPT !.at = "policy", !.rule = b, !.alone = q] \in Request
      BY NoMergeType DEF Request, MergePlaces
    <3>2. \A d \in Clients : [mr[d] EXCEPT !.alone = FALSE] \in Request
      BY <1>0 DEF Request
    <3>3. mr' \in [Clients -> Request]
      BY <2>8, <1>0, <3>1, <3>2 DEF BeginPush, PullRequestsTypeOK
    <3>4. QED
      BY <2>8, <3>3 DEF BeginPush, Request, PullRequestsTypeOK
  <2>9. CASE WritePolicy(c)
    <3>1. mr[c].rule \in BOOLEAN
      BY <2>0 DEF Request
    <3>2. QED
      BY <2>9, <3>1, TurnEffect DEF WritePolicy, Request, MergePlaces, PullRequestsTypeOK
  <2>10. CASE Receive(c)
    <3>1. directs < MaxDirect => <<Direct, directs + 1>> \in Changes /\ directs + 1 \in 0 .. MaxDirect
      BY PullRequestsAssumption DEF Changes, PullRequestsTypeOK
    <3>2. QED
      BY <2>10, <3>1, DoneEffect DEF Receive, Request, PullRequestsTypeOK
  <2>11. QED
    BY <1>2, <2>1, <2>2, <2>3, <2>4, <2>5, <2>6, <2>7, <2>8, <2>9, <2>10 DEF Merging, Merge, Close
<1>3. CASE ChangeRule
  BY <1>3, PullRequestsAssumption DEF ChangeRule, PullRequestsTypeOK
<1>4. CASE PullRequestsCrash
  <2>1. mr' \in [Clients -> Request]
    BY <1>4, NoMergeType DEF PullRequestsCrash
  <2>2. \A c \in Clients : mr[c].at = "write" => mr[c].pr \in PRs
    BY DEF PlaceInv, AtPR
  <2>3. QED
    BY <1>4, <2>1, <2>2 DEF PullRequestsCrash, Request, PullRequestsTypeOK
<1>5. CASE UNCHANGED prVars
  BY <1>5 DEF prVars, PullRequestsTypeOK
<1>6. QED
  BY <1>1, <1>2, <1>3, <1>4, <1>5 DEF PullRequestsNext
-----------------------------------------------------------------------------
(* The inductive invariant *)

\* What a request's step does to what it holds: it takes a pull request (with
\* a head that may not be the branch's), goes on with it, fetches the head as it is then, or ends.  The others keep what they hold.
Others(c) == \A d \in Clients \ {c} : mr'[d] = mr[d]
Takes(c, p, at) ==
    /\ mr[c].at = "idle" /\ pr[p].status = "open"
    /\ mr'[c].at = at /\ mr'[c].pr = p /\ Others(c)
    /\ p \in moved' \/ mr'[c].head = head[p]
GoesFrom(c, from, to) ==
    /\ mr[c].at = from /\ mr'[c].at = to /\ mr'[c].pr = mr[c].pr /\ mr'[c].head = mr[c].head
    /\ mr'[c].rule = mr[c].rule /\ mr'[c].alone = mr[c].alone /\ Others(c)
Fetches(c) ==
    /\ mr[c].at = "fetch" /\ mr'[c].at = "push" /\ mr'[c].pr = mr[c].pr
    /\ mr'[c].head = head[mr[c].pr] /\ Others(c)
EndsAll(c) == mr'[c] = NoMerge /\ Others(c)

LEMMA OneUpdate ==
    ASSUME PullRequestsTypeOK, NEW c \in Clients, NEW m, mr' = [mr EXCEPT ![c] = m]
    PROVE  mr'[c] = m /\ mr[c] \in Request /\ Others(c)
BY DEF Others, PullRequestsTypeOK, Request

LEMMA OpensEffect ==
    ASSUME PullRequestsTypeOK, NEW c \in Clients, NEW p \in PRs, NEW at \in {"protect", "close"}, Opens(c, p, at)
    PROVE  Takes(c, p, at)
<1>1. PICK h : /\ mr' = [mr EXCEPT ![c] = [NoMerge EXCEPT !.at = at, !.pr = p, !.head = h]]
               /\ moved' = IF h # head[p] THEN moved \cup {p} ELSE moved
  BY DEF Opens
<1>2. mr'[c] = [NoMerge EXCEPT !.at = at, !.pr = p, !.head = h] /\ Others(c)
  BY <1>1, OneUpdate
<1>3. mr'[c].at = at /\ mr'[c].pr = p /\ mr'[c].head = h
  BY <1>2, NoMergeType DEF NoMerge
<1>4. QED
  BY <1>1, <1>2, <1>3 DEF Opens, AtHand, Takes

LEMMA EndsEffect ==
    ASSUME PullRequestsTypeOK, NEW c \in Clients, Done(c)
    PROVE  EndsAll(c)
BY DoneEffect DEF EndsAll, Others

LEMMA TurnsEffect ==
    ASSUME PullRequestsTypeOK, NEW c \in Clients, NEW at \in MergePlaces, Turn(c, at)
    PROVE  GoesFrom(c, mr[c].at, at)
<1>1. mr'[c] = [mr[c] EXCEPT !.at = at] /\ Others(c) /\ mr[c] \in Request
  BY TurnEffect, OneUpdate DEF Others, Turn, PullRequestsTypeOK, Request
<1>2. QED
  BY <1>1 DEF GoesFrom, Request

LEMMA CloneEffect ==
    ASSUME PullRequestsTypeOK, NEW c \in Clients, CloneBase(c)
    PROVE  GoesFrom(c, "clone", "fetch")
<1>1. mr' = [mr EXCEPT ![c] = [mr[c] EXCEPT !.at = "fetch", !.base = base]]
  BY DEF CloneBase
<1>2. mr'[c] = [mr[c] EXCEPT !.at = "fetch", !.base = base] /\ Others(c) /\ mr[c] \in Request
  BY <1>1, OneUpdate
<1>3. mr[c].at = "clone"
  BY DEF CloneBase
<1>4. QED
  BY <1>2, <1>3 DEF GoesFrom, Request

LEMMA FetchEffect ==
    ASSUME PullRequestsTypeOK, NEW c \in Clients, FetchHead(c)
    PROVE  Fetches(c)
<1>1. mr' = [mr EXCEPT ![c] = [mr[c] EXCEPT !.at = "push", !.head = head[mr[c].pr]]]
  BY DEF FetchHead
<1>2. mr'[c] = [mr[c] EXCEPT !.at = "push", !.head = head[mr[c].pr]] /\ Others(c) /\ mr[c] \in Request
  BY <1>1, OneUpdate
<1>3. mr[c].at = "fetch"
  BY DEF FetchHead
<1>4. QED
  BY <1>2, <1>3 DEF Fetches, Request

LEMMA PushEffect ==
    ASSUME PullRequestsTypeOK, NEW c \in Clients, PushMerge(c), FastForward(c)
    PROVE  GoesFrom(c, "push", "write") /\ base' = base \cup Of(mr[c].pr, mr[c].head)
<1>1. mr' = [mr EXCEPT ![c] = [mr[c] EXCEPT !.at = "write", !.base = {}]]
  BY DEF PushMerge
<1>2. mr'[c] = [mr[c] EXCEPT !.at = "write", !.base = {}] /\ Others(c) /\ mr[c] \in Request
  BY <1>1, OneUpdate
<1>3. QED
  BY <1>2 DEF GoesFrom, Request, PushMerge, FastForward

\* Every step of a request but the beginning of a push is one of these.
LEMMA MergingShape ==
    ASSUME PullRequestsTypeOK, NEW c \in Clients, Merging(c), ~BeginPush(c)
    PROVE  \/ \E p \in PRs, at \in {"protect", "close"} : Opens(c, p, at) /\ Takes(c, p, at)
           \/ EnforceProtection(c) /\ GoesFrom(c, "protect", "clone") /\ Protects(c)
           \/ EnforceProtection(c) /\ EndsAll(c) /\ passed' = passed
           \/ CloneBase(c) /\ GoesFrom(c, "clone", "fetch")
           \/ FetchHead(c) /\ Fetches(c)
           \/ /\ PushMerge(c) /\ GoesFrom(c, "push", "write")
              /\ base' = base \cup Of(mr[c].pr, mr[c].head)
           \/ PushMerge(c) /\ EndsAll(c) /\ base' = base
           \/ WritePolicy(c) /\ GoesFrom(c, "policy", "receive")
           \/ (MergeFails(c) \/ WriteMerged(c) \/ WriteClosed(c) \/ Receive(c) \/ PushGoesAway(c)) /\ EndsAll(c)
<1>1. ASSUME NEW p \in PRs, NEW at \in {"protect", "close"}, Opens(c, p, at)
      PROVE  Takes(c, p, at)
  BY <1>1, OpensEffect
<1>2. CASE EnforceProtection(c)
  <2>1. CASE Protects(c)
    BY <1>2, <2>1, TurnsEffect DEF EnforceProtection, MergePlaces
  <2>2. CASE ~Protects(c)
    BY <1>2, <2>2, EndsEffect DEF EnforceProtection
  <2>3. QED
    BY <2>1, <2>2
<1>3. CASE PushMerge(c)
  <2>1. CASE FastForward(c)
    BY <1>3, <2>1, PushEffect
  <2>2. CASE ~FastForward(c)
    BY <1>3, <2>2, EndsEffect DEF PushMerge
  <2>3. QED
    BY <2>1, <2>2
<1>4. CASE WritePolicy(c)
  BY <1>4, TurnsEffect DEF WritePolicy, MergePlaces
<1>5. CASE MergeFails(c) \/ WriteMerged(c) \/ WriteClosed(c) \/ Receive(c) \/ PushGoesAway(c)
  BY <1>5, EndsEffect DEF MergeFails, WriteMerged, WriteClosed, Receive, PushGoesAway
<1>6. QED
  BY <1>1, <1>2, <1>3, <1>4, <1>5, CloneEffect, FetchEffect DEF Merging, Merge, Close

\* A push takes note of the rule, and tells those beside it that they are not alone.
LEMMA BeginEffect ==
    ASSUME PullRequestsTypeOK, NEW c \in Clients, BeginPush(c)
    PROVE  /\ mr[c].at = "idle"
           /\ mr'[c].at = "policy" /\ mr'[c].pr = Direct
           /\ mr'[c].alone => \A d \in Clients : ~InReceive(d)
           /\ \A d \in Clients \ {c} :
                /\ mr'[d].at = mr[d].at /\ mr'[d].pr = mr[d].pr /\ mr'[d].head = mr[d].head
                /\ mr'[d].rule = mr[d].rule /\ (InReceive(d) => ~mr'[d].alone)
<1>0. mr \in [Clients -> Request]
  BY DEF PullRequestsTypeOK, Request
<1> DEFINE others == {d \in Clients : InReceive(d)}
           mine == [NoMerge EXCEPT !.at = "policy", !.rule = rule, !.alone = others = {}]
<1>1. mr' = [d \in Clients |-> IF d = c THEN mine
                               ELSE IF d \in others THEN [mr[d] EXCEPT !.alone = FALSE] ELSE mr[d]]
  BY DEF BeginPush
<1>2. mine.at = "policy" /\ mine.pr = Direct /\ (mine.alone => others = {})
  BY DEF NoMerge
<1>3. ASSUME NEW d \in Clients \ {c}
      PROVE  /\ mr'[d].at = mr[d].at /\ mr'[d].pr = mr[d].pr /\ mr'[d].head = mr[d].head
             /\ mr'[d].rule = mr[d].rule /\ (InReceive(d) => ~mr'[d].alone)
  <2>1. mr[d] \in Request
    BY <1>0
  <2>2. mr'[d] = IF InReceive(d) THEN [mr[d] EXCEPT !.alone = FALSE] ELSE mr[d]
    BY <1>1
  <2>3. QED
    BY <2>1, <2>2 DEF Request
<1>4. QED
  BY <1>1, <1>2, <1>3 DEF BeginPush, AtHand

\* Whose requests a step leaves as they are at their pull requests.
LEMMA OthersStay ==
    ASSUME PullRequestsTypeOK, NEW c \in Clients, Merging(c), NEW d \in Clients \ {c}
    PROVE  mr'[d].at = mr[d].at /\ mr'[d].pr = mr[d].pr /\ mr'[d].head = mr[d].head
<1>1. CASE BeginPush(c)
  BY <1>1, BeginEffect
<1>2. CASE ~BeginPush(c)
  BY <1>2, MergingShape DEF Takes, GoesFrom, Fetches, EndsAll, Others
<1>3. QED
  BY <1>1, <1>2

LEMMA Quiet ==
    ASSUME \/ \E p \in PRs : Reviewing(p)
           \/ ChangeRule \/ UNCHANGED prVars
    PROVE  UNCHANGED <<mr, base, policy, passed, raced, forced>>
BY DEF Reviewing, OpenPR, PushHead, AddReview, RunCheck, ChangeRule, prVars

LEMMA PullsInitInv == PullRequestsInit => PullRequestsInv
<1> SUFFICES ASSUME PullRequestsInit PROVE PullRequestsInv
  OBVIOUS
<1>1. \A c \in Clients : mr[c] = NoMerge /\ mr[c].at = "idle" /\ mr[c].pr = Direct
  BY DEF PullRequestsInit, NoMerge
<1>2. \A p \in PRs : At(p) = {} /\ pr[p].status = "none"
  BY <1>1, PullRequestsAssumption DEF At, PullRequestsInit
<1>3. base = {}
  BY DEF PullRequestsInit
<1>4. PlaceInv /\ PushedInv /\ HookInv
  BY <1>1 DEF PlaceInv, PushedInv, HookInv, AtPR, InReceive
<1>5. AloneInv /\ HeadInv
  BY <1>2 DEF AloneInv, HeadInv
<1>6. RowTellsBase /\ MergedIsChecked
  BY <1>2, <1>3 DEF RowTellsBase, MergedIsChecked
<1>7. QED
  BY <1>4, <1>5, <1>6 DEF PullRequestsInv

LEMMA PlaceKept ==
    ASSUME PullInv, [PullRequestsNext]_prVars
    PROVE  PlaceInv'
<1> SUFFICES ASSUME NEW c \in Clients
             PROVE  /\ IF mr'[c].at \in AtPR THEN mr'[c].pr \in PRs ELSE mr'[c].pr = Direct
                    /\ mr'[c].at \in {"push", "write"} => mr'[c].head > 0
  BY DEF PlaceInv
<1>0. /\ PullRequestsTypeOK
      /\ IF mr[c].at \in AtPR THEN mr[c].pr \in PRs ELSE mr[c].pr = Direct
      /\ mr[c].at \in {"push", "write"} => mr[c].head > 0
      /\ \A p \in PRs : head[p] > 0
      /\ NoMerge.at \notin AtPR \cup {"push", "write"} /\ NoMerge.pr = Direct
  BY PullRequestsAssumption DEF PullInv, PullRequestsInv, PlaceInv, PullRequestsTypeOK, NoMerge, AtPR
<1>1. ASSUME NEW d \in Clients, Merging(d), d # c
      PROVE  mr'[c].at = mr[c].at /\ mr'[c].pr = mr[c].pr /\ mr'[c].head = mr[c].head
  BY <1>0, <1>1, OthersStay
<1>2. CASE Merging(c)
  <2>1. CASE BeginPush(c)
    BY <1>0, <2>1, BeginEffect DEF AtPR
  <2>2. CASE ~BeginPush(c)
    <3>1. CASE \E p \in PRs, at \in {"protect", "close"} : Takes(c, p, at)
      BY <1>0, <3>1 DEF Takes, AtPR
    <3>2. CASE \/ GoesFrom(c, "protect", "clone") \/ GoesFrom(c, "clone", "fetch") \/ GoesFrom(c, "push", "write")
               \/ GoesFrom(c, "policy", "receive")
      BY <1>0, <3>2 DEF GoesFrom, AtPR
    <3>3. CASE Fetches(c)
      BY <1>0, <3>3 DEF Fetches, AtPR
    <3>4. CASE EndsAll(c)
      BY <1>0, <3>4 DEF EndsAll
    <3>5. QED
      BY <1>0, <1>2, <2>2, <3>1, <3>2, <3>3, <3>4, MergingShape
  <2>3. QED
    BY <2>1, <2>2
<1>3. CASE PullRequestsCrash
  BY <1>0, <1>3 DEF PullRequestsCrash
<1>4. QED
  BY <1>0, <1>1, <1>2, <1>3, Quiet DEF PullRequestsNext

\* What a step does to the base branch.
LEMMA BaseEffect ==
    ASSUME PullRequestsTypeOK, [PullRequestsNext]_prVars
    PROVE  /\ base \subseteq base' \/ forced'
           /\ forced => forced'
           /\ \/ base' \subseteq base
              \/ \E c \in Clients : GoesFrom(c, "push", "write") /\ base' = base \cup Of(mr[c].pr, mr[c].head)
              \/ base' \subseteq base \cup {<<Direct, directs + 1>>}
<1>1. ASSUME NEW c \in Clients, BeginPush(c)
      PROVE  base' = base /\ forced' = forced
  BY <1>1 DEF BeginPush
<1>2. ASSUME NEW c \in Clients, Merging(c), ~BeginPush(c)
      PROVE  /\ base \subseteq base' \/ forced'
             /\ forced => forced'
             /\ \/ base' \subseteq base
                \/ GoesFrom(c, "push", "write") /\ base' = base \cup Of(mr[c].pr, mr[c].head)
                \/ base' \subseteq base \cup {<<Direct, directs + 1>>}
  <2>1. CASE PushMerge(c)
    <3>1. CASE FastForward(c)
      BY <2>1, <3>1, PushEffect DEF PushMerge
    <3>2. CASE ~FastForward(c)
      BY <2>1, <3>2 DEF PushMerge
    <3>3. QED
      BY <3>1, <3>2
  <2>2. CASE Receive(c)
    <3>0. forced \in BOOLEAN
      BY DEF PullRequestsTypeOK
    <3>1. \/ base' = base /\ forced' = forced
          \/ base' = base \cup {<<Direct, directs + 1>>} /\ forced' = forced
          \/ base' = {<<Direct, directs + 1>>} /\ forced' = TRUE
      BY <2>2 DEF Receive
    <3>2. base \subseteq base' \/ forced'
      BY <3>1
    <3>3. forced => forced'
      BY <3>0, <3>1
    <3>4. base' \subseteq base \cup {<<Direct, directs + 1>>}
      BY <3>1
    <3>5. QED
      BY <3>2, <3>3, <3>4
  <2>3. CASE \/ \E p \in PRs, at \in {"protect", "close"} : Opens(c, p, at)
             \/ EnforceProtection(c) \/ CloneBase(c) \/ FetchHead(c) \/ MergeFails(c)
             \/ WriteMerged(c) \/ WriteClosed(c) \/ WritePolicy(c) \/ PushGoesAway(c)
    <3>1. UNCHANGED <<base, forced>>
      BY <2>3 DEF Opens, EnforceProtection, CloneBase, FetchHead, MergeFails, WriteMerged, WriteClosed,
                  WritePolicy, PushGoesAway
    <3>2. QED
      BY <3>1
  <2>4. QED
    BY <1>2, <2>1, <2>2, <2>3 DEF Merging, Merge, Close
<1>3. CASE PullRequestsCrash
  BY <1>3 DEF PullRequestsCrash
<1>4. QED
  BY <1>1, <1>2, <1>3, Quiet DEF PullRequestsNext

\* Who is at a pull request after a step was there before, or takes it.
LEMMA AtEffect ==
    ASSUME PullRequestsTypeOK, PlaceInv, [PullRequestsNext]_prVars, NEW p \in PRs, NEW c \in At(p)'
    PROVE  c \in At(p) \/ \E at \in {"protect", "close"} : Opens(c, p, at) /\ Takes(c, p, at)
<1>0. c \in Clients /\ mr'[c].pr = p /\ p # Direct /\ NoMerge.pr = Direct
  BY PullRequestsAssumption DEF At, NoMerge
<1>1. CASE mr' = mr
  BY <1>0, <1>1 DEF At
<1>2. ASSUME NEW d \in Clients, Merging(d), d # c
      PROVE  c \in At(p)
  BY <1>0, <1>2, OthersStay DEF At
<1>3. CASE Merging(c)
  <2>1. ~BeginPush(c)
    BY <1>0, BeginEffect
  <2>2. ~EndsAll(c)
    BY <1>0 DEF EndsAll
  <2>3. ASSUME NEW q \in PRs, NEW at \in {"protect", "close"}, Opens(c, q, at), Takes(c, q, at)
        PROVE  q = p
    BY <1>0, <2>3 DEF Takes
  <2>4. CASE \/ GoesFrom(c, "protect", "clone") \/ GoesFrom(c, "clone", "fetch") \/ GoesFrom(c, "push", "write")
             \/ GoesFrom(c, "policy", "receive") \/ Fetches(c)
    BY <1>0, <2>4 DEF GoesFrom, Fetches, At
  <2>5. QED
    BY <1>0, <1>3, <2>1, <2>2, <2>3, <2>4, MergingShape
<1>4. CASE PullRequestsCrash
  BY <1>0, <1>4 DEF PullRequestsCrash
<1>5. QED
  BY <1>0, <1>1, <1>2, <1>3, <1>4, Quiet DEF PullRequestsNext

\* What a step does to a row, and to what is remembered of its races.
LEMMA RowEffect ==
    ASSUME PullRequestsTypeOK, PlaceInv, [PullRequestsNext]_prVars, NEW p \in PRs
    PROVE  \/ pr'[p].status = pr[p].status /\ pr'[p].merge = pr[p].merge
           \/ pr[p].status = "none" /\ pr'[p].status = "open" /\ mr' = mr
           \/ \E c \in At(p) :
                /\ EndsAll(c) /\ UNCHANGED <<base, forced>>
                /\ \/ mr[c].at = "write" /\ pr'[p].status = "merged" /\ pr'[p].merge = mr[c].head
                   \/ mr[c].at = "close" /\ pr'[p].status = "closed"
<1>0. pr \in [PRs -> PR]
  BY DEF PullRequestsTypeOK
<1>1. ASSUME NEW q \in PRs, OpenPR(q)
      PROVE  \/ pr'[p].status = pr[p].status /\ pr'[p].merge = pr[p].merge
             \/ pr[p].status = "none" /\ pr'[p].status = "open" /\ mr' = mr
  <2>1. pr' = [pr EXCEPT ![q] = [pr[q] EXCEPT !.status = "open", !.head = head[q]]]
    BY <1>0, <1>1 DEF OpenPR
  <2>2. pr[q].status = "none" /\ mr' = mr
    BY <1>1 DEF OpenPR
  <2>3. QED
    BY <1>0, <2>1, <2>2 DEF PR
<1>2. ASSUME NEW q \in PRs, NEW h, pr' = [pr EXCEPT ![q].head = h]
      PROVE  pr'[p].status = pr[p].status /\ pr'[p].merge = pr[p].merge
  BY <1>0, <1>2 DEF PR
<1>3. ASSUME NEW c \in Clients, WriteMerged(c)
      PROVE  \/ pr' = pr
             \/ mr[c].pr # p /\ pr'[p] = pr[p]
             \/ /\ c \in At(p) /\ EndsAll(c) /\ UNCHANGED <<base, forced>>
                /\ mr[c].at = "write" /\ pr'[p].status = "merged" /\ pr'[p].merge = mr[c].head
  <2>0. mr[c].pr \in PRs
    BY <1>3 DEF WriteMerged, PlaceInv, AtPR
  <2>1. CASE pr' = [pr EXCEPT ![mr[c].pr].status = "merged", ![mr[c].pr].merge = mr[c].head]
    <3>0. PICK h : h = mr[c].head
      OBVIOUS
    <3>1. PICK q \in PRs : q = mr[c].pr
      BY <2>0
    <3>2. pr' = [pr EXCEPT ![q] = [pr[q] EXCEPT !.status = "merged", !.merge = h]]
      BY <1>0, <2>1, <3>0, <3>1
    <3>3. pr'[q].status = "merged" /\ pr'[q].merge = h
      BY <1>0, <3>2 DEF PR
    <3>4. p # q => pr'[p] = pr[p]
      BY <1>0, <3>2
    <3>5. QED
      BY <1>3, <3>0, <3>1, <3>3, <3>4, EndsEffect DEF WriteMerged, At
  <2>2. QED
    BY <1>3, <2>1 DEF WriteMerged
<1>4. ASSUME NEW c \in Clients, WriteClosed(c)
      PROVE  \/ mr[c].pr # p /\ pr'[p] = pr[p]
             \/ /\ c \in At(p) /\ EndsAll(c) /\ UNCHANGED <<base, forced>>
                /\ mr[c].at = "close" /\ pr'[p].status = "closed"
  <2>1. PICK q \in PRs : q = mr[c].pr
    BY <1>4 DEF WriteClosed, PlaceInv, AtPR
  <2>2. pr' = [pr EXCEPT ![q] = [pr[q] EXCEPT !.status = "closed", !.merge = 0]]
    BY <1>0, <1>4, <2>1 DEF WriteClosed
  <2>3. pr'[q].status = "closed"
    BY <1>0, <2>2 DEF PR
  <2>4. p # q => pr'[p] = pr[p]
    BY <1>0, <2>2
  <2>5. QED
    BY <1>4, <2>1, <2>3, <2>4, EndsEffect DEF WriteClosed, At
<1>5. ASSUME NEW c \in Clients, Merging(c),
             ~WriteMerged(c), ~WriteClosed(c), \A q \in PRs : ~Merge(c, q) /\ ~Close(c, q)
      PROVE  pr' = pr
  BY <1>5 DEF Merging, EnforceProtection, CloneBase, FetchHead, MergeFails, PushMerge, BeginPush, WritePolicy,
              Receive, PushGoesAway
<1>6. ASSUME NEW q \in PRs, PushHead(q) \/ \E n \in 1 .. MaxHead : RunCheck(q, n)
      PROVE  pr' = pr
  BY <1>6 DEF PushHead, RunCheck
<1>7. ASSUME NEW q \in PRs, AddReview(q)
      PROVE  pr' = pr \/ \E h : pr' = [pr EXCEPT ![q].head = h]
  BY <1>7 DEF AddReview, Refreshes
<1>8. ASSUME NEW c \in Clients, NEW q \in PRs, Merge(c, q) \/ Close(c, q)
      PROVE  pr' = pr \/ \E h : pr' = [pr EXCEPT ![q].head = h]
  BY <1>8 DEF Merge, Close, Opens, Refreshes
<1>9. CASE ChangeRule \/ PullRequestsCrash \/ UNCHANGED prVars
  BY <1>9 DEF ChangeRule, PullRequestsCrash, prVars
<1>10. QED
  BY <1>1, <1>2, <1>3, <1>4, <1>5, <1>6, <1>7, <1>8, <1>9 DEF PullRequestsNext, Reviewing

\* What a step remembers, it never forgets.
LEMMA HistoryGrows ==
    ASSUME PullRequestsTypeOK, [PullRequestsNext]_prVars
    PROVE  /\ moved \subseteq moved' /\ raced \subseteq raced'
           /\ \A p \in PRs : passed[p] <= passed'[p]
<1>0. passed \in [PRs -> Nat] /\ mr \in [Clients -> Request]
  BY PullRequestsAssumption DEF PullRequestsTypeOK, Request
<1>1. ASSUME NEW p \in PRs, Reviewing(p)
      PROVE  moved \subseteq moved' /\ raced' = raced /\ passed' = passed
  BY <1>1 DEF Reviewing, OpenPR, PushHead, AddReview, RunCheck
<1>2. ASSUME NEW c \in Clients, EnforceProtection(c)
      PROVE  /\ moved' = moved /\ raced' = raced
             /\ \A p \in PRs : passed[p] <= passed'[p]
  <2>0. PICK h \in Nat : h = mr[c].head
    BY <1>0, PullRequestsAssumption DEF Request
  <2>1. PICK q : q = mr[c].pr
    OBVIOUS
  <2>2. passed' = passed \/ passed' = [passed EXCEPT ![q] = IF passed[q] < h THEN h ELSE passed[q]]
    BY <1>2, <2>0, <2>1 DEF EnforceProtection
  <2>3. \A p \in PRs : passed[p] <= passed'[p]
    BY <1>0, <2>2
  <2>4. QED
    BY <1>2, <2>3 DEF EnforceProtection
<1>3. ASSUME NEW c \in Clients, Merging(c), ~EnforceProtection(c)
      PROVE  moved \subseteq moved' /\ raced \subseteq raced' /\ passed' = passed
  BY <1>3 DEF Merging, Merge, Close, Opens, CloneBase, FetchHead, MergeFails, PushMerge, WriteMerged, WriteClosed,
              BeginPush, WritePolicy, Receive, PushGoesAway
<1>4. CASE ChangeRule \/ PullRequestsCrash \/ UNCHANGED prVars
  <2>1. moved' = moved /\ raced \subseteq raced' /\ passed' = passed
    BY <1>4 DEF ChangeRule, PullRequestsCrash, prVars
  <2>2. \A p \in PRs : passed[p] <= passed[p]
    BY <1>0
  <2>3. QED
    BY <2>1, <2>2
<1>5. (moved \subseteq moved' /\ raced \subseteq raced') /\ (passed' = passed \/ \A p \in PRs : passed[p] <= passed'[p])
  BY <1>1, <1>2, <1>3, <1>4 DEF PullRequestsNext
<1>6. \A p \in PRs : passed[p] <= passed[p]
  BY <1>0
<1>7. QED
  BY <1>5, <1>6

LEMMA PushedKept ==
    ASSUME PullInv, [PullRequestsNext]_prVars
    PROVE  PushedInv'
<1> SUFFICES ASSUME NEW c \in Clients, mr'[c].at = "write", ~forced'
             PROVE  Of(mr'[c].pr, mr'[c].head) \subseteq base'
  BY DEF PushedInv, Of
<1>0. PullRequestsTypeOK /\ PushedInv /\ PlaceInv /\ base \subseteq base' /\ ~forced
  BY BaseEffect DEF PullInv, PullRequestsInv
<1>1. CASE mr'[c].at = mr[c].at /\ mr'[c].pr = mr[c].pr /\ mr'[c].head = mr[c].head
  BY <1>0, <1>1 DEF PushedInv
<1>2. ASSUME NEW d \in Clients, Merging(d), d # c
      PROVE  mr'[c].at = mr[c].at /\ mr'[c].pr = mr[c].pr /\ mr'[c].head = mr[c].head
  BY <1>0, <1>2, OthersStay
<1>3. CASE Merging(c)
  <2>1. ~BeginPush(c) /\ ~EndsAll(c)
    BY <1>0, BeginEffect DEF EndsAll, NoMerge
  <2>2. PushMerge(c) /\ GoesFrom(c, "push", "write") /\ base' = base \cup Of(mr[c].pr, mr[c].head)
    BY <1>0, <1>3, <2>1, MergingShape DEF Takes, GoesFrom, Fetches
  <2>3. mr'[c].pr = mr[c].pr /\ mr'[c].head = mr[c].head
    BY <2>2 DEF GoesFrom
  <2>4. QED
    BY <2>2, <2>3
<1>4. CASE PullRequestsCrash
  BY <1>4 DEF PullRequestsCrash, NoMerge
<1>5. QED
  BY <1>1, <1>2, <1>3, <1>4, Quiet DEF PullRequestsNext

\* A request that is let through ends only with its row written, or remembered as a race.
LEMMA WriteStays ==
    ASSUME PullRequestsTypeOK, PlaceInv, [PullRequestsNext]_prVars, NEW p \in PRs,
           NEW c \in At(p), mr[c].at = "write", p \notin raced'
    PROVE  \/ c \in At(p)' /\ mr'[c].at = "write"
           \/ pr'[p].status = "merged"
<1>0. c \in Clients /\ mr[c].pr = p /\ pr \in [PRs -> PR]
  BY DEF At, PullRequestsTypeOK
<1>1. CASE mr' = mr
  BY <1>0, <1>1 DEF At
<1>2. ASSUME NEW d \in Clients, Merging(d), d # c
      PROVE  c \in At(p)' /\ mr'[c].at = "write"
  BY <1>0, <1>2, OthersStay DEF At
<1>3. CASE Merging(c)
  <2>1. WriteMerged(c)
    BY <1>3 DEF Merging, Merge, Close, Opens, AtHand, EnforceProtection, CloneBase, FetchHead, MergeFails, PushMerge,
                WriteClosed, BeginPush, WritePolicy, Receive, PushGoesAway, InReceive
  <2>2. pr' = [pr EXCEPT ![p].status = "merged", ![p].merge = mr[c].head]
    BY <1>0, <2>1 DEF WriteMerged
  <2>3. PICK h : h = mr[c].head
    OBVIOUS
  <2>4. pr' = [pr EXCEPT ![p] = [pr[p] EXCEPT !.status = "merged", !.merge = h]]
    BY <1>0, <2>2, <2>3
  <2>5. QED
    BY <1>0, <2>4 DEF PR
<1>4. CASE PullRequestsCrash
  BY <1>0, <1>4 DEF PullRequestsCrash
<1>5. QED
  BY <1>1, <1>2, <1>3, <1>4, Quiet DEF PullRequestsNext

LEMMA AloneKept ==
    ASSUME PullInv, [PullRequestsNext]_prVars
    PROVE  AloneInv'
<1> SUFFICES ASSUME NEW p \in PRs, p \notin raced'
             PROVE  /\ \A c, d \in At(p)' : c = d
                    /\ \A c \in At(p)' : pr'[p].status = "open"
  BY DEF AloneInv
<1>0. /\ PullRequestsTypeOK /\ PlaceInv /\ p \notin raced
      /\ \A c, d \in At(p) : c = d
      /\ \A c \in At(p) : pr[p].status = "open"
  BY HistoryGrows DEF PullInv, PullRequestsInv, AloneInv
<1>1. ASSUME NEW c \in At(p)', NEW at \in {"protect", "close"}, Opens(c, p, at), Takes(c, p, at)
      PROVE  /\ At(p)' = {c} /\ pr'[p].status = "open"
  <2>1. At(p) = {}
    BY <1>0, <1>1 DEF Opens
  <2>2. At(p)' = {c}
    BY <1>1, <2>1 DEF Takes, Others, At
  <2>3. PICK h : pr' \in {pr, [pr EXCEPT ![p].head = h]} /\ pr[p].status = "open"
    BY <1>1 DEF Opens, Refreshes
  <2>4. pr'[p].status = "open"
    BY <1>0, <2>3 DEF PullRequestsTypeOK, PR
  <2>5. QED
    BY <2>2, <2>4
<1>2. CASE \A c \in At(p)' : c \in At(p)
  <2>1. ASSUME NEW c \in At(p), EndsAll(c)
        PROVE  At(p)' = {}
    <3>1. c \notin At(p)'
      BY <2>1, PullRequestsAssumption DEF EndsAll, NoMerge, At
    <3>2. QED
      BY <1>0, <1>2, <3>1
  <2>2. CASE At(p)' # {}
    <3>1. At(p) # {} /\ pr[p].status = "open"
      BY <1>0, <1>2, <2>2
    <3>2. pr'[p].status = "open"
      BY <1>0, <2>1, <2>2, <3>1, RowEffect
    <3>3. QED
      BY <1>0, <1>2, <3>2
  <2>3. QED
    BY <2>2
<1>3. CASE \E c \in At(p)' : c \notin At(p)
  BY <1>0, <1>1, <1>3, AtEffect
<1>4. QED
  BY <1>2, <1>3

\* A head moves by a push only.
LEMMA HeadStays ==
    ASSUME PullRequestsTypeOK, [PullRequestsNext]_prVars, NEW p \in PRs
    PROVE  head'[p] = head[p] \/ (mr' = mr /\ (At(p) # {} => p \in moved'))
<1>1. ASSUME NEW q \in PRs, PushHead(q)
      PROVE  head'[p] = head[p] \/ (mr' = mr /\ (At(p) # {} => p \in moved'))
  BY <1>1 DEF PushHead, PullRequestsTypeOK
<1>2. ASSUME NEW q \in PRs, OpenPR(q) \/ AddReview(q) \/ \E n \in 1 .. MaxHead : RunCheck(q, n)
      PROVE  head' = head
  BY <1>2 DEF OpenPR, AddReview, RunCheck
<1>3. ASSUME NEW c \in Clients, Merging(c)
      PROVE  head' = head
  BY <1>3 DEF Merging, Merge, Close, Opens, EnforceProtection, CloneBase, FetchHead, MergeFails, PushMerge, WriteMerged,
              WriteClosed, BeginPush, WritePolicy, Receive, PushGoesAway
<1>4. CASE ChangeRule \/ PullRequestsCrash \/ UNCHANGED prVars
  BY <1>4 DEF ChangeRule, PullRequestsCrash, prVars
<1>5. QED
  BY <1>1, <1>2, <1>3, <1>4 DEF PullRequestsNext, Reviewing

LEMMA HeadKept ==
    ASSUME PullInv, [PullRequestsNext]_prVars
    PROVE  HeadInv'
<1> SUFFICES ASSUME NEW p \in PRs, p \notin moved', NEW c \in At(p)'
             PROVE  /\ mr'[c].head = head'[p]
                    /\ mr'[c].at \in LetThrough => mr'[c].head <= passed'[p]
  BY DEF HeadInv
<1>0. /\ PullRequestsTypeOK /\ PlaceInv /\ p \notin moved
      /\ c \in Clients /\ mr'[c].pr = p /\ p # Direct
  BY HistoryGrows, PullRequestsAssumption DEF PullInv, PullRequestsInv, At
<1>1. ASSUME NEW at \in {"protect", "close"}, Opens(c, p, at), Takes(c, p, at)
      PROVE  mr'[c].head = head'[p] /\ mr'[c].at \notin LetThrough
  BY <1>1 DEF Opens, Takes, LetThrough
<1>2. CASE c \in At(p)
  <2>0. /\ mr[c].pr = p /\ mr[c].head = head[p]
        /\ mr[c].at \in LetThrough => mr[c].head <= passed[p]
    BY <1>0, <1>2 DEF PullInv, PullRequestsInv, HeadInv, At
  <2>1. head'[p] = head[p]
    <3>1. CASE mr' = mr
      BY <1>0, <1>2, HeadStays
    <3>2. QED
      BY <1>0, <1>2, <3>1, HeadStays
  <2>2. /\ head[p] \in Nat /\ passed[p] <= passed'[p] /\ passed[p] \in Nat /\ passed'[p] \in Nat
    <3>1. PullRequestsTypeOK'
      BY <1>0, NextTypes
    <3>2. QED
      BY <1>0, <3>1, HistoryGrows, PullRequestsAssumption DEF PullRequestsTypeOK
  <2>3. CASE mr'[c].at = mr[c].at /\ mr'[c].head = mr[c].head
    BY <2>0, <2>1, <2>2, <2>3
  <2>4. ASSUME NEW d \in Clients, Merging(d), d # c
        PROVE  mr'[c].at = mr[c].at /\ mr'[c].head = mr[c].head
    BY <1>0, <2>4, OthersStay
  <2>5. CASE Merging(c)
    <3>1. ~BeginPush(c)
      BY <1>0, BeginEffect
    <3>2. ~EndsAll(c)
      BY <1>0 DEF EndsAll, NoMerge
    <3>3. CASE EnforceProtection(c) /\ GoesFrom(c, "protect", "clone") /\ Protects(c)
      <4>1. passed' = [passed EXCEPT ![p] = IF @ < mr[c].head THEN mr[c].head ELSE @]
        BY <2>0, <3>3 DEF EnforceProtection
      <4>2. passed'[p] = IF passed[p] < head[p] THEN head[p] ELSE passed[p]
        BY <1>0, <2>0, <4>1 DEF PullRequestsTypeOK
      <4>3. mr'[c].head = head[p]
        BY <2>0, <3>3 DEF GoesFrom
      <4>4. QED
        BY <2>1, <2>2, <4>2, <4>3
    <3>4. CASE GoesFrom(c, "clone", "fetch") \/ GoesFrom(c, "push", "write")
      BY <2>0, <2>1, <2>2, <3>4 DEF GoesFrom, LetThrough
    <3>5. CASE Fetches(c)
      BY <2>0, <2>1, <2>2, <3>5 DEF Fetches, LetThrough
    <3>6. CASE GoesFrom(c, "policy", "receive")
      BY <2>0, <2>1, <3>6 DEF GoesFrom, LetThrough
    <3>7. \A at : ~Takes(c, p, at)
      BY <1>0, <2>0 DEF Takes, PlaceInv, AtPR
    <3>8. ASSUME NEW q \in PRs, NEW at, Takes(c, q, at)
          PROVE  q = p
      BY <1>0, <3>8 DEF Takes
    <3>9. QED
      BY <1>0, <2>5, <3>1, <3>2, <3>3, <3>4, <3>5, <3>6, <3>7, <3>8, MergingShape
  <2>6. CASE PullRequestsCrash
    BY <1>0, <2>6 DEF PullRequestsCrash, NoMerge
  <2>7. QED
    BY <2>3, <2>4, <2>5, <2>6, Quiet DEF PullRequestsNext
<1>3. QED
  BY <1>0, <1>1, <1>2, AtEffect

LEMMA HookKept ==
    ASSUME PullInv, [PullRequestsNext]_prVars
    PROVE  HookInv'
<1> SUFFICES ASSUME NEW c \in Clients, mr'[c].at \in {"policy", "receive"}, mr'[c].alone
             PROVE  /\ \A d \in Clients : mr'[d].at \in {"policy", "receive"} => d = c
                    /\ mr'[c].at = "receive" /\ mr'[c].rule => policy'
  BY DEF HookInv, InReceive
<1>0. /\ PullRequestsTypeOK
      /\ InReceive(c) /\ mr[c].alone =>
            /\ \A d \in Clients : InReceive(d) => d = c
            /\ mr[c].at = "receive" /\ mr[c].rule => policy
  BY DEF PullInv, PullRequestsInv, HookInv
<1>1. CASE UNCHANGED <<mr, policy>>
  BY <1>0, <1>1 DEF InReceive
<1>2. ASSUME NEW b \in Clients, BeginPush(b)
      PROVE  /\ \A d \in Clients : mr'[d].at \in {"policy", "receive"} => d = c
             /\ mr'[c].at # "receive"
  <2>1. /\ mr'[b].at = "policy" /\ (mr'[b].alone => \A d \in Clients : ~InReceive(d))
        /\ \A d \in Clients \ {b} : mr'[d].at = mr[d].at /\ (InReceive(d) => ~mr'[d].alone)
    BY <1>0, <1>2, BeginEffect
  <2>2. c = b
    BY <2>1 DEF InReceive
  <2>3. QED
    BY <2>1, <2>2 DEF InReceive
<1>3. ASSUME NEW b \in Clients, Merging(b), ~BeginPush(b)
      PROVE  /\ \A d \in Clients : mr'[d].at \in {"policy", "receive"} => d = c
             /\ mr'[c].at = "receive" /\ mr'[c].rule => policy'
  <2>1. CASE WritePolicy(b) /\ GoesFrom(b, "policy", "receive")
    <3>1. policy' = mr[b].rule
      BY <2>1 DEF WritePolicy
    <3>2. QED
      BY <1>0, <2>1, <3>1 DEF GoesFrom, Others, InReceive
  <2>2. CASE ~WritePolicy(b)
    <3>1. policy' = policy
      BY <1>3, <2>2 DEF Merging, Merge, Close, Opens, EnforceProtection, CloneBase, FetchHead, MergeFails, PushMerge,
                        WriteMerged, WriteClosed, Receive, PushGoesAway
    <3>2. Others(b) /\ mr'[b].at \notin {"policy", "receive"}
      <4>1. CASE \E p \in PRs, at \in {"protect", "close"} : Takes(b, p, at)
        BY <4>1 DEF Takes
      <4>2. CASE GoesFrom(b, "protect", "clone") \/ GoesFrom(b, "clone", "fetch") \/ GoesFrom(b, "push", "write")
        BY <4>2 DEF GoesFrom
      <4>3. CASE Fetches(b)
        BY <4>3 DEF Fetches
      <4>4. CASE EndsAll(b)
        BY <4>4 DEF EndsAll, NoMerge
      <4>5. QED
        BY <1>0, <1>3, <2>2, <4>1, <4>2, <4>3, <4>4, MergingShape
    <3>3. QED
      BY <1>0, <3>1, <3>2 DEF Others, InReceive
  <2>3. QED
    BY <1>0, <1>3, <2>1, <2>2, TurnsEffect DEF WritePolicy, MergePlaces
<1>4. CASE PullRequestsCrash
  BY <1>4 DEF PullRequestsCrash, NoMerge
<1>5. QED
  BY <1>1, <1>2, <1>3, <1>4, Quiet DEF PullRequestsNext

LEMMA RowKept ==
    ASSUME PullInv, [PullRequestsNext]_prVars
    PROVE  RowTellsBase'
<1> SUFFICES ASSUME NEW p \in PRs
             PROVE  /\ pr'[p].status = "merged" /\ ~forced' => pr'[p].merge > 0 /\ Of(p, pr'[p].merge) \subseteq base'
                    /\ pr'[p].status # "merged" /\ p \notin raced' =>
                           (\A n \in 1 .. MaxHead : <<p, n>> \notin base') \/ \E c \in At(p)' : mr'[c].at = "write"
  BY DEF RowTellsBase, Of, At
<1>0. /\ PullRequestsTypeOK /\ PlaceInv /\ PushedInv /\ p # Direct
      /\ pr[p].status = "merged" /\ ~forced => pr[p].merge > 0 /\ Of(p, pr[p].merge) \subseteq base
      /\ pr[p].status # "merged" /\ p \notin raced =>
             (\A n \in 1 .. MaxHead : <<p, n>> \notin base) \/ \E c \in At(p) : mr[c].at = "write"
  BY PullRequestsAssumption DEF PullInv, PullRequestsInv, RowTellsBase
<1>1. ASSUME pr'[p].status = "merged", ~forced'
      PROVE  pr'[p].merge > 0 /\ Of(p, pr'[p].merge) \subseteq base'
  <2>1. ~forced /\ base \subseteq base'
    BY <1>0, <1>1, BaseEffect
  <2>2. ASSUME NEW c \in At(p), mr[c].at = "write", pr'[p].merge = mr[c].head
        PROVE  pr'[p].merge > 0 /\ Of(p, pr'[p].merge) \subseteq base
    BY <1>0, <2>1, <2>2 DEF PlaceInv, PushedInv, AtPR, At
  <2>3. CASE pr'[p].status = pr[p].status /\ pr'[p].merge = pr[p].merge
    BY <1>0, <1>1, <2>1, <2>3
  <2>4. QED
    BY <1>0, <1>1, <2>1, <2>2, <2>3, RowEffect
<1>2. ASSUME pr'[p].status # "merged", p \notin raced', \A c \in At(p)' : mr'[c].at # "write", NEW n \in 1 .. MaxHead
      PROVE  <<p, n>> \notin base'
  <2>0. p \notin raced /\ \A c \in At(p) : pr[p].status = "open"
    BY <1>0, <1>2, HistoryGrows DEF PullInv, PullRequestsInv, AloneInv
  <2>1. p \notin raced /\ pr[p].status # "merged"
    BY <1>0, <1>2, <2>0, RowEffect
  <2>2. ASSUME NEW c \in At(p), mr[c].at = "write"
        PROVE  FALSE
    BY <1>0, <1>2, <2>2, WriteStays
  <2>3. <<p, n>> \notin base
    BY <1>0, <2>1, <2>2
  <2>4. ASSUME NEW c \in Clients, GoesFrom(c, "push", "write"), base' = base \cup Of(mr[c].pr, mr[c].head)
        PROVE  <<p, n>> \notin base'
    <3>1. mr[c].pr # p
      BY <1>2, <2>4 DEF GoesFrom, At
    <3>2. QED
      BY <2>3, <2>4, <3>1 DEF Of
  <2>5. QED
    BY <1>0, <2>3, <2>4, BaseEffect
<1>3. QED
  BY <1>1, <1>2

LEMMA CheckedKept ==
    ASSUME PullInv, [PullRequestsNext]_prVars
    PROVE  MergedIsChecked'
<1> SUFFICES ASSUME NEW p \in PRs, p \notin moved', NEW n \in 1 .. MaxHead, <<p, n>> \in base'
             PROVE  n <= passed'[p]
  BY DEF MergedIsChecked
<1>0. /\ PullRequestsTypeOK /\ PullRequestsTypeOK' /\ p # Direct /\ p \notin moved
      /\ passed[p] <= passed'[p] /\ (<<p, n>> \in base => n <= passed[p])
  BY NextTypes, HistoryGrows, PullRequestsAssumption DEF PullInv, PullRequestsInv, MergedIsChecked
<1>1. /\ n \in Nat /\ passed[p] \in Nat /\ passed'[p] \in Nat
      /\ \A c \in Clients : mr[c].head \in Nat
  BY <1>0, PullRequestsAssumption DEF PullRequestsTypeOK
<1>2. ASSUME NEW c \in Clients, GoesFrom(c, "push", "write"), <<p, n>> \in Of(mr[c].pr, mr[c].head)
      PROVE  n <= passed[p]
  <2>1. mr[c].pr = p /\ n <= mr[c].head
    BY <1>2 DEF Of
  <2>2. c \in At(p) /\ mr[c].at \in LetThrough
    BY <1>2, <2>1 DEF At, GoesFrom, LetThrough
  <2>3. mr[c].head <= passed[p]
    BY <1>0, <2>2 DEF PullInv, PullRequestsInv, HeadInv
  <2>4. QED
    BY <1>1, <2>1, <2>3
<1>3. n <= passed[p]
  BY <1>0, <1>2, BaseEffect
<1>4. QED
  BY <1>0, <1>1, <1>3

LEMMA InvKept ==
    ASSUME PullInv, [PullRequestsNext]_prVars
    PROVE  PullInv'
<1>1. PullRequestsTypeOK'
  BY NextTypes DEF PullInv, PullRequestsInv
<1>2. QED
  BY <1>1, PlaceKept, PushedKept, AloneKept, HeadKept, HookKept, RowKept, CheckedKept DEF PullInv, PullRequestsInv

LEMMA PullInvHolds == PullRequestsSpec => []PullInv
<1>1. PullRequestsInit => PullInv
  BY InitTypes, PullsInitInv DEF PullInv
<1>2. PullInv /\ [PullRequestsNext]_prVars => PullInv'
  BY InvKept
<1>3. QED
  BY <1>1, <1>2, PTL DEF PullRequestsSpec
-----------------------------------------------------------------------------
(* Theorems *)

\* Every row, request and branch is one the code knows, at every moment.
THEOREM PullRequestsTyped == PullRequestsSpec => []PullRequestsTypeOK
<1>1. PullInv => PullRequestsTypeOK
  BY DEF PullInv
<1>2. QED
  BY <1>1, PullInvHolds, PTL

\* Whatever merges, closes, reviews and pushes overlap: a row tells what is in the base
\* branch, and what is there of a head that stayed was let through by the protection.
THEOREM PullRequestsMergesAreSound == PullRequestsSpec => []MergesAreSound
<1>1. PullInv => MergesAreSound
  BY DEF PullInv, PullRequestsInv, MergesAreSound
<1>2. QED
  BY <1>1, PullInvHolds, PTL

\* No merge and no push drops a change from the base branch unless somebody forces it.
THEOREM PullRequestsNothingIsDropped == PullRequestsSpec => NothingIsDropped
<1>1. PullInv /\ [PullRequestsNext]_prVars => [base \subseteq base' \/ forced']_prVars
  BY BaseEffect DEF PullInv
<1>2. QED
  BY <1>1, PullInvHolds, PTL DEF PullRequestsSpec, NothingIsDropped

\* A push that read the rule, and had none beside it, does not get past the hook.
THEOREM PullRequestsBranchIsGuarded == PullRequestsSpec => BranchIsGuarded
<1> DEFINE Guarded == \A c \in Clients :
                          mr[c].at = "receive" /\ mr'[c].at = "idle" /\ mr[c].rule /\ mr[c].alone => base' = base
<1>1. PullInv /\ [PullRequestsNext]_prVars => [Guarded]_prVars
  <2> SUFFICES ASSUME PullInv, [PullRequestsNext]_prVars, NEW c \in Clients,
                      mr[c].at = "receive", mr'[c].at = "idle", mr[c].rule, mr[c].alone
               PROVE  base' = base
    OBVIOUS
  <2>0. PullRequestsTypeOK /\ policy
    BY DEF PullInv, PullRequestsInv, HookInv, InReceive
  <2>1. ASSUME NEW d \in Clients, Merging(d), d # c
        PROVE  FALSE
    BY <2>0, <2>1, OthersStay
  <2>2. CASE Merging(c)
    <3>1. Receive(c) \/ PushGoesAway(c)
      BY <2>2 DEF Merging, Merge, Close, Opens, AtHand, EnforceProtection, CloneBase, FetchHead, MergeFails,
                  PushMerge, WriteMerged, WriteClosed, BeginPush, WritePolicy
    <3>2. QED
      BY <2>0, <3>1 DEF Receive, PushGoesAway
  <2>3. CASE PullRequestsCrash
    BY <2>3 DEF PullRequestsCrash
  <2>4. QED
    BY <2>1, <2>2, <2>3, Quiet DEF PullRequestsNext
<1>2. QED
  BY <1>1, PullInvHolds, PTL DEF PullRequestsSpec, BranchIsGuarded
=============================================================================
