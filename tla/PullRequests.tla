---------------------------- MODULE PullRequests -----------------------------
(***************************************************************************)
(* The pull requests of one repository into its protected base branch, and *)
(* the pushes that go to the branch directly.  A merge works on a clone of *)
(* its own: what it checked, what it fetched and what it pushes onto are   *)
(* looked at one after the other, while others push, merge, close and      *)
(* change the protection.                                                  *)
(*                                                                         *)
(* A branch is the set of the changes it holds; change <<p, n>> is the     *)
(* n-th commit of the head branch of p, <<Direct, n>> came by a push.      *)
(***************************************************************************)
EXTENDS Requests

CONSTANTS
    PRs,           \* pull requests, each with a head branch of its own
    Direct,        \* the origin of changes pushed to the base branch
    MaxHead,       \* bound on the commits of a head branch
    MaxDirect,     \* bound on the pushes to the base branch
    MaxRules       \* bound on the changes of the protection rule

ASSUME PullRequestsAssumption ==
    /\ Direct \notin PRs /\ IsFiniteSet(PRs)
    /\ MaxHead \in Nat \ {0} /\ MaxDirect \in Nat /\ MaxRules \in Nat

VARIABLES
    pr,        \* pr[p]: the row of pull_requests
    head,      \* head[p]: how many commits the head branch has
    review,    \* review[p]: did the latest decisive review approve, whatever commit it was of?
    green,     \* green[p]: the commits that have status checks, all of which succeeded
    base,      \* the base branch
    directs,   \* how many pushes went to the base branch
    rule,      \* does the protection rule require reviews and checks?
    rules,     \* how often it was changed
    policy,    \* what the file says that the pre-receive hook reads
    mr,        \* mr[c]: what client c's request is doing
    passed,    \* history: passed[p]: the latest commit of p that was let through to a merge
    moved,     \* history: the heads that moved while they were merged, or that a request
               \* could not read and took from the row
    raced,     \* history: two requests were at one pull request, or one broke off
    forced     \* history: the base branch was force-pushed

prVars == <<pr, head, review, green, base, directs, rule, rules, policy, mr,
            passed, moved, raced, forced, crashes>>

Changes == (PRs \X (1 .. MaxHead)) \cup ({Direct} \X (1 .. MaxDirect))
Of(p, n) == {p} \X (1 .. n)
PRStatus == {"none", "open", "merged", "closed"}
\* merge: the head commit that was merged, 0 for NULL.
PR == [status : PRStatus, head : 0 .. MaxHead, merge : 0 .. MaxHead]
MergePlaces == {"idle", "protect", "clone", "fetch", "push", "write", "close", "policy", "receive"}
NoMerge == [at |-> "idle", pr |-> Direct, head |-> 0, base |-> {}, rule |-> FALSE, alone |-> TRUE]

PullRequestsInit ==
    /\ pr = [p \in PRs |-> [status |-> "none", head |-> 0, merge |-> 0]]
    /\ head = [p \in PRs |-> 1]
    /\ review = [p \in PRs |-> FALSE]
    /\ green = [p \in PRs |-> {}]
    /\ base = {} /\ directs = 0
    /\ rule \in BOOLEAN /\ rules = 0 /\ policy = FALSE
    /\ mr = [c \in Clients |-> NoMerge]
    /\ passed = [p \in PRs |-> 0]
    /\ moved = {} /\ raced = {} /\ forced = FALSE
    /\ RequestsInit

AtHand(c) == mr[c].at = "idle"
Turn(c, at) == mr' = [mr EXCEPT ![c].at = at]
Done(c) == mr' = [mr EXCEPT ![c] = NoMerge]
At(p) == {c \in Clients : mr[c].pr = p}
-----------------------------------------------------------------------------
\* Create: the row is inserted with the head as it is.  (Of two creations that
\* got one number, the UNIQUE constraint fails the second.)
OpenPR(p) ==
    /\ pr[p].status = "none"
    /\ pr' = [pr EXCEPT ![p].status = "open", ![p].head = head[p]]
    /\ UNCHANGED <<head, review, green, base, directs, rule, rules, policy, mr, passed, moved, raced, forced, crashes>>

\* A push to a head branch, which nothing protects.
PushHead(p) ==
    /\ head[p] < MaxHead /\ pr[p].status = "open"
    /\ head' = [head EXCEPT ![p] = @ + 1]
    /\ moved' = IF At(p) # {} THEN moved \cup {p} ELSE moved
    /\ UNCHANGED <<pr, review, green, base, directs, rule, rules, policy, mr, passed, raced, forced, crashes>>

\* Get refreshes the row's head from git; when the lookup or rev-parse fails it goes on
\* with the head of the row.
SeenHeads(p) == {head[p], pr[p].head}

\* The error of the statement that stores it is ignored.
Refreshes(p, h) == pr' \in {pr, [pr EXCEPT ![p].head = h]}

\* AddReview: of the head that Get returns.
AddReview(p) ==
    /\ pr[p].status = "open"
    /\ \E approves \in BOOLEAN : review' = [review EXCEPT ![p] = approves]
    /\ \E h \in SeenHeads(p) : Refreshes(p, h)
    /\ UNCHANGED <<head, green, base, directs, rule, rules, policy, mr, passed, moved, raced, forced, crashes>>

\* The last check of a commit succeeds, or another one begins or fails.
RunCheck(p, n) ==
    /\ pr[p].status = "open" /\ n <= head[p]
    /\ green' = [green EXCEPT ![p] = IF n \in @ THEN @ \ {n} ELSE @ \cup {n}]
    /\ UNCHANGED <<pr, head, review, base, directs, rule, rules, policy, mr, passed, moved, raced, forced, crashes>>

ChangeRule ==
    /\ rules < MaxRules
    /\ rule' = ~rule /\ rules' = rules + 1
    /\ UNCHANGED <<pr, head, review, green, base, directs, policy, mr, passed, moved, raced, forced, crashes>>
-----------------------------------------------------------------------------
\* Merge and Close begin with Get; the pull request must be open.
Opens(c, p, at) ==
    /\ AtHand(c) /\ pr[p].status = "open"
    /\ \E h \in SeenHeads(p) :
           /\ Refreshes(p, h)
           /\ mr' = [mr EXCEPT ![c] = [NoMerge EXCEPT !.at = at, !.pr = p, !.head = h]]
           /\ moved' = IF h # head[p] THEN moved \cup {p} ELSE moved
    /\ raced' = IF At(p) # {} THEN raced \cup {p} ELSE raced
    /\ UNCHANGED <<head, review, green, base, directs, rule, rules, policy, passed, forced, crashes>>

Merge(c, p) == Opens(c, p, "protect")
Close(c, p) == Opens(c, p, "close")

\* enforceProtection: the latest review, of whatever commit, and the checks of the
\* head that was read.
Protects(c) ==
    rule => /\ review[mr[c].pr]
            /\ mr[c].head \in green[mr[c].pr]

EnforceProtection(c) ==
    /\ mr[c].at = "protect"
    /\ IF Protects(c)
       THEN Turn(c, "clone") /\ passed' = [passed EXCEPT ![mr[c].pr] = IF @ < mr[c].head THEN mr[c].head ELSE @]
       ELSE Done(c) /\ passed' = passed
    /\ UNCHANGED <<pr, head, review, green, base, directs, rule, rules, policy, moved, raced, forced, crashes>>

CloneBase(c) ==
    /\ mr[c].at = "clone"
    /\ mr' = [mr EXCEPT ![c].at = "fetch", ![c].base = base]
    /\ UNCHANGED <<pr, head, review, green, base, directs, rule, rules, policy, passed, moved, raced, forced, crashes>>

\* fetch and applyMergeStrategy: the head as it is now, on top of the clone.
FetchHead(c) ==
    /\ mr[c].at = "fetch"
    /\ mr' = [mr EXCEPT ![c].at = "push", ![c].head = head[mr[c].pr]]
    /\ UNCHANGED <<pr, head, review, green, base, directs, rule, rules, policy, passed, moved, raced, forced, crashes>>

\* A statement or git fails, there is a conflict or (of a squash) nothing to commit.
MergeFails(c) ==
    /\ mr[c].at \in {"protect", "clone", "fetch", "push", "close"}
    /\ Done(c)
    /\ UNCHANGED <<pr, head, review, green, base, directs, rule, rules, policy, passed, moved, raced, forced, crashes>>

\* Slip: push --force.
FastForwardAny(c) == TRUE

\* git refuses a push onto a branch that is not the one it was made from.
FastForward(c) == base = mr[c].base

\* Slip: the error of the push is not looked at.
PushMergeUnheeded(c) ==
    /\ mr[c].at = "push"
    /\ base' = IF FastForward(c) THEN mr[c].base \cup Of(mr[c].pr, mr[c].head) ELSE base
    /\ mr' = [mr EXCEPT ![c].at = "write", ![c].base = {}]
    /\ UNCHANGED <<pr, head, review, green, directs, rule, rules, policy, passed, moved, raced, forced, crashes>>

PushMerge(c) ==
    /\ mr[c].at = "push"
    /\ IF FastForward(c)
       THEN /\ base' = mr[c].base \cup Of(mr[c].pr, mr[c].head)
            /\ mr' = [mr EXCEPT ![c].at = "write", ![c].base = {}]
       ELSE base' = base /\ Done(c)
    /\ UNCHANGED <<pr, head, review, green, directs, rule, rules, policy, passed, moved, raced, forced, crashes>>

\* UpdateStatus writes over whatever is there, or fails.
WriteMerged(c) ==
    /\ mr[c].at = "write"
    /\ LET p == mr[c].pr
       IN  \/ pr' = [pr EXCEPT ![p].status = "merged", ![p].merge = mr[c].head] /\ raced' = raced
           \/ pr' = pr /\ raced' = raced \cup {p}
    /\ Done(c)
    /\ UNCHANGED <<head, review, green, base, directs, rule, rules, policy, passed, moved, forced, crashes>>

\* Slip: the status is the name of the request.
WriteClosedAs(c) ==
    /\ mr[c].at = "close"
    /\ pr' = [pr EXCEPT ![mr[c].pr].status = "close", ![mr[c].pr].merge = 0]
    /\ Done(c)
    /\ UNCHANGED <<head, review, green, base, directs, rule, rules, policy, passed, moved, raced, forced, crashes>>

WriteClosed(c) ==
    /\ mr[c].at = "close"
    /\ pr' = [pr EXCEPT ![mr[c].pr].status = "closed", ![mr[c].pr].merge = 0]
    /\ Done(c)
    /\ UNCHANGED <<head, review, green, base, directs, rule, rules, policy, passed, moved, raced, forced, crashes>>
-----------------------------------------------------------------------------
InReceive(c) == mr[c].at \in {"policy", "receive"}

\* InfoRefs and ReceivePack: the rules are listed ...
BeginPush(c) ==
    /\ AtHand(c) /\ directs < MaxDirect
    /\ LET others == {d \in Clients : InReceive(d)}
       IN  mr' = [d \in Clients |->
                     IF d = c THEN [NoMerge EXCEPT !.at = "policy", !.rule = rule, !.alone = others = {}]
                     ELSE IF d \in others THEN [mr[d] EXCEPT !.alone = FALSE] ELSE mr[d]]
    /\ UNCHANGED <<pr, head, review, green, base, directs, rule, rules, policy, passed, moved, raced, forced, crashes>>

\* Slip: a file that is there is left as it is.
WritePolicyOnce(c) ==
    /\ mr[c].at = "policy"
    /\ policy' = IF policy THEN policy ELSE rules = 0 /\ mr[c].rule
    /\ Turn(c, "receive")
    /\ UNCHANGED <<pr, head, review, green, base, directs, rule, rules, passed, moved, raced, forced, crashes>>

\* ... and the hook's file is written ...
WritePolicy(c) ==
    /\ mr[c].at = "policy"
    /\ policy' = mr[c].rule
    /\ Turn(c, "receive")
    /\ UNCHANGED <<pr, head, review, green, base, directs, rule, rules, passed, moved, raced, forced, crashes>>

\* ... before git receive-pack runs the hook, which reads it.
Receive(c) ==
    /\ mr[c].at = "receive"
    /\ \/ policy /\ UNCHANGED <<base, directs, forced>>
       \/ /\ ~policy /\ directs < MaxDirect
          /\ directs' = directs + 1
          /\ \/ base' = base \cup {<<Direct, directs + 1>>} /\ forced' = forced
             \/ base' = {<<Direct, directs + 1>>} /\ forced' = TRUE
    /\ Done(c)
    /\ UNCHANGED <<pr, head, review, green, rule, rules, policy, passed, moved, raced, crashes>>

\* The client of InfoRefs does not go on.
PushGoesAway(c) ==
    /\ InReceive(c)
    /\ Done(c)
    /\ UNCHANGED <<pr, head, review, green, base, directs, rule, rules, policy, passed, moved, raced, forced, crashes>>

PullRequestsCrash ==
    /\ EngineDies
    /\ raced' = raced \cup {mr[c].pr : c \in {d \in Clients : mr[d].at = "write"}}
    /\ mr' = [c \in Clients |-> NoMerge]
    /\ UNCHANGED <<pr, head, review, green, base, directs, rule, rules, policy, passed, moved, forced>>

Reviewing(p) == OpenPR(p) \/ PushHead(p) \/ AddReview(p) \/ (\E n \in 1 .. MaxHead : RunCheck(p, n))

Merging(c) ==
    \/ \E p \in PRs : Merge(c, p) \/ Close(c, p)
    \/ EnforceProtection(c) \/ CloneBase(c) \/ FetchHead(c) \/ MergeFails(c) \/ PushMerge(c)
    \/ WriteMerged(c) \/ WriteClosed(c)
    \/ BeginPush(c) \/ WritePolicy(c) \/ Receive(c) \/ PushGoesAway(c)

PullRequestsNext ==
    (\E p \in PRs : Reviewing(p)) \/ (\E c \in Clients : Merging(c)) \/ ChangeRule \/ PullRequestsCrash

PullRequestsSpec == PullRequestsInit /\ [][PullRequestsNext]_prVars
-----------------------------------------------------------------------------
PullRequestsTypeOK ==
    /\ pr \in [PRs -> PR] /\ head \in [PRs -> 1 .. MaxHead]
    /\ review \in [PRs -> BOOLEAN]
    /\ green \in [PRs -> SUBSET (1 .. MaxHead)]
    /\ base \in SUBSET Changes /\ directs \in 0 .. MaxDirect
    /\ rule \in BOOLEAN /\ rules \in 0 .. MaxRules /\ policy \in BOOLEAN
    /\ mr \in [Clients -> [at : MergePlaces, pr : PRs \cup {Direct}, head : 0 .. MaxHead,
                           base : SUBSET Changes, rule : BOOLEAN, alone : BOOLEAN]]
    /\ passed \in [PRs -> 0 .. MaxHead]
    /\ moved \in SUBSET PRs /\ raced \in SUBSET PRs /\ forced \in BOOLEAN

\* However merges and pushes overlap, none of them drops what another one brought
\* into the base branch; only somebody's force push does.
NothingIsDropped == [][base \subseteq base' \/ forced']_prVars

\* A pull request is merged when and only when its row says so: the commit that was
\* merged is in the base branch, and nothing of one that is open or closed is,
\* unless a Close overlapped the merge, the row could not be written or the engine
\* died between push and row.
RowTellsBase ==
    \A p \in PRs :
        /\ pr[p].status = "merged" /\ ~forced => pr[p].merge > 0 /\ Of(p, pr[p].merge) \subseteq base
        /\ pr[p].status # "merged" /\ p \notin raced =>
               (\A n \in 1 .. MaxHead : <<p, n>> \notin base) \/ \E c \in At(p) : mr[c].at = "write"

\* What a merge brings in is what was let through: the protection was enforced on
\* that commit or a later one, unless the head moved while it was merged, or Get could
\* not read it.
MergedIsChecked ==
    \A p \in PRs \ moved, n \in 1 .. MaxHead :
        <<p, n>> \in base => n <= passed[p]

\* What the table, the reviews and the branch tell of a merge agrees.
MergesAreSound == RowTellsBase /\ MergedIsChecked

\* A push that began when the branch was protected does not change it, unless
\* another push, begun before the rule was made, writes the hook's file last.
BranchIsGuarded ==
    [][\A c \in Clients : mr[c].at = "receive" /\ mr'[c].at = "idle" /\ mr[c].rule /\ mr[c].alone
                              => base' = base]_prVars
=============================================================================
