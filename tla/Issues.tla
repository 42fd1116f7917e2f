-------------------------------- MODULE Issues --------------------------------
(***************************************************************************)
(* The issues of one repository and their labels.  A request reads, writes *)
(* the row and then, in a transaction of its own, the labels; only the     *)
(* tables' constraints stand between two requests at once.                 *)
(***************************************************************************)
EXTENDS Requests

CONSTANTS
    Labels,        \* ids of labels
    MaxIssues,     \* bound on the numbers
    MaxPosts       \* bound on the requests

ASSUME IssuesAssumption == IsFiniteSet(Labels) /\ {MaxIssues, MaxPosts} \subseteq Nat

VARIABLES
    label,         \* label[l]: is it there?
    issue,         \* issue[n]: the row with number n
    tagged,        \* table issue_labels: rows <<n, label, request that inserted it>>
    post,          \* post[c]: the request of client c
    posts,         \* how many requests there were
    meant,         \* history: meant[n]: the labels the last request set, that exist
    named,         \* history: named[n]: the title the last request gave
    shared          \* history: issues that two requests were at

issueVars == <<label, issue, tagged, post, posts, meant, named, shared, crashes>>

Numbers == 1 .. MaxIssues
NoIssue == [is |-> FALSE, title |-> 0, open |-> FALSE]
Filed == {n \in Numbers : issue[n].is}
There == {l \in Labels : label[l] = "there"}
NoPost == [at |-> "idle", n |-> 0, title |-> 0, sets |-> FALSE, labels |-> {}, sees |-> {}, k |-> 0]
PostPlaces == {"idle", "number", "insert", "row", "labels", "commit"}

IssuesInit ==
    /\ label \in [Labels -> {"new", "there"}]
    /\ issue = [n \in Numbers |-> NoIssue]
    /\ tagged = {} /\ post = [c \in Clients |-> NoPost] /\ posts = 0
    /\ meant = [n \in Numbers |-> {}] /\ named = [n \in Numbers |-> 0] /\ shared = {}
    /\ RequestsInit

Posts(c, p) ==
    /\ post[c] = NoPost /\ posts < MaxPosts /\ posts' = posts + 1
    /\ post' = [post EXCEPT ![c] = [p EXCEPT !.k = posts + 1]]
    /\ shared' = IF p.n \in {post[d].n : d \in Clients} \ {0} THEN shared \cup {p.n} ELSE shared
    /\ UNCHANGED <<label, issue, tagged, meant, named, crashes>>
GoesTo(c, at) == post' = [post EXCEPT ![c].at = at]
Ends(c) == post' = [post EXCEPT ![c] = NoPost]
\* Where a request goes when the row is written.
Then(c) == IF post[c].sets THEN GoesTo(c, "labels") ELSE Ends(c)
IssuesAlone == UNCHANGED <<posts, crashes>>
-----------------------------------------------------------------------------
\* Create: a title, and labels if there are any.
CreateIssue(c, ls) ==
    Posts(c, [NoPost EXCEPT !.at = "number", !.title = posts + 1, !.sets = ls # {}, !.labels = ls])

\* NextNumber
NextNumber(c) ==
    /\ post[c].at = "number"
    /\ LET n == 1 + Cardinality(Filed) IN
       IF n \in Numbers THEN post' = [post EXCEPT ![c].at = "insert", ![c].n = n] ELSE Ends(c)
    /\ IssuesAlone /\ UNCHANGED <<label, issue, tagged, meant, named, shared>>

\* Of two requests that were given one number, the second fails on it.
InsertIssue(c) ==
    /\ post[c].at = "insert"
    /\ LET n == post[c].n IN
       IF issue[n].is THEN Ends(c) /\ UNCHANGED <<issue, named>>
       ELSE /\ issue' = [issue EXCEPT ![n] = [is |-> TRUE, title |-> post[c].title, open |-> TRUE]]
            /\ named' = [named EXCEPT ![n] = post[c].title]
            /\ Then(c)
    /\ IssuesAlone /\ UNCHANGED <<label, tagged, meant, shared>>

\* Update reads the row: a request without a title keeps the one it reads.
UpdateIssue(c, n, renames, sets, ls) ==
    /\ n \in Filed
    /\ Posts(c, [NoPost EXCEPT !.at = "row", !.n = n, !.sets = sets, !.labels = ls,
                               !.title = IF renames THEN posts + 1 ELSE issue[n].title])

WriteRow(c) ==
    /\ post[c].at = "row"
    /\ LET n == post[c].n IN
       /\ issue' = [issue EXCEPT ![n].title = post[c].title]
       /\ named' = [named EXCEPT ![n] = IF post[c].title = post[c].k THEN post[c].k ELSE @]
    /\ Then(c)
    /\ IssuesAlone /\ UNCHANGED <<label, tagged, meant, shared>>

\* SetStatus: by its number; one statement.
SetStatus(n, open) ==
    /\ n \in Filed /\ posts < MaxPosts /\ posts' = posts + 1
    /\ issue' = [issue EXCEPT ![n].open = open]
    /\ UNCHANGED <<label, tagged, post, meant, named, shared, crashes>>
-----------------------------------------------------------------------------
\* SetIssueLabels: DELETE removes the rows it sees when it begins, ...
ClearLabels(c) ==
    /\ post[c].at = "labels"
    /\ post' = [post EXCEPT ![c].at = "commit", ![c].sees = {t \in tagged : t[1] = post[c].n}]
    /\ IssuesAlone /\ UNCHANGED <<label, issue, tagged, meant, named, shared>>

\* Slip: labels are only added.
LeftAlone(c) == tagged
Remaining(c) == tagged \ post[c].sees

\* ... waiting for who is deleting them; then the labels are inserted that are not
\* there.  One that does not exist fails the transaction.
SetIssueLabels(c) ==
    /\ post[c].at = "commit" /\ Ends(c)
    /\ LET n == post[c].n
           new == {l \in post[c].labels : \A t \in Remaining(c) : <<t[1], t[2]>> # <<n, l>>}
       IN \/ /\ post[c].labels \subseteq There
             /\ tagged' = Remaining(c) \cup {<<n, l, post[c].k>> : l \in new}
             /\ meant' = [meant EXCEPT ![n] = post[c].labels]
          \/ UNCHANGED <<tagged, meant>>
    /\ IssuesAlone /\ UNCHANGED <<label, issue, named, shared>>

\* The rows of issue_labels go with it.
DeleteLabel(l) ==
    /\ label[l] = "there" /\ label' = [label EXCEPT ![l] = "gone"]
    /\ tagged' = {t \in tagged : t[2] # l}
    /\ meant' = [n \in Numbers |-> meant[n] \ {l}]
    /\ UNCHANGED <<issue, post, posts, named, shared, crashes>>

CreateLabel(l) ==
    /\ label[l] = "new" /\ label' = [label EXCEPT ![l] = "there"]
    /\ posts < MaxPosts /\ posts' = posts + 1
    /\ UNCHANGED <<issue, tagged, post, meant, named, shared, crashes>>

IssuesCrash ==
    /\ EngineDies /\ post' = [c \in Clients |-> NoPost]
    /\ UNCHANGED <<label, issue, tagged, posts, meant, named, shared>>

\* A client leaves, or a statement fails.
BreaksOff(c) ==
    /\ post[c] # NoPost /\ Ends(c)
    /\ IssuesAlone /\ UNCHANGED <<label, issue, tagged, meant, named, shared>>

IssuesNext ==
    \/ \E c \in Clients :
         \/ \E ls \in SUBSET Labels :
              \/ CreateIssue(c, ls)
              \/ \E n \in Numbers, renames \in BOOLEAN :
                   \/ UpdateIssue(c, n, renames, TRUE, ls)
                   \/ ls = {} /\ UpdateIssue(c, n, renames, FALSE, ls)
         \/ NextNumber(c) \/ InsertIssue(c) \/ WriteRow(c)
         \/ ClearLabels(c) \/ SetIssueLabels(c) \/ BreaksOff(c)
    \/ \E n \in Numbers, open \in BOOLEAN : SetStatus(n, open)
    \/ \E l \in Labels : DeleteLabel(l) \/ CreateLabel(l)
    \/ IssuesCrash

IssuesSpec == IssuesInit /\ [][IssuesNext]_issueVars
-----------------------------------------------------------------------------
IssuesTypeOK ==
    /\ label \in [Labels -> {"new", "there", "gone"}]
    /\ \A t \in tagged : t[1] \in Filed /\ t[2] \in There
    /\ \A t, u \in tagged : t[1] = u[1] /\ t[2] = u[2] => t = u
    /\ \A c \in Clients : post[c].at \in PostPlaces

\* Two requests that are given one number do not share it, and leave no gap.  Unless
\* two requests were at an issue at once, it has the labels that the last one set, less
\* those that were deleted, and the title that the last one with a title gave it: a
\* request for the one does not disturb the other, wherever it breaks off.
IssuesAreSound ==
    /\ \A n \in Filed : n > 1 => n - 1 \in Filed
    /\ \A n \in Filed \ shared :
         /\ {t[2] : t \in {u \in tagged : u[1] = n}} = meant[n]
         /\ issue[n].title = named[n]
=============================================================================
