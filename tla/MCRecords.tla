------------------------------ MODULE MCRecords ------------------------------
(***************************************************************************)
(* Components that keep records in tables and share nothing else but the   *)
(* engine they run in.  A behaviour exercises one of them, the focus,      *)
(* chosen at the start: their steps commute, so an interleaving of two     *)
(* would show nothing new.  Monitoring is two: the alert and the cleanup   *)
(* workers share the table of samples, which both foci change.             *)
(***************************************************************************)
EXTENDS PullRequests, Repositories, Issues, Analytics, Monitoring, Accounts, TLC

VARIABLE focus

records == <<prVars, repoVars, issueVars, analyticsVars, monVars, accountVars, focus>>
Symmetry == Permutations(Clients)

\* A repository has no protection rule at first.  What is nondeterministic is so where
\* it matters only.
Init == /\ focus \in {"pulls", "repositories", "issues", "views", "alerts", "cleanup", "accounts"}
        /\ PullRequestsInit /\ ~rule /\ RepositoriesInit
        /\ IssuesInit /\ Cardinality(There) = 1 /\ (focus # "issues" => There = {CHOOSE l \in Labels : TRUE})
        /\ AnalyticsInit /\ now = IF focus = "views" THEN 1 ELSE 0
        /\ MonitoringInit /\ AccountsInit

PullsStill == UNCHANGED <<pr, head, review, green, base, directs, rule, rules, policy, mr,
                          passed, moved, raced, forced>>
RepositoriesStill == UNCHANGED <<repository, storage, rq, calls, doomed, litter, brought>>
IssuesStill == UNCHANGED <<label, issue, tagged, post, posts, meant, named, shared>>
ViewsStill == UNCHANGED analyticsVars
MonitoringStill == UNCHANGED <<clock, watched, alert, sample, batch, pass, edit, knob, form, sweep,
                               lastRun, edits, told, pruned>>
AccountsStill == UNCHANGED <<plan, account, app, ask, asks, paused, granted, appointed, allowed,
                             crowded, muddled>>

Next ==
    /\ focus' = focus
    /\ \/ focus = "pulls" /\ PullRequestsNext /\ RepositoriesStill /\ IssuesStill
          /\ ViewsStill /\ MonitoringStill /\ AccountsStill
       \/ focus = "repositories" /\ RepositoriesNext /\ PullsStill /\ IssuesStill
          /\ ViewsStill /\ MonitoringStill /\ AccountsStill
       \/ focus = "issues" /\ IssuesNext /\ PullsStill /\ RepositoriesStill
          /\ ViewsStill /\ MonitoringStill /\ AccountsStill
       \/ focus = "views" /\ AnalyticsNext /\ PullsStill /\ RepositoriesStill /\ IssuesStill
          /\ MonitoringStill /\ AccountsStill /\ crashes' = crashes
       \/ focus = "alerts" /\ MonitoringNext /\ PullsStill /\ RepositoriesStill /\ IssuesStill
          /\ ViewsStill /\ AccountsStill /\ UNCHANGED <<form, knob, lastRun>>
       \/ focus = "cleanup" /\ MonitoringNext /\ PullsStill /\ RepositoriesStill /\ IssuesStill
          /\ ViewsStill /\ AccountsStill /\ UNCHANGED <<watched, alert, pass, batch>>
       \/ focus = "accounts" /\ AccountsNext /\ PullsStill /\ RepositoriesStill /\ IssuesStill
          /\ ViewsStill /\ MonitoringStill

\* The components that are not exercised stay as they were.
View == <<focus, CASE focus = "pulls" -> prVars
                   [] focus = "repositories" -> repoVars
                   [] focus = "issues" -> issueVars
                   [] focus = "views" -> analyticsVars
                   [] focus = "accounts" -> accountVars
                   [] OTHER -> monVars>>

Spec == Init /\ [][Next]_records

RecordsTypeOK ==
    /\ focus = "pulls" => PullRequestsTypeOK
    /\ focus = "repositories" => RepositoriesTypeOK
    /\ focus = "issues" => IssuesTypeOK
    /\ focus = "views" => AnalyticsTypeOK
    /\ focus \in {"alerts", "cleanup"} => MonitoringTypeOK
    /\ focus = "accounts" => AccountsTypeOK

\* What is added up is right.  Views are counted once, and none disappears before its time
\* from an hour and a day that no threshold fell into; the limits of apps fit the host.
SumsAreRight ==
    /\ focus = "views" => NoViewTwice /\ WholeHoursKept
    /\ focus = "accounts" => LimitsFit
=============================================================================
