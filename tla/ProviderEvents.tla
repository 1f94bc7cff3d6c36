--------------------------- MODULE ProviderEvents ---------------------------
(***************************************************************************)
(* What of a webhook delivery reaches the executor of actions.  A delivery *)
(* is parsed into an event, the adapter copies parts of the event into the *)
(* AgentRun, and the reconciler rebuilds an event from the AgentRun: three *)
(* conversions, each of which drops something.                             *)
(*                                                                         *)
(* Models parse.go of the GitHub provider, buildEventInfo of the adapter   *)
(* and CreateProviderEvent of the reconciler, for the fields that decide   *)
(* what an action may do: where to comment, review, commit and report.     *)
(***************************************************************************)
EXTENDS Integers

CONSTANTS
    Branches,       \* names of branches
    NoBranch,       \* the empty name
    DefaultBranch,  \* the repository's default branch
    Numbers,        \* numbers of issues and pull requests; 0 stands for none
    PullHead        \* the head branch of each number that is a pull request

ASSUME EventsAssumption ==
    /\ NoBranch \notin Branches
    /\ DefaultBranch \in Branches
    /\ Numbers \subseteq Nat /\ 0 \notin Numbers
    /\ DOMAIN PullHead \subseteq Numbers
    /\ PullHead \in [DOMAIN PullHead -> Branches]

PullRequests == DOMAIN PullHead

PullTriggers == {"pull_request", "pull_request_labeled", "pull_request_review"}

\* A delivery: a push to a branch, a comment on an issue or on a pull request,
\* a labeled issue, or something that happened to a pull request.
Deliveries ==
    [trigger : {"push"}, number : {0}, branch : Branches]
    \cup [trigger : {"issue_comment"}, number : Numbers, branch : {NoBranch}]
    \cup [trigger : {"issues_labeled"}, number : Numbers \ PullRequests, branch : {NoBranch}]
    \cup [trigger : PullTriggers, number : PullRequests, branch : {NoBranch}]

Events == [issue : Numbers \cup {0}, pull : PullRequests \cup {0},
           head : Branches \cup {NoBranch}, default : {DefaultBranch, NoBranch},
           sha : BOOLEAN]

\* The parsers: comments on pull requests get no head branch and no commit.
ParsePayload(d) ==
    [issue   |-> IF d.trigger \in {"issue_comment", "issues_labeled"} THEN d.number ELSE 0,
     pull    |-> IF d.trigger # "issues_labeled" /\ d.number \in PullRequests THEN d.number ELSE 0,
     head    |-> IF d.trigger \in PullTriggers THEN PullHead[d.number] ELSE d.branch,
     default |-> DefaultBranch,
     sha     |-> d.trigger \in PullTriggers \cup {"push"}]

\* The AgentRun has a head branch for pull requests only, and no default branch.
BuildEventInfo(evt) ==
    [issue |-> evt.issue,
     pull  |-> evt.pull,
     head  |-> IF evt.pull > 0 THEN evt.head ELSE NoBranch,
     sha   |-> evt.sha]

CreateProviderEvent(info) ==
    [issue   |-> info.issue,
     pull    |-> info.pull,
     head    |-> info.head,
     default |-> NoBranch,
     sha     |-> info.sha]

\* The event that the executor gets for a delivery.
ExecutorEvent(d) == CreateProviderEvent(BuildEventInfo(ParsePayload(d)))

IssueNumber(evt) == IF evt.issue > 0 THEN evt.issue ELSE evt.pull

=============================================================================
