--------------------------- MODULE ActionExecutor ---------------------------
(***************************************************************************)
(* How the actions of agents change the repository: each AgentRun executes *)
(* its list of actions through the GitHub provider, action by action, and  *)
(* a commit takes several API calls, while other runs do the same and      *)
(* people push to, merge and delete branches.  An execution may be         *)
(* repeated, from the first action on, after a crash or a lost update.     *)
(*                                                                         *)
(* Models pkg/result/executor.go and the writing half of                   *)
(* pkg/provider/github/github.go.  GitHub itself is external: a branch is  *)
(* the sequence of its commits, and an update without force is accepted if *)
(* it is a fast-forward.                                                   *)
(***************************************************************************)
EXTENDS ProviderEvents, Sequences

CONSTANTS
    Runs,           \* the AgentRuns of one repository
    People,         \* who pushes to branches besides the agents
    Delivered,      \* the deliveries that start runs
    Plans,          \* the lists of actions an agent may ask for
    IssueBranch,    \* the branch aac/issue-N of each number N, and of 0
    MaxPushes, MaxDeletes, MaxRepeats

ActionTypes == {"comment", "review", "label", "status", "create-pr", "commit"}

\* An action: head and base are those of a create-pr.
Action == [type : ActionTypes, head : Branches \cup {NoBranch}, base : Branches \cup {NoBranch}]

ASSUME ExecutorAssumption ==
    /\ Delivered \subseteq Deliveries
    /\ Plans \subseteq Seq(Action)
    /\ IssueBranch \in [Numbers \cup {0} -> Branches]
    /\ Runs \cap People = {}
    /\ MaxPushes \in Nat /\ MaxDeletes \in Nat /\ MaxRepeats \in Nat

VARIABLES
    branches,   \* the commits of each branch that exists, oldest first
    pulls,      \* the pull requests that were opened
    job,        \* the delivery and the plan of each run
    exec,       \* where each run's execution stands
    pushed, deleted, repeated   \* how often these have happened

vars == <<branches, pulls, job, exec, pushed, deleted, repeated>>

-----------------------------------------------------------------------------
\* State

\* A commit: by whom, and for a run which action of which attempt.
Commit == [by : Runs \cup People, step : Nat, attempt : Nat]

History == Seq(Commit)

\* A branch that does not exist is not in the domain of branches.
Exists(b) == b \in DOMAIN branches

Points == {"next", "default", "create-ref", "ref", "update-ref", "done"}

\* An execution: the event is shared by its actions; base is the history that
\* the commit in progress has read; commits are the commits it has audited and
\* audit the types of the actions it has audited.
Execution == [pc : Points, evt : Events, step : Nat \ {0}, attempt : Nat, base : History,
              commits : SUBSET Commit, audit : Seq(ActionTypes), failed : BOOLEAN]

Start(r, attempt) ==
    [pc |-> "next", evt |-> ExecutorEvent(job[r].delivery), step |-> 1, attempt |-> attempt,
     base |-> <<>>, commits |-> {}, audit |-> <<>>, failed |-> FALSE]

Init ==
    /\ \E p \in People :
         branches = [b \in {DefaultBranch} \cup {PullHead[n] : n \in PullRequests} |->
                       <<[by |-> p, step |-> 0, attempt |-> 0]>>]
    /\ pulls = {}
    /\ job \in [Runs -> [delivery : Delivered, plan : Plans]]
    /\ exec = [r \in Runs |-> Start(r, 1)]
    /\ pushed = 0 /\ deleted = 0 /\ repeated = 0

PullRequest == [head : Branches, base : Branches, commits : SUBSET Commit]

TypeOK ==
    /\ DOMAIN branches \subseteq Branches
    /\ branches \in [DOMAIN branches -> History]
    /\ pulls \subseteq PullRequest
    /\ job \in [Runs -> [delivery : Delivered, plan : Plans]]
    /\ exec \in [Runs -> Execution]
    /\ \A r \in Runs : exec[r].pc \notin {"next", "done"} => exec[r].step \in 1..Len(job[r].plan)
    /\ pushed \in Nat /\ deleted \in Nat /\ repeated \in Nat

-----------------------------------------------------------------------------
\* Helpers

IsPrefix(s, t) == Len(s) <= Len(t) /\ \A i \in 1..Len(s) : s[i] = t[i]

\* Give branch b this history, whether or not it existed.
SetBranch(b, history) ==
    branches' = [x \in DOMAIN branches \cup {b} |-> IF x = b THEN history ELSE branches[x]]

Current(r) == job[r].plan[exec[r].step]

\* r is at an action of this type.
At(r, pc, types) ==
    /\ exec[r].pc = pc
    /\ exec[r].step <= Len(job[r].plan)
    /\ Current(r).type \in types

NewCommit(r) == [by |-> r, step |-> exec[r].step, attempt |-> exec[r].attempt]

\* The action succeeded and is audited; the next one is due.
Audit(r, commits) ==
    exec' = [exec EXCEPT ![r].pc = "next", ![r].step = @ + 1, ![r].base = <<>>,
                         ![r].commits = @ \cup commits,
                         ![r].audit = Append(@, Current(r).type)]

\* Mutant: the error is not collected.
ErrForgotten(r) ==
    exec' = [exec EXCEPT ![r].pc = "next", ![r].step = @ + 1, ![r].base = <<>>]

\* Mutant: the next action goes on where the failed one stood.
ErrKeepsPoint(r) ==
    exec' = [exec EXCEPT ![r].step = @ + 1, ![r].base = <<>>, ![r].failed = TRUE]

\* The action failed; the next one is due all the same.
Err(r) ==
    exec' = [exec EXCEPT ![r].pc = "next", ![r].step = @ + 1, ![r].base = <<>>,
                         ![r].failed = TRUE]

-----------------------------------------------------------------------------
\* The executor

\* What comments, labels, reviews and statuses need of the event.
Addressable(type, evt) ==
    CASE type \in {"comment", "label"} -> IssueNumber(evt) # 0
      [] type = "review" -> evt.pull # 0
      [] type = "status" -> evt.sha

\* Actions of one API call, none of which concerns branches.
SimpleAction(r) ==
    /\ At(r, "next", {"comment", "label", "review", "status"})
    /\ Addressable(Current(r).type, exec[r].evt)
    /\ Audit(r, {})
    /\ UNCHANGED <<branches, pulls, job, pushed, deleted, repeated>>

\* Any API call of any action may fail.
ActionError(r) ==
    /\ exec[r].pc # "done" /\ exec[r].step <= Len(job[r].plan)
    /\ Err(r)
    /\ UNCHANGED <<branches, pulls, job, pushed, deleted, repeated>>

\* Mutant: the head that the agent asked for goes before that of the event.
ExecuteCreatePROwnHead(r) ==
    LET head == Current(r).head
        base == IF Current(r).base # NoBranch THEN Current(r).base ELSE exec[r].evt.default
    IN  /\ At(r, "next", {"create-pr"})
        /\ Exists(head) /\ Exists(base) /\ head # base
        /\ pulls' = pulls \cup {[head |-> head, base |-> base, commits |-> exec[r].commits]}
        /\ Audit(r, {})
        /\ UNCHANGED <<branches, job, pushed, deleted, repeated>>

\* A pull request, from the head branch of the event if it has one by now.
ExecuteCreatePR(r) ==
    LET head == IF exec[r].evt.head # NoBranch THEN exec[r].evt.head ELSE Current(r).head
        base == IF Current(r).base # NoBranch THEN Current(r).base ELSE exec[r].evt.default
    IN  /\ At(r, "next", {"create-pr"})
        /\ Exists(head) /\ Exists(base) /\ head # base
        /\ pulls' = pulls \cup {[head |-> head, base |-> base, commits |-> exec[r].commits]}
        /\ Audit(r, {})
        /\ UNCHANGED <<branches, job, pushed, deleted, repeated>>

\* A commit goes to the head branch of the event, or to the issue's own branch.
BeginCommit(r) ==
    /\ At(r, "next", {"commit"})
    /\ exec' = [exec EXCEPT ![r].pc = IF exec[r].evt.head # NoBranch THEN "ref" ELSE "default"]
    /\ UNCHANGED <<branches, pulls, job, pushed, deleted, repeated>>

\* createIssueBranch reads the default branch.
ReadDefault(r) ==
    /\ exec[r].pc = "default"
    /\ Exists(DefaultBranch)
    /\ exec' = [exec EXCEPT ![r].pc = "create-ref", ![r].base = branches[DefaultBranch]]
    /\ UNCHANGED <<branches, pulls, job, pushed, deleted, repeated>>

\* createIssueBranch creates the branch; one that exists is used as it is.  The
\* event remembers it for the actions that follow, unless its answer is lost.
CreateIssueBranch(r) ==
    LET b == IssueBranch[exec[r].evt.issue]
    IN  /\ exec[r].pc = "create-ref"
        /\ IF Exists(b) THEN UNCHANGED branches ELSE SetBranch(b, exec[r].base)
        /\ \/ exec' = [exec EXCEPT ![r].pc = "ref", ![r].base = <<>>,
                                   ![r].evt.head = b, ![r].evt.default = DefaultBranch]
           \/ Err(r)
        /\ UNCHANGED <<pulls, job, pushed, deleted, repeated>>

\* CreateCommit reads the branch; commit and tree are built on what it read.
ReadRef(r) ==
    /\ exec[r].pc = "ref"
    /\ Exists(exec[r].evt.head)
    /\ exec' = [exec EXCEPT ![r].pc = "update-ref", ![r].base = branches[exec[r].evt.head]]
    /\ UNCHANGED <<branches, pulls, job, pushed, deleted, repeated>>

\* Mutant: the update is forced.
UpdateRefForced(r) ==
    LET b == exec[r].evt.head
        new == Append(exec[r].base, NewCommit(r))
    IN  /\ exec[r].pc = "update-ref"
        /\ Exists(b)
        /\ SetBranch(b, new)
        /\ Audit(r, {NewCommit(r)}) \/ Err(r)
        /\ UNCHANGED <<pulls, job, pushed, deleted, repeated>>

\* The last call of CreateCommit: a fast-forward to the new commit, whose
\* answer may be lost.  (One that is refused is an ActionError.)
UpdateRef(r) ==
    LET b == exec[r].evt.head
        new == Append(exec[r].base, NewCommit(r))
    IN  /\ exec[r].pc = "update-ref"
        /\ Exists(b) /\ IsPrefix(branches[b], new)
        /\ SetBranch(b, new)
        /\ Audit(r, {NewCommit(r)}) \/ Err(r)
        /\ UNCHANGED <<pulls, job, pushed, deleted, repeated>>

\* Execute returns when the list is done.
Return(r) ==
    /\ exec[r].pc = "next" /\ exec[r].step > Len(job[r].plan)
    /\ exec' = [exec EXCEPT ![r].pc = "done"]
    /\ UNCHANGED <<branches, pulls, job, pushed, deleted, repeated>>

\* The execution is interrupted, or its outcome is not recorded, and the
\* reconciler starts it again with a new event.
Repeat(r) ==
    /\ repeated < MaxRepeats
    /\ repeated' = repeated + 1
    /\ exec' = [exec EXCEPT ![r] = Start(r, exec[r].attempt + 1)]
    /\ UNCHANGED <<branches, pulls, job, pushed, deleted>>

-----------------------------------------------------------------------------
\* The people

Push(p, b) ==
    /\ pushed < MaxPushes
    /\ Exists(b)
    /\ pushed' = pushed + 1
    /\ SetBranch(b, Append(branches[b], [by |-> p, step |-> pushed + 1, attempt |-> 0]))
    /\ UNCHANGED <<pulls, job, exec, deleted, repeated>>

DeleteBranch(b) ==
    /\ deleted < MaxDeletes
    /\ Exists(b) /\ b # DefaultBranch
    /\ deleted' = deleted + 1
    /\ branches' = [x \in DOMAIN branches \ {b} |-> branches[x]]
    /\ UNCHANGED <<pulls, job, exec, pushed, repeated>>

Execute(r) ==
    \/ SimpleAction(r) \/ ActionError(r) \/ ExecuteCreatePR(r)
    \/ BeginCommit(r) \/ ReadDefault(r) \/ CreateIssueBranch(r) \/ ReadRef(r) \/ UpdateRef(r)
    \/ Return(r)

Next ==
    \/ \E r \in Runs : Execute(r) \/ Repeat(r)
    \/ \E b \in Branches : DeleteBranch(b) \/ \E p \in People : Push(p, b)

Spec == Init /\ [][Next]_vars

=============================================================================
