------------------------- MODULE ExecutorProperties -------------------------
(***************************************************************************)
(* What must hold of ActionExecutor.                                       *)
(***************************************************************************)
EXTENDS ActionExecutor

\* c is one of the commits of branch b.
On(c, b) == Exists(b) /\ \E i \in DOMAIN branches[b] : branches[b][i] = c

\* Every audited commit is on the branch that the run's event names, whoever
\* else pushes to it or creates it at the same time, unless somebody deletes
\* branches: it was added by a fast-forward (github.go:252-253) and every later
\* update is one too.
AuditedCommitsAreThere ==
    deleted = 0 => \A r \in Runs : \A c \in exec[r].commits : On(c, exec[r].evt.head)

\* And nothing else of the run's is on any branch, unless the execution failed:
\* a commit whose answer was lost makes the action, and so the run, fail.
NothingUnaudited ==
    \A r \in Runs : ~exec[r].failed =>
        \A b \in DOMAIN branches : \A i \in DOMAIN branches[b] :
            LET c == branches[b][i]
            IN  c.by = r /\ c.attempt = exec[r].attempt => c \in exec[r].commits

\* A pull request that a run opens carries everything the run has committed so
\* far, also when the branch of the commits is not the one that the agent named
\* (executor.go:112-115 prefers the branch that CreateCommit left in the event).
PullRequestsCarryCommits ==
    deleted = 0 => \A p \in pulls : \A c \in p.commits : On(c, p.head)

\* Partial success (concepts.md:136): each action of the list is executed once
\* in an attempt and is either audited or makes the whole execution fail.
AccountsForEveryAction ==
    \A r \in Runs :
        exec[r].pc = "done" => (exec[r].failed <=> Len(exec[r].audit) < Len(job[r].plan))

\* Nobody's commits are lost to an agent's (the branches are a BranchLog),
\* although CreateCommit reads a branch and updates it later, and createIssueBranch
\* reads the default branch and creates another one later.
Log == INSTANCE BranchLog

ImplementsBranchLog == Log!Spec

\* writing-agents.md:291: "The commit is made on the PR's head branch."
CommitsGoToPullRequest ==
    \A r \in Runs :
        job[r].delivery.number \in PullRequests /\ exec[r].commits # {}
            => exec[r].evt.head = PullHead[job[r].delivery.number]

=============================================================================
