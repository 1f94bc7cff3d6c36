----------------------------- MODULE MCExecutor -----------------------------
(***************************************************************************)
(* Instances of ActionExecutor for TLC: issue 1, and pull request 2 from   *)
(* the branch feature.                                                     *)
(***************************************************************************)
EXTENDS ExecutorProperties, TLC

CONSTANTS main, feature, aac0, aac1, aac2

MCBranches == {main, feature, aac0, aac1, aac2}
MCPullHead == 2 :> feature
MCIssueBranch == 0 :> aac0 @@ 1 :> aac1 @@ 2 :> aac2

\* A push, comments on the issue and on the pull request, and its opening.
MCDelivered == {[trigger |-> "push", number |-> 0, branch |-> feature],
                [trigger |-> "issue_comment", number |-> 1, branch |-> NoBranch],
                [trigger |-> "issue_comment", number |-> 2, branch |-> NoBranch],
                [trigger |-> "pull_request", number |-> 2, branch |-> NoBranch]}

\* Runs that may be about the same issue or the same pull request.
MCTwoBranches == {[trigger |-> "issue_comment", number |-> 1, branch |-> NoBranch],
                  [trigger |-> "pull_request", number |-> 2, branch |-> NoBranch]}

Do(type) == [type |-> type, head |-> NoBranch, base |-> NoBranch]
OpenPR == [type |-> "create-pr", head |-> feature, base |-> main]

\* An implementer's plan, two commits, and a reviewer's plan.
MCPlans == {<<Do("commit"), OpenPR>>, <<Do("commit"), Do("commit")>>,
            <<Do("review"), Do("status"), Do("comment")>>}

\* The same with a shorter review, and a pull request before its commit.
MCMixedPlans == {<<Do("commit"), OpenPR>>, <<Do("commit"), Do("commit")>>,
                 <<OpenPR, Do("commit")>>, <<Do("review"), Do("comment")>>}

Symmetry == Permutations(Runs)

=============================================================================
