CONSTANTS
    main = main
    feature = feature
    aac0 = aac0
    aac1 = aac1
    aac2 = aac2
    NoBranch = NoBranch
    DefaultBranch = main
    Branches <- MCBranches
    PullHead <- MCPullHead
    IssueBranch <- MCIssueBranch
    Numbers = {1, 2}
    People = {ann}
    Runs = {r1, r2}
    Delivered <- MCTwoBranches
    Plans <- MCMixedPlans
    MaxPushes = 1
    MaxDeletes = 1
    MaxRepeats = 1
SPECIFICATION Spec
SYMMETRY Symmetry
INVARIANTS TypeOK AuditedCommitsAreThere NothingUnaudited PullRequestsCarryCommits AccountsForEveryAction
PROPERTIES ImplementsBranchLog
CHECK_DEADLOCK FALSE
