CONSTANTS
    main = main
    feature = feature
    aac0 = aac0
    aac1 = aac1
    aac2 = aac2
    NoBranch = NoBranch
    DefaultBranch = main
    Branches <- MCBranches
    PullHead <- MCPullHead
    IssueBranch <- MCIssueBranch
    Numbers = {1, 2}
    People = {ann}
    Runs = {r1}
    Delivered <- MCDelivered
    Plans <- MCPlans
    MaxPushes = 0
    MaxDeletes = 0
    MaxRepeats = 0
SPECIFICATION Spec
INVARIANTS CommitsGoToPullRequest
CHECK_DEADLOCK FALSE
