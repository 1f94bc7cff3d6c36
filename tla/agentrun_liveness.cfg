CONSTANTS
    a1 = a1
    a2 = a2
    rogue = rogue
    NoRun = NoRun
    NoSandbox = NoSandbox
    NoResult = NoResult
    Actions <- MCActions
    Results <- MCFewResults
    Runs = {r1}
    CloneRuns = {r1}
    Controllers = {c1}
    Sandboxes = {s1, s2, s3}
    MaxFaults <- AllButDelete
SPECIFICATION FairSpec
PROPERTIES EventuallyOver
CHECK_DEADLOCK FALSE
