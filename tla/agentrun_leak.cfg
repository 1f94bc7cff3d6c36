CONSTANTS
    a1 = a1
    a2 = a2
    rogue = rogue
    NoRun = NoRun
    NoSandbox = NoSandbox
    NoResult = NoResult
    Actions <- MCActions
    Results <- MCResults
    Runs = {r1}
    CloneRuns = {}
    Controllers = {c1}
    Sandboxes = {s1, s2}
    MaxFaults <- OnlyCrash
SPECIFICATION FairSpec
PROPERTIES CollectedSandboxIsDestroyed
