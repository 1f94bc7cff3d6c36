CONSTANTS
    a1 = a1
    a2 = a2
    rogue = rogue
    NoRun = NoRun
    NoSandbox = NoSandbox
    NoResult = NoResult
    Actions <- MCActions
    Results <- MCResults
    Runs = {r1, r2}
    CloneRuns = {r2}
    Controllers = {c1}
    Sandboxes = {s1, s2}
    MaxFaults <- OnlyCalls
SPECIFICATION FairSpec
INVARIANTS RunKeepsItsSandbox
PROPERTIES SandboxesAreDestroyed
