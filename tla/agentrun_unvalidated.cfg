CONSTANTS
    a1 = a1
    a2 = a2
    rogue = rogue
    NoRun = NoRun
    NoSandbox = NoSandbox
    NoResult = NoResult
    Actions <- MCActions
    Results <- MCFewResults
    Runs = {r1}
    CloneRuns = {}
    Controllers = {c1, c2}
    Sandboxes = {s1, s2}
    MaxFaults <- None
SPECIFICATION Spec
INVARIANTS OnlyValidatedActions
