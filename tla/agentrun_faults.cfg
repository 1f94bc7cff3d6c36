CONSTANTS
    a1 = a1
    a2 = a2
    rogue = rogue
    NoRun = NoRun
    NoSandbox = NoSandbox
    NoResult = NoResult
    Actions <- MCActions
    Results <- MCFewResults
    Runs = {r1}
    CloneRuns = {}
    Controllers = {c1}
    Sandboxes = {s1, s2, s3, s4}
    MaxFaults <- Each
SPECIFICATION Spec
SYMMETRY Symmetry
INVARIANTS TypeOK RepetitionNeedsFault LeakNeedsFault ExecutesWhatWasCollected
CHECK_DEADLOCK FALSE
