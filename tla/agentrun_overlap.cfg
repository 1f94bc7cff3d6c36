CONSTANTS
    a1 = a1
    a2 = a2
    rogue = rogue
    NoRun = NoRun
    NoSandbox = NoSandbox
    NoResult = NoResult
    Actions <- MCActions
    Results <- MCExecutable
    Runs = {r1}
    CloneRuns = {}
    Controllers = {c1, c2}
    Sandboxes = {s1, s2}
    MaxFaults <- CrashAndStaleRead
SPECIFICATION Spec
SYMMETRY Symmetry
INVARIANTS StatusConsistent CopiesAreVersioned CallsUseOwnSandbox AuditIsTrue
PROPERTIES ImmutableAfterCompletion ProgressIsKept ImplementsLifecycle
