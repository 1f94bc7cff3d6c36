CONSTANTS
    NoText = ""
    NoSettings = NoSettings
    NoAI = NoAI
    NoRef = NoRef
    Failed = Failed
    Store <- MCStore
    Environment <- MCEnvironment
    Processes = {p1, p2}
    Limits <- MCLimits
    AllSettings <- MCSettings
    Tools = {"github"}
    Outputs <- MCOutputs
    Empty <- Nothing
    Length <- MCLength
    BufferSize = 4
    NoResult = NoResult
    Truncated = Truncated
    Mixed = Mixed
    NoConfig = NoConfig
    NoProcess = NoProcess
SPECIFICATION FairSpec
INVARIANTS TypeOK ExitCodeTellsResult ReadsWholeResults ExecutesWhatWasValidated CommitsStayInside AlarmIsWithinLimits ToolsAreProvided
PROPERTIES EveryProcessEnds
CHECK_DEADLOCK FALSE
