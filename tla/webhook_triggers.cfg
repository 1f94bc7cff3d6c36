CONSTANTS
    app = app
    lib = lib
    old = old
    github = github
    NoText = ""
    Malformed = Malformed
    Plain = "text"
    FromEvent = FromEvent
    Nothing = Nothing
    Torn = Torn
    NoSecret = NoSecret
    NoClient = NoClient
    NoDelivery = NoDelivery
    GlobalSecret = github
    Denotes <- MCDenotes
    Requests = {q1}
    Deliveries <- MCTriageDeliveries
    Repositories <- MCRepositories
    Configured <- MCRepositories
    Access <- MCAccess
    Documents <- MCDocuments
    AgentDir <- MCTriageDir
    Contents <- MCContents
    Remote = {"https"}
    MaxErrors = 0
    Versions = {1, 2}
    MaxCrashes = 0
SPECIFICATION Spec
INVARIANTS DocumentedTriggersFire
CHECK_DEADLOCK FALSE
