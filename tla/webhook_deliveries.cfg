CONSTANTS
    app = app
    lib = lib
    old = old
    github = github
    NoText = ""
    Malformed = Malformed
    Plain = "text"
    FromEvent = FromEvent
    Nothing = Nothing
    Torn = Torn
    NoSecret = NoSecret
    NoClient = NoClient
    NoDelivery = NoDelivery
    GlobalSecret = github
    Denotes <- MCDenotes
    Requests = {q1, q2}
    Deliveries <- MCDeliveries
    Repositories <- MCRepositories
    Configured <- MCRepositories
    Access <- MCAccess
    Documents <- MCDocuments
    AgentDir <- MCAgentDir
    Contents <- MCContents
    Remote = {"https"}
    MaxErrors = 1
    Versions = {1, 2}
    MaxCrashes = 1
SPECIFICATION FairSpec
INVARIANTS TypeOK AnswersAreJust RunsAreAsked NothingIsLostSilently FailureNeedsCause OneValuePerVariable
PROPERTIES ImplementsHandling EveryRequestIsFinished
CHECK_DEADLOCK FALSE
