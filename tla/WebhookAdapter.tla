--------------------------- MODULE WebhookAdapter ---------------------------
(***************************************************************************)
(* The webhook process: HTTP handlers that check deliveries, and the jobs  *)
(* they start in the background, which read the agents of the repository   *)
(* and create AgentRuns.  All handlers and jobs share one Provider, whose  *)
(* secret and client each delivery replaces, and a delivery is answered    *)
(* before it is processed.                                                 *)
(*                                                                         *)
(* Models pkg/adapter/adapter.go, SetClient, Validate, CheckPermission,    *)
(* GetAgentDir, GetFile and GetFiles of pkg/provider/github/github.go, and *)
(* cmd/webhook/main.go.  GitHub and the API server are external: any call  *)
(* to them may fail.                                                       *)
(***************************************************************************)
EXTENDS Prompts, Sequences

CONSTANTS
    Requests,       \* the requests that arrive; a delivery sent again is a new one
    Deliveries,     \* what they carry
    Repositories,   \* the Repository objects
    Configured,     \* those whose token and webhook secret can be read
    Access,         \* <<s, r>> if the token of s gives access to r
    Documents,      \* agent definitions and other documents
    AgentDir,       \* the documents in each repository's agent directory
    Contents,       \* the words of what each instruction refers to
    Remote,         \* the instructions that are URLs
    GlobalSecret,   \* the webhook secret of the GitHub App
    Torn,           \* what is read between the two halves of a store
    NoSecret, NoClient, NoDelivery,
    Versions,       \* of what a variable is fetched from: any, at any time
    MaxErrors,      \* how many calls fail
    MaxCrashes      \* how often the process dies

Secrets == Repositories \cup {GlobalSecret}

ASSUME AdapterAssumption ==
    /\ Configured \subseteq Repositories
    /\ AgentDir \in [Repositories -> Seq(Documents)]
    /\ NoSecret \notin Secrets /\ Torn \notin Secrets
    /\ NoDelivery \notin Deliveries
    /\ \A d \in Deliveries : d.app \in BOOLEAN /\ d.signed \notin {NoSecret, Torn}
    /\ Nothing \notin Versions /\ FromEvent \notin Versions /\ Nothing # FromEvent
    /\ MaxErrors \in Nat /\ MaxCrashes \in Nat

VARIABLES
    provider,   \* the one Provider: a secret, as its length and its pointer, and a client
    handler,    \* the HTTP handler of each request
    job,        \* the background job of each request
    runs,       \* the AgentRuns that each job created
    errors, crashes

vars == <<provider, handler, job, runs, errors, crashes>>

-----------------------------------------------------------------------------
\* State

HandlerPoints == {"idle", "length", "pointer", "client", "validate", "over"}

\* A handler: where it is and what it answered, 0 for nothing.  overwritten
\* and overtaken record that another secret, and the client of another
\* repository, were written to the Provider since its own.
Handler == [pc : HandlerPoints, delivery : Deliveries \cup {NoDelivery},
            answer : {0, 200, 202, 401, 500}, overwritten : BOOLEAN, overtaken : BOOLEAN]

JobPoints == {"none", "permission", "tree", "blob", "resolve", "instruction", "done"}

\* What a variable was fetched as: the version at GitHub, or nothing.
Fetched == Versions \cup {Nothing}

\* The texts of an AgentRun are its prompt and its instructions, by position.
PromptText == -2

IsText(t) == t.values \in [DOMAIN t.values -> Fetched \cup {FromEvent}]

NoCache == [v \in {} |-> Nothing]

\* A job: the documents that were read, the matched agents that are left (by
\* position in the directory), and the AgentRun that is being put together.
\* failed records that the job was given up, blind that the changed files could
\* not be read, and lost the documents that something failed for.
Idle == [pc |-> "none", next |-> 1, fetched |-> {}, todo |-> {}, agent |-> 0,
         text |-> PromptText, refs |-> {}, cache |-> NoCache, texts |-> <<>>,
         failed |-> FALSE, blind |-> FALSE, lost |-> {}]

IsJob(j) ==
    /\ DOMAIN j = DOMAIN Idle
    /\ j.pc \in JobPoints
    /\ j.next \in Nat /\ j.agent \in Nat
    /\ j.fetched \subseteq Nat /\ j.todo \subseteq Nat /\ j.lost \subseteq Nat
    /\ j.cache \in [DOMAIN j.cache -> Fetched]
    /\ \A i \in DOMAIN j.texts : IsText(j.texts[i])
    /\ j.failed \in BOOLEAN /\ j.blind \in BOOLEAN

NewProvider == [length |-> NoSecret, pointer |-> NoSecret, client |-> NoClient]

Init ==
    /\ provider = NewProvider
    /\ handler = [q \in Requests |-> [pc |-> "idle", delivery |-> NoDelivery,
                                      answer |-> 0, overwritten |-> FALSE, overtaken |-> FALSE]]
    /\ job = [q \in Requests |-> Idle]
    /\ runs = [q \in Requests |-> <<>>]
    /\ errors = 0 /\ crashes = 0

-----------------------------------------------------------------------------
\* The HTTP handler

\* The secret that a delivery is checked with.
SecretOf(d) == IF d.app THEN GlobalSecret ELSE d.repo

\* A delivery arrives and is answered at once: 200 if the event is of no
\* interest or has no Repository (or those could not be listed), 500 if the
\* body or the credentials could not be read.
Refuse(q, code) ==
    /\ handler[q].pc = "idle"
    /\ handler' = [handler EXCEPT ![q].pc = "over", ![q].answer = code]
    /\ UNCHANGED <<provider, job, runs, errors, crashes>>

\* Mutant: the parsed delivery is not what the handler goes on with.
AdmitUnparsed(q, d) ==
    /\ handler[q].pc = "idle"
    /\ Detect(d) /\ d.repo \in Configured
    /\ handler' = [handler EXCEPT ![q].pc = "length"]
    /\ UNCHANGED <<provider, job, runs, errors, crashes>>

\* A delivery arrives, its Repository is found and the credentials are read.
Admit(q, d) ==
    /\ handler[q].pc = "idle"
    /\ Detect(d) /\ d.repo \in Configured
    /\ handler' = [handler EXCEPT ![q].pc = "length", ![q].delivery = d]
    /\ UNCHANGED <<provider, job, runs, errors, crashes>>

\* The handlers at these points, after q has written its secret.
Overwrite(q, pc, points) ==
    handler' = [r \in Requests |->
        IF r = q THEN [handler[q] EXCEPT !.pc = pc]
        ELSE IF /\ handler[r].pc \in points
                /\ SecretOf(handler[r].delivery) # SecretOf(handler[q].delivery)
             THEN [handler[r] EXCEPT !.overwritten = TRUE]
             ELSE handler[r]]

\* SetClient: a string is two words, which no lock keeps together.
StoreLength(q) ==
    /\ handler[q].pc = "length"
    /\ provider' = [provider EXCEPT !.length = SecretOf(handler[q].delivery)]
    /\ Overwrite(q, "pointer", {"pointer", "client", "validate"})
    /\ UNCHANGED <<job, runs, errors, crashes>>

\* Mutant: the secret is set once.
StorePointerOnce(q) ==
    /\ handler[q].pc = "pointer"
    /\ provider' = [provider EXCEPT !.pointer = IF @ = NoSecret THEN SecretOf(handler[q].delivery) ELSE @]
    /\ Overwrite(q, "client", {"client", "validate"})
    /\ UNCHANGED <<job, runs, errors, crashes>>

StorePointer(q) ==
    /\ handler[q].pc = "pointer"
    /\ provider' = [provider EXCEPT !.pointer = SecretOf(handler[q].delivery)]
    /\ Overwrite(q, "client", {"client", "validate"})
    /\ UNCHANGED <<job, runs, errors, crashes>>

RepoOf(q) == handler[q].delivery.repo

\* r has set its client and will, or may, call GitHub with it.
UsesClient(r) == handler[r].pc = "validate" \/ job[r].pc \notin {"none", "done"}

\* Mutant: the client is made once.
StoreClientOnce(q) ==
    /\ handler[q].pc = "client"
    /\ provider' = [provider EXCEPT !.client = IF @ = NoClient THEN RepoOf(q) ELSE @]
    /\ handler' = [handler EXCEPT ![q].pc = "validate"]
    /\ UNCHANGED <<job, runs, errors, crashes>>

StoreClient(q) ==
    /\ handler[q].pc = "client"
    /\ provider' = [provider EXCEPT !.client = RepoOf(q)]
    /\ handler' = [r \in Requests |->
         IF r = q THEN [handler[q] EXCEPT !.pc = "validate"]
         ELSE IF UsesClient(r) /\ RepoOf(r) # RepoOf(q)
              THEN [handler[r] EXCEPT !.overtaken = TRUE]
              ELSE handler[r]]
    /\ UNCHANGED <<job, runs, errors, crashes>>

\* The secrets that a read of the Provider may see.
ReadSecret == {provider.pointer} \cup If(provider.length # provider.pointer, {Torn})

Event(q) == EventOf(handler[q].delivery)

\* Validate: the job is started, and then the delivery is answered with 202;
\* in between the handler touches nothing that is shared.
Validate(q, secret) ==
    /\ handler[q].pc = "validate"
    /\ secret \in ReadSecret
    /\ IF secret = handler[q].delivery.signed
       THEN /\ handler' = [handler EXCEPT ![q].pc = "over", ![q].answer = 202]
            /\ job' = [job EXCEPT ![q].pc = IF Event(q).trigger = "issue_comment"
                                            THEN "permission" ELSE "tree"]
       ELSE /\ handler' = [handler EXCEPT ![q].pc = "over", ![q].answer = 401]
            /\ UNCHANGED job
    /\ UNCHANGED <<provider, runs, errors, crashes>>

-----------------------------------------------------------------------------
\* The job

Dir(q) == AgentDir[RepoOf(q)]
Agent(q) == Dir(q)[job[q].agent]

\* A call of q's to GitHub is made with whatever client there is.
CanCall(q) == provider.client = RepoOf(q) \/ <<provider.client, RepoOf(q)>> \in Access

Succeeds(q) == CanCall(q) /\ UNCHANGED errors

Error == errors < MaxErrors /\ errors' = errors + 1

Fails(q) == Error \/ (~CanCall(q) /\ UNCHANGED errors)

\* The job is given up.
GiveUp(q) == job' = [job EXCEPT ![q].pc = "done", ![q].failed = TRUE]

\* Mutant: a permission that can be read is enough.
CheckPermissionExists(q) ==
    /\ job[q].pc = "permission"
    /\ \/ Succeeds(q) /\ job' = [job EXCEPT ![q].pc = "tree"]
       \/ Fails(q) /\ GiveUp(q)
    /\ UNCHANGED <<provider, handler, runs, crashes>>

\* Comments are for those who may write to the repository.
CheckPermission(q) ==
    /\ job[q].pc = "permission"
    /\ \/ /\ Succeeds(q)
          /\ job' = [job EXCEPT ![q].pc = IF handler[q].delivery.writer THEN "tree" ELSE "done"]
       \/ Fails(q) /\ GiveUp(q)
    /\ UNCHANGED <<provider, handler, runs, crashes>>

\* GetAgentDir: the directory is listed at the default branch.  The two calls
\* that look for it and list it are one step: neither has an effect, and an error
\* of either ends the job.
GetTree(q) ==
    /\ job[q].pc = "tree"
    /\ \/ Succeeds(q) /\ job' = [job EXCEPT ![q].pc = IF Dir(q) = <<>> THEN "done" ELSE "blob"]
       \/ Fails(q) /\ GiveUp(q)
    /\ UNCHANGED <<provider, handler, runs, crashes>>

\* Mutant: the files after one that cannot be read are not read either.
GetBlobUntilError(q) ==
    /\ job[q].pc = "blob"
    /\ job[q].next <= Len(Dir(q))
    /\ \/ /\ Succeeds(q)
          /\ job' = [job EXCEPT ![q].next = @ + 1, ![q].fetched = @ \cup {job[q].next}]
       \/ /\ Fails(q)
          /\ job' = [job EXCEPT ![q].next = Len(Dir(q)) + 1, ![q].lost = @ \cup {job[q].next}]
    /\ UNCHANGED <<provider, handler, runs, crashes>>

\* One file of it; one that cannot be read is left out.
GetBlob(q) ==
    /\ job[q].pc = "blob"
    /\ job[q].next <= Len(Dir(q))
    /\ \/ /\ Succeeds(q)
          /\ job' = [job EXCEPT ![q].next = @ + 1, ![q].fetched = @ \cup {job[q].next}]
       \/ /\ Fails(q)
          /\ job' = [job EXCEPT ![q].next = @ + 1, ![q].lost = @ \cup {job[q].next}]
    /\ UNCHANGED <<provider, handler, runs, crashes>>

ParsesAll(q) == \A i \in job[q].fetched : ~Rejected(Dir(q)[i])

\* ParseAgentDefinitions: one document that is rejected ends the job.
RejectDocuments(q) ==
    /\ job[q].pc = "blob"
    /\ job[q].next > Len(Dir(q))
    /\ ~ParsesAll(q)
    /\ job' = [job EXCEPT ![q].pc = "done"]
    /\ UNCHANGED <<provider, handler, runs, errors, crashes>>

\* The loop over the matches, in the order of the documents: the job with the
\* first of todo as its agent, or done.
NextAgent(q, todo) ==
    IF todo = {} THEN [job[q] EXCEPT !.pc = "done", !.todo = {}]
    ELSE LET i == CHOOSE i \in todo : \A k \in todo : i <= k
         IN  [job[q] EXCEPT !.pc = "resolve", !.todo = todo \ {i}, !.agent = i,
                            !.text = PromptText, !.texts = <<>>, !.cache = NoCache,
                            !.refs = ParseAnnotations(Dir(q)[i])]

\* The agents among the documents that were read whose annotations match.
Matching(q, files) ==
    {i \in job[q].fetched : Dir(q)[i].kind = "Agent" /\ Matches(Dir(q)[i].annots, Event(q), files)}

\* GetFiles and MatchAgentsToEvent: without the files no path matches.
MatchAgents(q) ==
    /\ job[q].pc = "blob"
    /\ job[q].next > Len(Dir(q))
    /\ ParsesAll(q)
    /\ \/ /\ IF Event(q).pull THEN Succeeds(q) ELSE UNCHANGED errors
          /\ job' = [job EXCEPT ![q] =
                       NextAgent(q, Matching(q, If(Event(q).pull, handler[q].delivery.files)))]
       \/ /\ Event(q).pull /\ Fails(q)
          /\ job' = [job EXCEPT ![q] = [NextAgent(q, Matching(q, {})) EXCEPT !.blind = TRUE]]
    /\ UNCHANGED <<provider, handler, runs, crashes>>

Words(q) == IF job[q].text = PromptText THEN Agent(q).prompt ELSE Contents[Agent(q).refs[job[q].text]]

Known(q) == metadataVars(Agent(q), Event(q))

Due(q) == ToFetch(Words(q), Known(q), job[q].cache)

\* A variable of the text is fetched; one that cannot be is empty from then on.
FetchVariable(q, v) ==
    /\ job[q].pc = "resolve"
    /\ v \in Due(q)
    /\ \E value \in Fetched :
         /\ CASE ~Exists(v, Event(q)) -> value = Nothing /\ UNCHANGED errors
              [] Exists(v, Event(q)) /\ value = Nothing -> Fails(q)
              [] Exists(v, Event(q)) /\ value # Nothing -> Succeeds(q)
         /\ job' = [job EXCEPT ![q].cache = [x \in DOMAIN @ \cup {v} |->
                                               IF x = v THEN value ELSE job[q].cache[x]]]
    /\ UNCHANGED <<provider, handler, runs, crashes>>

ResolveText(q) ==
    /\ job[q].pc = "resolve"
    /\ Due(q) = {}
    /\ job' = [job EXCEPT ![q].pc = "instruction",
                          ![q].texts = Append(@, [position |-> job[q].text,
                             values |-> ResolveVariables(Words(q), Known(q), job[q].cache)])]
    /\ UNCHANGED <<provider, handler, runs, errors, crashes>>

\* Mutant: each instruction is resolved with a cache of its own.
FetchInstructionAfresh(q) ==
    /\ job[q].pc = "instruction"
    /\ \E k \in job[q].refs :
         /\ \A l \in job[q].refs : k <= l
         /\ job' = [job EXCEPT ![q].pc = "resolve", ![q].refs = @ \ {k}, ![q].text = k,
                               ![q].cache = NoCache]
    /\ UNCHANGED <<provider, handler, runs, errors, crashes>>

\* The next instruction, from the default branch or from its URL; one that
\* cannot be fetched is skipped.
FetchInstruction(q) ==
    /\ job[q].pc = "instruction"
    /\ \E k \in job[q].refs :
         /\ \A l \in job[q].refs : k <= l
         /\ \/ /\ IF Agent(q).refs[k] \in Remote THEN UNCHANGED errors ELSE Succeeds(q)
               /\ job' = [job EXCEPT ![q].pc = "resolve", ![q].refs = @ \ {k}, ![q].text = k]
            \/ /\ IF Agent(q).refs[k] \in Remote THEN Error ELSE Fails(q)
               /\ job' = [job EXCEPT ![q].refs = @ \ {k}]
    /\ UNCHANGED <<provider, handler, runs, crashes>>

AgentRun(q) == [agent |-> job[q].agent, texts |-> job[q].texts]

\* Mutant: Create is tried again after an error.
CreateAgentRunAgain(q) ==
    /\ job[q].pc = "instruction" /\ job[q].refs = {}
    /\ \/ /\ runs' = [runs EXCEPT ![q] = Append(@, AgentRun(q))]
          /\ \/ UNCHANGED errors /\ job' = [job EXCEPT ![q] = NextAgent(q, job[q].todo)]
             \/ Error /\ UNCHANGED job
       \/ Error /\ UNCHANGED <<runs, job>>
    /\ UNCHANGED <<provider, handler, crashes>>

\* Create under a generated name; an error, also of one that was created all
\* the same, only means that the next agent is due.
CreateAgentRun(q) ==
    /\ job[q].pc = "instruction" /\ job[q].refs = {}
    /\ \/ /\ runs' = [runs EXCEPT ![q] = Append(@, AgentRun(q))]
          /\ UNCHANGED errors \/ Error
          /\ job' = [job EXCEPT ![q] = NextAgent(q, job[q].todo)]
       \/ /\ Error
          /\ job' = [job EXCEPT ![q] = [NextAgent(q, job[q].todo) EXCEPT !.lost = @ \cup {job[q].agent}]]
          /\ UNCHANGED runs
    /\ UNCHANGED <<provider, handler, crashes>>

-----------------------------------------------------------------------------
\* The environment

\* A panic in a job is recovered and ends it.
Panic(q) ==
    /\ job[q].pc \notin {"none", "done"}
    /\ Error
    /\ GiveUp(q)
    /\ UNCHANGED <<provider, handler, runs, crashes>>

\* The process dies and is started again: requests that were not answered get
\* no answer, jobs are forgotten.
Crash ==
    /\ crashes < MaxCrashes
    /\ crashes' = crashes + 1
    /\ provider' = NewProvider
    /\ handler' = [q \in Requests |->
                     IF handler[q].pc = "idle" THEN handler[q] ELSE [handler[q] EXCEPT !.pc = "over"]]
    /\ job' = [q \in Requests |->
                 IF job[q].pc \in {"none", "done"} THEN job[q]
                 ELSE [job[q] EXCEPT !.pc = "done", !.failed = TRUE]]
    /\ UNCHANGED <<runs, errors>>

-----------------------------------------------------------------------------
Handle(q) ==
    \/ StoreLength(q) \/ StorePointer(q) \/ StoreClient(q)
    \/ \E secret \in Secrets \cup {NoSecret, Torn} : Validate(q, secret)

Process(q) ==
    \/ CheckPermission(q) \/ GetTree(q) \/ GetBlob(q) \/ RejectDocuments(q)
    \/ MatchAgents(q)
    \/ \E v \in providerVariables : FetchVariable(q, v)
    \/ ResolveText(q) \/ FetchInstruction(q) \/ CreateAgentRun(q)

Arrive(q) == (\E d \in Deliveries : Admit(q, d)) \/ (\E code \in {200, 500} : Refuse(q, code))

Next ==
    \/ \E q \in Requests : Arrive(q) \/ Handle(q) \/ Process(q) \/ Panic(q)
    \/ Crash

Spec == Init /\ [][Next]_vars

\* The runtime schedules every handler and every job, and each call ends.  A
\* request's job starts when its handler is over, so this is fair to both.
Fairness == \A q \in Requests : WF_vars(Handle(q) \/ Process(q))

FairSpec == Spec /\ Fairness

=============================================================================
