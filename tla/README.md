# A formal model of agents-as-code

agents-as-code runs AI agents for a repository. A webhook receives GitHub events, finds the
agents whose annotations match, and creates an `AgentRun` object for each. A Kubernetes
controller takes every `AgentRun` through four phases: it creates a sandbox, executes the agent
in it, collects `result.json` and executes the actions that the agent asks for through the
GitHub API.

This directory holds TLA+ modules that model this program, TLC configurations that check them
on small instances, and proofs that TLAPS checks for all instances. `PROJECT.json` maps every
definition to the lines it models. Paths below are relative to `src/`.

## 1. The system

| Component | Code | State it keeps | Operations | Modelled in |
|---|---|---|---|---|
| AgentRun reconciler | `pkg/reconciler/agentrun/reconciler.go`, `cmd/controller/main.go` | none of its own: the status of `AgentRun` objects, an informer cache, a work queue | `Reconcile` with one phase per call, `markFailed`, `destroySandbox` | `AgentRunReconciler` |
| AgentRun conditions | `pkg/reconciler/agentrun/conditions.go` | the conditions in the status | `IsTerminal`, `GetCurrentPhase`, the knative condition manager | `AgentRunStatus` |
| Sandbox runtime | `pkg/sandbox/` | sandboxes, their files and processes | `Create`, `Get`, `Run`, `ReadFile`, `WriteFile`, `Destroy` | `AgentRunReconciler` (the effects), `AgentRuntime` (the files and processes, retries) |
| Repository clone | `clone.go` | the directory in the sandbox | clone once | `AgentRunReconciler` (`cloned`) |
| Runtime configuration | `config.go` | none | fallbacks from run to repository to settings | `RuntimeConfig` |
| Agent runtime | `runtime/agent_run.py` | `result.json`, an alarm | run the agent with a timeout, write the result | `AgentRuntime`; one step of `AgentRunReconciler` |
| Result parser | `pkg/result/parser.go`, `types.go` | none | `Parse`, `Validate` | `ResultRules`, `AgentRuntime`; the verdicts in `AgentRunReconciler` |
| Action executor | `pkg/result/executor.go` | audit and errors of one execution, the shared event | `Execute` and one function per action type | `ActionExecutor`, `AgentRunReconciler` |
| GitHub provider | `pkg/provider/github/`, `pkg/provider/event.go`, `pkg/reconciler/agentrun/provider.go` | a client and a webhook secret; at GitHub: branches, pull requests | parse a delivery, validate, comment, review, label, report, commit, open a pull request, read files | `ProviderEvents`, `ActionExecutor`, `Triggers`, `WebhookAdapter` |
| Webhook adapter | `pkg/adapter/adapter.go`, `cmd/webhook/main.go` | one provider shared by all deliveries | detect, match the repository, validate, match agents, create runs | `WebhookAdapter`; `buildEventInfo` in `ProviderEvents`, `resolveLimits` in `RuntimeConfig` |
| Matcher | `pkg/matcher/` | none | annotations to a match, validation of definitions | `Triggers` |
| Templates, instructions | `pkg/template/`, `pkg/instruction/` | the cache of a resolver | resolve variables and instruction sources | `Prompts`, `WebhookAdapter` |
| API types | `pkg/apis/` | declarations | none (deepcopy is generated) | the status fields, in `AgentRunReconciler` |
| Repository reconciler, knowledge graph | `pkg/reconciler/repository/`, `pkg/knowledgegraph/` | none | a stub: the controller is started with a nil builder | not modelled |

The components interact as follows.

* The adapter and the reconciler share nothing but `AgentRun` objects. What the executor needs
  of a delivery has to survive three conversions: `ParsePayload`, `buildEventInfo` and
  `CreateProviderEvent`.
* The reconciler reads objects from an informer cache and writes the status to the API server
  under optimistic concurrency. There is no leader election, so two controllers may work on the
  same run during a rolling update.
* The reconciler, the agent and the backend share the sandbox. `result.json` is written by
  agent-run and read in two different calls of `Reconcile`. agent-run can outlive the call
  that waits for it.
* Executions of different runs, and people, share the branches at GitHub. The actions of one
  execution share an event: a commit that had to create a branch leaves its name there.

What is hard, and what correctness means:

* *Reconciler*: a phase has its effect long before the only update that records it, so
  conflicts, lost answers, crashes and stale reads make it run again. Correct is: the status is
  consistent and final, progress is kept, a call uses its own run's sandbox only, what is
  repeated or left behind is bounded by the faults, and every run ends.
* *Executor and provider*: a commit is six or more calls during which others write to the branch.
  Correct is: nobody's commits are lost, the audit says what happened, a pull request carries
  what was committed, and the list of actions is gone through whatever fails.
* *Adapter*: concurrent deliveries share one provider, whose secret and client each replaces, and
  a delivery is answered before it is processed. Correct is: a delivery is accepted only with a
  configured secret, a verdict is final, an accepted delivery makes at most one run per matching
  agent, and what is missing is accounted for by what failed.
* *Agent runtime*: the alarm can interrupt the writing of the result, and a retried call can start
  a second process. Correct is: what is read is a whole result, the exit code and the file agree,
  and every process has an alarm within its limits and ends.
* *Matcher, templates, configuration, parser*: pure functions; they are checked inside the
  components that use them, where their inputs can be stale, partial or wrong.

`PROJECT.json` lists the individual hazards with their lines.

## 2. Modules

### AgentRun

* `AgentRunStatus` has the conditions of an `AgentRun` and the functions of `conditions.go` over
  them. The knative condition manager is external; `MarkTrue` and `MarkFalse` model that it
  recomputes `Succeeded` from the four dependents.
* `AgentRunReconciler` is the controller. Its variables are `api` (the objects, with resource
  versions), and for each controller process `cache`, `queue`, `work` (the `Reconcile` call it
  is in: a program point, the in-memory copy, the actions that are left) and `up`; `sandboxes`
  is the backend. `performed`, `executions` and `faults` are history variables, never read by
  the code's actions except that `faults` bounds the faults. One call of `Reconcile` is
  `Fetch`, the steps of one phase, and `UpdateStatus` or `MarkFailed` with `DestroySandbox`;
  the steps are cut where another process can see the difference:

  | Action | Code |
  |---|---|
  | `Fetch` | `reconciler.go:37-65`: read, return when missing or terminal, choose the phase |
  | `ReconcileSandbox` | 86-112 |
  | `PrepareAgent`, `RunAgent`, `LoseAgent` | 114-157: clone and configure; run and wait; the call breaks and agent-run goes on |
  | `ReconcileResults`, `ReconcileActions` | 159-185, 187-227 |
  | `ExecuteAction`, `FinishExecute` | one iteration of `executor.go:33-46`; 229-241 |
  | `PhaseError` | the error returns of the phases that have had no effect |
  | `CreateLost`, `RetryRun` | 102-107: Create returns an error after it has made the sandbox, and its name is lost; `agentsandbox.go:24-30`: the client sends Run again while the first agent-run goes on |
  | `UpdateStatus`, `UpdateStatusError` | 74-83, accepted or not, the answer lost or not |
  | `MarkFailed`, `DestroySandbox` | 243-253, 255-267 |
  | `StragglerEnds` | agent-run ends in a sandbox where nobody waits for it |
  | `CacheSync`, `Resync`, `Start`, `Crash`, `CreateAgentRun`, `EditAgentRun`, `DeleteAgentRun` | the environment |

* `AgentRunLifecycle` is the abstract specification: what `docs/reference/concepts.md` promises
  of an `AgentRun` to whoever reads it at the API server.
* `AgentRunProperties` states the properties and the refinement mapping. `MCAgentRun` gives the
  instances. `AgentRunReconciler_proofs` has the proofs about types, versions and progress,
  `AgentRunConsistency_proofs`, which extends it, those about the status, the refinement, sandboxes
  and the audit with any number of controllers, and `AgentRunFaults_proofs`, which extends both, those
  about what faults cost one controller.

### Executor and provider

* `ProviderEvents` has the three conversions of a delivery as operators, for the fields that
  decide where an action goes: issue, pull request, head branch, default branch, SHA.
* `ActionExecutor` has any number of runs that each execute a plan (a list of actions) for a
  delivery. `branches` are the histories of GitHub's branches, `pulls` the pull requests that
  were opened, `job` and `exec` the executions.

  | Action | Code |
  |---|---|
  | `SimpleAction` | `executor.go:72-109`, `127-132`, one provider call each |
  | `ExecuteCreatePR` | `executor.go:111-125` |
  | `BeginCommit` | `github.go:200-207`, the choice of the branch |
  | `ReadDefault`, `CreateIssueBranch` | `github.go:261-287` |
  | `ReadRef`, `UpdateRef` | `github.go:209-219`, `221-258` |
  | `ActionError`, `Err`, `Audit`, `Return` | the loop of `executor.go:29-51` |
  | `Repeat` | the reconciler executes the actions again, with a new event |
  | `Push`, `DeleteBranch` | people |

  GitHub accepts an update without force if it is a fast-forward, and a `CreateRef` if the
  branch does not exist; both calls may be applied and answered with an error.
* `BranchLog` is the abstract specification: branches fork from the default branch, grow and
  are deleted.
* `ExecutorProperties`, `MCExecutor` and `ActionExecutor_proofs` are as above.

### Webhook

* `Triggers` has, as operators, the way from a delivery to an event (`detect.go`, `parse.go`), the
  annotations, the match (`annotation.go`, `match.go`) and the validation of agent definitions
  (`pkg/matcher/parse.go`). A text is a member of a set, a pattern the set of texts it matches.
* `Prompts` has which variables of a text are known from the event, which are to be fetched, and
  what a text is resolved to (`pkg/template`, `pkg/instruction`). A text is the set of its words.
* `WebhookAdapter` is the process. `provider` is the one Provider: its secret, in two halves as a
  Go string is stored, and its client. `handler` are the HTTP handlers, `job` the background jobs,
  `runs` the AgentRuns that each job created; `errors` and `crashes` bound what fails. The fields
  `overwritten`, `overtaken`, `failed`, `blind` and `lost` are history, which no action reads.

  | Action | Code |
  |---|---|
  | `Admit`, `Refuse` | `adapter.go:49-99` and the calls it makes: detect, parse, find the Repository, read the credentials |
  | `StoreLength`, `StorePointer`, `StoreClient` | `SetClient`, `github.go:27-35`, without a lock |
  | `Validate` | `github.go:37-49`; start the job, answer |
  | `CheckPermission`, `GetTree`, `GetBlob` | `github.go:617-633`, `329-362`, `364-393`: the permission of a comment's author, the agent directory and its files |
  | `RejectDocuments`, `MatchAgents` | `ParseAgentDefinitions`, `GetFiles`, `MatchAgentsToEvent` |
  | `FetchVariable`, `ResolveText`, `FetchInstruction` | the resolvers of the prompt and the instructions |
  | `CreateAgentRun` | `adapter.go:311-317`, an object under a generated name |
  | `Panic`, `Crash` | `adapter.go:117-121`; the process dies |

* `DeliveryHandling` is the abstract specification: one verdict on each request and at most one run
  per agent for an accepted one.
* `WebhookProperties`, `MCWebhook` and `WebhookAdapter_proofs` are as above. `WebhookRuns_proofs`
  extends the latter with the proofs about which runs are made and which are not.

### Sandbox

* `ResultRules` has `Validate` with the rules of each type of action, `path.Clean` included.
* `RuntimeConfig` has `resolveLimits`, the construction of `config.json` with every reference that
  can fail to resolve, and the helpers of `agent_run.py` that read it.
* `AgentRuntime` refines the four phases of one AgentRun by what happens in its sandbox: `run` is
  what the reconciler has read, `config` and `file` are the two files, `proc` the processes, each
  with its program point, the buffer of the file it has open, its alarm and its exit code.

  | Action | Code |
  |---|---|
  | `Launch`, `RunReturns`, `SandboxError` | `reconciler.go:114-157`, `Run` |
  | `Retry` | `agentsandbox.go`: an attempt times out, the command is sent again |
  | `Collect`, `ExecuteActions` | `reconciler.go:159-185`, `187-227` |
  | `LoadConfig`, `Setup`, `CreateAgent`, `RunSync`, `Return` | `agent_run.py:196-246` |
  | `Open`, `Write`, `Close` | `write_result`, `agent_run.py:189-191` |
  | `Alarm`, `AlarmOpen`, `AlarmClose`, `Unwind` | `timeout_handler`, `agent_run.py:214-221` |

* `RuntimeProperties`, `MCRuntime` and `AgentRuntime_proofs` are as above.

The modules meet in these places: `AgentRunReconciler` sees of `AgentRuntime` only the verdicts on
`result.json`, and that agent-run can outlive its call or the attempt that the call made of it; `ActionExecutor` is given the plans that
`AgentRuntime` executes; `WebhookAdapter` creates the objects that `AgentRunReconciler` starts
from, with the limits of `RuntimeConfig` and the event of `ProviderEvents`.

## 3. Properties

Of `AgentRunReconciler`, with any number of controllers and faults: `StatusConsistent`,
`ImmutableAfterCompletion`, `ProgressIsKept`, `CopiesAreVersioned`, `CallsUseOwnSandbox`,
`AuditIsTrue`, `ImplementsLifecycle`. With one controller: `RepetitionNeedsFault` and
`LeakNeedsFault` (each repeated effect and each sandbox left behind is paid for by a fault of
its own, where a lost Create and a repeated attempt of Run are faults like a crash or a conflict),
`ExecutesWhatWasCollected` (as long as no agent-run is left behind in a sandbox that lives on, by a
crash, a failed cleanup or a repeated attempt), `RunKeepsItsSandbox`. Under fairness: `EventuallyOver`,
`SandboxesAreDestroyed`.

Of `ActionExecutor`: `AuditedCommitsAreThere` and `NothingUnaudited` (together: the audit lists
exactly what the execution put on branches), `PullRequestsCarryCommits`,
`AccountsForEveryAction`, `ImplementsBranchLog`.

Of `WebhookAdapter`:

* `AnswersAreJust`: 202 only for a delivery signed with a configured secret, and 401 for one that is
  signed correctly only if the secret of another delivery was written over its own;
* `FailureNeedsCause`: without an error or a crash, only a client of another repository, stored
  after the job's own, makes a job's calls fail;
* `RunsAreAsked`: runs are made only for agents that the trigger table of the guide selects for the
  delivery as GitHub sent it, and for comments of people who may write;
* `NothingIsLostSilently`: an error costs the agent it concerns and no other;
* `OneValuePerVariable`: the texts of a run agree on the value of a variable;
* `ImplementsHandling`, and under fairness `EveryRequestIsFinished`.

Of `AgentRuntime`:

* `ExitCodeTellsResult`: what the only process leaves in the file, by its exit code;
* `ReadsWholeResults`: with any number of processes, only whole results are collected and executed;
* `ExecutesWhatWasValidated`: so is, if agent-run was started once, what was validated;
* `CommitsStayInside`: no path of a collected commit leaves the repository;
* `AlarmIsWithinLimits`: the alarm is set, within the agent's limit and the cap of its day;
* `ToolsAreProvided`: no agent runs without the tools it names; and `EveryProcessEnds`.

## 4. Runs

| Run | Instance | Question |
|---|---|---|
| `faults` | one controller, one run, four sandboxes, one fault of each of the eight kinds | how much faults can repeat and leave behind |
| `overlap` | two controllers, one run, two sandboxes, a crash and a stale read | whether optimistic concurrency alone protects the status; refinement of the lifecycle |
| `healthy` | one controller, two runs, one with a clone, no faults but failing phases, a lost Create and a repeated Run | no run loses its sandbox, all sandboxes that a run or a call knows are destroyed |
| `liveness` | one controller, one run with a clone, one fault of each kind but deletion | the run ends |
| `branches` | two runs for the same issue or a pull request, plans with two commits, with a commit and a pull request in either order, or with a review; a push, a deleted branch, a repetition | the refinement of `BranchLog`, the audit, partial success |
| `deliveries` | two requests out of eight kinds of delivery to three repositories with seven documents, one failing call, one crash | answers, runs and losses whatever the interleaving; the refinement of `DeliveryHandling`; what is accepted is finished |
| `sandbox` | two processes, five settings that may change, four results (shorter and longer than the empty one, longer than the buffer, not valid) | the alarm against `write_result`, two writers of one file, limits, tools, termination |
| `audit`, `leak`, `unvalidated`, `pull`, `triggers` | the smallest instance that shows it | the findings of section 7 |

Bounds. `MaxFaults` bounds each kind of fault, `Sandboxes` the sandboxes, `MaxPushes`,
`MaxDeletes` and `MaxRepeats` the rest of the environment; nothing else is bounded. With four
sandboxes three more can be created than should be, so every pair and triple of the five faults that
cost one is seen with its full effect; only with more at once does the backend run out first, which
is a failing phase like any other. The results are: nothing to do, two actions, one action that
does not validate, and text that does not parse; these are all the distinctions the reconciler
makes, and `healthy` has them all. `overlap` has the two that are executed; `faults` and `liveness`
have one action for two, and no text that does not parse, which like one that does not validate only
makes a phase fail. A second run adds nothing but contention for sandboxes and for the worker, which
`healthy` has; the invariants speak of each run separately. Conflicts between two calls need two
controllers or one with a stale cache, and both are there. In `branches` two writers, a third
who pushes and a deletion are enough for every pair of accesses to a branch to meet in either
order. In `deliveries` two requests are enough, since what one request can do to another is to
replace the shared secret or client, and with three stores each, all orders of the stores and of
everything that uses them occur; the deliveries and documents cover pull requests,
comments, labels and pushes (reviews and labels of pull requests take the same ways), both tracks
of the matcher, the label rule, an author without permission, a wrong signature, the GitHub App, a token that has access to another
repository and one that has not. A failing call and a crash can hit every step; two failures in
the same request add nothing that two failures in different ones do not show. In `sandbox` a third process would do to the file what
the second does. The properties proved in section 6 do not depend on bounds at all.

Deadlock. Runs that end are followed by resyncs, so `healthy`, `overlap` and the counterexamples
check for deadlock. In `faults` and `liveness` the budget of stale reads and a deleted object
can leave nothing to do, and executions, requests and processes end, so `CHECK_DEADLOCK` is off
there and in the runs of the executor, the webhook and the sandbox.

Symmetry is used for sandboxes and controllers, and for the runs of `branches` (which all draw
from the same deliveries and plans), never with a liveness property.

## 5. Fairness

`AgentRunReconciler!Fairness`:

* `WF(Start)`: the Deployment restarts a process. `WF(CacheSync)`: watches deliver.
  `WF(Resync)`: controller-runtime resyncs periodically.
* `WF(Reconcile)`: a worker goes on with the call it is in. It assumes that each call out of the
  process ends; for agent-run the alarm in `agent_run.py` sees to it.
* `SF(Fetch)` per run: the work queue is first in, first out, so a key that is enqueued again
  and again is not passed over for ever.

There is no fairness of actions that stand for failure or for other people.

`WebhookAdapter!Fairness` is weak fairness of `Handle(q) \/ Process(q)` for each request: the Go
runtime schedules every goroutine. A request's job starts when its handler is over, so one condition
is fair to both. It assumes that each call to GitHub or the API server ends, with an answer
or an error; the client sets no timeout.

`AgentRuntime!Fairness` is weak fairness of each process's steps, and of an alarm that is set and can
go off. Nothing makes the agent return, which is what the alarm is for; `EveryProcessEnds` holds
because no process calls the model without one.

## 6. Proofs

All theorems hold for any sets of runs, controllers, sandboxes, results, plans, branches, requests,
deliveries, documents and processes and any bounds. They assume `ConstantsAssumption`,
`EventsAssumption`, `ExecutorAssumption`, `AdapterAssumption` and `RuntimeAssumption`, which say how
the constants are typed, that the special values are not elements of the sets they complete, and
that limits are positive (as `validateAgent` sees to), that the empty result fits the buffer, and
that the paths of commits are sequences of texts. Five theorems have further hypotheses, which are
named with them below. The inductive invariants were checked by TLC on small instances first.

`AgentRunReconciler_proofs`:

* `TypeCorrect`: `TypeOK` is not inductive by itself. `GetCurrentPhase` yields no phase if all
  four are True, and `Fetch` would take a program point from nowhere; so `TypeInv` adds that
  every copy of an object is `Settled`: all phases True only if it is terminal.
* `VersionsGuardCopies`: `CopiesAreVersioned` with `TypeInv` is inductive. The argument is one
  of versions: a step either leaves the object alone, or raises its version, so that all copies
  that are not made now become old, or is an update from a copy that had the version; a call
  works on its copy only by adding to it (`CallGrows`).
* `Immutability` and `Progress` follow: an accepted update comes from a copy of a run that is
  not over and contains all that the object had.

`AgentRunConsistency_proofs`, for any number of controllers:

* `Consistency`: that the object at the API server is consistent is not inductive, since updates come
  from copies of any age, in calls at any point. `StatusInv` says of each copy that it is consistent
  for the point its call has reached, and of one that still has the server's version that it differs
  from the object only by what the phase of its call adds.
* `Refinement`: with `StatusInv` before and after, each step is one of `AgentRunLifecycle` or changes
  nothing that a reader sees. Only `UpdateStatus` and the steps of other people change an object; an
  update that is accepted advances the stage by the one phase its call is in, or ends the run.
* `Isolation`, from `SandboxesOwned`: every name of a sandbox, in a status or a call's copy, is that of
  a sandbox created for this run, and after the first phase a call has the name that the status has.
* `AuditTruth`, from `AuditInv`: while Execute goes on without an error, the audit followed by what is
  left to do is the list of actions of one result, and all that is audited was performed.

`AgentRunFaults_proofs`, for one controller process (`OneController`). A fault and its cost are
several steps apart: an edit makes the copy of the call under way too old, which shows only when its
update is refused. So bounds such as these are not inductive, and the invariants count what is going
to be lost or repeated together with what has been:

* `LeaksArePaidFor`, from `LeakInv`: the sandboxes left behind, and one more while a call is doomed
  to have its update refused, are at most as many as the faults. A sandbox whose Create returned an
  error is left behind at once, and `createError` pays for it.
* `RepetitionsArePaidFor`, from `RepeatInv`: for each phase of each run, the effects so far plus those
  that its present state still allows (the run has the phase ahead of it and no call is past it, or a
  call with a current or an old copy is about to have it; agent-runs let go of count as well) are at
  most one more than the faults. A phase uses up one of what is allowed, and nothing but a fault adds
  one; an attempt of Run that is repeated lets go of an agent-run, so `retry` counts for that phase. It takes results that name no action twice (`DistinctResults`): an agent that asks twice for
  the same comment gets it twice.
* `SandboxIsKept`, from `KeepInv`, if no update is refused, lost or based on a stale read
  (`NoConflicts`): a call works on the object as it is, in a live sandbox, and one that destroys a
  sandbox has recorded the end of its run. Crashes, deletions and failing clean-ups are allowed; with
  conflicts the property is false, as the failure path destroys the sandbox whether its update was
  accepted or not (`reconciler.go:243-253`).
* `CollectedIsExecuted`, from `CollectInv`, as long as there was no crash, no failing clean-up and no
  repeated attempt of Run (`Undisturbed`): what
  a copy records of the result is what `result.json` of its sandbox holds. Nobody who has seen a
  result collected goes back to the agent's phase, since calls start from the cache and the cache
  does not go back; and an agent-run that is let go of is in a sandbox its call is about to destroy.
  Updates may be refused or lost, objects edited and deleted, caches old, and errors of Create hide
  sandboxes. Each of the three exceptions leaves an agent-run in a sandbox that lives on, where it can
  replace `result.json` between the two reads; with a repeated attempt it takes no failure at all.

`ActionExecutor_proofs`:

* `ExecutorTypeCorrect`.
* `BranchesAreLogs`: each step of the executor is a step of `BranchLog` or stutters. The invariant
  is `Forkable`: what `createIssueBranch` read of the default branch is still a prefix of it
  when it creates the branch, because all other steps let the default branch grow only.
* `AuditedCommits` and `PullsCarryCommits`, from `Placed` (a run that has committed has a head
  branch, and never looks for another one) and from the growth of branches.
* `NothingIsUnaudited`, from `CompleteInv`, which speaks also of the commits in histories that an
  execution has read: a branch that is deleted and created again can get them back.
* `EveryActionIsAccountedFor`, from `AccountInv`: the audit is as long as the number of actions
  behind, or the execution has failed.

`WebhookAdapter_proofs`:

* `WebhookTypeCorrect`. `TypeInv` types jobs more closely than `TypeOK` and adds `Agrees`: how the
  handler, the job and the runs of one request go together. There is no job before its handler is
  over with 202, the agents that are left are among the documents that were read, and no run was
  made for an agent that is still due.
* `SharedSecretIsChecked`, from `SecretInv`: a handler that has stored half of its secret finds it
  there, or is marked as overwritten; and what a read can see is a secret that somebody stored
  whole, or `Torn`, with which nothing is signed.
* `FailuresAreCaused`, from `ClientInv`: a job that is under way finds its own client, or is marked
  as overtaken.
* `WebhookImplementsHandling`: each step decides one request, makes one run, or stutters. That a run
  is made once per agent is the last part of `Agrees`.
* `OneValue`, from `ValueInv`: every text of the run in the making shows what is known or cached,
  and nothing in it is still to be fetched; so a variable that is fetched later is in no text yet.

`WebhookRuns_proofs`, all three from `RunInv`, which accounts for every document at each point of a
job: until the match, the documents passed are those read and those lost to an error; after it, what
is in progress or made into a run was selected, and what is neither lost, nor in progress, nor made
does not match (or only by its paths, when the changed files are not known).

* `NothingIsLost`: when a job is done nothing is in progress, so what is missing was lost to an error
  of its own or does not match.
* `OnlyWhatMatches`: every run is for a valid agent that matches the event as it was parsed, and for
  a comment only of somebody who may write. It has no hypotheses.
* `OnlyWhatIsAsked`, the property of the runs, compares with the delivery as GitHub sent it. Comments
  and issues have no branch in the parsed event, and the code compares the patterns of
  `on-target-branch` with the empty text (`pkg/matcher/annotation.go:64-79`, `163-172`). So it takes
  `BlankStandsForBranch`: patterns that accept the empty text accept the branch of such a delivery. A
  pattern that accepts everything does, and so does one that does not accept the empty text.

`AgentRuntime_proofs`:

* `RuntimeTypeCorrect`, `AlarmsAreBounded` and `ToolsAreThere`: `TypeInv` adds that every
  configuration was built for this run, and that a process which is past `Setup` has an alarm set to the
  run's timeout, and past `CreateAgent` a provider, which a configuration without settings has not.
* `WholeResultsAreRead`, from `ReadInv`: the file is whole only if a process returned what is in it,
  or its alarm went off.
* `ExitCodeIsRight`, from `AloneInv`: what the file holds at each point of a process that is alone.
* `ValidatedResultIsExecuted`, from `ExecuteInv` with the former: once the only process is over the
  file is what was collected.
* `CommitsStay`, for paths of any length. `path.Clean` is a fold, that is a recursive function on the
  sets of indexes of the path; `FoldExists` and `FoldUnique` show that there is exactly one, from the
  fact that a family of subsets of a finite set has a smallest member (`SmallestMember`, which takes
  the place of an induction rule). Then `DepthOfPrefixes`: after each name, either a `..` is in front
  of what is left, and stays there, or nothing in it is `..` and its length is how much deeper the path is
  than the repository. A path with a `..` in front is refused, and a length is not negative.

Every safety invariant, action property and refinement that a passing run checks is proved. The
liveness properties (`EventuallyOver`, `SandboxesAreDestroyed`, `EveryRequestIsFinished`,
`EveryProcessEnds`) are only model-checked, as fairness and `ENABLED` are out of the prover's reach,
and so are the counterexamples of section 7. `RunKeepsItsSandbox` is checked with a lost Create and a repeated Run in
`healthy` and proved with those that it survives; the counting properties are checked with results
that name no action twice, like the hypothesis of the theorem.

## 7. Findings

* `audit`: a conflict or a lost answer at the update after `Execute` makes the actions run twice;
  the audit lists them once (`reconciler.go:74`, `docs/reference/concepts.md:231`).
* `leak`: a crash between the final update and `destroySandbox` leaves the sandbox behind for
  ever (`reconciler.go:78`, `concepts.md:106`).
* `unvalidated`: with two controllers, actions can be executed that were never validated, since
  `reconcileActions` reads `result.json` again (`reconciler.go:195`, `concepts.md:134`).
* `pull`: a commit for a comment on a pull request goes to `aac/issue-N` and not to the head
  branch (`parse.go:116`, `docs/guides/writing-agents.md:291`).
* `triggers`: an agent with `on-comment` is skipped for every event that is not a comment, so the
  triage agent of the guide does not fire on new pull requests (`annotation.go:97`,
  `writing-agents.md:303`).

Besides these, while modelling we noted, without a run of its own:

* one document with a wrong version or a missing field silences all agents of the repository, which
  `NothingIsLostSilently` therefore excepts (`pkg/matcher/parse.go:40`);
* `GetFiles` has nothing for pushes, so an agent with `on-path-change` never fires on one;
* the comment "Stops at the first gap" (`instruction/resolver.go:41`) disagrees with the code and
  its test (`resolver_test.go:134`); the model follows the code;
* the settings `enabled` and `max_cost_per_run` and the token limit are carried along and enforced
  nowhere in the program;
* a success is lost if the alarm goes off after the result was written and before the process
  ends; a result that fits the buffer survives an alarm during `write_result`, a longer one does not;
* a delivery that GitHub sends again makes its runs again.

## 8. What is abstracted, and what is not modelled

Texts (bodies of comments, prompts, messages, URLs), logging, metrics and the contents of files
are left out. Patterns are the sets of texts that they match. `AgentRunReconciler` models the
phases' inputs (configuration, secrets, provider construction) by whether they succeed.

* *GitHub*: pull requests from forks are not modelled: the head branch of a pull request is a branch
  of the repository. Branch protection and a refused duplicate of a pull request are among the errors
  any call may return, so the model also has behaviours in which GitHub accepts them. Pull requests
  are never closed, and merging one is a push to its base. Lists come in one page. The two calls of
  `GetAgentDir` are one step, `GetTree`: a tree that is replaced between them is still there by its SHA.
* *Webhook*: the outer `TimeoutHandler` and signals, `TriggerAnnotations` (copied to the object) and
  errors of `ParsePayload`, which after `Detect` cannot occur, are left out. A request may be refused
  at any time before its validation, which stands for all the reasons for 200 and 500.
* *Sandbox*: only agent-run itself writes `result.json`. The agent's own tools run in the same sandbox
  (`agent_run.py:82-121`), and one that writes this file, or leaves a process behind that does, is
  not modelled. agent-run skips an MCP server without a command (`agent_run.py:175`), which
  the schema of Repositories excludes (`types.go:85`), so that no such server is modelled.
  `config.json` may be unreadable whenever a process loads it (another call may be writing it);
  otherwise the disk does not fail. Clone URLs and command lines are strings no property is about;
  the instruction that explains the result format is a constant text.
* *API types*: declarations; the deepcopy functions are generated.
* The repository reconciler and the knowledge graph are stubs in the code.

## 9. Plan

Done: the AgentRun component, the executor, the webhook with the matcher and the templates, and the
sandbox with the configuration and the rules of results; the proofs of section 6. Left, in this
order:

1. Proofs about the operators: that `GetVariables` and `ResolveText` agree on what is left to
   fetch, that a resolved limit is the least of those that apply, and what the matcher selects for
   each kind of trigger.
2. An AgentRun whose sandbox is that of `AgentRuntime`, as a refinement of `RetryRun`, the
   single step `RunAgent` and the reads of `result.json`.
3. Forks of repositories, when the provider handles them.
