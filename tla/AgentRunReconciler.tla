------------------------- MODULE AgentRunReconciler -------------------------
(***************************************************************************)
(* The AgentRun controller: one or more controller processes drive every   *)
(* AgentRun object through its phases, each phase being one call of        *)
(* Reconcile that reads the object from an informer cache, talks to the    *)
(* run's sandbox and to the git provider, and writes the status back under *)
(* optimistic concurrency.                                                 *)
(*                                                                         *)
(* Models pkg/reconciler/agentrun/reconciler.go (and, at the level of      *)
(* "which effects happen, which call fails", clone.go, the configuration   *)
(* builder, the result parser and the action executor that it calls).  The *)
(* API server, the informer, the work queue and the sandbox backend are    *)
(* external: modelled from how the reconciler and cmd/controller use them. *)
(***************************************************************************)
EXTENDS AgentRunStatus, Sequences

CONSTANTS
    Runs,           \* the AgentRun objects
    CloneRuns,      \* those annotated agent.tekton.dev/clone-repo: "true"
    Controllers,    \* controller processes; two overlap during a rolling update
    Sandboxes,      \* the names the sandbox backend can hand out (its quota)
    Actions,        \* git actions an agent may ask for
    Results,        \* the values result.json may hold
    NoRun, NoSandbox, NoResult,
    MaxFaults       \* how often each kind of fault may happen

FaultKinds == {"crash",       \* a controller process dies
               "updateError", \* the API server's answer to an update is lost
               "destroyError",\* a sandbox cannot be fetched or deleted
               "edit",        \* somebody else updates the AgentRun object
               "delete",      \* somebody deletes the AgentRun object
               "staleRead",   \* Reconcile starts from an outdated cache entry
               "createError", \* Create returns an error, but the claim was made
               "retry"}       \* an attempt of Run times out and is made again

ASSUME ConstantsAssumption ==
    /\ CloneRuns \subseteq Runs
    /\ Results \subseteq [parses : BOOLEAN, valid : BOOLEAN, actions : Seq(Actions)]
    /\ NoRun \notin Runs
    /\ NoSandbox \notin Sandboxes
    /\ NoResult \notin Results
    /\ MaxFaults \in [FaultKinds -> Nat]

VARIABLES
    api,        \* the AgentRun objects at the API server
    cache,      \* each controller's informer cache
    queue,      \* each controller's work queue
    work,       \* the Reconcile call each controller is in, if any
    up,         \* whether each controller process is running
    sandboxes,  \* the sandboxes of the backend
    performed,  \* history: how often each action of a run took effect
    executions, \* history: how often agent-run was run for a run
    faults      \* history: how many faults of each kind there were

vars == <<api, cache, queue, work, up, sandboxes, performed, executions, faults>>

-----------------------------------------------------------------------------
\* State

\* An AgentRun: resource version, conditions, and the status fields that the
\* reconciler writes.  usage stands for tokensUsed and costUSD, by the result
\* they were copied from; completed for completionTime.
Objects == [life : {"unborn", "alive", "deleted"}, rv : Nat, cond : Conditions,
            sandbox : Sandboxes \cup {NoSandbox}, usage : Results \cup {NoResult},
            audit : Seq(Actions), completed : BOOLEAN]

Unborn == [life |-> "unborn", rv |-> 0, cond |-> NoConditions, sandbox |-> NoSandbox,
           usage |-> NoResult, audit |-> <<>>, completed |-> FALSE]

\* Where a Reconcile call stands.  The first four are the phases themselves.
Points == Dependents \cup {"agent-run", "Execute", "UpdateStatus", "markFailed",
                           "destroySandbox", "idle"}

\* A Reconcile call: the in-memory copy of the object, and the actions that
\* Execute still has to do and whether one failed.
Work == [pc : Points, run : Runs \cup {NoRun}, obj : Objects, todo : Seq(Actions),
         failed : BOOLEAN]

Idle == [pc |-> "idle", run |-> NoRun, obj |-> Unborn, todo |-> <<>>, failed |-> FALSE]

\* A sandbox: whom it was created for, whether the repository was cloned into
\* it, its result.json, and how many agent-run processes go on in it although
\* nobody waits for them.
SandboxStates == [state : {"free", "live", "destroyed"}, owner : Runs \cup {NoRun},
                  cloned : BOOLEAN, result : Results \cup {NoResult}, stragglers : Nat]

Init ==
    /\ api = [r \in Runs |-> Unborn]
    /\ cache = [c \in Controllers |-> api]
    /\ queue = [c \in Controllers |-> {}]
    /\ work = [c \in Controllers |-> Idle]
    /\ up = [c \in Controllers |-> FALSE]
    /\ sandboxes = [s \in Sandboxes |->
                      [state |-> "free", owner |-> NoRun, cloned |-> FALSE,
                       result |-> NoResult, stragglers |-> 0]]
    /\ performed = [r \in Runs |-> [a \in Actions |-> 0]]
    /\ executions = [r \in Runs |-> 0]
    /\ faults = [k \in FaultKinds |-> 0]

TypeOK ==
    /\ api \in [Runs -> Objects]
    /\ cache \in [Controllers -> [Runs -> Objects]]
    /\ queue \in [Controllers -> SUBSET Runs]
    /\ work \in [Controllers -> Work]
    /\ \A c \in Controllers : work[c].pc # "idle" => work[c].run \in Runs
    /\ up \in [Controllers -> BOOLEAN]
    /\ sandboxes \in [Sandboxes -> SandboxStates]
    /\ performed \in [Runs -> [Actions -> Nat]]
    /\ executions \in [Runs -> Nat]
    /\ faults \in [FaultKinds -> Nat]

-----------------------------------------------------------------------------
\* Helpers

Spend(kind) ==
    /\ faults[kind] < MaxFaults[kind]
    /\ faults' = [faults EXCEPT ![kind] = @ + 1]

Alive(r) == api[r].life = "alive"

Enqueue(c, r) == queue' = [queue EXCEPT ![c] = @ \cup {r}]

Goto(c, pc, obj) == work' = [work EXCEPT ![c].pc = pc, ![c].obj = obj]

Return(c) == work' = [work EXCEPT ![c] = Idle]

\* sandboxRuntime.Get finds a sandbox that was created and not deleted.
Reachable(s) == s \in Sandboxes /\ sandboxes[s].state = "live"

\* The command in s goes on, but nobody waits for it any more.
Abandon(s) == sandboxes' = [sandboxes EXCEPT ![s].stragglers = @ + 1]

\* Mutant: the completion time of a failed run is not set.
MarkFailedObjectNoCompletion(obj) ==
    [obj EXCEPT !.cond = MarkFalse(@, GetCurrentPhase(@))]

\* The in-memory half of markFailed: the current phase and Succeeded are False.
MarkFailedObject(obj) ==
    [obj EXCEPT !.cond = MarkFalse(@, GetCurrentPhase(@)), !.completed = TRUE]

Fail(c) == Goto(c, "markFailed", MarkFailedObject(work[c].obj))

PhaseDone(c, obj, phase) == Goto(c, "UpdateStatus", [obj EXCEPT !.cond = MarkTrue(@, phase)])

Succeed(obj) ==
    [obj EXCEPT !.cond = MarkTrue(MarkTrue(@, "ActionsExecuted"), "Succeeded"),
                !.completed = TRUE]

-----------------------------------------------------------------------------
\* The API server and the informer

\* The webhook adapter creates the object.
CreateAgentRun(r) ==
    /\ api[r].life = "unborn"
    /\ api' = [api EXCEPT ![r].life = "alive", ![r].rv = @ + 1]
    /\ UNCHANGED <<cache, queue, work, up, sandboxes, performed, executions, faults>>

\* Somebody edits the object's metadata: only the resource version changes.
EditAgentRun(r) ==
    /\ Alive(r)
    /\ Spend("edit")
    /\ api' = [api EXCEPT ![r].rv = @ + 1]
    /\ UNCHANGED <<cache, queue, work, up, sandboxes, performed, executions>>

\* Somebody deletes the object: there is no finalizer.
DeleteAgentRun(r) ==
    /\ Alive(r)
    /\ Spend("delete")
    /\ api' = [api EXCEPT ![r].life = "deleted", ![r].rv = @ + 1]
    /\ UNCHANGED <<cache, queue, work, up, sandboxes, performed, executions>>

\* A watch event updates the cache and enqueues the key.
CacheSync(c, r) ==
    /\ up[c]
    /\ cache[c][r] # api[r]
    /\ cache' = [cache EXCEPT ![c][r] = api[r]]
    /\ Enqueue(c, r)
    /\ UNCHANGED <<api, work, up, sandboxes, performed, executions, faults>>

\* The informer's periodic resync enqueues everything it holds.
Resync(c) ==
    LET held == {r \in Runs : cache[c][r].life = "alive"}
    IN  /\ up[c]
        /\ ~ held \subseteq queue[c]
        /\ queue' = [queue EXCEPT ![c] = @ \cup held]
        /\ UNCHANGED <<api, cache, work, up, sandboxes, performed, executions, faults>>

\* A process starts with a fresh list of the objects, all of them enqueued.
Start(c) ==
    /\ ~ up[c]
    /\ up' = [up EXCEPT ![c] = TRUE]
    /\ cache' = [cache EXCEPT ![c] = api]
    /\ queue' = [queue EXCEPT ![c] = {r \in Runs : Alive(r)}]
    /\ UNCHANGED <<api, work, sandboxes, performed, executions, faults>>

\* A process dies (or is told to stop, which cancels every call it is in):
\* the queue and the Reconcile call are gone, an agent-run it waits for is not.
Crash(c) ==
    /\ up[c]
    /\ Spend("crash")
    /\ up' = [up EXCEPT ![c] = FALSE]
    /\ queue' = [queue EXCEPT ![c] = {}]
    /\ Return(c)
    /\ IF work[c].pc = "agent-run" /\ Reachable(work[c].obj.sandbox)
         THEN Abandon(work[c].obj.sandbox)
         ELSE UNCHANGED sandboxes
    /\ UNCHANGED <<api, cache, performed, executions>>

\* Mutant: the last writer wins.
AcceptedWithoutVersion(c) == Alive(work[c].run)

\* A status update is accepted for the version it was made from, and answers
\* with the new version; otherwise it is a conflict (or the object is gone).
Accepted(c) == Alive(work[c].run) /\ api[work[c].run].rv = work[c].obj.rv

NewVersion(obj) == [obj EXCEPT !.rv = @ + 1]

\* Mutant: the object is updated, but its status subresource is not.
StoreWithoutStatus(c) == api' = [api EXCEPT ![work[c].run].rv = @ + 1]

Store(c) == api' = [api EXCEPT ![work[c].run] = NewVersion(work[c].obj)]

-----------------------------------------------------------------------------
\* Reconcile

\* Mutant: a terminal run is worked on like any other.
FetchTerminal(c, r) ==
    LET obj == cache[c][r]
    IN  /\ up[c] /\ work[c].pc = "idle" /\ r \in queue[c]
        /\ IF obj = api[r] THEN UNCHANGED faults ELSE Spend("staleRead")
        /\ queue' = [queue EXCEPT ![c] = @ \ {r}]
        /\ work' = IF obj.life # "alive" \/ GetCurrentPhase(obj.cond) = "Succeeded"
                     THEN work
                     ELSE [work EXCEPT ![c] = [Idle EXCEPT !.pc = GetCurrentPhase(obj.cond),
                                                           !.run = r, !.obj = obj]]
        /\ UNCHANGED <<api, cache, up, sandboxes, performed, executions>>

\* Read the object from the cache.  A missing or a terminal one ends the call;
\* any other is worked on at its current phase.
Fetch(c, r) ==
    LET obj == cache[c][r]
    IN  /\ up[c] /\ work[c].pc = "idle" /\ r \in queue[c]
        /\ IF obj = api[r] THEN UNCHANGED faults ELSE Spend("staleRead")
        /\ queue' = [queue EXCEPT ![c] = @ \ {r}]
        /\ work' = IF obj.life # "alive" \/ IsTerminal(obj.cond)
                     THEN work
                     ELSE [work EXCEPT ![c] = [Idle EXCEPT !.pc = GetCurrentPhase(obj.cond),
                                                           !.run = r, !.obj = obj]]
        /\ UNCHANGED <<api, cache, up, sandboxes, performed, executions>>

\* Every early return of a phase that has changed nothing: a sandbox that cannot
\* be created or found, a missing Repository, secret or result file, a result
\* that does not parse or validate, a clone that fails (one that was made all
\* the same only makes a later attempt fail here, too), ...  The errors that
\* hide an effect are CreateLost for Create and LoseAgent for Run.
PhaseError(c) ==
    /\ work[c].pc \in Dependents \cup {"agent-run"}
    /\ Fail(c)
    /\ UNCHANGED <<api, cache, queue, up, sandboxes, performed, executions, faults>>

\* reconcileSandbox: reconnect to the recorded sandbox, or create one.
ReconcileSandbox(c) ==
    LET obj == work[c].obj
    IN  /\ work[c].pc = "SandboxReady"
        /\ IF obj.sandbox # NoSandbox
             THEN /\ Reachable(obj.sandbox)
                  /\ PhaseDone(c, obj, "SandboxReady")
                  /\ UNCHANGED sandboxes
             ELSE \E s \in Sandboxes :
                    /\ sandboxes[s].state = "free"
                    /\ sandboxes' = [sandboxes EXCEPT ![s].state = "live",
                                                      ![s].owner = work[c].run]
                    /\ PhaseDone(c, [obj EXCEPT !.sandbox = s], "SandboxReady")
        /\ UNCHANGED <<api, cache, queue, up, performed, executions, faults>>

\* Create returns an error although the claim was made (its answer is lost, or
\* the sandbox is not ready in time).  The handle is dropped with the error, so
\* that nobody ever learns the name of the sandbox.
CreateLost(c) ==
    /\ work[c].pc = "SandboxReady" /\ work[c].obj.sandbox = NoSandbox
    /\ Spend("createError")
    /\ \E s \in Sandboxes :
         /\ sandboxes[s].state = "free"
         /\ sandboxes' = [sandboxes EXCEPT ![s].state = "live", ![s].owner = work[c].run]
    /\ Fail(c)
    /\ UNCHANGED <<api, cache, queue, up, performed, executions>>

\* reconcileAgent up to Run: clone when asked to (git refuses a directory that
\* is already there), build and write the configuration.
PrepareAgent(c) ==
    LET s == work[c].obj.sandbox
    IN  /\ work[c].pc = "AgentExecuted"
        /\ Reachable(s)
        /\ work[c].run \in CloneRuns => ~ sandboxes[s].cloned
        /\ sandboxes' = [sandboxes EXCEPT ![s].cloned = @ \/ work[c].run \in CloneRuns]
        /\ Goto(c, "agent-run", work[c].obj)
        /\ UNCHANGED <<api, cache, queue, up, performed, executions, faults>>

\* The rest of reconcileAgent: the attempt of Run that is answered.  agent-run
\* replaces result.json; it may exit with an error, or its exit may not be heard
\* of.  The attempts before it are RetryRun.
RunAgent(c) ==
    LET s == work[c].obj.sandbox
    IN  /\ work[c].pc = "agent-run"
        /\ Reachable(s)
        /\ executions' = [executions EXCEPT ![work[c].run] = @ + 1]
        /\ \E res \in Results : sandboxes' = [sandboxes EXCEPT ![s].result = res]
        /\ PhaseDone(c, work[c].obj, "AgentExecuted") \/ Fail(c)
        /\ UNCHANGED <<api, cache, queue, up, performed, faults>>

\* An attempt of Run times out (PerAttemptTimeout) and the client sends the
\* command again, within the same call (RequestTimeout): nothing stops the
\* agent-run of the first attempt, which nobody waits for any more.
RetryRun(c) ==
    LET s == work[c].obj.sandbox
    IN  /\ work[c].pc = "agent-run"
        /\ Reachable(s)
        /\ Spend("retry")
        /\ Abandon(s)
        /\ UNCHANGED <<api, cache, queue, work, up, performed, executions>>

\* The call to the sandbox fails while the command goes on.
LoseAgent(c) ==
    LET s == work[c].obj.sandbox
    IN  /\ work[c].pc = "agent-run"
        /\ Reachable(s)
        /\ Abandon(s)
        /\ Fail(c)
        /\ UNCHANGED <<api, cache, queue, up, performed, executions, faults>>

\* An agent-run that nobody waits for replaces result.json.
StragglerEnds(s) ==
    /\ Reachable(s) /\ sandboxes[s].stragglers > 0
    /\ executions' = [executions EXCEPT ![sandboxes[s].owner] = @ + 1]
    /\ \E res \in Results : sandboxes' = [sandboxes EXCEPT ![s].result = res,
                                                          ![s].stragglers = @ - 1]
    /\ UNCHANGED <<api, cache, queue, work, up, performed, faults>>

\* reconcileResults: read, parse and validate the result.
ReconcileResults(c) ==
    LET obj == work[c].obj
    IN  /\ work[c].pc = "ResultsCollected"
        /\ Reachable(obj.sandbox)
        /\ \E res \in Results :
             /\ res = sandboxes[obj.sandbox].result
             /\ res.parses /\ res.valid
             /\ PhaseDone(c, [obj EXCEPT !.usage = res], "ResultsCollected")
        /\ UNCHANGED <<api, cache, queue, up, sandboxes, performed, executions, faults>>

\* reconcileActions up to Execute: read and parse the result again.
ReconcileActions(c) ==
    LET obj == work[c].obj
    IN  /\ work[c].pc = "ActionsExecuted"
        /\ Reachable(obj.sandbox)
        /\ \E res \in Results :
             /\ res = sandboxes[obj.sandbox].result
             /\ res.parses
             /\ IF res.actions = <<>>
                  THEN Goto(c, "UpdateStatus", Succeed(obj))
                  ELSE work' = [work EXCEPT ![c].pc = "Execute",
                                            ![c].obj = [obj EXCEPT !.audit = <<>>],
                                            ![c].todo = res.actions,
                                            ![c].failed = FALSE]
        /\ UNCHANGED <<api, cache, queue, up, sandboxes, performed, executions, faults>>

\* Mutant: an action that failed is audited all the same.
ExecuteActionAuditsAll(c) ==
    LET w == work[c]
        a == Head(w.todo)
    IN  /\ w.pc = "Execute" /\ w.todo # <<>>
        /\ \E took, ok \in BOOLEAN :
             /\ ok => took
             /\ performed' = [performed EXCEPT ![w.run][a] = IF took THEN @ + 1 ELSE @]
             /\ work' = [work EXCEPT ![c].todo = Tail(@),
                                     ![c].obj.audit = Append(@, a),
                                     ![c].failed = @ \/ ~ ok]
        /\ UNCHANGED <<api, cache, queue, up, sandboxes, executions, faults>>

\* One iteration of Execute's loop.  An action takes effect and is audited, or
\* fails and is not; a failed one may have taken effect (the answer was lost).
ExecuteAction(c) ==
    LET w == work[c]
        a == Head(w.todo)
    IN  /\ w.pc = "Execute" /\ w.todo # <<>>
        /\ \E took, ok \in BOOLEAN :
             /\ ok => took
             /\ performed' = [performed EXCEPT ![w.run][a] = IF took THEN @ + 1 ELSE @]
             /\ work' = [work EXCEPT ![c].todo = Tail(@),
                                     ![c].obj.audit = IF ok THEN Append(@, a) ELSE @,
                                     ![c].failed = @ \/ ~ ok]
        /\ UNCHANGED <<api, cache, queue, up, sandboxes, executions, faults>>

\* Mutant: the errors Execute collected are dropped.
FinishExecuteIgnoresErrors(c) ==
    /\ work[c].pc = "Execute" /\ work[c].todo = <<>>
    /\ Goto(c, "UpdateStatus", Succeed(work[c].obj))
    /\ UNCHANGED <<api, cache, queue, up, sandboxes, performed, executions, faults>>

\* The end of Execute and of reconcileActions.
FinishExecute(c) ==
    /\ work[c].pc = "Execute" /\ work[c].todo = <<>>
    /\ IF work[c].failed THEN Fail(c) ELSE Goto(c, "UpdateStatus", Succeed(work[c].obj))
    /\ UNCHANGED <<api, cache, queue, up, sandboxes, performed, executions, faults>>

\* Mutant: a run that Succeeded is not cleaned up.
UpdateStatusNoCleanup(c) ==
    /\ work[c].pc = "UpdateStatus"
    /\ Accepted(c)
    /\ Store(c)
    /\ Return(c)
    /\ IF IsTerminal(work[c].obj.cond) THEN UNCHANGED queue ELSE Enqueue(c, work[c].run)
    /\ UNCHANGED <<cache, up, sandboxes, performed, executions, faults>>

\* The status update after a phase that succeeded, answered with success: a
\* terminal run goes on to clean up, any other is requeued.
UpdateStatus(c) ==
    /\ work[c].pc = "UpdateStatus"
    /\ Accepted(c)
    /\ Store(c)
    /\ IF IsTerminal(work[c].obj.cond)
         THEN Goto(c, "destroySandbox", NewVersion(work[c].obj)) /\ UNCHANGED queue
         ELSE Return(c) /\ Enqueue(c, work[c].run)
    /\ UNCHANGED <<cache, up, sandboxes, performed, executions, faults>>

\* The same update, answered with an error: a conflict, or a call that failed
\* with or without having been applied.  The key is requeued, nothing undone.
UpdateStatusError(c) ==
    /\ work[c].pc = "UpdateStatus"
    /\ \/ ~ Accepted(c) /\ UNCHANGED <<api, faults>>
       \/ Spend("updateError") /\ (UNCHANGED api \/ (Accepted(c) /\ Store(c)))
    /\ Return(c)
    /\ Enqueue(c, work[c].run)
    /\ UNCHANGED <<cache, up, sandboxes, performed, executions>>

\* Mutant: the failure is never written back.
MarkFailedNoUpdate(c) ==
    /\ work[c].pc = "markFailed"
    /\ Goto(c, "destroySandbox", work[c].obj)
    /\ UNCHANGED <<api, cache, queue, up, sandboxes, performed, executions, faults>>

\* markFailed's update: its error is logged, and the call goes on either way.
MarkFailed(c) ==
    /\ work[c].pc = "markFailed"
    /\ \/ Accepted(c) /\ Store(c) /\ UNCHANGED faults
       \/ ~ Accepted(c) /\ UNCHANGED <<api, faults>>
       \/ Spend("updateError") /\ (UNCHANGED api \/ (Accepted(c) /\ Store(c)))
    /\ Goto(c, "destroySandbox", work[c].obj)
    /\ UNCHANGED <<cache, queue, up, sandboxes, performed, executions>>

\* destroySandbox: delete the sandbox named in the in-memory object, once; an
\* error is logged.  Reconcile then returns without requeueing.
DestroySandbox(c) ==
    LET s == work[c].obj.sandbox
    IN  /\ work[c].pc = "destroySandbox"
        /\ \/ /\ Reachable(s)
              /\ sandboxes' = [sandboxes EXCEPT ![s].state = "destroyed"]
              /\ UNCHANGED faults
           \/ ~ Reachable(s) /\ UNCHANGED <<sandboxes, faults>>
           \/ Reachable(s) /\ Spend("destroyError") /\ UNCHANGED sandboxes
        /\ Return(c)
        /\ UNCHANGED <<api, cache, queue, up, performed, executions>>

-----------------------------------------------------------------------------

Environment ==
    \/ \E r \in Runs : CreateAgentRun(r) \/ EditAgentRun(r) \/ DeleteAgentRun(r)
    \/ \E c \in Controllers : Crash(c)
    \/ \E s \in Sandboxes : StragglerEnds(s)

Informer(c) == Start(c) \/ Resync(c) \/ \E r \in Runs : CacheSync(c, r)

Phase(c) ==
    \/ PhaseError(c) \/ ReconcileSandbox(c) \/ PrepareAgent(c) \/ RunAgent(c) \/ LoseAgent(c)
    \/ ReconcileResults(c) \/ ReconcileActions(c) \/ ExecuteAction(c) \/ FinishExecute(c)

\* Calls to the sandbox backend of which the controller does not learn the effect.
LostCall(c) == CreateLost(c) \/ RetryRun(c)

Reconcile(c) ==
    \/ \E r \in Runs : Fetch(c, r)
    \/ Phase(c) \/ LostCall(c)
    \/ UpdateStatus(c) \/ UpdateStatusError(c) \/ MarkFailed(c) \/ DestroySandbox(c)

Next == Environment \/ \E c \in Controllers : Informer(c) \/ Reconcile(c)

Spec == Init /\ [][Next]_vars

\* What the scheduling justifies: a process that is down is restarted by its
\* Deployment, a watch delivers, a resync comes round, a worker goes on with
\* the call it is in (agent-run itself ends by its alarm), and the work queue,
\* which is first in first out, comes to every key.
Fairness ==
    \A c \in Controllers :
        /\ WF_vars(Start(c))
        /\ WF_vars(Resync(c))
        /\ WF_vars(Reconcile(c))
        /\ \A r \in Runs : WF_vars(CacheSync(c, r)) /\ SF_vars(Fetch(c, r))

FairSpec == Spec /\ Fairness

=============================================================================
