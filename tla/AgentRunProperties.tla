------------------------- MODULE AgentRunProperties -------------------------
(***************************************************************************)
(* What must hold of AgentRunReconciler.  Which faults a property survives *)
(* is part of what it says: the MC configurations choose MaxFaults and the *)
(* number of controller processes accordingly.                             *)
(***************************************************************************)
EXTENDS AgentRunReconciler, FiniteSets

Terminal(r) == IsTerminal(api[r].cond)

StatusOf(obj) == <<obj.cond, obj.sandbox, obj.usage, obj.audit, obj.completed>>

\* How often a appears in an audit.
Times(a, audit) == Cardinality({i \in DOMAIN audit : audit[i] = a})

\* The sandboxes that were ever created for r.
CreatedFor(r) == {s \in Sandboxes : sandboxes[s].owner = r}

Live(s) == sandboxes[s].state = "live"

-----------------------------------------------------------------------------
\* Safety whatever the faults and however many controllers

\* The status a reader finds at the API server never contradicts itself: a
\* sandbox is named exactly when SandboxReady is True (so the branch of
\* reconcileSandbox that reconnects, reconciler.go:89-97, is never taken), the
\* completion time is set exactly when the run is terminal, Succeeded is True
\* exactly when all phases are, and usage and audit come with their phases.
StatusConsistent ==
    \A r \in Runs :
        LET o == api[r]
        IN  /\ o.sandbox # NoSandbox <=> o.cond["SandboxReady"] = "True"
            /\ o.completed <=> IsTerminal(o.cond)
            /\ o.cond["Succeeded"] = "True" <=> \A d \in Dependents : o.cond[d] = "True"
            /\ o.usage # NoResult <=> o.cond["ResultsCollected"] = "True"
            /\ o.audit # <<>> => o.cond["ActionsExecuted"] # "Unknown"

\* concepts.md:232 "Immutable after completion": no update made from a stale
\* copy, by whichever controller, changes the status of a run that is over.
ImmutableAfterCompletion ==
    [][\A r \in Runs : Terminal(r) => StatusOf(api'[r]) = StatusOf(api[r])]_vars

\* A phase that was recorded as done stays done, and the sandbox it was done
\* in stays the run's sandbox, although phases are re-executed after lost
\* updates and from stale caches (the update at reconciler.go:74 is the guard).
ProgressIsKept ==
    [][\A r \in Runs :
         /\ \A d \in Dependents : api[r].cond[d] = "True" => api'[r].cond[d] = "True"
         /\ api[r].sandbox # NoSandbox => api'[r].sandbox = api[r].sandbox]_vars

\* obj carries every phase and the sandbox that are recorded in base.
Extends(obj, base) ==
    /\ \A d \in Dependents : base.cond[d] = "True" => obj.cond[d] = "True"
    /\ base.sandbox # NoSandbox => obj.sandbox = base.sandbox

\* The points of a Reconcile call from which a status update may follow.
Writing == Points \ {"idle", "destroySandbox"}

\* Why the resource version is guard enough (reconciler.go:74 and 250): a
\* cached copy with the server's version is the server's object, and a copy a
\* call works on either has an older version, so that its update is a conflict,
\* or was made from the object as it is, which is not over, by adding to it.
CopiesAreVersioned ==
    /\ \A c \in Controllers, r \in Runs :
         /\ cache[c][r].rv <= api[r].rv
         /\ cache[c][r].rv = api[r].rv => cache[c][r] = api[r]
    /\ \A c \in Controllers :
         work[c].pc \in Writing =>
           LET obj == work[c].obj
               base == api[work[c].run]
           IN  /\ obj.rv <= base.rv
               /\ obj.rv = base.rv => ~ IsTerminal(base.cond) /\ Extends(obj, base)

InSandbox == {"AgentExecuted", "agent-run", "ResultsCollected", "ActionsExecuted", "Execute"}

\* Isolation: whatever a Reconcile call does after the first phase, it does in
\* the sandbox that was created for its run and that the run records, never in
\* one that lost the race to be recorded or that belongs to another run.
CallsUseOwnSandbox ==
    \A c \in Controllers :
        work[c].pc \in InSandbox =>
            /\ work[c].obj.sandbox \in CreatedFor(work[c].run)
            /\ work[c].obj.sandbox = api[work[c].run].sandbox

\* status.actions is true: every audited action took effect at the provider,
\* and a run that Succeeded did every action of one of the agent's results.
AuditIsTrue ==
    \A r \in Runs :
        /\ \A a \in Actions : Times(a, api[r].audit) <= performed[r][a]
        /\ api[r].cond["Succeeded"] = "True" => \E res \in Results : api[r].audit = res.actions

-----------------------------------------------------------------------------
\* Safety with one controller

\* The faults after which a phase may be executed again.
Reruns == faults["crash"] + faults["updateError"] + faults["edit"] + faults["staleRead"]

\* Every repetition is paid for by a fault: without one, a run creates one
\* sandbox, executes one agent and performs each action once.  A command that
\* the client sends again repeats the agent (agentsandbox.go:29), nothing else.
RepetitionNeedsFault ==
    \A r \in Runs :
        /\ Cardinality(CreatedFor(r)) <= 1 + Reruns
        /\ executions[r] <= 1 + Reruns + faults["retry"]
        /\ \A a \in Actions : performed[r][a] <= 1 + Reruns

\* Nothing will ever destroy s: no Reconcile call holds its name and no run
\* that is still going on records it.
Leaked(s) ==
    /\ Live(s)
    /\ \A c \in Controllers : work[c].obj.sandbox # s
    /\ ~ \E r \in Runs : Alive(r) /\ ~ Terminal(r) /\ api[r].sandbox = s

\* Every sandbox that is left behind is paid for by a fault of its own: a
\* repetition, a failed clean-up, a deleted run, or a Create whose error hides
\* the sandbox it made (reconciler.go:105-107).
LeakNeedsFault ==
    Cardinality({s \in Sandboxes : Leaked(s)})
        <= Reruns + faults["destroyError"] + faults["delete"] + faults["createError"]

\* What a run that Succeeded executed is what was collected from the agent and
\* validated, although result.json is read a second time and not validated
\* again (reconciler.go:195-203): a single controller never goes back to the
\* agent's phase once it has seen the result collected, because its cache does
\* not go back.  It takes an agent-run that nobody waits for, in a sandbox that
\* lives on, to replace the file in between: one of a call that crashed, of an
\* attempt of Run that timed out, or of a failed call whose cleanup failed, too.
ExecutesWhatWasCollected ==
    faults["crash"] + faults["destroyError"] + faults["retry"] = 0 =>
        \A r \in Runs :
            api[r].cond["Succeeded"] = "True" => api[r].audit = api[r].usage.actions

\* A run that is going on has its sandbox: the failure path, which destroys it
\* (reconciler.go:70), is only left with the failure recorded.
RunKeepsItsSandbox ==
    \A r \in Runs :
        Alive(r) /\ ~ Terminal(r) /\ api[r].sandbox # NoSandbox => Live(api[r].sandbox)

-----------------------------------------------------------------------------
\* Liveness

\* concepts.md:233: every run ends as Succeeded or Failed, unless it is deleted.
\* A failure whose update is lost is not requeued (reconciler.go:71); then only
\* the informer's resync or a restart brings the run to its end.
EventuallyOver ==
    \A r \in Runs : Alive(r) ~> (Terminal(r) \/ ~ Alive(r))

\* Somebody can ask for s to be destroyed: a Reconcile call or a run names it.
Known(s) ==
    \/ \E c \in Controllers : work[c].obj.sandbox = s
    \/ \E r \in Runs : api[r].sandbox = s

\* No known sandbox outlives its use: while nothing fails but the phases
\* themselves, destroySandbox runs on every way a run can end (reconciler.go:70
\* and 79).  What is left out is a sandbox whose Create returned an error.
SandboxesAreDestroyed == \A s \in Sandboxes : (Live(s) /\ Known(s)) ~> ~ Live(s)

-----------------------------------------------------------------------------
\* What the documentation says and faults refute

\* concepts.md:134: the controller "reads the result, validates it, executes
\* each action": an action takes effect only if some validated result asks for it.
OnlyValidatedActions ==
    \A r \in Runs, a \in Actions :
        performed[r][a] > 0 =>
            \E res \in Results : /\ res.parses /\ res.valid
                                 /\ \E i \in DOMAIN res.actions : res.actions[i] = a

\* concepts.md:231: "status.actions tracks what the agent did for audit": the
\* audit of a run that Succeeded accounts for everything that took effect.
AuditIsComplete ==
    \A r \in Runs, a \in Actions :
        api[r].cond["Succeeded"] = "True" => performed[r][a] <= Times(a, api[r].audit)

\* concepts.md:106: "Destroy - sandbox is torn down after result collection".
CollectedSandboxIsDestroyed ==
    \A r \in Runs, s \in Sandboxes :
        (api[r].cond["ResultsCollected"] = "True" /\ api[r].sandbox = s) ~> ~ Live(s)

-----------------------------------------------------------------------------
\* The controller implements the lifecycle

\* The stage a reader sees: how the run ended, or the phase it is in.
Stage(obj) ==
    CASE obj.life # "alive" -> obj.life
      [] obj.life = "alive" /\ obj.cond["Succeeded"] = "True" -> "Succeeded"
      [] obj.life = "alive" /\ obj.cond["Succeeded"] = "False" -> "Failed"
      [] OTHER -> GetCurrentPhase(obj.cond)

Lifecycle == INSTANCE AgentRunLifecycle
    WITH stage <- [r \in Runs |-> Stage(api[r])],
         sandbox <- [r \in Runs |-> api[r].sandbox],
         audit <- [r \in Runs |-> api[r].audit]

\* concepts.md:226-233: what is observable of an AgentRun at the API server is
\* a behaviour of the lifecycle, whatever the controllers do and lose.
ImplementsLifecycle == Lifecycle!Spec

=============================================================================
