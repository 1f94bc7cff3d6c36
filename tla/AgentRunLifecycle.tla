-------------------------- MODULE AgentRunLifecycle --------------------------
(***************************************************************************)
(* What an AgentRun promises to whoever reads it from the API server: it   *)
(* is created, moves through the phases one at a time and never back, gets *)
(* one sandbox and keeps it, and ends once, as Succeeded or Failed, with   *)
(* the audit of what was done; after that nothing of it changes any more.  *)
(*                                                                         *)
(* The stages are the phases of pkg/reconciler/agentrun/conditions.go; the *)
(* promises are those the AgentRun section of docs/reference/concepts.md   *)
(* lists.  Controllers, caches, queues and sandboxes are not part of it.   *)
(***************************************************************************)
EXTENDS Sequences

CONSTANTS Runs, Sandboxes, NoSandbox, Actions

VARIABLES stage, sandbox, audit

lifecycleVars == <<stage, sandbox, audit>>

\* The stage after a phase that succeeded.
Following == [SandboxReady |-> "AgentExecuted",
              AgentExecuted |-> "ResultsCollected",
              ResultsCollected |-> "ActionsExecuted",
              ActionsExecuted |-> "Succeeded"]

Init ==
    /\ stage = [r \in Runs |-> "unborn"]
    /\ sandbox = [r \in Runs |-> NoSandbox]
    /\ audit = [r \in Runs |-> <<>>]

Running(r) == stage[r] \in DOMAIN Following

\* Only the entry of r may change, to a value of S.
Settles(f, r, S) == f'[r] \in S /\ f' = [f EXCEPT ![r] = f'[r]]

Create(r) ==
    /\ stage[r] = "unborn"
    /\ stage' = [stage EXCEPT ![r] = "SandboxReady"]
    /\ UNCHANGED <<sandbox, audit>>

\* A phase succeeds: the first one chooses the sandbox, the last the audit.
Advance(r) ==
    /\ Running(r)
    /\ stage' = [stage EXCEPT ![r] = Following[stage[r]]]
    /\ IF stage[r] = "SandboxReady" THEN Settles(sandbox, r, Sandboxes) ELSE UNCHANGED sandbox
    /\ IF stage[r] = "ActionsExecuted" THEN Settles(audit, r, Seq(Actions)) ELSE UNCHANGED audit

\* A phase fails; only failing actions leave an audit.
FailRun(r) ==
    /\ Running(r)
    /\ stage' = [stage EXCEPT ![r] = "Failed"]
    /\ UNCHANGED sandbox
    /\ IF stage[r] = "ActionsExecuted" THEN Settles(audit, r, Seq(Actions)) ELSE UNCHANGED audit

Delete(r) ==
    /\ stage[r] \notin {"unborn", "deleted"}
    /\ stage' = [stage EXCEPT ![r] = "deleted"]
    /\ UNCHANGED <<sandbox, audit>>

Next == \E r \in Runs : Create(r) \/ Advance(r) \/ FailRun(r) \/ Delete(r)

Spec == Init /\ [][Next]_lifecycleVars

=============================================================================
