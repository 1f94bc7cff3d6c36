--------------------------- MODULE AgentRunStatus ---------------------------
(***************************************************************************)
(* The status conditions of an AgentRun, and the two questions the         *)
(* reconciler asks of them: is the run over, and which phase comes next.   *)
(*                                                                         *)
(* Models pkg/reconciler/agentrun/conditions.go.  The condition manager is *)
(* the batch condition set of knative.dev/pkg/apis; its rules are modelled *)
(* from the calls the reconciler makes of it and marked external.          *)
(*                                                                         *)
(* A condition that has never been set is written "Unknown": the manager   *)
(* and GetCurrentPhase treat the two alike.                                *)
(***************************************************************************)
EXTENDS Integers

\* The sub-conditions, in the order the reconciler works through them.
Phases == <<"SandboxReady", "AgentExecuted", "ResultsCollected", "ActionsExecuted">>

Dependents == {Phases[i] : i \in 1..4}

ConditionTypes == Dependents \cup {"Succeeded"}

ConditionValues == {"Unknown", "True", "False"}

Conditions == [ConditionTypes -> ConditionValues]

\* The conditions of an AgentRun whose status was never written.
NoConditions == [t \in ConditionTypes |-> "Unknown"]

-----------------------------------------------------------------------------

\* What the manager derives for Succeeded when condition t was set to True: a
\* False dependent wins over an Unknown one, and an Unknown one over True.
Happiness(cond, t) ==
    LET values == {cond[d] : d \in Dependents}
    IN  IF "False" \in values THEN "False"
        ELSE IF "Unknown" \in values THEN "Unknown"
        ELSE IF t = "Succeeded" THEN cond["Succeeded"]
        ELSE "True"

\* MarkTrue(t): set t, then recompute Succeeded.
MarkTrue(cond, t) ==
    LET set == [cond EXCEPT ![t] = "True"]
    IN  [set EXCEPT !["Succeeded"] = Happiness(set, t)]

\* MarkFalse(t) of a dependent also sets Succeeded to False.
MarkFalse(cond, t) == [cond EXCEPT ![t] = "False", !["Succeeded"] = "False"]

-----------------------------------------------------------------------------

\* Mutant: a run that Succeeded does not count as over.
IsTerminalOnlyIfFailed(cond) == cond["Succeeded"] = "False"

\* The run is over once its top-level condition is True or False.
IsTerminal(cond) == cond["Succeeded"] \in {"True", "False"}

\* The first sub-condition that is not yet True, or Succeeded.
GetCurrentPhase(cond) ==
    IF \A d \in Dependents : cond[d] = "True"
      THEN "Succeeded"
      ELSE Phases[CHOOSE i \in 1..4 : /\ cond[Phases[i]] # "True"
                                      /\ \A j \in 1..(i - 1) : cond[Phases[j]] = "True"]

=============================================================================
