----------------------------- MODULE MCAgentRun -----------------------------
(***************************************************************************)
(* Instances of AgentRunReconciler for TLC.                                *)
(***************************************************************************)
EXTENDS AgentRunProperties, TLC

CONSTANTS a1, a2, rogue

MCActions == {a1, a2, rogue}

MCEmpty == [parses |-> TRUE, valid |-> TRUE, actions |-> <<>>]

\* Results an agent may leave: nothing to do, two actions, one action that does
\* not validate, and text that does not parse.
MCResults == {MCEmpty,
              [parses |-> TRUE, valid |-> TRUE, actions |-> <<a1, a2>>],
              [parses |-> TRUE, valid |-> FALSE, actions |-> <<rogue>>],
              [parses |-> FALSE, valid |-> FALSE, actions |-> <<>>]}

\* Only those that are executed, for the instance with two controllers.
MCExecutable == {MCEmpty, [parses |-> TRUE, valid |-> TRUE, actions |-> <<a1, a2>>]}

\* One action at most, for the instances with many faults.
MCFewResults == {MCEmpty,
                 [parses |-> TRUE, valid |-> TRUE, actions |-> <<a1>>],
                 [parses |-> TRUE, valid |-> FALSE, actions |-> <<rogue>>]}

\* Budgets of faults: at most one of each of these kinds.
Upto(kinds) == [k \in FaultKinds |-> IF k \in kinds THEN 1 ELSE 0]

None == Upto({})
Each == Upto(FaultKinds)
AllButDelete == Upto(FaultKinds \ {"delete"})
CrashAndStaleRead == Upto({"crash", "staleRead"})
OnlyCrash == Upto({"crash"})
OnlyEdit == Upto({"edit"})
OnlyCalls == Upto({"createError", "retry"})

\* Sandbox names are interchangeable, and so are controllers.
Symmetry == Permutations(Sandboxes) \cup Permutations(Controllers)

=============================================================================
