----------------------------- MODULE MCRuntime -----------------------------
(***************************************************************************)
(* An instance of AgentRuntime for TLC.                                    *)
(***************************************************************************)
EXTENDS RuntimeProperties, TLC

Ref(name, key) == [name |-> name, key |-> key]
Variable(value, secret) == [value |-> value, secret |-> secret, configMap |-> NoRef]

MCStore == Ref("llm", "api-key") :> "key"

Catalog == "github" :> ("TOKEN" :> Variable("", Ref("llm", "api-key")) @@ "MODE" :> Variable("fast", NoRef))

AI(cap) == [provider |-> "openai", secret |-> Ref("llm", ""), maxTokens |-> 0, maxTimeout |-> cap]

\* Settings with a cap below what the agent asks for, without one, without the
\* server that the agent names, and without an AI section; and no settings.
MCSettings == {[ai |-> AI(1), catalog |-> Catalog], [ai |-> AI(0), catalog |-> Catalog],
               [ai |-> AI(2), catalog |-> <<>>], [ai |-> NoAI, catalog |-> Catalog],
               NoSettings}

\* The sandbox has a key of its own.
MCEnvironment == "LLM_API_KEY" :> "own"

MCLimits == {[tokens |-> 5, timeout |-> 2]}

CommitTo(path) == <<[type |-> "commit", message |-> "m", files |-> {path}]>>

\* Results without an action (shorter than the empty one), with one, and
\* commits, of which the longer one escapes from the repository.
Terse == [actions |-> <<>>, cost |-> ""]
Nothing == [actions |-> <<>>, cost |-> "0.00"]
Remark == [actions |-> <<[type |-> "comment", body |-> "b"]>>, cost |-> ""]
Change == [actions |-> CommitTo(<<"a", "..", "b">>), cost |-> ""]
Escape == [actions |-> CommitTo(<<"a", "..", "..", "b">>), cost |-> ""]

MCOutputs == {Terse, Remark, Change, Escape}
MCLength == Terse :> 1 @@ Nothing :> 2 @@ Remark :> 3 @@ Change :> 5 @@ Escape :> 6

=============================================================================
