--------------------------- MODULE RuntimeConfig ---------------------------
(***************************************************************************)
(* From the Repository's settings to what an agent runs with: the limits   *)
(* that the adapter gives an AgentRun, config.json as the reconciler       *)
(* builds it, and what agent-run makes of it.                              *)
(*                                                                         *)
(* Models resolveLimits of pkg/adapter/adapter.go,                         *)
(* pkg/reconciler/agentrun/config.go and the configuration helpers of      *)
(* runtime/agent_run.py.  Left out: what is only copied (prompt,           *)
(* instructions, model name and parameters, base URL, arguments) and how   *)
(* the model library gets the key.                                         *)
(***************************************************************************)
EXTENDS Integers

CONSTANTS
    NoText,         \* the empty string
    NoSettings,     \* a Repository without settings
    NoAI,           \* settings without an AI section
    NoRef,          \* no reference to a Secret or ConfigMap
    Failed,         \* the value of what could not be resolved
    Store,          \* the values of the keys of Secrets and ConfigMaps that exist
    Environment     \* the value of each environment variable of the sandbox

HasAI(s) == s # NoSettings /\ s.ai # NoAI

-----------------------------------------------------------------------------
\* Limits

\* Mutant: a cap that is not set is a cap.
CapUnset(limit, cap) == IF limit = 0 \/ limit > cap THEN cap ELSE limit

\* Mutant: the cap is a default only.
CapDefault(limit, cap) == IF cap > 0 /\ limit = 0 THEN cap ELSE limit

Cap(limit, cap) == IF cap > 0 /\ (limit = 0 \/ limit > cap) THEN cap ELSE limit

resolveLimits(limits, s) ==
    IF ~HasAI(s) THEN limits
    ELSE [tokens  |-> Cap(limits.tokens, s.ai.maxTokens),
          timeout |-> Cap(limits.timeout, s.ai.maxTimeout)]

-----------------------------------------------------------------------------
\* config.json

Lookup(ref) == IF ref \in DOMAIN Store THEN Store[ref] ELSE Failed

\* A value goes before a Secret, and that before a ConfigMap.
resolveEnvVar(ev) ==
    CASE ev.value # NoText -> ev.value
      [] ev.value = NoText /\ ev.secret # NoRef -> Lookup(ev.secret)
      [] ev.value = NoText /\ ev.secret = NoRef /\ ev.configMap # NoRef -> Lookup(ev.configMap)
      [] OTHER -> NoText

resolveEnvVars(env) == [name \in DOMAIN env |-> resolveEnvVar(env[name])]

\* A Secret's key is "api-key" if the settings name none.
resolveSecretKey(ref) ==
    IF ref.name = NoText THEN NoText
    ELSE Lookup([ref EXCEPT !.key = IF @ = NoText THEN "api-key" ELSE @])

buildModel(s) ==
    IF ~HasAI(s) THEN [provider |-> NoText, apiKey |-> NoText]
    ELSE [provider |-> s.ai.provider, apiKey |-> resolveSecretKey(s.ai.secret)]

\* The servers that can be had of those that are asked for: all of them, as
\* long as there are settings.  agent-run starts each one that it is given: it
\* would skip one without a command, but the schema of Repositories does not
\* allow that (types.go:85, 300-repository.yaml:243).
buildMCPServers(tools, s) ==
    IF s = NoSettings THEN [name \in {} |-> NoText]
    ELSE [name \in tools |-> IF name \in DOMAIN s.catalog THEN resolveEnvVars(s.catalog[name]) ELSE Failed]

\* Mutant: a server that the catalog does not have is left out.
CanBuildAnyway(tools, s) == buildModel(s).apiKey # Failed

\* Build returns an error unless every reference can be resolved.
CanBuild(tools, s) ==
    LET servers == buildMCPServers(tools, s)
    IN  /\ buildModel(s).apiKey # Failed
        /\ \A name \in DOMAIN servers :
             /\ servers[name] # Failed
             /\ \A v \in DOMAIN servers[name] : servers[name][v] # Failed

Build(run, s) ==
    [model |-> buildModel(s), servers |-> buildMCPServers(run.tools, s), timeout |-> run.limits.timeout]

-----------------------------------------------------------------------------
\* agent_run.py

Getenv(name) == IF name \in DOMAIN Environment THEN Environment[name] ELSE NoText

\* setup_api_key: the key of the configuration, or else of the environment.
ApiKey(cfg) == IF cfg.model.apiKey # NoText THEN cfg.model.apiKey ELSE Getenv("LLM_API_KEY")

=============================================================================
