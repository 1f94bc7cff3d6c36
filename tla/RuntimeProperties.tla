------------------------- MODULE RuntimeProperties -------------------------
(***************************************************************************)
(* What must hold of AgentRuntime.                                         *)
(***************************************************************************)
EXTENDS AgentRuntime, FiniteSets

File == [content : Contents, length : Nat]

Process == [pc : Points, config : {NoConfig} \cup {Build(run, s) : s \in AllSettings},
            result : Results \cup {NoResult}, buffer : Results \cup {NoResult},
            alarm : Nat, rang : BOOLEAN, code : {0, 1}]

TypeOK ==
    /\ run.phase \in Phases /\ run.last \in Processes \cup {NoProcess}
    /\ run.collected \in Results \cup {NoResult} /\ run.executed \in Results \cup {NoResult}
    /\ config \in {NoConfig} \cup {Build(run, s) : s \in AllSettings}
    /\ file \in File
    /\ proc \in [Processes -> Process]

\* No other process was started.
Alone(p) == \A q \in Processes \ {p} : proc[q].pc = "none"

\* The alarm and write_result (agent_run.py:216-219, 242), wherever the one
\* interrupts the other: a process that is alone and exits with 0 leaves what
\* its agent returned, or, only if the alarm went off, the empty result (or a mix
\* of the two, if the agent's is shorter than an empty one); one that exits
\* with 1 never leaves a result with actions.
ExitCodeTellsResult ==
    \A p \in Processes : Alone(p) /\ proc[p].pc = "over" =>
        IF proc[p].code = 1 THEN file.content \in {NoResult, Empty}
        ELSE \/ file.content = proc[p].result /\ proc[p].result \in Outputs
             \/ proc[p].rang /\ file.content = Empty
             \/ /\ proc[p].rang /\ file.content = Mixed
                /\ Length[proc[p].result] < Length[Empty]

\* However many processes write the file while it is read, what the reconciler
\* collects and executes was returned whole by one of them, or is the empty
\* result of one whose alarm went off.
ReadsWholeResults ==
    \A r \in {run.collected, run.executed} \ {NoResult} :
        \E p \in Processes :
            proc[p].result = r \/ (r = Empty /\ proc[p].rang)

\* If agent-run was started once, what is executed is what was validated.
ExecutesWhatWasValidated ==
    \A p \in Processes : Alone(p) /\ run.phase = "succeeded" =>
        run.executed = run.collected /\ Rules!Validate(run.executed)

\* A path that starts below no directory never leaves the one it starts from.
Inside(path) ==
    /\ ~Rules!Absolute(path)
    /\ \A n \in DOMAIN path :
         Cardinality({i \in 1..n : path[i] = ".."})
            <= Cardinality({i \in 1..n : path[i] \notin {NoText, ".", ".."}})

\* No commit that is collected has a path out of the repository (parser.go:129).
CommitsStayInside ==
    run.collected # NoResult =>
        \A i \in DOMAIN run.collected.actions :
            LET a == run.collected.actions[i]
            IN  a.type = "commit" => \A path \in a.files : Inside(path)

\* configuration.md:73, "agents can set lower, not higher": every process that
\* calls the model has an alarm set, within the limit of its agent and the cap
\* that was in force when the AgentRun was created, whatever the settings have
\* become when config.json is built.
AlarmIsWithinLimits ==
    \A p \in Processes :
        proc[p].pc \in {"create", "run", "open", "write", "close", "exit"} =>
            /\ proc[p].alarm \in 1..asked.limits.timeout
            /\ HasAI(asked.settings) /\ asked.settings.ai.maxTimeout > 0
                 => proc[p].alarm <= asked.settings.ai.maxTimeout

\* An agent runs with all the tools that it names, their variables resolved:
\* although config.json is built without them when the Repository has no settings
\* (config.go:181), there is then no provider either to run an agent with.
ToolsAreProvided ==
    \A p \in Processes :
        proc[p].pc = "run" =>
            LET servers == proc[p].config.servers
            IN  DOMAIN servers = Tools /\ \A name \in Tools : servers[name] # Failed

\* Every process ends or is killed, although the agent in it may never return.
EveryProcessEnds == \A p \in Processes : Alive(p) ~> ~Alive(p)

=============================================================================
