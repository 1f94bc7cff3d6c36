---------------------------- MODULE AgentRuntime ----------------------------
(***************************************************************************)
(* One AgentRun in its sandbox: the reconciler writes config.json and runs *)
(* agent-run, perhaps more than once, while an earlier process still goes  *)
(* on; every process writes result.json, its alarm handler writes the same *)
(* file, and the reconciler reads it twice.                                *)
(*                                                                         *)
(* Models main and write_result of runtime/agent_run.py, reconcileAgent,   *)
(* reconcileResults and reconcileActions of the AgentRun reconciler as far *)
(* as they concern the sandbox, and Run of pkg/sandbox/agentsandbox.go.    *)
(* The sandbox backend is external.  Its disk fails only when config.json  *)
(* is loaded.                                                              *)
(***************************************************************************)
EXTENDS RuntimeConfig, Sequences

Rules == INSTANCE ResultRules

CONSTANTS
    Processes,      \* the processes that agent-run is started as
    Limits,         \* what agent definitions ask for
    AllSettings,    \* what the Repository's settings may be, at any time
    Tools,          \* the MCP servers that the agent names
    Outputs,        \* the results that an agent may return
    Empty,          \* Result(): no actions
    Length,         \* of each result when it is written
    BufferSize,     \* a longer text is not kept in the buffer of the file
    NoResult, Truncated, Mixed, NoConfig, NoProcess

Results == Outputs \cup {Empty}

ASSUME RuntimeAssumption ==
    /\ Limits \subseteq [tokens : Nat \ {0}, timeout : Nat \ {0}]
    /\ \A s \in AllSettings : HasAI(s) => s.ai.maxTokens \in Nat /\ s.ai.maxTimeout \in Nat
    /\ Length \in [Results -> Nat \ {0}] /\ Length[Empty] <= BufferSize
    /\ BufferSize \in Nat
    /\ {NoResult, Truncated, Mixed} \cap Results = {}
    /\ Truncated # Mixed /\ NoResult # Truncated /\ NoResult # Mixed
    /\ NoProcess \notin Processes
    /\ NoText # ".."
    /\ \A r \in Results : \A i \in DOMAIN r.actions :
         r.actions[i].type = "commit" => r.actions[i].files \subseteq Seq(STRING)

VARIABLES
    asked,      \* the limits of the agent, and the settings when the run was created
    run,        \* the AgentRun and what the reconciler has read for it
    config,     \* config.json
    file,       \* result.json: what it contains, and its length
    proc        \* the processes

vars == <<asked, run, config, file, proc>>

-----------------------------------------------------------------------------
\* State

\* "agent", "results" and "actions" are the phases of the reconciler.
Phases == {"agent", "results", "actions", "succeeded", "failed"}

Contents == Results \cup {NoResult, Truncated, Mixed}

Points == {"none", "load", "setup", "create", "run", "open", "write", "close", "exit",
           "alarm-open", "alarm-close", "unwind", "over", "killed"}

\* A process: the result that it returned and is writing, what its file object
\* holds in the buffer, the seconds its alarm was set to, whether the alarm has
\* gone off, and the exit code it is going to have or has.
Unstarted == [pc |-> "none", config |-> NoConfig, result |-> NoResult, buffer |-> NoResult,
              alarm |-> 0, rang |-> FALSE, code |-> 0]

Init ==
    /\ asked \in [limits : Limits, settings : AllSettings]
    /\ run = [limits |-> resolveLimits(asked.limits, asked.settings), tools |-> Tools,
              phase |-> "agent", last |-> NoProcess, collected |-> NoResult, executed |-> NoResult]
    /\ config = NoConfig
    /\ file = [content |-> NoResult, length |-> 0]
    /\ proc = [p \in Processes |-> Unstarted]

-----------------------------------------------------------------------------
\* The reconciler

Alive(p) == proc[p].pc \notin {"none", "over", "killed"}

\* When the run is over its sandbox is destroyed, with all that runs in it.
Kill == [p \in Processes |-> IF Alive(p) THEN [proc[p] EXCEPT !.pc = "killed"] ELSE proc[p]]

Fail ==
    /\ run' = [run EXCEPT !.phase = "failed"]
    /\ proc' = Kill

Start(p) ==
    /\ run' = [run EXCEPT !.last = p]
    /\ proc' = [proc EXCEPT ![p].pc = "load"]

\* reconcileAgent: config.json is built from the settings of the day and
\* written, and agent-run is started.  After a restart of the controller this is
\* done again, also if an earlier process is not over.
Launch(p) ==
    /\ run.phase = "agent"
    /\ proc[p].pc = "none"
    /\ \E s \in AllSettings :
         \/ /\ CanBuild(run.tools, s)
            /\ config' = Build(run, s)
            /\ Start(p)
         \/ /\ ~CanBuild(run.tools, s)
            /\ Fail
            /\ UNCHANGED config
    /\ UNCHANGED <<asked, file>>

\* An attempt of Run has timed out (after PerAttemptTimeout) and the command is
\* sent again; nothing stops the process of the first.
Retry(p) ==
    /\ run.phase = "agent"
    /\ run.last # NoProcess /\ Alive(run.last)
    /\ proc[p].pc = "none"
    /\ Start(p)
    /\ UNCHANGED <<asked, config, file>>

\* Run returns with the exit code of the process it waits for, ...
RunReturns ==
    /\ run.phase = "agent"
    /\ run.last # NoProcess /\ proc[run.last].pc = "over"
    /\ IF proc[run.last].code = 0
       THEN run' = [run EXCEPT !.phase = "results"] /\ UNCHANGED proc
       ELSE Fail
    /\ UNCHANGED <<asked, config, file>>

\* ... or with an error, as any other call to the sandbox may.
SandboxError ==
    /\ run.phase \in {"agent", "results", "actions"}
    /\ Fail
    /\ UNCHANGED <<asked, config, file>>

\* Parse accepts whole results only: there is no JSON in an empty file, and more
\* than JSON in one that is mixed of two results.
Parses(content) == content \in Results

\* Mutant: what parses is collected.
CollectUnvalidated ==
    /\ run.phase = "results"
    /\ IF Parses(file.content)
       THEN /\ run' = [run EXCEPT !.phase = "actions", !.collected = file.content]
            /\ UNCHANGED proc
       ELSE Fail
    /\ UNCHANGED <<asked, config, file>>

\* reconcileResults
Collect ==
    /\ run.phase = "results"
    /\ IF Parses(file.content) /\ Rules!Validate(file.content)
       THEN /\ run' = [run EXCEPT !.phase = "actions", !.collected = file.content]
            /\ UNCHANGED proc
       ELSE Fail
    /\ UNCHANGED <<asked, config, file>>

\* Mutant: what does not parse has no actions.
ExecuteActionsIfAny ==
    /\ run.phase = "actions"
    /\ run' = [run EXCEPT !.phase = "succeeded",
                          !.executed = IF Parses(file.content) THEN file.content ELSE Empty]
    /\ proc' = Kill
    /\ UNCHANGED <<asked, config, file>>

\* reconcileActions: the file is read again, and not validated again.
ExecuteActions ==
    /\ run.phase = "actions"
    /\ IF Parses(file.content)
       THEN /\ run' = [run EXCEPT !.phase = "succeeded", !.executed = file.content]
            /\ proc' = Kill
       ELSE Fail
    /\ UNCHANGED <<asked, config, file>>

-----------------------------------------------------------------------------
\* agent-run

Exit(p, code) == proc' = [proc EXCEPT ![p].pc = "over", ![p].code = code]

\* main catches the error of a config.json that it cannot read: another call of
\* the reconciler may just be writing the file.
LoadConfig(p) ==
    /\ proc[p].pc = "load"
    /\ \/ proc' = [proc EXCEPT ![p].pc = "setup", ![p].config = config]
       \/ Exit(p, 1)
    /\ UNCHANGED <<asked, run, config, file>>

\* setup_api_key, and the alarm.
Setup(p) ==
    /\ proc[p].pc = "setup"
    /\ IF ApiKey(proc[p].config) = NoText THEN Exit(p, 1)
       ELSE proc' = [proc EXCEPT ![p].pc = "create", ![p].alarm = proc[p].config.timeout]
    /\ UNCHANGED <<asked, run, config, file>>

\* create_agent and build_model_settings raise errors that nothing catches, for
\* one if there is no provider.
CreateAgent(p) ==
    /\ proc[p].pc = "create"
    /\ \/ Exit(p, 1)
       \/ /\ proc[p].config.model.provider # NoText
          /\ proc' = [proc EXCEPT ![p].pc = "run"]
    /\ UNCHANGED <<asked, run, config, file>>

\* The agent returns a result, or an exception makes it the empty one.
RunSync(p) ==
    /\ proc[p].pc = "run"
    /\ \/ \E r \in Outputs : proc' = [proc EXCEPT ![p].pc = "open", ![p].result = r]
       \/ proc' = [proc EXCEPT ![p].pc = "open", ![p].result = Empty, ![p].code = 1]
    /\ UNCHANGED <<asked, run, config, file>>

\* A text is written over the beginning of the file as it is.
Over(r) == IF Length[r] >= file.length THEN [content |-> r, length |-> Length[r]]
           ELSE [content |-> Mixed, length |-> file.length]

\* write_result: the file is truncated, the text goes to the buffer unless it is
\* too long for it, and the buffer to the file when that is closed.
Open(p) ==
    /\ proc[p].pc = "open"
    /\ file' = [content |-> Truncated, length |-> 0]
    /\ proc' = [proc EXCEPT ![p].pc = "write"]
    /\ UNCHANGED <<asked, run, config>>

Write(p) ==
    /\ proc[p].pc = "write"
    /\ IF Length[proc[p].result] > BufferSize
       THEN /\ file' = Over(proc[p].result)
            /\ proc' = [proc EXCEPT ![p].pc = "close"]
       ELSE /\ proc' = [proc EXCEPT ![p].pc = "close", ![p].buffer = proc[p].result]
            /\ UNCHANGED file
    /\ UNCHANGED <<asked, run, config>>

Flush(p) == IF proc[p].buffer = NoResult THEN UNCHANGED file ELSE file' = Over(proc[p].buffer)

Close(p) ==
    /\ proc[p].pc = "close"
    /\ Flush(p)
    /\ proc' = [proc EXCEPT ![p].pc = "exit", ![p].buffer = NoResult]
    /\ UNCHANGED <<asked, run, config>>

\* Mutant: main returns after an exception as well.
ReturnZero(p) ==
    /\ proc[p].pc = "exit"
    /\ Exit(p, 0)
    /\ UNCHANGED <<asked, run, config, file>>

Return(p) ==
    /\ proc[p].pc = "exit"
    /\ Exit(p, proc[p].code)
    /\ UNCHANGED <<asked, run, config, file>>

\* The alarm goes off wherever the process is, if it was set and has not yet:
\* timeout_handler writes the empty result, and sys.exit(0) leaves what it has
\* interrupted, which closes the file that this may have had open.
Alarm(p) ==
    /\ proc[p].pc \in {"create", "run", "open", "write", "close", "exit"}
    /\ proc[p].alarm > 0 /\ ~proc[p].rang
    /\ proc' = [proc EXCEPT ![p].pc = "alarm-open", ![p].rang = TRUE]
    /\ UNCHANGED <<asked, run, config, file>>

AlarmOpen(p) ==
    /\ proc[p].pc = "alarm-open"
    /\ file' = [content |-> Truncated, length |-> 0]
    /\ proc' = [proc EXCEPT ![p].pc = "alarm-close"]
    /\ UNCHANGED <<asked, run, config>>

AlarmClose(p) ==
    /\ proc[p].pc = "alarm-close"
    /\ file' = Over(Empty)
    /\ proc' = [proc EXCEPT ![p].pc = "unwind"]
    /\ UNCHANGED <<asked, run, config>>

\* Mutant: the exit code tells of the timeout.
UnwindWithCode(p) ==
    /\ proc[p].pc = "unwind"
    /\ Flush(p)
    /\ proc' = [proc EXCEPT ![p].pc = "over", ![p].code = 124, ![p].buffer = NoResult]
    /\ UNCHANGED <<asked, run, config>>

Unwind(p) ==
    /\ proc[p].pc = "unwind"
    /\ Flush(p)
    /\ proc' = [proc EXCEPT ![p].pc = "over", ![p].code = 0, ![p].buffer = NoResult]
    /\ UNCHANGED <<asked, run, config>>

-----------------------------------------------------------------------------
\* What a process does by itself; nothing makes the agent return.
Step(p) ==
    \/ LoadConfig(p) \/ Setup(p) \/ CreateAgent(p)
    \/ Open(p) \/ Write(p) \/ Close(p) \/ Return(p)
    \/ AlarmOpen(p) \/ AlarmClose(p) \/ Unwind(p)

Next ==
    \/ \E p \in Processes : Launch(p) \/ Retry(p) \/ Step(p) \/ RunSync(p) \/ Alarm(p)
    \/ RunReturns \/ SandboxError \/ Collect \/ ExecuteActions

Spec == Init /\ [][Next]_vars

\* Processes are scheduled, and an alarm that is set goes off.
Fairness == \A p \in Processes : WF_vars(Step(p)) /\ WF_vars(Alarm(p))

FairSpec == Spec /\ Fairness

=============================================================================
