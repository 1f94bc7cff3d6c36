------------------------ MODULE AgentRuntime_proofs ------------------------
(***************************************************************************)
(* Proofs about AgentRuntime, for any processes, settings, limits, tools   *)
(* and results.                                                            *)
(***************************************************************************)
EXTENDS RuntimeProperties, FiniteSetTheorems, SequenceTheorems, TLAPS

-----------------------------------------------------------------------------
\* The inductive invariant

\* What an AgentRun is from its creation on.
BaseRun == [limits |-> resolveLimits(asked.limits, asked.settings), tools |-> Tools]

Timeout == BaseRun.limits.timeout

\* The configurations that agent-run may find, whatever the settings are by then.
Configs == {Build(BaseRun, s) : s \in {x \in AllSettings : CanBuild(Tools, x)}}

RunType == [limits : {BaseRun.limits}, tools : {Tools}, phase : Phases,
            last : Processes \cup {NoProcess},
            collected : Results \cup {NoResult}, executed : Results \cup {NoResult}]

ProcessType == [pc : Points, config : {NoConfig} \cup Configs, result : Results \cup {NoResult},
                buffer : Results \cup {NoResult}, alarm : Nat, rang : BOOLEAN, code : {0, 1}]

Early == {"none", "load", "setup", "create", "run"}

\* What a process has at each point, where C are the configurations that the file
\* c may be one of, and t is the timeout.
Has(e, c, C, t) ==
    /\ e.pc # "none" => c \in C
    /\ e.pc \notin {"none", "load", "over", "killed"} => e.config \in C
    /\ e.pc \in Early => e.result = NoResult /\ e.buffer = NoResult /\ e.code = 0 /\ e.rang = FALSE
    /\ e.pc \in {"open", "write", "close", "exit"} => e.result \in Results
    /\ e.pc \in {"create", "run", "open", "write", "close", "exit"} => e.alarm = t
    /\ e.pc = "run" => e.config.model.provider # NoText
    /\ e.pc \in {"alarm-open", "alarm-close", "unwind"} => e.rang = TRUE
    /\ e.buffer \in {NoResult, e.result}

TypeInv ==
    /\ asked \in [limits : Limits, settings : AllSettings]
    /\ run \in RunType
    /\ config \in {NoConfig} \cup Configs
    /\ file \in File
    /\ proc \in [Processes -> ProcessType]
    /\ \A p \in Processes : Has(proc[p], config, Configs, Timeout)

-----------------------------------------------------------------------------
\* Limits and configurations

\* A limit that is capped is positive, and below the cap if there is one.
LEMMA CapBounds ==
    ASSUME NEW limit \in Nat \ {0}, NEW cap \in Nat
    PROVE  /\ Cap(limit, cap) \in 1..limit
           /\ cap > 0 => Cap(limit, cap) <= cap
BY DEF Cap

\* The limits of an AgentRun, by the settings of its creation.
LEMMA TimeoutBounds ==
    ASSUME asked \in [limits : Limits, settings : AllSettings]
    PROVE  /\ Timeout \in 1..asked.limits.timeout
           /\ HasAI(asked.settings) /\ asked.settings.ai.maxTimeout > 0
                => Timeout <= asked.settings.ai.maxTimeout
<1>1. asked.limits.timeout \in Nat \ {0} /\ asked.settings \in AllSettings
  BY RuntimeAssumption
<1>2. CASE HasAI(asked.settings)
  <2>1. asked.settings.ai.maxTimeout \in Nat
    BY <1>1, <1>2, RuntimeAssumption
  <2>2. Timeout = Cap(asked.limits.timeout, asked.settings.ai.maxTimeout)
    BY <1>2 DEF Timeout, BaseRun, resolveLimits
  <2>3. QED
    BY <1>1, <2>1, <2>2, CapBounds
<1>3. CASE ~HasAI(asked.settings)
  <2>1. Timeout = asked.limits.timeout
    BY <1>3 DEF Timeout, BaseRun, resolveLimits
  <2>2. QED
    BY <1>1, <1>3, <2>1
<1>4. QED
  BY <1>2, <1>3

\* A configuration limits the agent as its AgentRun does, and if it has a
\* provider it has all the tools.
LEMMA ConfigFacts ==
    ASSUME NEW c \in Configs
    PROVE  /\ c.timeout = Timeout
           /\ c.model.provider # NoText =>
                DOMAIN c.servers = Tools /\ \A name \in Tools : c.servers[name] # Failed
<1> PICK s \in AllSettings : CanBuild(Tools, s) /\ c = Build(BaseRun, s)
  BY DEF Configs
<1>1. c.timeout = Timeout /\ c.model = buildModel(s) /\ c.servers = buildMCPServers(Tools, s)
  BY DEF Build, BaseRun, Timeout
<1>2. ASSUME c.model.provider # NoText
      PROVE  DOMAIN c.servers = Tools /\ \A name \in Tools : c.servers[name] # Failed
  <2>1. s # NoSettings
    BY <1>1, <1>2 DEF buildModel, HasAI
  <2>2. DOMAIN c.servers = Tools
    BY <1>1, <2>1 DEF buildMCPServers
  <2>3. \A name \in DOMAIN c.servers : c.servers[name] # Failed
    BY <1>1 DEF CanBuild
  <2>4. QED
    BY <2>2, <2>3
<1>3. QED
  BY <1>1, <1>2

\* What is built for an AgentRun is one of them.
LEMMA BuildIsConfig ==
    ASSUME run \in RunType, NEW s \in AllSettings, CanBuild(run.tools, s)
    PROVE  Build(run, s) \in Configs
<1>1. run.tools = Tools /\ run.limits = BaseRun.limits /\ BaseRun.tools = Tools
  BY DEF RunType, BaseRun
<1>2. Build(run, s) = Build(BaseRun, s)
  BY <1>1 DEF Build
<1>3. QED
  BY <1>1, <1>2 DEF Configs

\* The types stay as they are.
LEMMA TypesStay ==
    ASSUME asked' = asked
    PROVE  Configs' = Configs /\ Timeout' = Timeout /\ RunType' = RunType /\ ProcessType' = ProcessType
<1>1. BaseRun' = BaseRun
  BY DEF BaseRun
<1>2. Configs' = Configs /\ Timeout' = Timeout
  BY <1>1 DEF Configs, Timeout
<1>3. QED
  BY <1>1, <1>2 DEF RunType, ProcessType

-----------------------------------------------------------------------------
\* Type correctness

\* A step of one process keeps the types, if what becomes of the process does.
LEMMA ProcessUpdate ==
    ASSUME TypeInv, NEW p \in Processes, NEW e \in ProcessType, Has(e, config, Configs, Timeout),
           proc' = [proc EXCEPT ![p] = e],
           asked' = asked, run' \in RunType, config' = config, file' \in File
    PROVE  TypeInv'
<1>1. Configs' = Configs /\ Timeout' = Timeout /\ RunType' = RunType /\ ProcessType' = ProcessType
  BY TypesStay
<1>2. proc' \in [Processes -> ProcessType]
  BY DEF TypeInv
<1>3. ASSUME NEW q \in Processes
      PROVE  Has(proc'[q], config', Configs', Timeout')
  <2>1. Has(proc[q], config, Configs, Timeout) /\ proc'[q] = (IF q = p THEN e ELSE proc[q])
    BY DEF TypeInv
  <2>2. Has(proc'[q], config, Configs, Timeout)
    BY <2>1
  <2>3. QED
    BY <1>1, <2>2
<1>4. QED
  BY <1>1, <1>2, <1>3 DEF TypeInv

\* So does the end of the run.
LEMMA KillUpdate ==
    ASSUME TypeInv, proc' = Kill, asked' = asked, run' \in RunType,
           config' \in {config} \cup Configs, file' = file
    PROVE  TypeInv'
<1>1. Configs' = Configs /\ Timeout' = Timeout /\ RunType' = RunType /\ ProcessType' = ProcessType
  BY TypesStay
<1>2. ASSUME NEW q \in Processes
      PROVE  proc'[q] \in ProcessType /\ Has(proc'[q], config', Configs', Timeout')
  <2>1. Has(proc[q], config, Configs, Timeout) /\ proc[q] \in ProcessType
    BY DEF TypeInv
  <2>2. CASE ~Alive(q)
    <3>1. proc'[q] = proc[q]
      BY <2>2 DEF Kill
    <3>2. QED
      BY <1>1, <2>1, <3>1 DEF Has, TypeInv
  <2>3. CASE Alive(q)
    <3>1. proc'[q] = [proc[q] EXCEPT !.pc = "killed"]
      BY <2>3 DEF Kill
    <3>2. proc[q].pc # "none"
      BY <2>3 DEF Alive
    <3>3. proc'[q] \in ProcessType
      BY <2>1, <3>1 DEF ProcessType, Points
    <3>4. Has(proc'[q], config', Configs, Timeout)
      BY <2>1, <3>1, <3>2 DEF Has, ProcessType, Early
    <3>5. QED
      BY <1>1, <3>3, <3>4
  <2>4. QED
    BY <2>2, <2>3
<1>3. proc' \in [Processes -> ProcessType]
  <2>1. proc' = [q \in Processes |-> proc'[q]]
    BY DEF Kill
  <2>2. QED
    BY <1>2, <2>1
<1>4. QED
  BY <1>1, <1>2, <1>3 DEF TypeInv

\* What the reconciler notes of the run is well typed.
LEMMA RunUpdate ==
    ASSUME run \in RunType
    PROVE  /\ \A phase \in Phases : [run EXCEPT !.phase = phase] \in RunType
           /\ \A p \in Processes : [run EXCEPT !.last = p] \in RunType
           /\ \A r \in Results : [run EXCEPT !.phase = "actions", !.collected = r] \in RunType
           /\ \A r \in Results : [run EXCEPT !.phase = "succeeded", !.executed = r] \in RunType
BY DEF RunType, Phases

LEMMA FailUpdate ==
    ASSUME TypeInv, Fail, asked' = asked, config' = config, file' = file
    PROVE  TypeInv'
<1>1. run' \in RunType
  BY RunUpdate DEF TypeInv, Fail, Phases
<1>2. QED
  BY <1>1, KillUpdate DEF Fail

\* A text that is written to the file.
LEMMA OverType ==
    ASSUME file \in File, NEW r \in Results
    PROVE  Over(r) \in File
BY RuntimeAssumption DEF Over, File, Contents

\* agent-run is started.
LEMMA StartStep ==
    ASSUME TypeInv, NEW p \in Processes, proc[p].pc = "none", Start(p),
           config' \in Configs, asked' = asked, file' = file
    PROVE  TypeInv'
<1> DEFINE e == [proc[p] EXCEPT !.pc = "load"]
<1>1. Configs' = Configs /\ Timeout' = Timeout /\ RunType' = RunType /\ ProcessType' = ProcessType
  BY TypesStay
<1>2. proc' = [proc EXCEPT ![p] = e]
  BY DEF Start, TypeInv
<1>3. proc[p] \in ProcessType /\ Has(proc[p], config, Configs, Timeout)
  BY DEF TypeInv
<1>4. e \in ProcessType
  BY <1>3 DEF ProcessType, Points
<1>5. Has(e, config', Configs', Timeout')
  BY <1>1, <1>3 DEF Has, ProcessType, Early
<1>6. run' \in RunType
  BY RunUpdate DEF TypeInv, Start
<1> HIDE DEF e
<1>7. proc' \in [Processes -> ProcessType]
  BY <1>2, <1>4 DEF TypeInv
<1>8. ASSUME NEW q \in Processes
      PROVE  Has(proc'[q], config', Configs', Timeout')
  <2>1. CASE q = p
    BY <1>2, <1>5, <2>1 DEF TypeInv
  <2>2. CASE q # p
    <3>1. Has(proc[q], config, Configs, Timeout) /\ proc'[q] = proc[q]
      BY <1>2, <2>2 DEF TypeInv
    <3>2. QED
      BY <1>1, <3>1 DEF Has
  <2>3. QED
    BY <2>1, <2>2
<1>9. QED
  BY <1>1, <1>6, <1>7, <1>8 DEF TypeInv

LEMMA TypeInit ==
    ASSUME Init
    PROVE  TypeInv
<1>1. asked \in [limits : Limits, settings : AllSettings]
  BY DEF Init
<1>2. run \in RunType
  BY DEF Init, RunType, BaseRun, Phases
<1>3. Unstarted \in ProcessType
  BY DEF Unstarted, ProcessType, Points
<1>4. Has(Unstarted, config, Configs, Timeout)
  BY DEF Unstarted, Has, Early
<1>5. file \in File
  BY DEF Init, File, Contents
<1>6. QED
  BY <1>1, <1>2, <1>3, <1>4, <1>5 DEF Init, TypeInv

LEMMA LaunchStep ==
    ASSUME TypeInv, NEW p \in Processes, Launch(p)
    PROVE  TypeInv'
<1> PICK s \in AllSettings :
      \/ /\ CanBuild(run.tools, s)
         /\ config' = Build(run, s)
         /\ Start(p)
      \/ /\ ~CanBuild(run.tools, s)
         /\ Fail
         /\ UNCHANGED config
  BY DEF Launch
<1>1. asked' = asked /\ file' = file /\ proc[p].pc = "none"
  BY DEF Launch
<1>2. CASE CanBuild(run.tools, s) /\ config' = Build(run, s) /\ Start(p)
  <2>1. config' \in Configs
    BY <1>2, BuildIsConfig DEF TypeInv
  <2>2. QED
    BY <1>1, <1>2, <2>1, StartStep
<1>3. CASE Fail /\ config' = config
  BY <1>1, <1>3, FailUpdate
<1>4. QED
  BY <1>2, <1>3

\* Some process was started, so there is a configuration.
LEMMA RetryStep ==
    ASSUME TypeInv, NEW p \in Processes, Retry(p)
    PROVE  TypeInv'
<1>1. run.last \in Processes /\ proc[run.last].pc # "none"
  BY DEF Retry, Alive, TypeInv, RunType
<1>2. config \in Configs
  BY <1>1 DEF TypeInv, Has
<1>3. QED
  BY <1>2, StartStep DEF Retry

\* The reconciler's own steps.
LEMMA ReconcilerStep ==
    ASSUME TypeInv, RunReturns \/ SandboxError \/ Collect \/ ExecuteActions
    PROVE  TypeInv'
<1>1. asked' = asked /\ config' = config /\ file' = file
  BY DEF RunReturns, SandboxError, Collect, ExecuteActions
<1>2. CASE Fail
  BY <1>1, <1>2, FailUpdate
<1>3. ASSUME run' \in RunType, proc' = proc
      PROVE  TypeInv'
  <2>1. Configs' = Configs /\ Timeout' = Timeout /\ RunType' = RunType /\ ProcessType' = ProcessType
    BY <1>1, TypesStay
  <2>2. QED
    BY <1>1, <1>3, <2>1 DEF TypeInv
<1>4. CASE run' = [run EXCEPT !.phase = "results"] /\ proc' = proc
  BY <1>3, <1>4, RunUpdate DEF TypeInv, Phases
<1>5. CASE /\ file.content \in Results
           /\ run' = [run EXCEPT !.phase = "actions", !.collected = file.content]
           /\ proc' = proc
  BY <1>3, <1>5, RunUpdate DEF TypeInv
<1>6. CASE /\ file.content \in Results
           /\ run' = [run EXCEPT !.phase = "succeeded", !.executed = file.content]
           /\ proc' = Kill
  <2>1. run' \in RunType
    BY <1>6, RunUpdate DEF TypeInv
  <2>2. QED
    BY <1>1, <1>6, <2>1, KillUpdate
<1>7. QED
  BY <1>2, <1>4, <1>5, <1>6 DEF RunReturns, SandboxError, Collect, ExecuteActions, Parses

LEMMA OpenStep ==
    ASSUME TypeInv, NEW p \in Processes, Open(p)
    PROVE  TypeInv'
<1> DEFINE e == [proc[p] EXCEPT !.pc = "write"]
<1>1. proc[p] \in ProcessType /\ Has(proc[p], config, Configs, Timeout) /\ run' \in RunType
  BY DEF TypeInv, Open
<1>2. asked' = asked /\ config' = config /\ proc' = [proc EXCEPT ![p] = e]
  BY DEF TypeInv, Open
<1>3. file' \in File
  BY DEF Open, File, Contents
<1>4. e \in ProcessType
  BY <1>1 DEF TypeInv, ProcessType, Points, Open
<1>5. Has(e, config, Configs, Timeout)
  BY <1>1 DEF TypeInv, ProcessType, Has, Early, Open
<1> HIDE DEF e
<1>6. QED
  BY <1>1, <1>2, <1>3, <1>4, <1>5, ProcessUpdate

LEMMA CloseStep ==
    ASSUME TypeInv, NEW p \in Processes, Close(p)
    PROVE  TypeInv'
<1> DEFINE e == [proc[p] EXCEPT !.pc = "exit", !.buffer = NoResult]
<1>1. proc[p] \in ProcessType /\ Has(proc[p], config, Configs, Timeout) /\ run' \in RunType
  BY DEF TypeInv, Close
<1>2. asked' = asked /\ config' = config /\ proc' = [proc EXCEPT ![p] = e]
  BY DEF TypeInv, Close
<1>3. file' \in File
  BY OverType DEF TypeInv, Has, ProcessType, Close, Flush
<1>4. e \in ProcessType
  BY <1>1 DEF TypeInv, ProcessType, Points, Close
<1>5. Has(e, config, Configs, Timeout)
  BY <1>1 DEF TypeInv, ProcessType, Has, Early, Close
<1> HIDE DEF e
<1>6. QED
  BY <1>1, <1>2, <1>3, <1>4, <1>5, ProcessUpdate

LEMMA ReturnStep ==
    ASSUME TypeInv, NEW p \in Processes, Return(p)
    PROVE  TypeInv'
<1> DEFINE e == [proc[p] EXCEPT !.pc = "over", !.code = proc[p].code]
<1>1. proc[p] \in ProcessType /\ Has(proc[p], config, Configs, Timeout) /\ run' \in RunType
  BY DEF TypeInv, Return
<1>2. asked' = asked /\ config' = config /\ proc' = [proc EXCEPT ![p] = e]
  BY DEF TypeInv, Return, Exit
<1>3. file' \in File
  BY DEF TypeInv, Return
<1>4. e \in ProcessType
  BY <1>1 DEF TypeInv, ProcessType, Points, Return
<1>5. Has(e, config, Configs, Timeout)
  BY <1>1 DEF TypeInv, ProcessType, Has, Early, Return
<1> HIDE DEF e
<1>6. QED
  BY <1>1, <1>2, <1>3, <1>4, <1>5, ProcessUpdate

LEMMA AlarmStep ==
    ASSUME TypeInv, NEW p \in Processes, Alarm(p)
    PROVE  TypeInv'
<1> DEFINE e == [proc[p] EXCEPT !.pc = "alarm-open", !.rang = TRUE]
<1>1. proc[p] \in ProcessType /\ Has(proc[p], config, Configs, Timeout) /\ run' \in RunType
  BY DEF TypeInv, Alarm
<1>2. asked' = asked /\ config' = config /\ proc' = [proc EXCEPT ![p] = e]
  BY DEF TypeInv, Alarm
<1>3. file' \in File
  BY DEF TypeInv, Alarm
<1>4. e \in ProcessType
  BY <1>1 DEF TypeInv, ProcessType, Points, Alarm
<1>5. Has(e, config, Configs, Timeout)
  BY <1>1 DEF TypeInv, ProcessType, Has, Early, Alarm
<1> HIDE DEF e
<1>6. QED
  BY <1>1, <1>2, <1>3, <1>4, <1>5, ProcessUpdate

LEMMA AlarmOpenStep ==
    ASSUME TypeInv, NEW p \in Processes, AlarmOpen(p)
    PROVE  TypeInv'
<1> DEFINE e == [proc[p] EXCEPT !.pc = "alarm-close"]
<1>1. proc[p] \in ProcessType /\ Has(proc[p], config, Configs, Timeout) /\ run' \in RunType
  BY DEF TypeInv, AlarmOpen
<1>2. asked' = asked /\ config' = config /\ proc' = [proc EXCEPT ![p] = e]
  BY DEF TypeInv, AlarmOpen
<1>3. file' \in File
  BY DEF AlarmOpen, File, Contents
<1>4. e \in ProcessType
  BY <1>1 DEF TypeInv, ProcessType, Points, AlarmOpen
<1>5. Has(e, config, Configs, Timeout)
  BY <1>1 DEF TypeInv, ProcessType, Has, Early, AlarmOpen
<1> HIDE DEF e
<1>6. QED
  BY <1>1, <1>2, <1>3, <1>4, <1>5, ProcessUpdate

LEMMA AlarmCloseStep ==
    ASSUME TypeInv, NEW p \in Processes, AlarmClose(p)
    PROVE  TypeInv'
<1> DEFINE e == [proc[p] EXCEPT !.pc = "unwind"]
<1>1. proc[p] \in ProcessType /\ Has(proc[p], config, Configs, Timeout) /\ run' \in RunType
  BY DEF TypeInv, AlarmClose
<1>2. asked' = asked /\ config' = config /\ proc' = [proc EXCEPT ![p] = e]
  BY DEF TypeInv, AlarmClose
<1>3. file' \in File
  BY OverType DEF TypeInv, AlarmClose, Results
<1>4. e \in ProcessType
  BY <1>1 DEF TypeInv, ProcessType, Points, AlarmClose
<1>5. Has(e, config, Configs, Timeout)
  BY <1>1 DEF TypeInv, ProcessType, Has, Early, AlarmClose
<1> HIDE DEF e
<1>6. QED
  BY <1>1, <1>2, <1>3, <1>4, <1>5, ProcessUpdate

LEMMA UnwindStep ==
    ASSUME TypeInv, NEW p \in Processes, Unwind(p)
    PROVE  TypeInv'
<1> DEFINE e == [proc[p] EXCEPT !.pc = "over", !.code = 0, !.buffer = NoResult]
<1>1. proc[p] \in ProcessType /\ Has(proc[p], config, Configs, Timeout) /\ run' \in RunType
  BY DEF TypeInv, Unwind
<1>2. asked' = asked /\ config' = config /\ proc' = [proc EXCEPT ![p] = e]
  BY DEF TypeInv, Unwind
<1>3. file' \in File
  BY OverType DEF TypeInv, ProcessType, Unwind, Flush
<1>4. e \in ProcessType
  BY <1>1 DEF TypeInv, ProcessType, Points, Unwind
<1>5. Has(e, config, Configs, Timeout)
  BY <1>1 DEF TypeInv, ProcessType, Has, Early, Unwind
<1> HIDE DEF e
<1>6. QED
  BY <1>1, <1>2, <1>3, <1>4, <1>5, ProcessUpdate

\* A process that ends in the middle.
LEMMA ExitStep ==
    ASSUME TypeInv, NEW p \in Processes, proc[p].pc # "none", NEW code \in {0, 1}, Exit(p, code),
           UNCHANGED <<asked, run, config, file>>
    PROVE  TypeInv'
<1> DEFINE e == [proc[p] EXCEPT !.pc = "over", !.code = code]
<1>1. proc[p] \in ProcessType /\ Has(proc[p], config, Configs, Timeout) /\ run' \in RunType
  BY DEF TypeInv
<1>2. proc' = [proc EXCEPT ![p] = e]
  BY DEF TypeInv, Exit
<1>3. e \in ProcessType
  BY <1>1 DEF ProcessType, Points
<1>4. Has(e, config, Configs, Timeout)
  BY <1>1 DEF ProcessType, Has, Early
<1>5. file' \in File
  BY DEF TypeInv
<1> HIDE DEF e
<1>6. QED
  BY <1>1, <1>2, <1>3, <1>4, <1>5, ProcessUpdate

LEMMA LoadConfigStep ==
    ASSUME TypeInv, NEW p \in Processes, LoadConfig(p)
    PROVE  TypeInv'
<1> DEFINE e == [proc[p] EXCEPT !.pc = "setup", !.config = config]
<1>1. proc[p] \in ProcessType /\ Has(proc[p], config, Configs, Timeout) /\ run' \in RunType /\ file' \in File
  BY DEF TypeInv, LoadConfig
<1>2. CASE Exit(p, 1)
  BY <1>2, ExitStep DEF LoadConfig
<1>3. CASE proc' = [proc EXCEPT ![p].pc = "setup", ![p].config = config]
  <2>1. asked' = asked /\ config' = config /\ proc' = [proc EXCEPT ![p] = e]
    BY <1>3 DEF TypeInv, LoadConfig
  <2>2. e \in ProcessType
    BY <1>1 DEF TypeInv, ProcessType, Points, LoadConfig
  <2>3. Has(e, config, Configs, Timeout)
    BY <1>1 DEF TypeInv, ProcessType, Has, Early, LoadConfig
  <2> HIDE DEF e
  <2>4. QED
    BY <1>1, <2>1, <2>2, <2>3, ProcessUpdate
<1>4. QED
  BY <1>2, <1>3 DEF LoadConfig

LEMMA SetupStep ==
    ASSUME TypeInv, NEW p \in Processes, Setup(p)
    PROVE  TypeInv'
<1> DEFINE e == [proc[p] EXCEPT !.pc = "create", !.alarm = proc[p].config.timeout]
<1>1. proc[p] \in ProcessType /\ Has(proc[p], config, Configs, Timeout) /\ run' \in RunType /\ file' \in File
  BY DEF TypeInv, Setup
<1>2. CASE Exit(p, 1)
  BY <1>2, ExitStep DEF Setup
<1>3. CASE proc' = [proc EXCEPT ![p].pc = "create", ![p].alarm = proc[p].config.timeout]
  <2>1. proc[p].config.timeout = Timeout
    BY <1>1, ConfigFacts DEF Has, Setup
  <2>2. Timeout \in Nat
    BY TimeoutBounds, RuntimeAssumption DEF TypeInv
  <2>3. e \in ProcessType
    BY <1>1, <2>1, <2>2 DEF ProcessType, Points
  <2>4. Has(e, config, Configs, Timeout)
    BY <1>1, <2>1 DEF ProcessType, Has, Early, Setup
  <2>5. proc' = [proc EXCEPT ![p] = e] /\ asked' = asked /\ config' = config
    BY <1>3 DEF TypeInv, Setup
  <2> HIDE DEF e
  <2>6. QED
    BY <1>1, <2>3, <2>4, <2>5, ProcessUpdate
<1>4. QED
  BY <1>2, <1>3 DEF Setup

LEMMA CreateAgentStep ==
    ASSUME TypeInv, NEW p \in Processes, CreateAgent(p)
    PROVE  TypeInv'
<1> DEFINE e == [proc[p] EXCEPT !.pc = "run"]
<1>1. proc[p] \in ProcessType /\ Has(proc[p], config, Configs, Timeout) /\ run' \in RunType /\ file' \in File
  BY DEF TypeInv, CreateAgent
<1>2. CASE Exit(p, 1)
  BY <1>2, ExitStep DEF CreateAgent
<1>3. CASE proc[p].config.model.provider # NoText /\ proc' = [proc EXCEPT ![p].pc = "run"]
  <2>1. e \in ProcessType
    BY <1>1 DEF ProcessType, Points
  <2>2. Has(e, config, Configs, Timeout)
    BY <1>1, <1>3 DEF ProcessType, Has, Early, CreateAgent
  <2>3. proc' = [proc EXCEPT ![p] = e] /\ asked' = asked /\ config' = config
    BY <1>3 DEF TypeInv, CreateAgent
  <2> HIDE DEF e
  <2>4. QED
    BY <1>1, <2>1, <2>2, <2>3, ProcessUpdate
<1>4. QED
  BY <1>2, <1>3 DEF CreateAgent

\* What the process is like when its agent has returned r.
LEMMA RunSyncStep ==
    ASSUME TypeInv, NEW p \in Processes, RunSync(p)
    PROVE  TypeInv'
<1> PICK r \in Results, code \in {0, 1} :
      proc' = [proc EXCEPT ![p] = [@ EXCEPT !.pc = "open", !.result = r, !.code = code]]
  <2>1. proc[p] \in ProcessType /\ Has(proc[p], config, Configs, Timeout) /\ proc[p].pc = "run"
    BY DEF TypeInv, RunSync
  <2>2. proc[p].code = 0
    BY <2>1 DEF Has, Early
  <2>3. ASSUME NEW r \in Outputs, proc' = [proc EXCEPT ![p].pc = "open", ![p].result = r]
        PROVE  proc' = [proc EXCEPT ![p] = [@ EXCEPT !.pc = "open", !.result = r, !.code = 0]]
    BY <2>1, <2>2, <2>3 DEF ProcessType, TypeInv
  <2>4. ASSUME proc' = [proc EXCEPT ![p].pc = "open", ![p].result = Empty, ![p].code = 1]
        PROVE  proc' = [proc EXCEPT ![p] = [@ EXCEPT !.pc = "open", !.result = Empty, !.code = 1]]
    BY <2>4 DEF TypeInv
  <2>5. QED
    BY <2>3, <2>4 DEF RunSync, Results
<1> DEFINE e == [proc[p] EXCEPT !.pc = "open", !.result = r, !.code = code]
<1>1. proc[p] \in ProcessType /\ Has(proc[p], config, Configs, Timeout) /\ run' \in RunType /\ file' \in File
  BY DEF TypeInv, RunSync
<1>2. e \in ProcessType
  BY <1>1 DEF ProcessType, Points
<1>3. Has(e, config, Configs, Timeout)
  BY <1>1 DEF ProcessType, Has, Early, RunSync
<1>4. proc' = [proc EXCEPT ![p] = e] /\ asked' = asked /\ config' = config
  BY DEF TypeInv, RunSync
<1> HIDE DEF e
<1>5. QED
  BY <1>1, <1>2, <1>3, <1>4, ProcessUpdate

LEMMA WriteStep ==
    ASSUME TypeInv, NEW p \in Processes, Write(p)
    PROVE  TypeInv'
<1> PICK b \in {proc[p].buffer, proc[p].result} : proc' = [proc EXCEPT ![p] = [@ EXCEPT !.pc = "close", !.buffer = b]]
  <2>1. proc[p] \in ProcessType
    BY DEF TypeInv
  <2>2. ASSUME proc' = [proc EXCEPT ![p].pc = "close"]
        PROVE  proc' = [proc EXCEPT ![p] = [@ EXCEPT !.pc = "close", !.buffer = proc[p].buffer]]
    BY <2>1, <2>2 DEF ProcessType, TypeInv
  <2>3. ASSUME proc' = [proc EXCEPT ![p].pc = "close", ![p].buffer = proc[p].result]
        PROVE  proc' = [proc EXCEPT ![p] = [@ EXCEPT !.pc = "close", !.buffer = proc[p].result]]
    BY <2>3 DEF TypeInv
  <2>4. QED
    BY <2>2, <2>3 DEF Write
<1> DEFINE e == [proc[p] EXCEPT !.pc = "close", !.buffer = b]
<1>1. proc[p] \in ProcessType /\ Has(proc[p], config, Configs, Timeout) /\ run' \in RunType
  BY DEF TypeInv, Write
<1>2. proc[p].result \in Results
  BY <1>1 DEF Has, Write
<1>3. file' \in File
  BY <1>2, OverType DEF TypeInv, Write
<1>4. e \in ProcessType
  BY <1>1 DEF ProcessType, Points
<1>5. Has(e, config, Configs, Timeout)
  BY <1>1, <1>2 DEF ProcessType, Has, Early, Write
<1>6. proc' = [proc EXCEPT ![p] = e] /\ asked' = asked /\ config' = config
  BY DEF TypeInv, Write
<1> HIDE DEF e
<1>7. QED
  BY <1>1, <1>3, <1>4, <1>5, <1>6, ProcessUpdate

LEMMA TypeStep ==
    ASSUME TypeInv, [Next]_vars
    PROVE  TypeInv'
<1>1. ASSUME NEW p \in Processes, Step(p)
      PROVE  TypeInv'
  BY <1>1, LoadConfigStep, SetupStep, CreateAgentStep, OpenStep, WriteStep, CloseStep, ReturnStep,
     AlarmOpenStep, AlarmCloseStep, UnwindStep DEF Step
<1>2. CASE UNCHANGED vars
  <2>1. Configs' = Configs /\ Timeout' = Timeout /\ RunType' = RunType /\ ProcessType' = ProcessType
    BY <1>2, TypesStay DEF vars
  <2>2. QED
    BY <1>2, <2>1 DEF vars, TypeInv
<1>3. QED
  BY <1>1, <1>2, LaunchStep, RetryStep, ReconcilerStep, RunSyncStep, AlarmStep DEF Next

LEMMA TypeInvariant ==
    Spec => []TypeInv
<1>1. QED
  BY TypeInit, TypeStep, PTL DEF Spec

LEMMA TypeInvImpliesTypeOK ==
    ASSUME TypeInv
    PROVE  TypeOK
<1>1. Configs \subseteq {Build(run, s) : s \in AllSettings}
  <2>1. run.tools = BaseRun.tools /\ run.limits = BaseRun.limits
    BY DEF TypeInv, RunType, BaseRun
  <2>2. \A s \in AllSettings : Build(run, s) = Build(BaseRun, s)
    BY <2>1 DEF Build
  <2>3. QED
    BY <2>2 DEF Configs
<1>2. ProcessType \subseteq Process
  BY <1>1 DEF ProcessType, Process
<1>3. QED
  BY <1>1, <1>2 DEF TypeInv, TypeOK, RunType

\* Every reachable state is well typed: in particular a process's configuration
\* is one that was built for its AgentRun, and its exit code 0 or 1
\* (agent_run.py:196-242, reconciler.go:114-157).
THEOREM RuntimeTypeCorrect == Spec => []TypeOK
<1>1. QED
  BY TypeInvariant, TypeInvImpliesTypeOK, PTL

-----------------------------------------------------------------------------
\* Limits and tools

\* Every process that calls the model has an alarm, within the limits of its
\* agent and the cap of the day its AgentRun was created (adapter.go:378-394,
\* agent_run.py:214-221), whatever the settings are later.
THEOREM AlarmsAreBounded == Spec => []AlarmIsWithinLimits
<1>1. ASSUME TypeInv
      PROVE  AlarmIsWithinLimits
  <2> SUFFICES ASSUME NEW p \in Processes,
                      proc[p].pc \in {"create", "run", "open", "write", "close", "exit"}
               PROVE  /\ proc[p].alarm \in 1..asked.limits.timeout
                      /\ HasAI(asked.settings) /\ asked.settings.ai.maxTimeout > 0
                           => proc[p].alarm <= asked.settings.ai.maxTimeout
    BY DEF AlarmIsWithinLimits
  <2>1. proc[p].alarm = Timeout
    BY <1>1 DEF TypeInv, Has
  <2>2. QED
    BY <1>1, <2>1, TimeoutBounds DEF TypeInv
<1>2. QED
  BY <1>1, TypeInvariant, PTL

\* An agent has all the tools it names (config.go:177-210): a configuration that
\* is built without them has no provider, and no agent comes of it.
THEOREM ToolsAreThere == Spec => []ToolsAreProvided
<1>1. ASSUME TypeInv
      PROVE  ToolsAreProvided
  <2> SUFFICES ASSUME NEW p \in Processes, proc[p].pc = "run"
               PROVE  LET servers == proc[p].config.servers
                      IN  DOMAIN servers = Tools /\ \A name \in Tools : servers[name] # Failed
    BY DEF ToolsAreProvided
  <2>1. proc[p].config \in Configs /\ proc[p].config.model.provider # NoText
    BY <1>1 DEF TypeInv, Has
  <2>2. QED
    BY <2>1, ConfigFacts
<1>2. QED
  BY <1>1, TypeInvariant, PTL

-----------------------------------------------------------------------------
\* What is read

\* A process returned r, or its alarm made it r.
Returned(r) == \E p \in Processes : proc[p].result = r \/ (r = Empty /\ proc[p].rang)

ReadInv ==
    /\ file.content \in Results => Returned(file.content)
    /\ run.collected \in Results => Returned(run.collected)
    /\ run.executed \in Results => Returned(run.executed)

\* Results stay with the processes that returned them, and alarms do not go
\* off twice.
LEMMA ResultsStay ==
    ASSUME TypeInv, Next, NEW p \in Processes
    PROVE  /\ proc[p].result \in Results => proc'[p].result = proc[p].result
           /\ proc[p].rang => proc'[p].rang
<1>1. proc[p] \in ProcessType /\ Has(proc[p], config, Configs, Timeout)
  BY DEF TypeInv
<1>2. CASE proc' = Kill
  BY <1>1, <1>2 DEF Kill, ProcessType
<1>3. CASE proc' = proc
  BY <1>3
<1>4. ASSUME NEW q \in Processes, Start(q)
      PROVE  proc'[p].result = proc[p].result /\ proc'[p].rang = proc[p].rang
  BY <1>4 DEF Start, TypeInv, ProcessType
<1>5. ASSUME NEW q \in Processes, NEW code \in {0, 1}, Exit(q, code)
      PROVE  proc'[p].result = proc[p].result /\ proc'[p].rang = proc[p].rang
  BY <1>5 DEF Exit, TypeInv, ProcessType
<1>6. ASSUME NEW q \in Processes, Step(q)
      PROVE  proc'[p].result = proc[p].result /\ proc'[p].rang = proc[p].rang
  <2>1. proc[q].code \in {0, 1}
    BY DEF TypeInv, ProcessType
  <2>2. CASE LoadConfig(q) \/ Setup(q) \/ CreateAgent(q)
    BY <1>5, <2>2 DEF LoadConfig, Setup, CreateAgent, TypeInv, ProcessType
  <2>3. CASE Open(q) \/ Write(q) \/ Close(q)
    BY <2>3 DEF Open, Write, Close, TypeInv, ProcessType
  <2>4. CASE AlarmOpen(q) \/ AlarmClose(q) \/ Unwind(q)
    BY <2>4 DEF AlarmOpen, AlarmClose, Unwind, TypeInv, ProcessType
  <2>5. CASE Return(q)
    BY <1>5, <2>1, <2>5 DEF Return
  <2>6. QED
    BY <1>6, <2>2, <2>3, <2>4, <2>5 DEF Step
<1>7. ASSUME NEW q \in Processes, Alarm(q)
      PROVE  proc'[p].result = proc[p].result /\ (proc[p].rang => proc'[p].rang)
  BY <1>7 DEF Alarm, TypeInv, ProcessType
<1>8. ASSUME NEW q \in Processes, RunSync(q)
      PROVE  /\ proc[p].result \in Results => proc'[p].result = proc[p].result
             /\ proc'[p].rang = proc[p].rang
  <2>1. proc[q].result \notin Results
    BY <1>8, RuntimeAssumption DEF RunSync, TypeInv, Has, Early
  <2>2. QED
    BY <1>8, <2>1 DEF RunSync, TypeInv, ProcessType
<1>9. CASE RunReturns \/ SandboxError \/ Collect \/ ExecuteActions
  BY <1>2, <1>3, <1>9 DEF RunReturns, SandboxError, Collect, ExecuteActions, Fail
<1>10. ASSUME NEW q \in Processes, Launch(q) \/ Retry(q)
       PROVE  /\ proc[p].result \in Results => proc'[p].result = proc[p].result
              /\ proc[p].rang => proc'[p].rang
  BY <1>2, <1>4, <1>10 DEF Launch, Retry, Fail
<1>11. QED
  BY <1>6, <1>7, <1>8, <1>9, <1>10 DEF Next

\* What the file becomes is, if it is whole, from one process.
LEMMA FileEffect ==
    ASSUME TypeInv, Next
    PROVE  \/ file' = file
           \/ file'.content \notin Results
           \/ Returned(file'.content)
<1>1. \A r \in Results : Over(r).content \in Results => Over(r).content = r
  BY RuntimeAssumption DEF Over
<1>2. ASSUME NEW p \in Processes, proc[p].result \in Results, file' = Over(proc[p].result)
      PROVE  file'.content \notin Results \/ Returned(file'.content)
  BY <1>1, <1>2 DEF Returned
<1>3. ASSUME NEW p \in Processes, Write(p)
      PROVE  file' = file \/ file'.content \notin Results \/ Returned(file'.content)
  <2>1. proc[p].result \in Results
    BY <1>3 DEF Write, TypeInv, Has
  <2>2. QED
    BY <1>2, <1>3, <2>1 DEF Write
<1>4. ASSUME NEW p \in Processes, Flush(p)
      PROVE  file' = file \/ file'.content \notin Results \/ Returned(file'.content)
  <2>1. CASE proc[p].buffer = NoResult
    BY <1>4, <2>1 DEF Flush
  <2>2. CASE proc[p].buffer # NoResult
    <3>1. proc[p].buffer = proc[p].result /\ proc[p].result \in Results
      BY <2>2 DEF TypeInv, Has, ProcessType
    <3>2. QED
      BY <1>2, <1>4, <2>2, <3>1 DEF Flush
  <2>3. QED
    BY <2>1, <2>2
<1>5. ASSUME NEW p \in Processes, AlarmClose(p)
      PROVE  file'.content \notin Results \/ Returned(file'.content)
  <2>1. proc[p].rang = TRUE /\ Empty \in Results
    BY <1>5 DEF AlarmClose, TypeInv, Has, Results
  <2>2. QED
    BY <1>1, <1>5, <2>1 DEF AlarmClose, Returned
<1>6. ASSUME NEW p \in Processes, Open(p) \/ AlarmOpen(p)
      PROVE  file'.content \notin Results
  BY <1>6, RuntimeAssumption DEF Open, AlarmOpen
<1>7. ASSUME NEW p \in Processes, Step(p)
      PROVE  file' = file \/ file'.content \notin Results \/ Returned(file'.content)
  BY <1>3, <1>4, <1>5, <1>6, <1>7
  DEF Step, LoadConfig, Setup, CreateAgent, Close, Return, Unwind
<1>8. QED
  BY <1>7 DEF Next, Launch, Retry, RunSync, Alarm, RunReturns, SandboxError, Collect, ExecuteActions

LEMMA ReturnedStays ==
    ASSUME TypeInv, Next, NEW r \in Results, Returned(r)
    PROVE  Returned(r)'
BY ResultsStay DEF Returned

LEMMA ReadStep ==
    ASSUME TypeInv, ReadInv, [Next]_vars
    PROVE  ReadInv'
<1>1. CASE UNCHANGED vars
  BY <1>1 DEF vars, ReadInv, Returned
<1>2. CASE Next
  <2>1. ASSUME NEW r \in Results, Returned(r)
        PROVE  Returned(r)'
    BY <1>2, <2>1, ReturnedStays
  <2>2. ASSUME file'.content \in Results
        PROVE  Returned(file'.content)
    BY <1>2, <2>2, FileEffect DEF ReadInv
  <2>3. /\ run'.collected \in {run.collected, file.content}
        /\ run'.executed \in {run.executed, file.content}
    BY <1>2 DEF Next, Launch, Retry, Start, Fail, Step, LoadConfig, Setup, CreateAgent, Open, Write,
       Close, Return, AlarmOpen, AlarmClose, Unwind, RunSync, Alarm, RunReturns, SandboxError,
       Collect, ExecuteActions, TypeInv, RunType
  <2>4. /\ run'.collected \in Results => Returned(run'.collected)
        /\ run'.executed \in Results => Returned(run'.executed)
    BY <2>3 DEF ReadInv
  <2>5. QED
    BY <2>1, <2>2, <2>4 DEF ReadInv, Returned
<1>3. QED
  BY <1>1, <1>2

\* What the reconciler collects and executes was returned whole by one process,
\* or is the empty result of one whose alarm went off, however many processes
\* write result.json and whenever it is read (reconciler.go:159-203,
\* agent_run.py:189-242).
THEOREM WholeResultsAreRead == Spec => []ReadsWholeResults
<1>1. ASSUME Init
      PROVE  ReadInv
  BY <1>1, RuntimeAssumption DEF Init, ReadInv
<1>2. ASSUME TypeInv, ReadInv
      PROVE  ReadsWholeResults
  <2> SUFFICES ASSUME NEW r \in {run.collected, run.executed} \ {NoResult}
               PROVE  \E p \in Processes : proc[p].result = r \/ (r = Empty /\ proc[p].rang)
    BY DEF ReadsWholeResults
  <2>1. r \in Results
    BY <1>2 DEF TypeInv, RunType
  <2>2. QED
    BY <1>2, <2>1 DEF ReadInv, Returned
<1>3. QED
  BY <1>1, <1>2, TypeInvariant, ReadStep, PTL DEF Spec

-----------------------------------------------------------------------------
\* What a process that is alone leaves

\* What is in the file f while e is the only process that was started.
Fits(e, f) ==
    /\ e.pc \in Early \cup {"open"} => f.content = NoResult
    /\ e.pc \in {"open", "write"} => e.buffer = NoResult
    /\ e.pc \in {"write", "alarm-close"} => f.content = Truncated /\ f.length = 0
    /\ e.pc = "close" => \/ e.buffer = NoResult /\ f.content = e.result
                         \/ e.buffer = e.result /\ f.content = Truncated /\ f.length = 0
    /\ e.pc = "exit" => f.content = e.result
    /\ e.pc = "unwind" => f.content = Empty /\ f.length = Length[Empty]
    /\ e.pc \in {"open", "write", "close", "exit"} =>
         IF e.code = 1 THEN e.result = Empty ELSE e.result \in Outputs
    /\ e.pc = "over" =>
         IF e.code = 1 THEN f.content \in {NoResult, Empty}
         ELSE \/ f.content = e.result /\ e.result \in Outputs
              \/ e.rang /\ f.content = Empty
              \/ e.rang /\ f.content = Mixed /\ Length[e.result] < Length[Empty]

AloneInv == \A p \in Processes : Alone(p) => Fits(proc[p], file)

\* A process that is alone has been alone.
LEMMA AloneBefore ==
    ASSUME TypeInv, Next, NEW p \in Processes, Alone(p)'
    PROVE  Alone(p)
<1> SUFFICES ASSUME NEW q \in Processes \ {p}, proc[q].pc # "none"
             PROVE  proc'[q].pc # "none"
  BY DEF Alone
<1>1. proc[q] \in ProcessType
  BY DEF TypeInv
<1>2. CASE proc' = Kill \/ proc' = proc
  BY <1>1, <1>2 DEF Kill, ProcessType
<1>3. ASSUME NEW r \in Processes, Start(r) \/ LoadConfig(r) \/ Setup(r) \/ CreateAgent(r) \/ Return(r)
      PROVE  proc'[q].pc # "none"
  BY <1>3, <1>1 DEF Start, LoadConfig, Setup, CreateAgent, Return, Exit, TypeInv, ProcessType
<1>4. ASSUME NEW r \in Processes, Open(r) \/ Write(r) \/ Close(r) \/ AlarmOpen(r) \/ AlarmClose(r) \/ Unwind(r)
      PROVE  proc'[q].pc # "none"
  BY <1>4, <1>1 DEF Open, Write, Close, AlarmOpen, AlarmClose, Unwind, TypeInv, ProcessType
<1>5. ASSUME NEW r \in Processes, RunSync(r) \/ Alarm(r)
      PROVE  proc'[q].pc # "none"
  BY <1>5, <1>1 DEF RunSync, Alarm, TypeInv, ProcessType
<1>6. QED
  BY <1>2, <1>3, <1>4, <1>5 DEF Next, Step, Launch, Retry, Fail, RunReturns, SandboxError, Collect, ExecuteActions

\* Its own steps: what it writes is what it has returned, or the empty result.
LEMMA FitsStep ==
    ASSUME TypeInv, NEW p \in Processes, Fits(proc[p], file), Step(p) \/ RunSync(p) \/ Alarm(p)
    PROVE  Fits(proc'[p], file')
<1> DEFINE e == proc[p]
<1>1. e \in ProcessType /\ Has(e, config, Configs, Timeout)
  BY DEF TypeInv
<1>2. ASSUME NEW code \in {0, 1}, Exit(p, code), file' = file,
             \/ e.pc \in {"load", "setup", "create"} /\ code = 1
             \/ e.pc = "exit" /\ code = e.code
      PROVE  Fits(proc'[p], file')
  <2>1. proc'[p] = [e EXCEPT !.pc = "over", !.code = code]
    BY <1>2 DEF Exit, TypeInv
  <2>2. QED
    BY <1>1, <1>2, <2>1 DEF Fits, Early, ProcessType
<1>3. CASE LoadConfig(p)
  <2>1. CASE Exit(p, 1)
    BY <1>2, <1>3, <2>1 DEF LoadConfig
  <2>2. CASE proc' = [proc EXCEPT ![p].pc = "setup", ![p].config = config]
    BY <1>1, <1>3, <2>2 DEF LoadConfig, Fits, Early, TypeInv, ProcessType
  <2>3. QED
    BY <1>3, <2>1, <2>2 DEF LoadConfig
<1>4. CASE Setup(p)
  <2>1. CASE Exit(p, 1)
    BY <1>2, <1>4, <2>1 DEF Setup
  <2>2. CASE proc' = [proc EXCEPT ![p].pc = "create", ![p].alarm = proc[p].config.timeout]
    BY <1>1, <1>4, <2>2 DEF Setup, Fits, Early, TypeInv, ProcessType
  <2>3. QED
    BY <1>4, <2>1, <2>2 DEF Setup
<1>5. CASE CreateAgent(p)
  <2>1. CASE Exit(p, 1)
    BY <1>2, <1>5, <2>1 DEF CreateAgent
  <2>2. CASE proc' = [proc EXCEPT ![p].pc = "run"]
    BY <1>1, <1>5, <2>2 DEF CreateAgent, Fits, Early, TypeInv, ProcessType
  <2>3. QED
    BY <1>5, <2>1, <2>2 DEF CreateAgent
<1>6. CASE RunSync(p)
  <2>1. e.pc = "run" /\ e.buffer = NoResult /\ e.code = 0 /\ file.content = NoResult /\ file' = file
    BY <1>1, <1>6 DEF RunSync, Fits, Has, Early
  <2>2. \/ \E r \in Outputs : proc'[p] = [e EXCEPT !.pc = "open", !.result = r]
        \/ proc'[p] = [e EXCEPT !.pc = "open", !.result = Empty, !.code = 1]
    BY <1>6 DEF RunSync, TypeInv
  <2>3. ASSUME NEW r \in Outputs, proc'[p] = [e EXCEPT !.pc = "open", !.result = r]
        PROVE  Fits(proc'[p], file')
    BY <1>1, <2>1, <2>3 DEF Fits, Early, ProcessType
  <2>4. CASE proc'[p] = [e EXCEPT !.pc = "open", !.result = Empty, !.code = 1]
    BY <1>1, <2>1, <2>4 DEF Fits, Early, ProcessType
  <2>5. QED
    BY <2>2, <2>3, <2>4
<1>7. CASE Open(p)
  BY <1>1, <1>7 DEF Open, Fits, Early, TypeInv, ProcessType
<1>8. CASE Write(p)
  <2>1. file.length = 0 /\ file.content = Truncated /\ e.buffer = NoResult /\ e.pc = "write"
    BY <1>8 DEF Write, Fits
  <2>2. e.result \in Results
    BY <1>1, <2>1 DEF Has
  <2>3. Length[e.result] >= 0
    BY <2>2, RuntimeAssumption
  <2>4. CASE Length[e.result] > BufferSize
    <3>1. proc'[p] = [e EXCEPT !.pc = "close"]
      BY <1>8, <2>4 DEF Write, TypeInv
    <3>2. file' = Over(e.result)
      BY <1>8, <2>4 DEF Write
    <3>3. file'.content = e.result
      BY <3>2, <2>1, <2>3 DEF Over
    <3>4. QED
      BY <1>1, <2>1, <3>1, <3>3 DEF Fits, Early, ProcessType
  <2>5. CASE ~(Length[e.result] > BufferSize)
    <3>1. proc'[p] = [e EXCEPT !.pc = "close", !.buffer = e.result] /\ file' = file
      BY <1>8, <2>5 DEF Write, TypeInv
    <3>2. QED
      BY <1>1, <2>1, <3>1 DEF Fits, Early, ProcessType
  <2>6. QED
    BY <2>4, <2>5
<1>9. CASE Close(p)
  <2>1. e.pc = "close" /\ proc'[p] = [e EXCEPT !.pc = "exit", !.buffer = NoResult]
    BY <1>9 DEF Close, TypeInv
  <2>2. e.result \in Results /\ Length[e.result] >= 0 /\ e.result # NoResult
    BY <1>1, <2>1, RuntimeAssumption DEF Has
  <2>3. file'.content = e.result
    BY <1>9, <2>1, <2>2 DEF Close, Flush, Over, Fits
  <2>4. QED
    BY <1>1, <2>1, <2>3 DEF Fits, Early, ProcessType
<1>10. CASE Return(p)
  BY <1>1, <1>2, <1>10 DEF Return, ProcessType
<1>11. CASE Alarm(p)
  BY <1>1, <1>11 DEF Alarm, Fits, Early, TypeInv, ProcessType
<1>12. CASE AlarmOpen(p)
  BY <1>1, <1>12 DEF AlarmOpen, Fits, Early, TypeInv, ProcessType
<1>13. CASE AlarmClose(p)
  <2>1. file.length = 0 /\ e.pc = "alarm-close" /\ proc'[p] = [e EXCEPT !.pc = "unwind"]
    BY <1>13 DEF AlarmClose, Fits, TypeInv
  <2>2. Length[Empty] >= 0
    BY RuntimeAssumption DEF Results
  <2>3. file'.content = Empty /\ file'.length = Length[Empty]
    BY <1>13, <2>1, <2>2 DEF AlarmClose, Over
  <2>4. QED
    BY <1>1, <2>1, <2>3 DEF Fits, Early, ProcessType
<1>14. CASE Unwind(p)
  <2>1. /\ e.pc = "unwind" /\ e.rang = TRUE /\ file.content = Empty /\ file.length = Length[Empty]
        /\ proc'[p] = [e EXCEPT !.pc = "over", !.code = 0, !.buffer = NoResult]
    BY <1>1, <1>14 DEF Unwind, Fits, Has, TypeInv
  <2>2. CASE e.buffer = NoResult
    <3>1. file' = file
      BY <1>14, <2>2 DEF Unwind, Flush
    <3>2. QED
      BY <1>1, <2>1, <3>1 DEF Fits, Early, ProcessType
  <2>3. CASE e.buffer # NoResult
    <3>1. e.buffer = e.result /\ e.result \in Results /\ file' = Over(e.result)
      BY <1>1, <1>14, <2>3 DEF Unwind, Flush, Has, ProcessType
    <3>2. Length[e.result] \in Nat /\ Length[Empty] \in Nat
      BY <3>1, RuntimeAssumption DEF Results
    <3>3. \/ file'.content = e.result
          \/ file'.content = Mixed /\ Length[e.result] < Length[Empty]
      BY <2>1, <3>1, <3>2 DEF Over
    <3>4. QED
      BY <1>1, <2>1, <3>1, <3>3 DEF Fits, Early, ProcessType, Results
  <2>4. QED
    BY <2>2, <2>3
<1>15. QED
  BY <1>3, <1>4, <1>5, <1>6, <1>7, <1>8, <1>9, <1>10, <1>11, <1>12, <1>13, <1>14 DEF Step

\* What the reconciler does leaves the file and what a process is writing alone.
LEMMA FitsKept ==
    ASSUME TypeInv, NEW p \in Processes, Fits(proc[p], file), file' = file,
           \/ proc'[p] = proc[p]
           \/ proc'[p] = [proc[p] EXCEPT !.pc = "killed"]
           \/ proc[p].pc = "none" /\ proc'[p] = [proc[p] EXCEPT !.pc = "load"]
    PROVE  Fits(proc'[p], file')
<1>1. proc[p] \in ProcessType
  BY DEF TypeInv
<1>2. QED
  BY <1>1 DEF Fits, Early, ProcessType

LEMMA AloneStep ==
    ASSUME TypeInv, AloneInv, [Next]_vars
    PROVE  AloneInv'
<1>1. CASE UNCHANGED vars
  BY <1>1 DEF vars, AloneInv, Alone, Fits
<1>2. CASE Next
  <2> SUFFICES ASSUME NEW p \in Processes, Alone(p)'
               PROVE  Fits(proc'[p], file')
    BY DEF AloneInv
  <2>1. Alone(p) /\ Fits(proc[p], file)
    BY <1>2, AloneBefore DEF AloneInv
  <2>2. ASSUME NEW r \in Processes, Step(r) \/ RunSync(r) \/ Alarm(r)
        PROVE  Fits(proc'[p], file')
    <3>1. proc[r].pc # "none"
      BY <2>2 DEF Step, LoadConfig, Setup, CreateAgent, Open, Write, Close, Return,
                  AlarmOpen, AlarmClose, Unwind, RunSync, Alarm
    <3>2. r = p
      BY <2>1, <3>1 DEF Alone
    <3>3. QED
      BY <2>1, <2>2, <3>2, FitsStep
  <2>3. ASSUME NEW r \in Processes, Start(r), proc[r].pc = "none", file' = file
        PROVE  Fits(proc'[p], file')
    <3>1. proc' = [proc EXCEPT ![r] = [proc[r] EXCEPT !.pc = "load"]]
      BY <2>3 DEF Start
    <3>2. proc'[r] = [proc[r] EXCEPT !.pc = "load"] /\ proc'[r].pc = "load"
      BY <3>1 DEF TypeInv, ProcessType
    <3>3. r = p
      BY <3>2 DEF Alone
    <3>4. QED
      BY <2>1, <2>3, <3>2, <3>3, FitsKept
  <2>4. ASSUME proc' = Kill \/ proc' = proc, file' = file
        PROVE  Fits(proc'[p], file')
    <3>1. proc'[p] = proc[p] \/ proc'[p] = [proc[p] EXCEPT !.pc = "killed"]
      BY <2>4 DEF Kill
    <3>2. QED
      BY <2>1, <2>4, <3>1, FitsKept
  <2>5. ASSUME NEW r \in Processes, Launch(r) \/ Retry(r)
        PROVE  Fits(proc'[p], file')
    BY <2>3, <2>4, <2>5 DEF Launch, Retry, Fail
  <2>6. CASE RunReturns \/ SandboxError \/ Collect \/ ExecuteActions
    BY <2>4, <2>6 DEF RunReturns, SandboxError, Collect, ExecuteActions, Fail
  <2>7. QED
    BY <1>2, <2>2, <2>5, <2>6 DEF Next
<1>3. QED
  BY <1>1, <1>2

LEMMA AloneInit ==
    ASSUME Init
    PROVE  AloneInv
BY DEF Init, AloneInv, Fits, Early, Unstarted

LEMMA AloneInvariant == Spec => []AloneInv
BY AloneInit, AloneStep, TypeInvariant, PTL DEF Spec

\* A process that is alone and exits with 0 leaves what its agent returned or,
\* only after its alarm went off, the empty result; one that exits with 1 leaves
\* no result with actions, wherever the alarm interrupts write_result
\* (agent_run.py:189-242).
THEOREM ExitCodeIsRight == Spec => []ExitCodeTellsResult
<1>1. ASSUME AloneInv
      PROVE  ExitCodeTellsResult
  BY <1>1 DEF AloneInv, Fits, ExitCodeTellsResult
<1>2. QED
  BY <1>1, AloneInvariant, PTL

-----------------------------------------------------------------------------
\* What is executed after one start

ValidResults == {r \in Results : Rules!Validate(r)}

\* From the moment Run has returned the last process is over; if it is the only
\* one, nothing writes the file any more.
ExecuteInv ==
    /\ run.phase \in {"results", "actions", "succeeded"} =>
         run.last \in Processes /\ proc[run.last].pc \in {"over", "killed"}
    /\ run.phase = "actions" => run.collected \in ValidResults
    /\ \A p \in Processes : Alone(p) =>
         /\ run.phase = "actions" => file.content = run.collected
         /\ run.phase = "succeeded" => run.executed = run.collected /\ run.collected \in ValidResults

\* Starting a process leaves the run where nothing has been collected.
LEMMA ExecuteByReconciler ==
    ASSUME TypeInv, ExecuteInv, NEW p \in Processes, Launch(p) \/ Retry(p)
    PROVE  ExecuteInv'
<1>1. run'.phase \in {"agent", "failed"}
  BY DEF Launch, Retry, Start, Fail, TypeInv, RunType
<1>2. QED
  BY <1>1 DEF ExecuteInv

\* A step of a process changes neither what is over nor, if no other process was
\* started, the file that the run has come to read.
LEMMA ExecuteByProcess ==
    ASSUME TypeInv, ExecuteInv, NEW r \in Processes, Step(r) \/ RunSync(r) \/ Alarm(r), Next
    PROVE  ExecuteInv'
<1>1. run' = run
  BY DEF Step, LoadConfig, Setup, CreateAgent, Open, Write, Close, Return,
         AlarmOpen, AlarmClose, Unwind, RunSync, Alarm
<1>2. proc[r].pc \notin {"none", "over", "killed"}
  BY DEF Step, LoadConfig, Setup, CreateAgent, Open, Write, Close, Return,
         AlarmOpen, AlarmClose, Unwind, RunSync, Alarm
<1>3. ASSUME NEW q \in Processes \ {r}
      PROVE  proc'[q] = proc[q]
  BY DEF Step, LoadConfig, Setup, CreateAgent, Open, Write, Close, Return, Exit,
         AlarmOpen, AlarmClose, Unwind, RunSync, Alarm, TypeInv
<1>4. CASE run.phase \in {"results", "actions", "succeeded"}
  <2>1. run.last \in Processes \ {r} /\ proc[run.last].pc \in {"over", "killed"}
    BY <1>2, <1>4 DEF ExecuteInv
  <2>2. ASSUME NEW p \in Processes, Alone(p)'
        PROVE  FALSE
    <3>1. Alone(p)
      BY <2>2, AloneBefore
    <3>2. QED
      BY <1>2, <2>1, <3>1 DEF Alone
  <2>3. proc'[run.last].pc \in {"over", "killed"}
    BY <1>3, <2>1
  <2>4. run'.phase = "actions" => run'.collected \in ValidResults
    BY <1>1 DEF ExecuteInv
  <2>5. QED
    BY <1>1, <2>1, <2>2, <2>3, <2>4 DEF ExecuteInv
<1>5. CASE run.phase \notin {"results", "actions", "succeeded"}
  BY <1>1, <1>5 DEF ExecuteInv
<1>6. QED
  BY <1>4, <1>5

LEMMA ExecuteStep ==
    ASSUME TypeInv, ExecuteInv, [Next]_vars
    PROVE  ExecuteInv'
<1>1. CASE UNCHANGED vars
  BY <1>1 DEF vars, ExecuteInv, Alone
<1>2. ASSUME NEW r \in Processes, Step(r) \/ RunSync(r) \/ Alarm(r), Next
      PROVE  ExecuteInv'
  BY <1>2, ExecuteByProcess
<1>3. ASSUME NEW r \in Processes, Launch(r) \/ Retry(r)
      PROVE  ExecuteInv'
  BY <1>3, ExecuteByReconciler
<1>4. ASSUME Fail
      PROVE  ExecuteInv'
  <2>1. run'.phase = "failed"
    BY <1>4 DEF Fail, TypeInv, RunType
  <2>2. QED
    BY <2>1 DEF ExecuteInv
<1>5. CASE RunReturns
  <2>1. CASE run' = [run EXCEPT !.phase = "results"] /\ proc' = proc
    <3>1. run.last \in Processes /\ proc[run.last].pc = "over" /\ run'.last = run.last /\ run'.phase = "results"
      BY <1>5, <2>1 DEF RunReturns, TypeInv, RunType
    <3>2. QED
      BY <2>1, <3>1 DEF ExecuteInv
  <2>2. QED
    BY <1>4, <1>5, <2>1 DEF RunReturns
<1>6. CASE SandboxError
  BY <1>4, <1>6 DEF SandboxError
<1>7. CASE Collect
  <2>1. CASE Parses(file.content) /\ Rules!Validate(file.content)
    <3>1. /\ run'.phase = "actions" /\ run'.last = run.last /\ run'.collected = file.content
          /\ proc' = proc /\ file' = file
      BY <1>7, <2>1 DEF Collect, TypeInv, RunType
    <3>2. file.content \in ValidResults
      BY <2>1 DEF Parses, ValidResults
    <3>3. run.last \in Processes /\ proc[run.last].pc \in {"over", "killed"}
      BY <1>7 DEF Collect, ExecuteInv
    <3>4. QED
      BY <3>1, <3>2, <3>3 DEF ExecuteInv
  <2>2. QED
    BY <1>4, <1>7, <2>1 DEF Collect
<1>8. CASE ExecuteActions
  <2>1. CASE Parses(file.content)
    <3>1. /\ run'.phase = "succeeded" /\ run'.last = run.last /\ run'.collected = run.collected
          /\ run'.executed = file.content /\ proc' = Kill /\ file' = file
      BY <1>8, <2>1 DEF ExecuteActions, TypeInv, RunType
    <3>2. run.phase = "actions"
      BY <1>8 DEF ExecuteActions
    <3>3. run.last \in Processes /\ proc[run.last].pc \in {"over", "killed"} /\ run.collected \in ValidResults
      BY <3>2 DEF ExecuteInv
    <3>4. proc'[run.last] = proc[run.last]
      BY <3>1, <3>3 DEF Kill, Alive
    <3>5. ASSUME NEW p \in Processes, Alone(p)'
          PROVE  file.content = run.collected
      <4>1. Next
        BY <1>8 DEF Next
      <4>2. Alone(p)
        BY <3>5, <4>1, AloneBefore
      <4>3. QED
        BY <3>2, <4>2 DEF ExecuteInv
    <3>6. QED
      BY <3>1, <3>3, <3>4, <3>5 DEF ExecuteInv
  <2>2. QED
    BY <1>4, <1>8, <2>1 DEF ExecuteActions
<1>9. QED
  BY <1>1, <1>2, <1>3, <1>5, <1>6, <1>7, <1>8 DEF Next

\* When agent-run was started once, what is executed is what was collected and
\* validated, although the file is read again and not validated again
\* (reconciler.go:158-215).
THEOREM ValidatedResultIsExecuted == Spec => []ExecutesWhatWasValidated
<1>1. ASSUME Init
      PROVE  ExecuteInv
  BY <1>1 DEF Init, ExecuteInv
<1>2. ASSUME ExecuteInv
      PROVE  ExecutesWhatWasValidated
  BY <1>2 DEF ExecuteInv, ExecutesWhatWasValidated, ValidResults
<1>3. QED
  BY <1>1, <1>2, TypeInvariant, ExecuteStep, PTL DEF Spec

-----------------------------------------------------------------------------
\* What path.Clean computes
\*
\* Clean goes through a path with a fold of the library, which is a recursive
\* function on the sets of indexes.  What it computes is an induction over finite
\* sets: a family of subsets of a finite set has a smallest element.

LEMMA SmallestMember ==
    ASSUME NEW D, IsFiniteSet(D), NEW T \in SUBSET (SUBSET D), T # {}
    PROVE  \E s \in T : \A t \in SUBSET s : t # s => t \notin T
<1>1. T \subseteq FiniteSubsetsOf(D)
  BY FS_Subset DEF FiniteSubsetsOf
<1>2. IsWellFoundedOn(StrictSubsetOrdering(D), FiniteSubsetsOf(D))
  BY FS_StrictSubsetOrderingWellFounded
<1>3. PICK s \in T : \A t \in T : <<t, s>> \notin StrictSubsetOrdering(D)
  BY <1>1, <1>2, WFMin
<1>4. ASSUME NEW t \in SUBSET s, t # s, t \in T
      PROVE  FALSE
  BY <1>3, <1>4 DEF StrictSubsetOrdering
<1>5. QED
  BY <1>4

\* A set of indexes has a last one.
LEMMA LastIndex ==
    ASSUME NEW n \in Nat, NEW s \in SUBSET (1..n), s # {}
    PROVE  Rules!Max(s) \in s /\ \A i \in s : i <= Rules!Max(s)
<1> DEFINE HasLast(t) == \E i \in t : \A j \in t : i >= j
           Bad == {t \in SUBSET (1..n) : t # {} /\ ~ HasLast(t)}
<1>1. HasLast(s)
  <2> SUFFICES ASSUME ~ HasLast(s)
               PROVE  FALSE
    OBVIOUS
  <2>1. IsFiniteSet(1..n)
    BY FS_Interval
  <2>2. PICK t \in Bad : \A u \in SUBSET t : u # t => u \notin Bad
    <3>1. Bad \in SUBSET (SUBSET (1..n)) /\ Bad # {}
      OBVIOUS
    <3> HIDE DEF Bad
    <3>2. QED
      BY <2>1, <3>1, SmallestMember
  <2>3. PICK i : i \in t
    BY <2>2
  <2>4. t \ {i} # {}
    BY <2>2, <2>3
  <2>5. PICK k \in t \ {i} : \A j \in t \ {i} : k >= j
    BY <2>2, <2>3, <2>4
  <2>6. HasLast(t)
    BY <2>2, <2>3, <2>5
  <2>7. QED
    BY <2>2, <2>6
<1>2. QED
  BY <1>1 DEF Rules!Max

\* One name of the path: the loop of Clean.
Unfold(done, name) ==
    IF name \in {NoText, "."} THEN done
    ELSE IF name = ".." /\ done # <<>> /\ Rules!Last(done) # ".." THEN Rules!Front(done)
    ELSE Append(done, name)

\* What is left of the names with the indexes s, according to g.
FoldAt(path, g, s) ==
    IF s = {} THEN <<>> ELSE Unfold(g[s \ {Rules!Max(s)}], path[Rules!Max(s)])

\* g is the fold over the sets of indexes within s.
IsFold(path, g, s) == g = [t \in SUBSET s |-> FoldAt(path, g, t)]

Fold(path, s) == CHOOSE g : IsFold(path, g, s)

LEMMA CleanIsFold ==
    ASSUME NEW path
    PROVE  Rules!Clean(path) = Fold(path, DOMAIN path)[DOMAIN path]
BY DEF Rules!Clean, Fold, IsFold, FoldAt, Unfold, Rules!FoldLeft, Rules!MapThenFoldSet

LEMMA FoldUnique ==
    ASSUME NEW path, NEW n, n \in Nat, NEW s \in SUBSET (1..n), NEW t \in SUBSET s,
           NEW g, NEW h, IsFold(path, g, s), IsFold(path, h, t)
    PROVE  g[t] = h[t]
<1> DEFINE Bad == {u \in SUBSET t : g[u] # h[u]}
<1> SUFFICES ASSUME t \in Bad
             PROVE  FALSE
  OBVIOUS
<1>1. IsFiniteSet(t)
  <2>1. IsFiniteSet(1..n) /\ t \in SUBSET (1..n)
    BY FS_Interval
  <2>2. QED
    BY <2>1, FS_Subset
<1>2. PICK u \in Bad : \A v \in SUBSET u : v # u => v \notin Bad
  <2>1. Bad \in SUBSET (SUBSET t) /\ Bad # {}
    OBVIOUS
  <2> HIDE DEF Bad
  <2>2. \A T \in SUBSET (SUBSET t) : T # {} => \E u \in T : \A v \in SUBSET u : v # u => v \notin T
    BY <1>1, SmallestMember
  <2>3. QED
    BY <2>1, <2>2
<1>3. g[u] = FoldAt(path, g, u) /\ h[u] = FoldAt(path, h, u)
  BY <1>2 DEF IsFold
<1>4. u # {}
  BY <1>2, <1>3 DEF FoldAt
<1>5. Rules!Max(u) \in u
  BY <1>2, <1>4, LastIndex
<1>6. g[u \ {Rules!Max(u)}] = h[u \ {Rules!Max(u)}]
  BY <1>2, <1>5
<1>7. QED
  BY <1>2, <1>3, <1>6 DEF FoldAt

LEMMA FoldExists ==
    ASSUME NEW path, NEW n \in Nat, NEW s \in SUBSET (1..n)
    PROVE  IsFold(path, Fold(path, s), s)
<1> DEFINE Bad == {t \in SUBSET (1..n) : ~ \E g : IsFold(path, g, t)}
<1>1. ASSUME s \in Bad
      PROVE  FALSE
  <2>1. PICK t \in Bad : \A u \in SUBSET t : u # t => u \notin Bad
    <3>1. Bad \in SUBSET (SUBSET (1..n)) /\ Bad # {}
      BY <1>1
    <3>2. IsFiniteSet(1..n)
      BY FS_Interval
    <3> HIDE DEF Bad
    <3>3. QED
      BY <3>1, <3>2, SmallestMember
  <2>2. t \in SUBSET (1..n) /\ ~ \E g : IsFold(path, g, t)
    BY <2>1
  <2>3. ASSUME NEW u \in SUBSET t, u # t
        PROVE  IsFold(path, Fold(path, u), u)
    <3>1. \E g : IsFold(path, g, u)
      BY <2>1, <2>3
    <3>2. QED
      BY <3>1 DEF Fold
  <2> DEFINE Before(u) == u \ {Rules!Max(u)}
             Value(u) == IF u = {} THEN <<>>
                         ELSE Unfold(Fold(path, Before(u))[Before(u)], path[Rules!Max(u)])
             new == [u \in SUBSET t |-> Value(u)]
  <2>4. ASSUME NEW u \in SUBSET t, u # {}
        PROVE  new[Before(u)] = Fold(path, Before(u))[Before(u)]
    <3> DEFINE v == Before(u)
    <3>1. Rules!Max(u) \in u
      BY <2>2, <2>4, LastIndex
    <3>2. v \in SUBSET t /\ v # t
      BY <2>4, <3>1
    <3>3. IsFold(path, Fold(path, v), v)
      BY <2>3, <3>2
    <3>4. Fold(path, v)[v] = FoldAt(path, Fold(path, v), v)
      BY <3>3 DEF IsFold
    <3>5. ASSUME v # {}
          PROVE  Fold(path, v)[Before(v)] = Fold(path, Before(v))[Before(v)]
      <4>1. Rules!Max(v) \in v
        BY <2>2, <3>2, <3>5, LastIndex
      <4>2. Before(v) \in SUBSET v /\ Before(v) \in SUBSET t /\ Before(v) # t
        BY <3>2, <4>1
      <4>3. IsFold(path, Fold(path, Before(v)), Before(v))
        BY <2>3, <4>2
      <4>4. v \in SUBSET (1..n)
        BY <2>2, <3>2
      <4> HIDE DEF v, Before
      <4>5. QED
        BY <3>3, <4>2, <4>3, <4>4, FoldUnique
    <3>6. new[v] = Value(v)
      BY <3>2
    <3>7. QED
      BY <3>4, <3>5, <3>6 DEF FoldAt
  <2>5. \A u \in SUBSET t : Value(u) = FoldAt(path, new, u)
    <3> SUFFICES ASSUME NEW u \in SUBSET t
                 PROVE  Value(u) = FoldAt(path, new, u)
      OBVIOUS
    <3>1. CASE u = {}
      BY <3>1 DEF FoldAt
    <3>2. CASE u # {}
      <4>1. new[Before(u)] = Fold(path, Before(u))[Before(u)]
        BY <2>4, <3>2
      <4> HIDE DEF new
      <4>2. QED
        BY <3>2, <4>1 DEF FoldAt
    <3>3. QED
      BY <3>1, <3>2
  <2>6. IsFold(path, new, t)
    BY <2>5, Zenon DEF IsFold
  <2>7. QED
    BY <2>2, <2>6
<1>2. \E g : IsFold(path, g, s)
  BY <1>1
<1>3. QED
  BY <1>2 DEF Fold

\* Clean takes the names one after the other.
LEMMA FoldSteps ==
    ASSUME NEW path, NEW n \in Nat
    PROVE  /\ Fold(path, 1..n)[1..0] = <<>>
           /\ \A i \in 1..n :
                Fold(path, 1..n)[1..i] = Unfold(Fold(path, 1..n)[1..(i - 1)], path[i])
<1>1. IsFold(path, Fold(path, 1..n), 1..n)
  BY FoldExists
<1>2. \A s \in SUBSET (1..n) : Fold(path, 1..n)[s] = FoldAt(path, Fold(path, 1..n), s)
  BY <1>1 DEF IsFold
<1>3. Fold(path, 1..n)[1..0] = <<>>
  BY <1>2 DEF FoldAt
<1>4. ASSUME NEW i \in 1..n
      PROVE  Fold(path, 1..n)[1..i] = Unfold(Fold(path, 1..n)[1..(i - 1)], path[i])
  <2>1. 1..i \in SUBSET (1..n) /\ 1..i # {}
    OBVIOUS
  <2>2. Rules!Max(1..i) = i
    <3>1. Rules!Max(1..i) \in 1..i /\ \A j \in 1..i : j <= Rules!Max(1..i)
      BY <2>1, LastIndex
    <3>2. QED
      BY <3>1
  <2>3. (1..i) \ {i} = 1..(i - 1)
    OBVIOUS
  <2>4. QED
    BY <1>2, <2>1, <2>2, <2>3 DEF FoldAt
<1>5. QED
  BY <1>3, <1>4

-----------------------------------------------------------------------------
\* Paths that are accepted

\* What is left of a path leads out of the directory, or down from it.
Leaves(done) == done # <<>> /\ done[1] = ".."

Descends(done) == \A i \in 1..Len(done) : done[i] # ".."

\* A name ".." takes away a name before it, or is the first that is left for good.
LEMMA UnfoldStep ==
    ASSUME NEW Names, NEW done \in Seq(Names), NEW name \in Names, NoText # ".."
    PROVE  /\ Unfold(done, name) \in Seq(Names)
           /\ Leaves(done) => Leaves(Unfold(done, name))
           /\ Descends(done) =>
                \/ Leaves(Unfold(done, name))
                \/ /\ Descends(Unfold(done, name))
                   /\ Len(Unfold(done, name)) =
                        Len(done) + (IF name \in {NoText, "."} THEN 0
                                     ELSE IF name = ".." THEN -1 ELSE 1)
<1>1. CASE name \in {NoText, "."}
  BY <1>1 DEF Unfold
<1>2. CASE name = ".." /\ done # <<>> /\ Rules!Last(done) # ".."
  <2>1. Unfold(done, name) = SubSeq(done, 1, Len(done) - 1)
    BY <1>2 DEF Unfold, Rules!Front
  <2>2. done[Len(done)] # ".." /\ Len(done) \in Nat \ {0}
    BY <1>2 DEF Rules!Last
  <2>3. /\ SubSeq(done, 1, Len(done) - 1) \in Seq(Names)
        /\ Len(SubSeq(done, 1, Len(done) - 1)) = Len(done) - 1
        /\ \A i \in 1..(Len(done) - 1) : SubSeq(done, 1, Len(done) - 1)[i] = done[i]
    <3>1. PICK m \in Nat : m = Len(done) - 1
      BY <2>2
    <3>2. 1 \in Int /\ m \in Int /\ \A i \in 1..m : done[i] \in Names
      BY <2>2, <3>1
    <3>3. /\ SubSeq(done, 1, m) \in Seq(Names)
          /\ Len(SubSeq(done, 1, m)) = IF 1 <= m THEN m - 1 + 1 ELSE 0
          /\ \A i \in 1..(m - 1 + 1) : SubSeq(done, 1, m)[i] = done[1 + i - 1]
      BY <3>2, SubSeqProperties
    <3>4. /\ m - 1 + 1 = m /\ (IF 1 <= m THEN m - 1 + 1 ELSE 0) = m
          /\ \A i \in 1..m : 1 + i - 1 = i
      OBVIOUS
    <3>5. \A i \in 1..m : SubSeq(done, 1, m)[i] = done[i]
      BY <3>3, <3>4
    <3>6. QED
      BY <3>1, <3>3, <3>4, <3>5
  <2>4. QED
    BY <1>2, <2>1, <2>2, <2>3 DEF Leaves, Descends
<1>3. CASE name \notin {NoText, "."} /\ ~ (name = ".." /\ done # <<>> /\ Rules!Last(done) # "..")
  <2>1. Unfold(done, name) = Append(done, name)
    BY <1>3 DEF Unfold
  <2>2. /\ Append(done, name) \in Seq(Names)
        /\ Len(Append(done, name)) = Len(done) + 1 /\ Len(done) \in Nat
        /\ \A i \in 1..Len(done) : Append(done, name)[i] = done[i]
        /\ Append(done, name)[Len(done) + 1] = name
    OBVIOUS
  <2>3. ASSUME Leaves(done)
        PROVE  Leaves(Append(done, name))
    BY <2>2, <2>3 DEF Leaves
  <2>4. CASE name # ".."
    BY <1>3, <2>1, <2>2, <2>3, <2>4 DEF Descends
  <2>5. CASE name = ".."
    <3>1. ASSUME Descends(done)
          PROVE  Leaves(Append(done, name))
      <4>1. done = <<>>
        BY <1>3, <2>2, <2>5, <3>1 DEF Descends, Rules!Last
      <4>2. QED
        BY <2>2, <2>5, <4>1 DEF Leaves
    <3>2. QED
      BY <2>1, <2>2, <2>3, <3>1
  <2>6. QED
    BY <2>4, <2>5
<1>4. QED
  BY <1>1, <1>2, <1>3

Ups(path, i) == Cardinality({k \in 1..i : path[k] = ".."})

Downs(path, i) == Cardinality({k \in 1..i : path[k] \notin {NoText, ".", ".."}})

LEMMA Counts ==
    ASSUME NEW path, NEW i \in Nat
    PROVE  /\ Ups(path, i) \in Nat /\ Downs(path, i) \in Nat
           /\ Ups(path, 0) = 0 /\ Downs(path, 0) = 0
           /\ Ups(path, i + 1) = Ups(path, i) + (IF path[i + 1] = ".." THEN 1 ELSE 0)
           /\ Downs(path, i + 1) =
                Downs(path, i) + (IF path[i + 1] \in {NoText, ".", ".."} THEN 0 ELSE 1)
<1> DEFINE U(n) == {k \in 1..n : path[k] = ".."}
           D(n) == {k \in 1..n : path[k] \notin {NoText, ".", ".."}}
<1>1. \A n \in Nat : IsFiniteSet(U(n)) /\ IsFiniteSet(D(n))
  <2> TAKE n \in Nat
  <2>1. IsFiniteSet(1..n) /\ U(n) \in SUBSET (1..n) /\ D(n) \in SUBSET (1..n)
    BY FS_Interval
  <2>2. QED
    BY <2>1, FS_Subset
<1>2. U(0) = {} /\ D(0) = {}
  OBVIOUS
<1>3. U(i + 1) = IF path[i + 1] = ".." THEN U(i) \cup {i + 1} ELSE U(i)
  OBVIOUS
<1>4. D(i + 1) = IF path[i + 1] \in {NoText, ".", ".."} THEN D(i) ELSE D(i) \cup {i + 1}
  OBVIOUS
<1>5. i + 1 \notin U(i) /\ i + 1 \notin D(i)
  OBVIOUS
<1>6. \A n : Ups(path, n) = Cardinality(U(n)) /\ Downs(path, n) = Cardinality(D(n))
  BY DEF Ups, Downs
<1> HIDE DEF U, D
<1>7. Cardinality(U(i)) \in Nat /\ Cardinality(D(i)) \in Nat
  BY <1>1, FS_CardinalityType
<1>8. Cardinality(U(0)) = 0 /\ Cardinality(D(0)) = 0
  BY <1>2, FS_EmptySet
<1>9. /\ Cardinality(U(i) \cup {i + 1}) = Cardinality(U(i)) + 1
      /\ Cardinality(D(i) \cup {i + 1}) = Cardinality(D(i)) + 1
  BY <1>1, <1>5, FS_AddElement
<1>10. QED
  BY <1>3, <1>4, <1>6, <1>7, <1>8, <1>9

\* After i names the path has left the directory for good, or it is as deep as it
\* went down more than up.
Reaches(path, i, done, Names) ==
    /\ done \in Seq(Names)
    /\ \/ Leaves(done)
       \/ Descends(done) /\ Len(done) = Downs(path, i) - Ups(path, i)

LEMMA DepthOfPrefixes ==
    ASSUME NEW Names, NEW path \in Seq(Names), NoText # "..",
           NEW F, F = Fold(path, 1..Len(path))
    PROVE  \A i \in 0..Len(path) :
             /\ Reaches(path, i, F[1..i], Names)
             /\ \A j \in 0..i : Leaves(F[1..j]) => Leaves(F[1..i])
<1> DEFINE n == Len(path)
           Good(i) == /\ Reaches(path, i, F[1..i], Names)
                      /\ \A j \in 0..i : Leaves(F[1..j]) => Leaves(F[1..i])
           Bad == {s \in SUBSET (1..n) : \E i \in 0..n : s = 1..i /\ ~ Good(i)}
<1>1. n \in Nat /\ \A i \in 1..n : path[i] \in Names
  OBVIOUS
<1>2. Good(0)
  <2>1. F[1..0] = <<>>
    BY <1>1, FoldSteps
  <2>2. Ups(path, 0) = 0 /\ Downs(path, 0) = 0
    BY Counts
  <2>3. Reaches(path, 0, <<>>, Names)
    BY <2>2 DEF Reaches, Descends
  <2>4. \A j \in 0..0 : j = 0
    OBVIOUS
  <2>5. QED
    BY <2>1, <2>3, <2>4
<1>3. ASSUME NEW i \in 0..n, i # n, Good(i)
      PROVE  Good(i + 1)
  <2> DEFINE d == F[1..i]
             e == F[1..(i + 1)]
  <2>1. e = Unfold(d, path[i + 1])
    <3>1. i + 1 \in 1..n /\ (i + 1) - 1 = i
      BY <1>1, <1>3
    <3>2. F[1..(i + 1)] = Unfold(F[1..((i + 1) - 1)], path[i + 1])
      BY <1>1, <3>1, FoldSteps
    <3>3. QED
      BY <3>1, <3>2
  <2>2. d \in Seq(Names) /\ path[i + 1] \in Names
    BY <1>1, <1>3 DEF Reaches
  <2>3. Leaves(d) => Leaves(e)
    BY <2>1, <2>2, UnfoldStep
  <2>4. Reaches(path, i + 1, e, Names)
    <3>1. e \in Seq(Names)
      BY <2>1, <2>2, UnfoldStep
    <3>2. CASE Leaves(d)
      BY <2>3, <3>1, <3>2 DEF Reaches
    <3>3. CASE ~ Leaves(d)
      <4>1. Descends(d) /\ Len(d) = Downs(path, i) - Ups(path, i)
        BY <1>3, <3>3 DEF Reaches
      <4>2. \/ Leaves(e)
            \/ /\ Descends(e)
               /\ Len(e) = Len(d) + (IF path[i + 1] \in {NoText, "."} THEN 0
                                     ELSE IF path[i + 1] = ".." THEN -1 ELSE 1)
        BY <2>1, <2>2, <4>1, UnfoldStep
      <4>3. /\ Ups(path, i) \in Nat /\ Downs(path, i) \in Nat
            /\ Ups(path, i + 1) = Ups(path, i) + (IF path[i + 1] = ".." THEN 1 ELSE 0)
            /\ Downs(path, i + 1) =
                 Downs(path, i) + (IF path[i + 1] \in {NoText, ".", ".."} THEN 0 ELSE 1)
        <5>1. i \in Nat
          BY <1>1, <1>3
        <5>2. QED
          BY <5>1, Counts
      <4> HIDE DEF d, e
      <4>4. ".." # "."
        OBVIOUS
      <4>5. CASE Leaves(e)
        BY <3>1, <4>5 DEF Reaches
      <4>6. CASE ~ Leaves(e)
        <5>1. Len(e) = Downs(path, i + 1) - Ups(path, i + 1)
          BY <4>1, <4>2, <4>3, <4>4, <4>6
        <5>2. QED
          BY <3>1, <4>2, <4>6, <5>1 DEF Reaches
      <4>7. QED
        BY <4>5, <4>6
    <3>4. QED
      BY <3>2, <3>3
  <2>5. ASSUME NEW j \in 0..(i + 1), Leaves(F[1..j])
        PROVE  Leaves(e)
    <3>1. j = i + 1 \/ j \in 0..i
      BY <1>3
    <3>2. QED
      BY <1>3, <2>3, <2>5, <3>1
  <2>6. QED
    BY <2>4, <2>5
<1>4. ASSUME NEW i \in 0..n, ~ Good(i)
      PROVE  FALSE
  <2> HIDE DEF Good
  <2>1. PICK s \in Bad : \A t \in SUBSET s : t # s => t \notin Bad
    <3>1. 1..i \in SUBSET (1..n)
      BY <1>1
    <3>2. 1..i \in Bad
      BY <1>4, <3>1
    <3>3. Bad \in SUBSET (SUBSET (1..n)) /\ Bad # {}
      BY <3>2
    <3>4. IsFiniteSet(1..n)
      BY <1>1, FS_Interval
    <3>5. \A T \in SUBSET (SUBSET (1..n)) :
            T # {} => \E s \in T : \A t \in SUBSET s : t # s => t \notin T
      BY <3>4, SmallestMember
    <3> HIDE DEF Bad
    <3>6. QED
      BY <3>3, <3>5
  <2>2. PICK k \in 0..n : s = 1..k /\ ~ Good(k)
    BY <2>1
  <2>3. k # 0
    BY <1>2, <2>2
  <2>4. k - 1 \in 0..n /\ k - 1 # n /\ (k - 1) + 1 = k
    BY <1>1, <2>3
  <2>5. 1..(k - 1) \in SUBSET s /\ 1..(k - 1) # s
    BY <1>1, <2>2, <2>3
  <2>6. Good(k - 1)
    BY <1>1, <2>1, <2>4, <2>5
  <2>7. QED
    BY <1>3, <2>2, <2>4, <2>6
<1>5. QED
  BY <1>4

\* validatePath accepts no path that leaves the repository at any point.
LEMMA AcceptedPathsDescend ==
    ASSUME NEW Names, NEW path \in Seq(Names), NoText # "..", Rules!validatePath(path)
    PROVE  Inside(path)
<1> DEFINE n == Len(path)
<1>1. n \in Nat /\ DOMAIN path = 1..n
  OBVIOUS
<1>2. PICK F : F = Fold(path, 1..n)
  OBVIOUS
<1>3. Rules!Clean(path) = F[1..n]
  BY <1>1, <1>2, CleanIsFold
<1>4. \A i \in 0..n : /\ Reaches(path, i, F[1..i], Names)
                      /\ \A j \in 0..i : Leaves(F[1..j]) => Leaves(F[1..i])
  BY <1>2, DepthOfPrefixes
<1>5. ~ Rules!Absolute(path) /\ (F[1..n] # <<>> => Head(F[1..n]) # "..")
  BY <1>3 DEF Rules!validatePath
<1>6. ~ Leaves(F[1..n])
  <2>1. F[1..n] \in Seq(Names)
    BY <1>1, <1>4 DEF Reaches
  <2>2. F[1..n] # <<>> => Head(F[1..n]) = F[1..n][1]
    BY <2>1
  <2>3. QED
    BY <1>5, <2>2 DEF Leaves
<1>7. ASSUME NEW i \in 1..n
      PROVE  Ups(path, i) <= Downs(path, i)
  <2>1. i \in 0..n /\ n \in 0..n /\ i \in 0..n
    BY <1>1
  <2>2. ~ Leaves(F[1..i])
    BY <1>4, <1>6, <2>1
  <2>3. F[1..i] \in Seq(Names) /\ Len(F[1..i]) = Downs(path, i) - Ups(path, i)
    BY <1>4, <2>1, <2>2 DEF Reaches
  <2>4. Len(F[1..i]) \in Nat
    BY <2>3
  <2>5. Ups(path, i) \in Nat /\ Downs(path, i) \in Nat
    BY <1>1, Counts
  <2>6. QED
    BY <2>3, <2>4, <2>5
<1>8. QED
  BY <1>1, <1>5, <1>7 DEF Inside, Ups, Downs

\* What is collected was validated, and stays as it is.
CollectedInv == run.collected # NoResult => run.collected \in ValidResults

\* A result that is collected has no commit with a path out of the repository:
\* the length of what path.Clean has left is how much deeper the path is than the
\* repository, as long as no ".." is left in front; one that is stays there, and
\* is then refused (parser.go:120-139).
THEOREM CommitsStay == Spec => []CommitsStayInside
<1>1. ASSUME Init
      PROVE  CollectedInv
  BY <1>1 DEF Init, CollectedInv
<1>2. ASSUME TypeInv, CollectedInv, [Next]_vars
      PROVE  CollectedInv'
  <2>1. run'.collected \in {run.collected} \/ run'.collected \in ValidResults
    BY <1>2 DEF Next, Launch, Retry, Start, Fail, Step, LoadConfig, Setup, CreateAgent, Open, Write,
       Close, Return, AlarmOpen, AlarmClose, Unwind, RunSync, Alarm, RunReturns, SandboxError,
       Collect, ExecuteActions, TypeInv, RunType, Parses, ValidResults, vars
  <2>2. ValidResults' = ValidResults
    BY DEF ValidResults, Results
  <2>3. QED
    BY <1>2, <2>1, <2>2 DEF CollectedInv
<1>3. ASSUME CollectedInv
      PROVE  CommitsStayInside
  <2> SUFFICES ASSUME run.collected # NoResult,
                      NEW i \in DOMAIN run.collected.actions,
                      run.collected.actions[i].type = "commit",
                      NEW path \in run.collected.actions[i].files
               PROVE  Inside(path)
    BY Zenon DEF CommitsStayInside
  <2>1. run.collected \in Results /\ Rules!Validate(run.collected)
    BY <1>3 DEF CollectedInv, ValidResults
  <2>2. Rules!validateAction(run.collected.actions[i])
    BY <2>1 DEF Rules!Validate
  <2>3. Rules!validatePath(path)
    BY <2>2 DEF Rules!validateAction
  <2>4. path \in Seq(STRING) /\ NoText # ".."
    BY <2>1, RuntimeAssumption
  <2>5. QED
    BY <2>3, <2>4, AcceptedPathsDescend
<1>4. QED
  BY <1>1, <1>2, <1>3, TypeInvariant, PTL DEF Spec

=============================================================================
