---------------------- MODULE AgentRunReconciler_proofs ----------------------
(***************************************************************************)
(* Proofs about AgentRunReconciler, for any sets of runs, controllers,     *)
(* sandboxes and results, and any number of faults of each kind.           *)
(***************************************************************************)
EXTENDS AgentRunProperties, TLAPS

-----------------------------------------------------------------------------
\* The condition manager

\* The dependents, one by one.
LEMMA DependentsAre ==
    Dependents = {"SandboxReady", "AgentExecuted", "ResultsCollected", "ActionsExecuted"}
<1>1. 1..4 = {1, 2, 3, 4}
  OBVIOUS
<1>2. QED
  BY <1>1 DEF Dependents, Phases

\* Whatever is marked True or False, the conditions stay conditions.
LEMMA MarkTrueType ==
    ASSUME NEW cond \in Conditions, NEW t \in ConditionTypes
    PROVE  MarkTrue(cond, t) \in Conditions
<1> DEFINE set == [cond EXCEPT ![t] = "True"]
<1>1. set \in Conditions
  BY DEF Conditions, ConditionValues
<1>2. Happiness(set, t) \in ConditionValues
  BY <1>1 DEF Happiness, Conditions, ConditionValues, ConditionTypes
<1>3. QED
  BY <1>1, <1>2 DEF MarkTrue, Conditions

LEMMA MarkFalseType ==
    ASSUME NEW cond \in Conditions, NEW t
    PROVE  MarkFalse(cond, t) \in Conditions
BY DEF MarkFalse, Conditions, ConditionValues

\* A run that is marked failed is over.
LEMMA MarkFalseIsTerminal ==
    ASSUME NEW cond \in Conditions, NEW t
    PROVE  IsTerminal(MarkFalse(cond, t))
BY DEF MarkFalse, IsTerminal, Conditions, ConditionTypes

\* A run all of whose phases are done is over; GetCurrentPhase then has no
\* phase to offer.
Settled(cond) == (\A d \in Dependents : cond[d] = "True") => IsTerminal(cond)

\* Marking a phase True leaves no run undecided.
LEMMA MarkTrueSettled ==
    ASSUME NEW cond \in Conditions, NEW t \in Dependents
    PROVE  Settled(MarkTrue(cond, t))
<1> DEFINE set == [cond EXCEPT ![t] = "True"]
<1>1. set \in Conditions /\ t # "Succeeded" /\ "Succeeded" \notin Dependents
  BY DependentsAre DEF Conditions, ConditionValues
<1>2. SUFFICES ASSUME \A d \in Dependents : MarkTrue(cond, t)[d] = "True"
               PROVE  IsTerminal(MarkTrue(cond, t))
  BY DEF Settled
<1>3. \A d \in Dependents : set[d] = "True"
  BY <1>1, <1>2 DEF MarkTrue, Conditions, ConditionTypes
<1>4. Happiness(set, t) = "True"
  BY <1>1, <1>3 DEF Happiness
<1>5. QED
  BY <1>1, <1>4 DEF MarkTrue, IsTerminal, Conditions, ConditionTypes

\* GetCurrentPhase returns a phase that is not True, unless all are.
LEMMA CurrentPhase ==
    ASSUME NEW cond \in Conditions, ~ \A d \in Dependents : cond[d] = "True"
    PROVE  GetCurrentPhase(cond) \in Dependents /\ cond[GetCurrentPhase(cond)] # "True"
<1> DEFINE First(i) == /\ cond[Phases[i]] # "True"
                       /\ \A j \in 1..(i - 1) : cond[Phases[j]] = "True"
           k == CHOOSE i \in 1..4 : First(i)
<1>1. /\ 1..4 = {1, 2, 3, 4} /\ 1..(1 - 1) = {} /\ 1..(2 - 1) = {1}
      /\ 1..(3 - 1) = {1, 2} /\ 1..(4 - 1) = {1, 2, 3}
  OBVIOUS
<1>2. \E i \in {1, 2, 3, 4} : cond[Phases[i]] # "True"
  BY <1>1 DEF Dependents
<1>3. \E i \in 1..4 : First(i)
  <2>1. CASE cond[Phases[1]] # "True"
    BY <1>1, <2>1
  <2>2. CASE cond[Phases[1]] = "True" /\ cond[Phases[2]] # "True"
    BY <1>1, <2>2
  <2>3. CASE cond[Phases[1]] = "True" /\ cond[Phases[2]] = "True" /\ cond[Phases[3]] # "True"
    BY <1>1, <2>3
  <2>4. CASE /\ cond[Phases[1]] = "True" /\ cond[Phases[2]] = "True"
             /\ cond[Phases[3]] = "True" /\ cond[Phases[4]] # "True"
    BY <1>1, <2>4
  <2>5. QED
    BY <1>2, <2>1, <2>2, <2>3, <2>4
<1>4. k \in 1..4 /\ First(k)
  BY <1>3
<1>5. GetCurrentPhase(cond) = Phases[k]
  BY DEF GetCurrentPhase
<1>6. QED
  BY <1>4, <1>5 DEF Dependents

-----------------------------------------------------------------------------
\* Type correctness

\* No copy of an object has all its phases done and is still undecided.
AllSettled ==
    /\ \A r \in Runs : Settled(api[r].cond)
    /\ \A c \in Controllers, r \in Runs : Settled(cache[c][r].cond)
    /\ \A c \in Controllers : Settled(work[c].obj.cond)

TypeInv == TypeOK /\ AllSettled

LEMMA ObjectFields ==
    ASSUME NEW obj \in Objects, NEW cond \in Conditions, NEW s \in Sandboxes \cup {NoSandbox},
           NEW u \in Results \cup {NoResult}, NEW audit \in Seq(Actions), NEW b \in BOOLEAN
    PROVE  /\ [obj EXCEPT !.cond = cond] \in Objects
           /\ [obj EXCEPT !.cond = cond, !.completed = b] \in Objects
           /\ [obj EXCEPT !.sandbox = s] \in Objects
           /\ [obj EXCEPT !.usage = u] \in Objects
           /\ [obj EXCEPT !.audit = audit] \in Objects
           /\ [obj EXCEPT !.rv = @ + 1] \in Objects
           /\ obj.cond \in Conditions
           /\ obj.rv \in Nat
<1>1. [obj EXCEPT !.cond = cond] \in Objects
  BY DEF Objects
<1>2. [obj EXCEPT !.cond = cond, !.completed = b] \in Objects
  BY DEF Objects
<1>3. [obj EXCEPT !.sandbox = s] \in Objects
  BY DEF Objects
<1>4. [obj EXCEPT !.usage = u] \in Objects
  BY DEF Objects
<1>5. [obj EXCEPT !.audit = audit] \in Objects
  BY DEF Objects
<1>6. [obj EXCEPT !.rv = @ + 1] \in Objects
  BY DEF Objects
<1>7. obj.cond \in Conditions /\ obj.rv \in Nat
  BY DEF Objects
<1>8. QED
  BY <1>1, <1>2, <1>3, <1>4, <1>5, <1>6, <1>7

LEMMA UnbornType == Unborn \in Objects /\ Settled(Unborn.cond)
<1>1. NoConditions \in Conditions
  BY DEF NoConditions, Conditions, ConditionValues
<1>2. Settled(NoConditions)
  BY DependentsAre DEF NoConditions, Settled, ConditionTypes
<1>3. QED
  BY <1>1, <1>2 DEF Unborn, Objects

LEMMA IdleType == Idle \in Work /\ Settled(Idle.obj.cond)
BY UnbornType DEF Idle, Work, Points

\* The in-memory marks keep an object an object, and settled.
LEMMA MarkedType ==
    ASSUME NEW obj \in Objects
    PROVE  /\ MarkFailedObject(obj) \in Objects /\ Settled(MarkFailedObject(obj).cond)
           /\ Succeed(obj) \in Objects /\ Settled(Succeed(obj).cond)
           /\ \A t \in Dependents : LET marked == [obj EXCEPT !.cond = MarkTrue(@, t)]
                                     IN  marked \in Objects /\ Settled(marked.cond)
<1>1. MarkFailedObject(obj) \in Objects /\ Settled(MarkFailedObject(obj).cond)
  BY MarkFalseType, MarkFalseIsTerminal DEF MarkFailedObject, Objects, Settled
<1>2. \A t \in Dependents : LET marked == [obj EXCEPT !.cond = MarkTrue(@, t)]
                            IN  marked \in Objects /\ Settled(marked.cond)
  BY MarkTrueType, MarkTrueSettled DEF Objects, ConditionTypes
<1>3. Succeed(obj) \in Objects /\ Settled(Succeed(obj).cond)
  <2> DEFINE first == MarkTrue(obj.cond, "ActionsExecuted")
             second == MarkTrue(first, "Succeeded")
  <2>1. obj.cond \in Conditions /\ "ActionsExecuted" \in ConditionTypes
        /\ "Succeeded" \in ConditionTypes
    BY DependentsAre DEF Objects, ConditionTypes
  <2>2. first \in Conditions /\ second \in Conditions
    BY <2>1, MarkTrueType
  <2>3. Settled(second)
    BY <2>2, DependentsAre
       DEF Settled, MarkTrue, Happiness, IsTerminal, Conditions, ConditionTypes, ConditionValues
  <2>4. QED
    BY <2>2, <2>3 DEF Succeed, Objects
<1>4. QED
  BY <1>1, <1>2, <1>3

\* What TypeInv says of the Reconcile calls, and that a step which moves one
\* call on, ends it or leaves them all alone keeps it.
WorkInv ==
    /\ work \in [Controllers -> Work]
    /\ \A c \in Controllers : work[c].pc # "idle" => work[c].run \in Runs
    /\ \A c \in Controllers : Settled(work[c].obj.cond)

LEMMA GotoType ==
    ASSUME WorkInv, NEW c \in Controllers, NEW pc \in Points, NEW obj \in Objects,
           work[c].pc # "idle", Settled(obj.cond), Goto(c, pc, obj)
    PROVE  WorkInv'
<1>1. work[c] \in Work /\ work[c].run \in Runs
  BY DEF WorkInv
<1>2. [work[c] EXCEPT !.pc = pc, !.obj = obj] \in Work
  BY <1>1 DEF Work
<1>3. work' = [work EXCEPT ![c] = [work[c] EXCEPT !.pc = pc, !.obj = obj]]
  BY DEF Goto, WorkInv
<1>4. work' \in [Controllers -> Work]
  BY <1>2, <1>3 DEF WorkInv
<1>5. work'[c].run \in Runs /\ work'[c].obj = obj
  BY <1>1, <1>3 DEF WorkInv, Work
<1>6. \A d \in Controllers \ {c} : work'[d] = work[d]
  BY <1>3 DEF WorkInv
<1>7. QED
  BY <1>4, <1>5, <1>6 DEF WorkInv

LEMMA ReturnType ==
    ASSUME WorkInv, NEW c \in Controllers, Return(c)
    PROVE  WorkInv'
<1>1. work' = [work EXCEPT ![c] = Idle]
  BY DEF Return
<1>2. work' \in [Controllers -> Work]
  BY <1>1, IdleType DEF WorkInv
<1>3. work'[c] = Idle /\ \A d \in Controllers \ {c} : work'[d] = work[d]
  BY <1>1 DEF WorkInv
<1>4. QED
  BY <1>2, <1>3, IdleType DEF WorkInv, Idle

\* The object of a call, and the marks that a phase puts on it.
LEMMA CallObject ==
    ASSUME WorkInv, NEW c \in Controllers
    PROVE  work[c] \in Work /\ work[c].obj \in Objects /\ Settled(work[c].obj.cond)
BY DEF WorkInv, Work

LEMMA FailType ==
    ASSUME WorkInv, NEW c \in Controllers, work[c].pc # "idle", Fail(c)
    PROVE  WorkInv'
<1>1. "markFailed" \in Points
  BY DEF Points
<1>2. QED
  BY <1>1, CallObject, MarkedType, GotoType DEF Fail

LEMMA PhaseDoneType ==
    ASSUME WorkInv, NEW c \in Controllers, work[c].pc # "idle",
           NEW obj \in Objects, NEW t \in Dependents, PhaseDone(c, obj, t)
    PROVE  WorkInv'
<1>1. "UpdateStatus" \in Points
  BY DEF Points
<1>2. QED
  BY <1>1, MarkedType, GotoType DEF PhaseDone

\* The API server's objects, likewise.
ApiInv == api \in [Runs -> Objects] /\ \A r \in Runs : Settled(api[r].cond)

LEMMA StoreType ==
    ASSUME ApiInv, WorkInv, NEW c \in Controllers, work[c].pc # "idle", Store(c)
    PROVE  ApiInv'
<1> DEFINE obj == work[c].obj
           r == work[c].run
<1>1. obj \in Objects /\ Settled(obj.cond) /\ r \in Runs
  BY CallObject DEF WorkInv
<1>2. NewVersion(obj) \in Objects /\ NewVersion(obj).cond = obj.cond
  BY <1>1 DEF NewVersion, Objects
<1>3. QED
  BY <1>1, <1>2 DEF Store, ApiInv

CacheInv ==
    /\ cache \in [Controllers -> [Runs -> Objects]]
    /\ \A c \in Controllers, r \in Runs : Settled(cache[c][r].cond)

\* The rest of TypeOK.
OthersInv ==
    /\ queue \in [Controllers -> SUBSET Runs]
    /\ up \in [Controllers -> BOOLEAN]
    /\ sandboxes \in [Sandboxes -> SandboxStates]
    /\ performed \in [Runs -> [Actions -> Nat]]
    /\ executions \in [Runs -> Nat]
    /\ faults \in [FaultKinds -> Nat]

LEMMA TypeInvParts == TypeInv <=> ApiInv /\ CacheInv /\ WorkInv /\ OthersInv
BY DEF TypeInv, TypeOK, AllSettled, ApiInv, CacheInv, WorkInv, OthersInv

LEMMA TypeInvPartsNext ==
    ApiInv' /\ CacheInv' /\ WorkInv' /\ OthersInv' => TypeInv'
BY DEF TypeInv, TypeOK, AllSettled, ApiInv, CacheInv, WorkInv, OthersInv

\* Only the parts whose variables change need an argument.
LEMMA ApiKept == ApiInv /\ api' = api => ApiInv'
BY DEF ApiInv

LEMMA CacheKept == CacheInv /\ cache' = cache => CacheInv'
BY DEF CacheInv

LEMMA WorkKept == WorkInv /\ work' = work => WorkInv'
BY DEF WorkInv

LEMMA SpendType ==
    ASSUME faults \in [FaultKinds -> Nat], NEW kind \in FaultKinds, Spend(kind)
    PROVE  faults' \in [FaultKinds -> Nat]
BY DEF Spend

LEMMA EnqueueType ==
    ASSUME queue \in [Controllers -> SUBSET Runs], NEW c \in Controllers, NEW r \in Runs,
           Enqueue(c, r)
    PROVE  queue' \in [Controllers -> SUBSET Runs]
BY DEF Enqueue

LEMMA AbandonType ==
    ASSUME sandboxes \in [Sandboxes -> SandboxStates], NEW s, Reachable(s), Abandon(s)
    PROVE  sandboxes' \in [Sandboxes -> SandboxStates]
<1> DEFINE n == sandboxes[s].stragglers + 1
           box == [sandboxes[s] EXCEPT !.stragglers = n]
<1>1. s \in Sandboxes /\ sandboxes[s] \in SandboxStates
  BY DEF Reachable
<1>2. n \in Nat
  BY <1>1 DEF SandboxStates
<1>3. sandboxes' = [sandboxes EXCEPT ![s] = box]
  BY DEF Abandon
<1> HIDE DEF n
<1>4. box \in SandboxStates
  BY <1>1, <1>2 DEF SandboxStates
<1> HIDE DEF box
<1>5. QED
  BY <1>3, <1>4

LEMMA TypeInit == Init => TypeInv
<1> SUFFICES ASSUME Init PROVE ApiInv /\ CacheInv /\ WorkInv /\ OthersInv
  BY TypeInvParts
<1>1. ApiInv /\ CacheInv
  BY UnbornType DEF Init, ApiInv, CacheInv
<1>2. WorkInv
  BY IdleType DEF Init, WorkInv, Idle
<1>3. OthersInv
  BY DEF Init, OthersInv, SandboxStates
<1>4. QED
  BY <1>1, <1>2, <1>3

\* The steps of the API server, the informers and the processes.
LEMMA EnvironmentType ==
    ASSUME TypeInv, Environment PROVE TypeInv'
<1> USE TypeInvParts
<1>1. ASSUME NEW r \in Runs, CreateAgentRun(r) \/ EditAgentRun(r) \/ DeleteAgentRun(r)
      PROVE  TypeInv'
  <2>1. ApiInv'
    <3>1. PICK o \in Objects : o.cond = api[r].cond /\ api' = [api EXCEPT ![r] = o]
      <4>1. api[r] \in Objects
        BY DEF ApiInv
      <4>2. /\ [api[r] EXCEPT !.life = "alive", !.rv = @ + 1] \in Objects
            /\ [api[r] EXCEPT !.rv = @ + 1] \in Objects
            /\ [api[r] EXCEPT !.life = "deleted", !.rv = @ + 1] \in Objects
        <5> DEFINE n == api[r].rv + 1
        <5>1. n \in Nat
          BY <4>1 DEF Objects
        <5> HIDE DEF n
        <5>2. [api[r] EXCEPT !.life = "alive", !.rv = n] \in Objects
          BY <4>1, <5>1 DEF Objects
        <5>3. [api[r] EXCEPT !.rv = n] \in Objects
          BY <4>1, <5>1 DEF Objects
        <5>4. [api[r] EXCEPT !.life = "deleted", !.rv = n] \in Objects
          BY <4>1, <5>1 DEF Objects
        <5>5. QED
          BY <5>2, <5>3, <5>4 DEF n
      <4>3. CASE CreateAgentRun(r)
        BY <4>1, <4>2, <4>3 DEF CreateAgentRun, ApiInv, Objects
      <4>4. CASE EditAgentRun(r)
        BY <4>1, <4>2, <4>4 DEF EditAgentRun, ApiInv, Objects
      <4>5. CASE DeleteAgentRun(r)
        BY <4>1, <4>2, <4>5 DEF DeleteAgentRun, ApiInv, Objects
      <4>6. QED
        BY <1>1, <4>3, <4>4, <4>5
    <3>2. QED
      BY <3>1 DEF ApiInv
  <2>2. CacheInv' /\ WorkInv'
    BY <1>1, CacheKept, WorkKept DEF CreateAgentRun, EditAgentRun, DeleteAgentRun
  <2>3. OthersInv'
    BY <1>1, SpendType DEF CreateAgentRun, EditAgentRun, DeleteAgentRun, OthersInv, FaultKinds
  <2>4. QED
    BY <2>1, <2>2, <2>3, TypeInvPartsNext
<1>2. ASSUME NEW c \in Controllers, Crash(c)
      PROVE  TypeInv'
  <2>1. ApiInv' /\ CacheInv'
    BY <1>2, ApiKept, CacheKept DEF Crash
  <2>2. WorkInv'
    BY <1>2, ReturnType DEF Crash
  <2>3. sandboxes' \in [Sandboxes -> SandboxStates]
    BY <1>2, AbandonType DEF Crash, OthersInv
  <2>4. OthersInv'
    BY <1>2, <2>3, SpendType DEF Crash, OthersInv, FaultKinds
  <2>5. QED
    BY <2>1, <2>2, <2>4, TypeInvPartsNext
<1>3. ASSUME NEW s \in Sandboxes, StragglerEnds(s)
      PROVE  TypeInv'
  <2>1. ApiInv' /\ CacheInv' /\ WorkInv'
    BY <1>3, ApiKept, CacheKept, WorkKept DEF StragglerEnds
  <2>2. PICK res \in Results :
          sandboxes' = [sandboxes EXCEPT ![s].result = res, ![s].stragglers = @ - 1]
    BY <1>3 DEF StragglerEnds
  <2>3. sandboxes[s] \in SandboxStates /\ sandboxes[s].stragglers > 0
    BY <1>3 DEF StragglerEnds, OthersInv
  <2> DEFINE n == sandboxes[s].stragglers - 1
             box == [sandboxes[s] EXCEPT !.result = res, !.stragglers = n]
  <2>4. n \in Nat
    BY <2>3 DEF SandboxStates
  <2>5. sandboxes' = [sandboxes EXCEPT ![s] = box]
    BY <2>2 DEF OthersInv
  <2> HIDE DEF n
  <2>6. box \in SandboxStates
    BY <2>3, <2>4 DEF SandboxStates
  <2> HIDE DEF box
  <2>7. sandboxes' \in [Sandboxes -> SandboxStates]
    BY <2>5, <2>6 DEF OthersInv
  <2>8. executions' \in [Runs -> Nat]
    <3>1. executions' = [executions EXCEPT ![sandboxes[s].owner] = @ + 1]
      BY <1>3 DEF StragglerEnds
    <3>2. \A r \in Runs : executions'[r] = executions[r] \/ executions'[r] = executions[r] + 1
      BY <3>1 DEF OthersInv
    <3>3. executions' = [r \in Runs |-> executions'[r]]
      BY <3>1 DEF OthersInv
    <3>4. \A r \in Runs : executions'[r] \in Nat
      BY <3>2 DEF OthersInv
    <3>5. QED
      BY <3>3, <3>4
  <2>9. OthersInv'
    BY <1>3, <2>7, <2>8 DEF StragglerEnds, OthersInv
  <2>10. QED
    BY <2>1, <2>9, TypeInvPartsNext
<1>4. QED
  BY <1>1, <1>2, <1>3 DEF Environment

LEMMA InformerType ==
    ASSUME TypeInv, NEW c \in Controllers, Informer(c) PROVE TypeInv'
<1> USE TypeInvParts
<1>1. ApiInv' /\ WorkInv'
  BY ApiKept, WorkKept DEF Informer, Start, Resync, CacheSync
<1>2. CacheInv'
  <2>1. CASE Start(c)
    <3>1. cache' = [cache EXCEPT ![c] = api]
      BY <2>1 DEF Start
    <3>2. QED
      BY <3>1 DEF CacheInv, ApiInv
  <2>2. CASE Resync(c)
    BY <2>2, CacheKept DEF Resync
  <2>3. ASSUME NEW r \in Runs, CacheSync(c, r) PROVE CacheInv'
    <3>1. cache' = [cache EXCEPT ![c] = [cache[c] EXCEPT ![r] = api[r]]]
      BY <2>3 DEF CacheSync, CacheInv
    <3>2. [cache[c] EXCEPT ![r] = api[r]] \in [Runs -> Objects]
      BY DEF CacheInv, ApiInv
    <3>3. \A q \in Runs : Settled([cache[c] EXCEPT ![r] = api[r]][q].cond)
      BY DEF CacheInv, ApiInv
    <3>4. QED
      BY <3>1, <3>2, <3>3 DEF CacheInv
  <2>4. QED
    BY <2>1, <2>2, <2>3 DEF Informer
<1>3. OthersInv'
  BY EnqueueType DEF Informer, Start, Resync, CacheSync, OthersInv
<1>4. QED
  BY <1>1, <1>2, <1>3, TypeInvPartsNext

\* Fetch hands a run that is not over to one of its phases: Settled is what
\* makes GetCurrentPhase a phase.
LEMMA FetchType ==
    ASSUME TypeInv, NEW c \in Controllers, NEW r \in Runs, Fetch(c, r) PROVE TypeInv'
<1> USE TypeInvParts
<1> DEFINE obj == cache[c][r]
           call == [Idle EXCEPT !.pc = GetCurrentPhase(obj.cond), !.run = r, !.obj = obj]
<1>1. obj \in Objects /\ Settled(obj.cond) /\ obj.cond \in Conditions
  BY DEF CacheInv, Objects
<1>2. WorkInv'
  <2>1. CASE work' = work
    BY <2>1, WorkKept
  <2>2. CASE ~ IsTerminal(obj.cond) /\ work' = [work EXCEPT ![c] = call]
    <3>1. GetCurrentPhase(obj.cond) \in Points
      BY <1>1, <2>2, CurrentPhase DEF Settled, Points
    <3>2. call \in Work /\ call.run = r /\ call.obj = obj
      BY <1>1, <3>1, IdleType DEF Work, Idle
    <3>3. work' \in [Controllers -> Work] /\ work'[c] = call
          /\ \A d \in Controllers \ {c} : work'[d] = work[d]
      BY <2>2, <3>2 DEF WorkInv
    <3>4. QED
      BY <1>1, <3>2, <3>3 DEF WorkInv
  <2>3. QED
    BY <2>1, <2>2 DEF Fetch
<1>3. ApiInv' /\ CacheInv'
  BY ApiKept, CacheKept DEF Fetch
<1>4. OthersInv'
  <2>1. queue' \in [Controllers -> SUBSET Runs]
    BY DEF Fetch, OthersInv
  <2>2. faults' \in [FaultKinds -> Nat]
    BY SpendType DEF Fetch, OthersInv, FaultKinds
  <2>3. QED
    BY <2>1, <2>2 DEF Fetch, OthersInv
<1>5. QED
  BY <1>2, <1>3, <1>4, TypeInvPartsNext

LEMMA PhaseType ==
    ASSUME TypeInv, NEW c \in Controllers, Phase(c) PROVE TypeInv'
<1> USE TypeInvParts
<1> DEFINE obj == work[c].obj
           Rest == ApiInv' /\ CacheInv'
<1>1. Rest
  BY ApiKept, CacheKept
     DEF Phase, PhaseError, ReconcileSandbox, PrepareAgent, RunAgent, LoseAgent,
         ReconcileResults, ReconcileActions, ExecuteAction, FinishExecute
<1>2. obj \in Objects /\ Settled(obj.cond)
  BY CallObject
<1>3. /\ "SandboxReady" \in Dependents /\ "AgentExecuted" \in Dependents
      /\ "ResultsCollected" \in Dependents /\ "ActionsExecuted" \in Dependents
      /\ "agent-run" \in Points /\ "Execute" \in Points /\ "UpdateStatus" \in Points
  BY DependentsAre DEF Points
<1>4. CASE PhaseError(c)
  <2>1. WorkInv'
    BY <1>4, FailType, DependentsAre DEF PhaseError
  <2>2. OthersInv'
    BY <1>4 DEF PhaseError, OthersInv
  <2>3. QED
    BY <1>1, <2>1, <2>2, TypeInvPartsNext
<1>5. CASE ReconcileSandbox(c)
  <2>1. CASE PhaseDone(c, obj, "SandboxReady") /\ UNCHANGED sandboxes
    <3>1. WorkInv'
      BY <1>2, <1>3, <1>5, <2>1, PhaseDoneType DEF ReconcileSandbox
    <3>2. OthersInv'
      BY <1>5, <2>1 DEF ReconcileSandbox, OthersInv
    <3>3. QED
      BY <1>1, <3>1, <3>2, TypeInvPartsNext
  <2>2. ASSUME NEW s \in Sandboxes,
               sandboxes' = [sandboxes EXCEPT ![s].state = "live", ![s].owner = work[c].run],
               PhaseDone(c, [obj EXCEPT !.sandbox = s], "SandboxReady")
        PROVE  TypeInv'
    <3>1. [obj EXCEPT !.sandbox = s] \in Objects
      BY <1>2 DEF Objects
    <3>2. WorkInv'
      BY <1>3, <1>5, <2>2, <3>1, PhaseDoneType DEF ReconcileSandbox
    <3>3. work[c].run \in Runs
      BY <1>5 DEF ReconcileSandbox, WorkInv
    <3>4. sandboxes' \in [Sandboxes -> SandboxStates]
      BY <2>2, <3>3 DEF OthersInv, SandboxStates
    <3>5. OthersInv'
      BY <1>5, <3>4 DEF ReconcileSandbox, OthersInv
    <3>6. QED
      BY <1>1, <3>2, <3>5, TypeInvPartsNext
  <2>3. QED
    BY <1>5, <2>1, <2>2 DEF ReconcileSandbox
<1>6. CASE PrepareAgent(c)
  <2>1. WorkInv'
    BY <1>2, <1>3, <1>6, GotoType DEF PrepareAgent
  <2>2. sandboxes' \in [Sandboxes -> SandboxStates]
    BY <1>6 DEF PrepareAgent, OthersInv, SandboxStates
  <2>3. OthersInv'
    BY <1>6, <2>2 DEF PrepareAgent, OthersInv
  <2>4. QED
    BY <1>1, <2>1, <2>3, TypeInvPartsNext
<1>7. CASE RunAgent(c)
  <2>1. WorkInv'
    BY <1>2, <1>3, <1>7, PhaseDoneType, FailType DEF RunAgent
  <2>2. PICK res \in Results : sandboxes' = [sandboxes EXCEPT ![work[c].obj.sandbox].result = res]
    BY <1>7 DEF RunAgent
  <2>3. sandboxes' \in [Sandboxes -> SandboxStates]
    BY <2>2 DEF OthersInv, SandboxStates
  <2>4. executions' \in [Runs -> Nat]
    <3>1. executions' = [executions EXCEPT ![work[c].run] = @ + 1] /\ work[c].run \in Runs
      BY <1>7 DEF RunAgent, WorkInv
    <3>2. QED
      BY <3>1 DEF OthersInv
  <2>5. OthersInv'
    BY <1>7, <2>3, <2>4 DEF RunAgent, OthersInv
  <2>6. QED
    BY <1>1, <2>1, <2>5, TypeInvPartsNext
<1>8. CASE ReconcileResults(c)
  <2>1. PICK res \in Results : PhaseDone(c, [obj EXCEPT !.usage = res], "ResultsCollected")
    BY <1>8 DEF ReconcileResults
  <2>2. [obj EXCEPT !.usage = res] \in Objects
    BY <1>2 DEF Objects
  <2>3. WorkInv'
    BY <1>3, <1>8, <2>1, <2>2, PhaseDoneType DEF ReconcileResults
  <2>4. OthersInv'
    BY <1>8 DEF ReconcileResults, OthersInv
  <2>5. QED
    BY <1>1, <2>3, <2>4, TypeInvPartsNext
<1>9. CASE ReconcileActions(c)
  <2>0. work[c].pc # "idle"
    BY <1>9 DEF ReconcileActions
  <2>1. PICK res \in Results :
          \/ Goto(c, "UpdateStatus", Succeed(obj))
          \/ work' = [work EXCEPT ![c].pc = "Execute",
                                  ![c].obj = [obj EXCEPT !.audit = <<>>],
                                  ![c].todo = res.actions, ![c].failed = FALSE]
    BY <1>9 DEF ReconcileActions
  <2>2. ASSUME Goto(c, "UpdateStatus", Succeed(obj)) PROVE WorkInv'
    BY <1>2, <1>3, <2>0, <2>2, MarkedType, GotoType
  <2>3. ASSUME work' = [work EXCEPT ![c].pc = "Execute",
                                    ![c].obj = [obj EXCEPT !.audit = <<>>],
                                    ![c].todo = res.actions, ![c].failed = FALSE]
        PROVE  WorkInv'
    <3> DEFINE o == [obj EXCEPT !.audit = <<>>]
               call == [work[c] EXCEPT !.pc = "Execute", !.obj = o,
                                       !.todo = res.actions, !.failed = FALSE]
    <3>1. res.actions \in Seq(Actions)
      BY ConstantsAssumption
    <3>2. o \in Objects /\ o.cond = obj.cond
      <4> DEFINE nothing == <<>>
      <4>1. nothing \in Seq(Actions)
        OBVIOUS
      <4>2. [obj EXCEPT !.audit = nothing] \in Objects
        <5> HIDE DEF nothing
        <5>1. QED
          BY <1>2, <4>1 DEF Objects
      <4>3. QED
        BY <1>2, <4>2 DEF Objects
    <3>3. work[c] \in Work /\ work[c].run \in Runs
      BY <1>9 DEF ReconcileActions, WorkInv
    <3>4. call \in Work /\ call.run = work[c].run /\ call.obj = o
      BY <1>3, <3>1, <3>2, <3>3 DEF Work
    <3>5. work' = [work EXCEPT ![c] = call]
      BY <2>3
    <3>6. work' \in [Controllers -> Work] /\ work'[c] = call
          /\ \A d \in Controllers \ {c} : work'[d] = work[d]
      BY <3>4, <3>5 DEF WorkInv
    <3>7. QED
      <4> HIDE DEF call
      <4>1. QED
        BY <1>2, <3>2, <3>3, <3>4, <3>6 DEF WorkInv
  <2>4. WorkInv'
    BY <2>1, <2>2, <2>3
  <2>5. OthersInv'
    BY <1>9 DEF ReconcileActions, OthersInv
  <2>6. QED
    BY <1>1, <2>4, <2>5, TypeInvPartsNext
<1>10. CASE ExecuteAction(c)
  <2> DEFINE a == Head(work[c].todo)
  <2>1. work[c] \in Work /\ work[c].run \in Runs /\ work[c].todo \in Seq(Actions)
        /\ work[c].todo # <<>>
    BY <1>10 DEF ExecuteAction, WorkInv, Work
  <2>2. a \in Actions /\ Tail(work[c].todo) \in Seq(Actions)
    BY <2>1
  <2>3. PICK took \in BOOLEAN, ok \in BOOLEAN :
          /\ performed' = [performed EXCEPT ![work[c].run][a] = IF took THEN @ + 1 ELSE @]
          /\ work' = [work EXCEPT ![c].todo = Tail(@),
                                  ![c].obj.audit = IF ok THEN Append(@, a) ELSE @,
                                  ![c].failed = @ \/ ~ ok]
    BY <1>10 DEF ExecuteAction
  <2>4. performed' \in [Runs -> [Actions -> Nat]]
    BY <2>1, <2>2, <2>3 DEF OthersInv
  <2>5. WorkInv'
    <3> DEFINE audit == IF ok THEN Append(obj.audit, a) ELSE obj.audit
               o == [obj EXCEPT !.audit = audit]
               failed == work[c].failed \/ ~ ok
               call == [work[c] EXCEPT !.todo = Tail(work[c].todo), !.obj = o, !.failed = failed]
    <3>1. audit \in Seq(Actions)
      BY <1>2, <2>2 DEF Objects
    <3>2. o \in Objects /\ o.cond = obj.cond
      <4> HIDE DEF audit
      <4>1. QED
        BY <1>2, <3>1 DEF Objects
    <3>3. failed \in BOOLEAN
      OBVIOUS
    <3>4. call \in Work /\ call.run = work[c].run /\ call.obj = o
      <4> HIDE DEF o, failed
      <4>1. QED
        BY <2>1, <2>2, <3>2, <3>3 DEF Work
    <3>5. work' = [work EXCEPT ![c] = call]
      BY <2>1, <2>3 DEF WorkInv, Work
    <3>6. work' \in [Controllers -> Work] /\ work'[c] = call
          /\ \A d \in Controllers \ {c} : work'[d] = work[d]
      <4> HIDE DEF call
      <4>1. QED
        BY <3>4, <3>5 DEF WorkInv
    <3>7. QED
      <4> HIDE DEF call
      <4>1. QED
        BY <1>2, <2>1, <3>2, <3>4, <3>6 DEF WorkInv
  <2>6. OthersInv'
    BY <1>10, <2>4 DEF ExecuteAction, OthersInv
  <2>7. QED
    BY <1>1, <2>5, <2>6, TypeInvPartsNext
<1>11. CASE FinishExecute(c)
  <2>1. WorkInv'
    BY <1>2, <1>3, <1>11, MarkedType, GotoType, FailType DEF FinishExecute
  <2>2. OthersInv'
    BY <1>11 DEF FinishExecute, OthersInv
  <2>3. QED
    BY <1>1, <2>1, <2>2, TypeInvPartsNext
<1>12. CASE LoseAgent(c)
  <2>1. WorkInv'
    BY <1>12, FailType DEF LoseAgent
  <2>2. OthersInv'
    BY <1>12, AbandonType DEF LoseAgent, OthersInv
  <2>3. QED
    BY <1>1, <2>1, <2>2, TypeInvPartsNext
<1>13. QED
  BY <1>4, <1>5, <1>6, <1>7, <1>8, <1>9, <1>10, <1>11, <1>12 DEF Phase

\* A lost call changes no object, and fails the call or leaves it where it is.
LEMMA LostCallIs ==
    ASSUME NEW c \in Controllers, LostCall(c)
    PROVE  /\ UNCHANGED <<api, cache, queue, up, performed, executions>>
           /\ work' = work \/ (Fail(c) /\ work[c].pc = "SandboxReady")
BY DEF LostCall, CreateLost, RetryRun

LEMMA LostCallType ==
    ASSUME TypeInv, NEW c \in Controllers, LostCall(c) PROVE TypeInv'
<1> USE TypeInvParts
<1>1. ApiInv' /\ CacheInv'
  BY LostCallIs, ApiKept, CacheKept
<1>2. WorkInv'
  BY LostCallIs, WorkKept, FailType
<1>3. faults' \in [FaultKinds -> Nat]
  BY SpendType DEF LostCall, CreateLost, RetryRun, OthersInv, FaultKinds
<1>4. sandboxes' \in [Sandboxes -> SandboxStates]
  <2>1. CASE CreateLost(c)
    <3>1. work[c].run \in Runs
      BY <2>1 DEF CreateLost, WorkInv
    <3>2. PICK s \in Sandboxes :
            sandboxes' = [sandboxes EXCEPT ![s].state = "live", ![s].owner = work[c].run]
      BY <2>1 DEF CreateLost
    <3>3. QED
      BY <3>1, <3>2 DEF OthersInv, SandboxStates
  <2>2. CASE RetryRun(c)
    BY <2>2, AbandonType DEF RetryRun, OthersInv
  <2>3. QED
    BY <2>1, <2>2 DEF LostCall
<1>5. OthersInv'
  BY <1>3, <1>4, LostCallIs DEF OthersInv
<1>6. QED
  BY <1>1, <1>2, <1>5, TypeInvPartsNext

\* The end of a Reconcile call.
LEMMA WriteType ==
    ASSUME TypeInv, NEW c \in Controllers,
           UpdateStatus(c) \/ UpdateStatusError(c) \/ MarkFailed(c) \/ DestroySandbox(c)
    PROVE  TypeInv'
<1> USE TypeInvParts
<1> DEFINE obj == work[c].obj
<1>1. work[c].pc # "idle" /\ work[c].run \in Runs
  BY DEF UpdateStatus, UpdateStatusError, MarkFailed, DestroySandbox, WorkInv
<1>2. obj \in Objects /\ Settled(obj.cond) /\ "destroySandbox" \in Points
  BY CallObject DEF Points
<1>3. NewVersion(obj) \in Objects /\ Settled(NewVersion(obj).cond)
  BY <1>2 DEF NewVersion, Objects
<1>4. ApiInv'
  BY <1>1, StoreType, ApiKept
     DEF UpdateStatus, UpdateStatusError, MarkFailed, DestroySandbox
<1>5. CacheInv'
  BY CacheKept DEF UpdateStatus, UpdateStatusError, MarkFailed, DestroySandbox
<1>6. WorkInv'
  BY <1>1, <1>2, <1>3, GotoType, ReturnType
     DEF UpdateStatus, UpdateStatusError, MarkFailed, DestroySandbox
<1>7. OthersInv'
  <2>1. queue' \in [Controllers -> SUBSET Runs]
    BY <1>1, EnqueueType
       DEF UpdateStatus, UpdateStatusError, MarkFailed, DestroySandbox, OthersInv
  <2>2. faults' \in [FaultKinds -> Nat]
    BY SpendType
       DEF UpdateStatus, UpdateStatusError, MarkFailed, DestroySandbox, OthersInv, FaultKinds
  <2>3. sandboxes' \in [Sandboxes -> SandboxStates]
    <3>1. CASE DestroySandbox(c)
      <4> DEFINE box == [sandboxes[obj.sandbox] EXCEPT !.state = "destroyed"]
      <4>1. \/ sandboxes' = sandboxes
            \/ /\ obj.sandbox \in Sandboxes
               /\ sandboxes' = [sandboxes EXCEPT ![obj.sandbox] = box]
        BY <3>1 DEF DestroySandbox, Reachable
      <4>2. obj.sandbox \in Sandboxes => box \in SandboxStates
        BY DEF OthersInv, SandboxStates
      <4> HIDE DEF box
      <4>3. QED
        BY <4>1, <4>2 DEF OthersInv
    <3>2. CASE ~ DestroySandbox(c)
      BY <3>2 DEF UpdateStatus, UpdateStatusError, MarkFailed, OthersInv
    <3>3. QED
      BY <3>1, <3>2
  <2>4. QED
    BY <2>1, <2>2, <2>3
       DEF UpdateStatus, UpdateStatusError, MarkFailed, DestroySandbox, OthersInv
<1>8. QED
  BY <1>4, <1>5, <1>6, <1>7, TypeInvPartsNext

LEMMA TypeStep == TypeInv /\ [Next]_vars => TypeInv'
<1> SUFFICES ASSUME TypeInv, [Next]_vars PROVE TypeInv'
  OBVIOUS
<1>1. CASE Environment
  BY <1>1, EnvironmentType
<1>2. ASSUME NEW c \in Controllers, Informer(c) PROVE TypeInv'
  BY <1>2, InformerType
<1>3. ASSUME NEW c \in Controllers, Reconcile(c) PROVE TypeInv'
  BY <1>3, FetchType, PhaseType, LostCallType, WriteType DEF Reconcile
<1>4. CASE UNCHANGED vars
  BY <1>4, TypeInvParts, TypeInvPartsNext, ApiKept, CacheKept, WorkKept DEF vars, OthersInv
<1>5. QED
  BY <1>1, <1>2, <1>3, <1>4 DEF Next

\* Every state the controllers reach is well typed: in particular Reconcile
\* never starts at a phase that does not exist.
THEOREM TypeCorrect == Spec => []TypeOK
<1>1. TypeInv => TypeOK
  BY DEF TypeInv
<1>2. QED
  BY <1>1, TypeInit, TypeStep, PTL DEF Spec

-----------------------------------------------------------------------------
\* A status that is over, or a phase that is done, is never overwritten

VersionInv == TypeInv /\ CopiesAreVersioned

LEMMA ExtendsTransitive ==
    ASSUME NEW base, NEW mid, NEW obj, Extends(mid, base), Extends(obj, mid)
    PROVE  Extends(obj, base)
BY DEF Extends

\* What the marks do to an object: nothing that was done is undone.
LEMMA MarksExtend ==
    ASSUME NEW obj \in Objects
    PROVE  /\ Extends(MarkFailedObject(obj), obj) /\ MarkFailedObject(obj).rv = obj.rv
           /\ Extends(Succeed(obj), obj) /\ Succeed(obj).rv = obj.rv
           /\ \A t \in Dependents : LET marked == [obj EXCEPT !.cond = MarkTrue(@, t)]
                                     IN  Extends(marked, obj) /\ marked.rv = obj.rv
<1>1. obj.cond \in Conditions
  BY DEF Objects
<1>2. ASSUME NEW cond \in Conditions, NEW t \in ConditionTypes, NEW d \in Dependents,
             cond[d] = "True"
      PROVE  MarkTrue(cond, t)[d] = "True"
  BY <1>2, DependentsAre DEF MarkTrue, Conditions, ConditionTypes
<1>3. ASSUME NEW d \in Dependents, obj.cond[d] = "True"
      PROVE  MarkFalse(obj.cond, GetCurrentPhase(obj.cond))[d] = "True"
  <2>1. d # "Succeeded" /\ "Succeeded" \notin Dependents
    BY DependentsAre
  <2>2. CASE \A e \in Dependents : obj.cond[e] = "True"
    BY <1>1, <1>3, <2>1, <2>2 DEF MarkFalse, GetCurrentPhase, Conditions, ConditionTypes
  <2>3. CASE ~ \A e \in Dependents : obj.cond[e] = "True"
    <3>1. GetCurrentPhase(obj.cond) # d
      BY <1>1, <1>3, <2>3, CurrentPhase
    <3>2. QED
      BY <1>1, <1>3, <2>1, <3>1 DEF MarkFalse, Conditions, ConditionTypes
  <2>4. QED
    BY <2>2, <2>3
<1>4. Extends(MarkFailedObject(obj), obj) /\ MarkFailedObject(obj).rv = obj.rv
  BY <1>3 DEF MarkFailedObject, Extends, Objects
<1>5. \A t \in Dependents : LET marked == [obj EXCEPT !.cond = MarkTrue(@, t)]
                            IN  Extends(marked, obj) /\ marked.rv = obj.rv
  BY <1>1, <1>2 DEF Extends, Objects, ConditionTypes
<1>6. Extends(Succeed(obj), obj) /\ Succeed(obj).rv = obj.rv
  <2> DEFINE first == MarkTrue(obj.cond, "ActionsExecuted")
             second == MarkTrue(first, "Succeeded")
  <2>1. "ActionsExecuted" \in ConditionTypes /\ "Succeeded" \in ConditionTypes
    BY DependentsAre DEF ConditionTypes
  <2>2. first \in Conditions
    BY <1>1, <2>1, MarkTrueType
  <2>3. \A d \in Dependents : obj.cond[d] = "True" => second[d] = "True"
    BY <1>1, <1>2, <2>1, <2>2
  <2>4. Succeed(obj).cond = second /\ Succeed(obj).rv = obj.rv /\ Succeed(obj).sandbox = obj.sandbox
    BY DEF Succeed, Objects
  <2>5. QED
    BY <2>3, <2>4 DEF Extends
<1>7. QED
  BY <1>4, <1>5, <1>6

\* c's call is still about the same object, and in the same version of it; it
\* has only been added to.  The other calls are where they were.
CallGrows(c) ==
    /\ work[c].pc \in Writing
    /\ work'[c].run = work[c].run
    /\ work'[c].obj.rv = work[c].obj.rv
    /\ Extends(work'[c].obj, work[c].obj)
    /\ \A d \in Controllers \ {c} : work'[d] = work[d]

LEMMA GotoGrows ==
    ASSUME WorkInv, NEW c \in Controllers, NEW pc, NEW obj, Goto(c, pc, obj),
           work[c].pc \in Writing, obj.rv = work[c].obj.rv, Extends(obj, work[c].obj)
    PROVE  CallGrows(c)
<1>1. work' = [work EXCEPT ![c] = [work[c] EXCEPT !.pc = pc, !.obj = obj]]
  BY DEF Goto, WorkInv
<1>2. work[c] \in Work
  BY DEF WorkInv
<1>3. work'[c] = [work[c] EXCEPT !.pc = pc, !.obj = obj]
      /\ \A d \in Controllers \ {c} : work'[d] = work[d]
  BY <1>1 DEF WorkInv
<1>4. work'[c].run = work[c].run /\ work'[c].obj = obj
  BY <1>2, <1>3 DEF Work
<1>5. QED
  BY <1>3, <1>4 DEF CallGrows

LEMMA FailGrows ==
    ASSUME WorkInv, NEW c \in Controllers, Fail(c), work[c].pc \in Writing
    PROVE  CallGrows(c)
BY CallObject, MarksExtend, GotoGrows DEF Fail

LEMMA PhaseDoneGrows ==
    ASSUME WorkInv, NEW c \in Controllers, NEW obj \in Objects, NEW t \in Dependents,
           PhaseDone(c, obj, t), work[c].pc \in Writing,
           obj.rv = work[c].obj.rv, Extends(obj, work[c].obj)
    PROVE  CallGrows(c)
<1> DEFINE marked == [obj EXCEPT !.cond = MarkTrue(@, t)]
<1>1. Extends(marked, obj) /\ marked.rv = obj.rv
  BY MarksExtend
<1>2. Extends(marked, work[c].obj)
  BY <1>1, ExtendsTransitive
<1>3. QED
  BY <1>1, <1>2, GotoGrows DEF PhaseDone

\* Every step of a phase.
LEMMA PhaseGrows ==
    ASSUME WorkInv, NEW c \in Controllers, Phase(c) PROVE CallGrows(c)
<1> DEFINE obj == work[c].obj
<1>1. obj \in Objects /\ Extends(obj, obj) /\ work[c] \in Work
  BY CallObject DEF Extends
<1>2. Dependents \cup {"agent-run", "Execute"} \subseteq Writing
  BY DependentsAre DEF Writing, Points
<1>3. /\ "SandboxReady" \in Dependents /\ "AgentExecuted" \in Dependents
      /\ "ResultsCollected" \in Dependents /\ "ActionsExecuted" \in Dependents
  BY DependentsAre
<1>4. work[c].pc \in Writing
  BY <1>2, <1>3
     DEF Phase, PhaseError, ReconcileSandbox, PrepareAgent, RunAgent, LoseAgent,
         ReconcileResults, ReconcileActions, ExecuteAction, FinishExecute
<1>5. CASE PhaseError(c)
  BY <1>4, <1>5, FailGrows DEF PhaseError
<1>6. CASE ReconcileSandbox(c)
  <2>1. CASE PhaseDone(c, obj, "SandboxReady")
    BY <1>1, <1>3, <1>4, <2>1, PhaseDoneGrows
  <2>2. ASSUME NEW s \in Sandboxes, obj.sandbox = NoSandbox,
               PhaseDone(c, [obj EXCEPT !.sandbox = s], "SandboxReady")
        PROVE  CallGrows(c)
    <3> DEFINE o == [obj EXCEPT !.sandbox = s]
    <3>1. o \in Objects /\ o.rv = obj.rv /\ o.cond = obj.cond
      BY <1>1 DEF Objects
    <3>2. Extends(o, obj)
      BY <2>2, <3>1 DEF Extends
    <3> HIDE DEF o
    <3>3. QED
      BY <1>3, <1>4, <2>2, <3>1, <3>2, PhaseDoneGrows DEF o
  <2>3. QED
    BY <1>6, <2>1, <2>2 DEF ReconcileSandbox
<1>7. CASE PrepareAgent(c)
  BY <1>1, <1>4, <1>7, GotoGrows DEF PrepareAgent
<1>8. CASE RunAgent(c)
  BY <1>1, <1>3, <1>4, <1>8, PhaseDoneGrows, FailGrows DEF RunAgent
<1>9. CASE ReconcileResults(c)
  <2>1. PICK res \in Results : PhaseDone(c, [obj EXCEPT !.usage = res], "ResultsCollected")
    BY <1>9 DEF ReconcileResults
  <2> DEFINE o == [obj EXCEPT !.usage = res]
  <2>2. o \in Objects /\ o.rv = obj.rv /\ Extends(o, obj)
    BY <1>1 DEF Objects, Extends
  <2> HIDE DEF o
  <2>3. QED
    BY <1>3, <1>4, <2>1, <2>2, PhaseDoneGrows DEF o
<1>10. CASE ReconcileActions(c)
  <2>1. PICK res \in Results :
          \/ Goto(c, "UpdateStatus", Succeed(obj))
          \/ work' = [work EXCEPT ![c].pc = "Execute",
                                  ![c].obj = [obj EXCEPT !.audit = <<>>],
                                  ![c].todo = res.actions, ![c].failed = FALSE]
    BY <1>10 DEF ReconcileActions
  <2>2. ASSUME Goto(c, "UpdateStatus", Succeed(obj)) PROVE CallGrows(c)
    BY <1>1, <1>4, <2>2, MarksExtend, GotoGrows
  <2>3. ASSUME work' = [work EXCEPT ![c].pc = "Execute",
                                    ![c].obj = [obj EXCEPT !.audit = <<>>],
                                    ![c].todo = res.actions, ![c].failed = FALSE]
        PROVE  CallGrows(c)
    <3> DEFINE o == [obj EXCEPT !.audit = <<>>]
               call == [work[c] EXCEPT !.pc = "Execute", !.obj = o,
                                       !.todo = res.actions, !.failed = FALSE]
    <3>1. o.rv = obj.rv /\ Extends(o, obj)
      BY <1>1 DEF Objects, Extends
    <3>2. call.run = work[c].run /\ call.obj = o
      BY <1>1 DEF Work
    <3>3. work'[c] = call /\ \A d \in Controllers \ {c} : work'[d] = work[d]
      BY <2>3 DEF WorkInv
    <3> HIDE DEF call, o
    <3>4. QED
      BY <1>4, <3>1, <3>2, <3>3 DEF CallGrows
  <2>4. QED
    BY <2>1, <2>2, <2>3
<1>11. CASE ExecuteAction(c)
  <2>1. PICK ok \in BOOLEAN :
          work' = [work EXCEPT ![c].todo = Tail(@),
                               ![c].obj.audit = IF ok THEN Append(@, Head(work[c].todo)) ELSE @,
                               ![c].failed = @ \/ ~ ok]
    BY <1>11 DEF ExecuteAction
  <2> DEFINE audit == IF ok THEN Append(obj.audit, Head(work[c].todo)) ELSE obj.audit
             o == [obj EXCEPT !.audit = audit]
             failed == work[c].failed \/ ~ ok
             call == [work[c] EXCEPT !.todo = Tail(work[c].todo), !.obj = o, !.failed = failed]
  <2>2. work' = [work EXCEPT ![c] = call]
    BY <2>1 DEF WorkInv, Work
  <2> HIDE DEF audit, failed
  <2>3. o.rv = obj.rv /\ Extends(o, obj)
    BY <1>1 DEF Objects, Extends
  <2> HIDE DEF o
  <2>4. call.run = work[c].run /\ call.obj = o
    BY <1>1 DEF Work
  <2> HIDE DEF call
  <2>5. work'[c] = call /\ \A d \in Controllers \ {c} : work'[d] = work[d]
    BY <2>2 DEF WorkInv
  <2>6. QED
    BY <1>4, <2>3, <2>4, <2>5 DEF CallGrows
<1>12. CASE FinishExecute(c)
  BY <1>1, <1>4, <1>12, MarksExtend, GotoGrows, FailGrows DEF FinishExecute
<1>13. CASE LoseAgent(c)
  BY <1>4, <1>13, FailGrows DEF LoseAgent
<1>14. QED
  BY <1>5, <1>6, <1>7, <1>8, <1>9, <1>10, <1>11, <1>12, <1>13 DEF Phase

\* The two halves of CopiesAreVersioned.
CacheVersioned ==
    \A c \in Controllers, r \in Runs :
        /\ cache[c][r].rv <= api[r].rv
        /\ cache[c][r].rv = api[r].rv => cache[c][r] = api[r]

CurrentCall(obj, base) ==
    /\ obj.rv <= base.rv
    /\ obj.rv = base.rv => ~ IsTerminal(base.cond) /\ Extends(obj, base)

CallsVersioned ==
    \A c \in Controllers :
        work[c].pc \in Writing => CurrentCall(work[c].obj, api[work[c].run])

LEMMA VersionedParts == CopiesAreVersioned <=> CacheVersioned /\ CallsVersioned
BY DEF CopiesAreVersioned, CacheVersioned, CallsVersioned, CurrentCall

LEMMA VersionedPartsNext == CacheVersioned' /\ CallsVersioned' => CopiesAreVersioned'
BY DEF CopiesAreVersioned, CacheVersioned, CallsVersioned, CurrentCall

\* An object is at rest or has a new version; a new version makes every copy
\* of the object outdated, so nothing more need be known about it.
Bumped(r) ==
    /\ r \in Runs
    /\ api'[r].rv > api[r].rv
    /\ \A q \in Runs \ {r} : api'[q] = api[q]

LEMMA BumpKeepsCache ==
    ASSUME TypeInv, CacheVersioned, NEW r \in Runs, Bumped(r), cache' = cache, ApiInv'
    PROVE  CacheVersioned'
<1>1. \A q \in Runs : api[q].rv \in Nat /\ api'[q].rv \in Nat
  BY TypeInvParts DEF ApiInv, Objects
<1>2. \A c \in Controllers, q \in Runs : cache[c][q].rv \in Nat
  BY TypeInvParts DEF CacheInv, Objects
<1>3. QED
  BY <1>1, <1>2 DEF Bumped, CacheVersioned

LEMMA BumpKeepsCalls ==
    ASSUME TypeInv, CallsVersioned, NEW r \in Runs, Bumped(r), ApiInv',
           \A d \in Controllers : work'[d] = work[d] \/ work'[d].pc \notin Writing
    PROVE  CallsVersioned'
<1>1. \A q \in Runs : api[q].rv \in Nat /\ api'[q].rv \in Nat
  BY TypeInvParts DEF ApiInv, Objects
<1>2. SUFFICES ASSUME NEW d \in Controllers, work'[d].pc \in Writing
               PROVE  CurrentCall(work[d].obj, api'[work[d].run]) /\ work'[d] = work[d]
  BY DEF CallsVersioned, CurrentCall
<1>3. work'[d] = work[d] /\ CurrentCall(work[d].obj, api[work[d].run])
  BY <1>2 DEF CallsVersioned
<1>4. work[d].run \in Runs /\ work[d].obj.rv \in Nat
  BY <1>2, <1>3, TypeInvParts DEF WorkInv, Work, Objects, Writing
<1>5. CASE work[d].run = r
  BY <1>1, <1>3, <1>4, <1>5 DEF CurrentCall, Bumped
<1>6. CASE work[d].run # r
  BY <1>3, <1>4, <1>6 DEF Bumped
<1>7. QED
  BY <1>3, <1>5, <1>6

\* A status update that is accepted gives its run a new version.
LEMMA StoreBumps ==
    ASSUME TypeInv, NEW c \in Controllers, work[c].pc # "idle", Accepted(c), Store(c)
    PROVE  Bumped(work[c].run) /\ api'[work[c].run] = NewVersion(work[c].obj)
<1>1. work[c].obj \in Objects /\ work[c].run \in Runs
  BY TypeInvParts, CallObject DEF WorkInv
<1>2. api' = [api EXCEPT ![work[c].run] = NewVersion(work[c].obj)]
  BY DEF Store
<1>3. NewVersion(work[c].obj).rv = work[c].obj.rv + 1 /\ work[c].obj.rv \in Nat
  BY <1>1 DEF NewVersion, Objects
<1>4. QED
  BY <1>1, <1>2, <1>3, TypeInvParts DEF Bumped, Accepted, ApiInv

\* c's call ends, or goes on to a point from which it writes no more.
LEMMA CallEnds ==
    ASSUME WorkInv, NEW c \in Controllers,
           Return(c) \/ \E obj : Goto(c, "destroySandbox", obj)
    PROVE  /\ work'[c].pc \notin Writing
           /\ \A d \in Controllers \ {c} : work'[d] = work[d]
<1>1. CASE Return(c)
  BY <1>1 DEF Return, WorkInv, Idle, Writing
<1>2. ASSUME NEW obj, Goto(c, "destroySandbox", obj)
      PROVE  /\ work'[c].pc \notin Writing
             /\ \A d \in Controllers \ {c} : work'[d] = work[d]
  <2>1. work' = [work EXCEPT ![c] = [work[c] EXCEPT !.pc = "destroySandbox", !.obj = obj]]
    BY <1>2 DEF Goto, WorkInv
  <2>2. [work[c] EXCEPT !.pc = "destroySandbox", !.obj = obj].pc = "destroySandbox"
    BY DEF WorkInv, Work
  <2>3. QED
    BY <2>1, <2>2 DEF WorkInv, Writing
<1>3. QED
  BY <1>1, <1>2

\* While the objects stay as they are, a call that ends takes nothing with it.
LEMMA CallsKept ==
    ASSUME CallsVersioned, api' = api,
           \A d \in Controllers : work'[d] = work[d] \/ work'[d].pc \notin Writing
    PROVE  CallsVersioned'
BY DEF CallsVersioned

LEMMA VersionInit == Init => CopiesAreVersioned
BY VersionedParts DEF Init, CacheVersioned, CallsVersioned, Unborn, Idle, Writing

\* The steps of the environment give the object a new version, or end a call.
LEMMA EnvironmentVersion ==
    ASSUME TypeInv, CacheVersioned, CallsVersioned, ApiInv', Environment
    PROVE  CacheVersioned' /\ CallsVersioned'
<1> USE TypeInvParts
<1>1. ASSUME NEW r \in Runs, CreateAgentRun(r) \/ EditAgentRun(r) \/ DeleteAgentRun(r)
      PROVE  CacheVersioned' /\ CallsVersioned'
  <2>1. api[r] \in Objects /\ api \in [Runs -> Objects]
    BY DEF ApiInv
  <2>2. Bumped(r)
    BY <1>1, <2>1 DEF CreateAgentRun, EditAgentRun, DeleteAgentRun, Bumped, Objects
  <2>3. cache' = cache /\ work' = work
    BY <1>1 DEF CreateAgentRun, EditAgentRun, DeleteAgentRun
  <2>4. QED
    BY <2>2, <2>3, BumpKeepsCache, BumpKeepsCalls
<1>2. ASSUME NEW c \in Controllers, Crash(c)
      PROVE  CacheVersioned' /\ CallsVersioned'
  <2>1. CacheVersioned'
    BY <1>2 DEF Crash, CacheVersioned
  <2>2. CallsVersioned'
    BY <1>2, CallEnds, CallsKept DEF Crash
  <2>3. QED
    BY <2>1, <2>2
<1>3. ASSUME NEW s \in Sandboxes, StragglerEnds(s)
      PROVE  CacheVersioned' /\ CallsVersioned'
  BY <1>3 DEF StragglerEnds, CacheVersioned, CallsVersioned
<1>4. QED
  BY <1>1, <1>2, <1>3 DEF Environment

\* An informer copies the server's objects.
LEMMA InformerVersion ==
    ASSUME TypeInv, CacheVersioned, CallsVersioned, NEW c \in Controllers, Informer(c)
    PROVE  CacheVersioned' /\ CallsVersioned'
<1>1. cache \in [Controllers -> [Runs -> Objects]] /\ api \in [Runs -> Objects]
  BY TypeInvParts DEF CacheInv, ApiInv
<1>2. \A r \in Runs : api[r].rv <= api[r].rv
  BY <1>1 DEF Objects
<1>3. api' = api /\ work' = work
  BY DEF Informer, Start, Resync, CacheSync
<1>4. \A d \in Controllers, r \in Runs : cache'[d][r] = cache[d][r] \/ cache'[d][r] = api[r]
  <2>1. CASE Start(c)
    BY <1>1, <2>1 DEF Start
  <2>2. CASE Resync(c)
    BY <2>2 DEF Resync
  <2>3. ASSUME NEW q \in Runs, CacheSync(c, q)
        PROVE  \A d \in Controllers, r \in Runs :
                  cache'[d][r] = cache[d][r] \/ cache'[d][r] = api[r]
    BY <1>1, <2>3 DEF CacheSync
  <2>4. QED
    BY <2>1, <2>2, <2>3 DEF Informer
<1>5. QED
  BY <1>2, <1>3, <1>4 DEF CacheVersioned, CallsVersioned

\* A call starts from a cached copy that is not over.
LEMMA FetchVersion ==
    ASSUME TypeInv, CacheVersioned, CallsVersioned,
           NEW c \in Controllers, NEW r \in Runs, Fetch(c, r)
    PROVE  CacheVersioned' /\ CallsVersioned'
<1> DEFINE obj == cache[c][r]
           call == [Idle EXCEPT !.pc = GetCurrentPhase(obj.cond), !.run = r, !.obj = obj]
<1>1. api' = api /\ cache' = cache
  BY DEF Fetch
<1>2. CASE work' = work
  BY <1>1, <1>2 DEF CacheVersioned, CallsVersioned
<1>3. CASE work' # work
  <2>1. ~ IsTerminal(obj.cond) /\ work' = [work EXCEPT ![c] = call]
    BY <1>3 DEF Fetch
  <2>2. call.run = r /\ call.obj = obj
    BY DEF Idle
  <2>3. CurrentCall(obj, api[r])
    BY <2>1 DEF CacheVersioned, CurrentCall, Extends
  <2> HIDE DEF obj, call
  <2>4. work'[c] = call /\ \A d \in Controllers \ {c} : work'[d] = work[d]
    BY <2>1, TypeInvParts DEF WorkInv
  <2>5. QED
    BY <1>1, <2>2, <2>3, <2>4 DEF CacheVersioned, CallsVersioned
<1>4. QED
  BY <1>2, <1>3

\* A phase adds to the copy it works on, ...
LEMMA GrowthVersion ==
    ASSUME CacheVersioned, CallsVersioned, NEW c \in Controllers, CallGrows(c),
           api' = api, cache' = cache
    PROVE  CacheVersioned' /\ CallsVersioned'
<1>1. api' = api /\ cache' = cache
  OBVIOUS
<1>2. CallGrows(c)
  OBVIOUS
<1>3. CurrentCall(work[c].obj, api[work[c].run])
  BY <1>2 DEF CallGrows, CallsVersioned
<1>4. CurrentCall(work'[c].obj, api'[work'[c].run])
  BY <1>1, <1>2, <1>3, ExtendsTransitive DEF CallGrows, CurrentCall
<1>5. \A d \in Controllers \ {c} : work'[d] = work[d]
  BY <1>2 DEF CallGrows
<1>6. CallsVersioned'
  BY <1>1, <1>4, <1>5 DEF CallsVersioned
<1>7. QED
  BY <1>1, <1>6 DEF CacheVersioned

LEMMA PhaseVersion ==
    ASSUME TypeInv, CacheVersioned, CallsVersioned, NEW c \in Controllers, Phase(c)
    PROVE  CacheVersioned' /\ CallsVersioned'
<1>1. api' = api /\ cache' = cache
  BY DEF Phase, PhaseError, ReconcileSandbox, PrepareAgent, RunAgent, LoseAgent,
         ReconcileResults, ReconcileActions, ExecuteAction, FinishExecute
<1>2. QED
  BY <1>1, TypeInvParts, PhaseGrows, GrowthVersion

\* ... and so does a phase that fails because of a lost call.
LEMMA LostCallVersion ==
    ASSUME TypeInv, CacheVersioned, CallsVersioned, NEW c \in Controllers, LostCall(c)
    PROVE  CacheVersioned' /\ CallsVersioned'
<1>1. CASE work' = work
  BY <1>1, LostCallIs DEF CacheVersioned, CallsVersioned
<1>2. CASE Fail(c) /\ work[c].pc = "SandboxReady"
  <2>1. work[c].pc \in Writing
    BY <1>2, DependentsAre DEF Writing, Points
  <2>2. CallGrows(c)
    BY <1>2, <2>1, FailGrows, TypeInvParts
  <2>3. QED
    BY <2>2, LostCallIs, GrowthVersion
<1>3. QED
  BY <1>1, <1>2, LostCallIs

\* A write gives the object a new version or leaves it alone, and is the last
\* that its call does to the object.
LEMMA WriteVersion ==
    ASSUME TypeInv, CacheVersioned, CallsVersioned, ApiInv', NEW c \in Controllers,
           UpdateStatus(c) \/ UpdateStatusError(c) \/ MarkFailed(c) \/ DestroySandbox(c)
    PROVE  CacheVersioned' /\ CallsVersioned'
<1>1. cache' = cache /\ (api' = api \/ (work[c].pc # "idle" /\ Accepted(c) /\ Store(c)))
  BY DEF UpdateStatus, UpdateStatusError, MarkFailed, DestroySandbox
<1>2. Return(c) \/ \E obj : Goto(c, "destroySandbox", obj)
  BY DEF UpdateStatus, UpdateStatusError, MarkFailed, DestroySandbox
<1>3. \A d \in Controllers : work'[d] = work[d] \/ work'[d].pc \notin Writing
  BY <1>2, CallEnds, TypeInvParts
<1>4. CASE api' = api
  BY <1>1, <1>3, <1>4, CallsKept DEF CacheVersioned
<1>5. CASE work[c].pc # "idle" /\ Accepted(c) /\ Store(c)
  <2>1. Bumped(work[c].run) /\ work[c].run \in Runs
    BY <1>5, StoreBumps DEF Bumped
  <2>2. QED
    BY <1>1, <1>3, <2>1, BumpKeepsCache, BumpKeepsCalls
<1>6. QED
  BY <1>1, <1>4, <1>5

LEMMA VersionStep == VersionInv /\ [Next]_vars => VersionInv'
<1> SUFFICES ASSUME VersionInv, [Next]_vars PROVE VersionInv'
  OBVIOUS
<1>1. TypeInv /\ CacheVersioned /\ CallsVersioned
  BY VersionedParts DEF VersionInv
<1>2. TypeInv' /\ ApiInv'
  BY <1>1, TypeStep DEF TypeInv, TypeOK, AllSettled, ApiInv
<1>3. CacheVersioned' /\ CallsVersioned'
  <2>1. CASE Environment
    BY <1>1, <1>2, <2>1, EnvironmentVersion
  <2>2. ASSUME NEW c \in Controllers, Informer(c) PROVE CacheVersioned' /\ CallsVersioned'
    BY <1>1, <2>2, InformerVersion
  <2>3. ASSUME NEW c \in Controllers, Reconcile(c) PROVE CacheVersioned' /\ CallsVersioned'
    BY <1>1, <1>2, <2>3, FetchVersion, PhaseVersion, LostCallVersion, WriteVersion DEF Reconcile
  <2>4. CASE UNCHANGED vars
    BY <1>1, <2>4 DEF vars, CacheVersioned, CallsVersioned
  <2>5. QED
    BY <2>1, <2>2, <2>3, <2>4 DEF Next
<1>4. QED
  BY <1>2, <1>3, VersionedPartsNext DEF VersionInv

\* The resource version is guard enough: no copy of an object that is as new
\* as the server's differs from it by anything but progress.
THEOREM VersionsGuardCopies == Spec => []CopiesAreVersioned
<1>1. Init => VersionInv
  BY TypeInit, VersionInit DEF VersionInv
<1>2. VersionInv => CopiesAreVersioned
  BY DEF VersionInv
<1>3. QED
  BY <1>1, <1>2, VersionStep, PTL DEF Spec

\* How a step changes the status of an object: not at all, or by storing a copy
\* that was made from it, while it was not over, by adding to it.
StatusGrows(r) ==
    \/ StatusOf(api'[r]) = StatusOf(api[r])
    \/ ~ IsTerminal(api[r].cond) /\ Extends(api'[r], api[r])

LEMMA StepGrows ==
    ASSUME VersionInv, [Next]_vars, NEW r \in Runs PROVE StatusGrows(r)
<1>1. TypeInv /\ CallsVersioned /\ api \in [Runs -> Objects]
  BY VersionedParts, TypeInvParts DEF VersionInv, ApiInv
<1>2. CASE Environment
  <2>1. ASSUME NEW q \in Runs, CreateAgentRun(q) \/ EditAgentRun(q) \/ DeleteAgentRun(q)
        PROVE  StatusGrows(r)
    <3>1. api[q] \in Objects
      BY <1>1
    <3>2. PICK o : StatusOf(o) = StatusOf(api[q]) /\ api' = [api EXCEPT ![q] = o]
      <4>1. CASE CreateAgentRun(q)
        <5> DEFINE o == [api[q] EXCEPT !.life = "alive", !.rv = @ + 1]
        <5>1. StatusOf(o) = StatusOf(api[q]) /\ api' = [api EXCEPT ![q] = o]
          BY <1>1, <3>1, <4>1 DEF CreateAgentRun, StatusOf, Objects
        <5>2. QED
          BY <5>1
      <4>2. CASE EditAgentRun(q)
        <5> DEFINE o == [api[q] EXCEPT !.rv = @ + 1]
        <5>1. StatusOf(o) = StatusOf(api[q]) /\ api' = [api EXCEPT ![q] = o]
          BY <1>1, <3>1, <4>2 DEF EditAgentRun, StatusOf, Objects
        <5>2. QED
          BY <5>1
      <4>3. CASE DeleteAgentRun(q)
        <5> DEFINE o == [api[q] EXCEPT !.life = "deleted", !.rv = @ + 1]
        <5>1. StatusOf(o) = StatusOf(api[q]) /\ api' = [api EXCEPT ![q] = o]
          BY <1>1, <3>1, <4>3 DEF DeleteAgentRun, StatusOf, Objects
        <5>2. QED
          BY <5>1
      <4>4. QED
        BY <2>1, <4>1, <4>2, <4>3
    <3>3. QED
      BY <1>1, <3>2 DEF StatusGrows
  <2>2. ASSUME NEW c \in Controllers, Crash(c) PROVE StatusGrows(r)
    BY <2>2 DEF Crash, StatusGrows
  <2>3. ASSUME NEW s \in Sandboxes, StragglerEnds(s) PROVE StatusGrows(r)
    BY <2>3 DEF StragglerEnds, StatusGrows
  <2>4. QED
    BY <1>2, <2>1, <2>2, <2>3 DEF Environment
<1>3. ASSUME NEW c \in Controllers,
             Informer(c) \/ (\E q \in Runs : Fetch(c, q)) \/ Phase(c) \/ LostCall(c)
      PROVE  StatusGrows(r)
  BY <1>3 DEF Informer, Start, Resync, CacheSync, Fetch, Phase, PhaseError, ReconcileSandbox,
              PrepareAgent, RunAgent, LoseAgent, ReconcileResults, ReconcileActions, ExecuteAction,
              FinishExecute, LostCall, CreateLost, RetryRun, StatusGrows
<1>4. ASSUME NEW c \in Controllers,
             UpdateStatus(c) \/ UpdateStatusError(c) \/ MarkFailed(c) \/ DestroySandbox(c)
      PROVE  StatusGrows(r)
  <2>1. api' = api \/ (work[c].pc \in Writing /\ Accepted(c) /\ Store(c))
    BY <1>4 DEF UpdateStatus, UpdateStatusError, MarkFailed, DestroySandbox, Writing, Points
  <2>2. CASE work[c].pc \in Writing /\ Accepted(c) /\ Store(c)
    <3>1. work[c].pc # "idle" /\ work[c].obj \in Objects
      BY <1>1, <2>2, TypeInvParts, CallObject DEF Writing
    <3>2. Bumped(work[c].run) /\ api'[work[c].run] = NewVersion(work[c].obj)
      BY <1>1, <2>2, <3>1, StoreBumps
    <3>3. ~ IsTerminal(api[work[c].run].cond) /\ Extends(work[c].obj, api[work[c].run])
      BY <1>1, <2>2 DEF CallsVersioned, CurrentCall, Accepted
    <3>4. /\ NewVersion(work[c].obj).cond = work[c].obj.cond
          /\ NewVersion(work[c].obj).sandbox = work[c].obj.sandbox
      BY <3>1 DEF NewVersion, Objects
    <3>5. Extends(api'[work[c].run], api[work[c].run])
      BY <3>2, <3>3, <3>4 DEF Extends
    <3>6. QED
      BY <3>2, <3>3, <3>5 DEF StatusGrows, Bumped
  <2>3. QED
    BY <2>1, <2>2 DEF StatusGrows
<1>5. CASE UNCHANGED vars
  BY <1>5 DEF vars, StatusGrows
<1>6. QED
  BY <1>2, <1>3, <1>4, <1>5 DEF Next, Reconcile

\* The status of a run that is over never changes again, however many
\* controllers work on it and from whatever stale copies.
THEOREM Immutability == Spec => ImmutableAfterCompletion
<1>1. Init => VersionInv
  BY TypeInit, VersionInit DEF VersionInv
<1>2. VersionInv /\ [Next]_vars =>
        [\A r \in Runs : Terminal(r) => StatusOf(api'[r]) = StatusOf(api[r])]_vars
  BY StepGrows DEF StatusGrows, Terminal
<1>3. QED
  BY <1>1, <1>2, VersionStep, PTL DEF Spec, ImmutableAfterCompletion

\* A phase that was recorded as done stays done, in the same sandbox.
THEOREM Progress == Spec => ProgressIsKept
<1>1. Init => VersionInv
  BY TypeInit, VersionInit DEF VersionInv
<1>2. ASSUME VersionInv, [Next]_vars, NEW r \in Runs
      PROVE  /\ \A d \in Dependents : api[r].cond[d] = "True" => api'[r].cond[d] = "True"
             /\ api[r].sandbox # NoSandbox => api'[r].sandbox = api[r].sandbox
  <2>1. StatusGrows(r)
    BY <1>2, StepGrows
  <2>2. QED
    BY <2>1 DEF StatusGrows, StatusOf, Extends
<1>3. VersionInv /\ [Next]_vars =>
        [\A r \in Runs :
           /\ \A d \in Dependents : api[r].cond[d] = "True" => api'[r].cond[d] = "True"
           /\ api[r].sandbox # NoSandbox => api'[r].sandbox = api[r].sandbox]_vars
  BY <1>2
<1>4. QED
  BY <1>1, <1>3, VersionStep, PTL DEF Spec, ProgressIsKept

=============================================================================
