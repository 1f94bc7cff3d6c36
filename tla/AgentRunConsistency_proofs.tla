---------------------- MODULE AgentRunConsistency_proofs ----------------------
(***************************************************************************)
(* Proofs about what the status of an AgentRun says, for any sets of runs, *)
(* controllers, sandboxes and results, and any number of faults: it never  *)
(* contradicts itself, it follows the lifecycle that is documented, the    *)
(* sandbox it names is the run's own and its audit is true.                *)
(*                                                                         *)
(* None of this is inductive for the API server's objects alone.  A status *)
(* is written from the copy a Reconcile call works on, and that one comes  *)
(* from a cache: so every copy has to be consistent, each for the point    *)
(* its call has got to, and a copy with the server's version has to differ *)
(* from the server's object by the phase of the call and nothing else.     *)
(***************************************************************************)
EXTENDS AgentRunReconciler_proofs, FiniteSetTheorems

-----------------------------------------------------------------------------
\* Conditions that the reconciler leaves

\* The phases that come before p.
Before(p) ==
    CASE p = "SandboxReady" -> {}
      [] p = "AgentExecuted" -> {"SandboxReady"}
      [] p = "ResultsCollected" -> {"SandboxReady", "AgentExecuted"}
      [] OTHER -> {"SandboxReady", "AgentExecuted", "ResultsCollected"}

\* A run that is in phase p, that failed in it, that succeeded.
InPhase(cond, p) ==
    \A t \in ConditionTypes : cond[t] = IF t \in Before(p) THEN "True" ELSE "Unknown"

FailedIn(cond, p) ==
    \A t \in ConditionTypes :
        cond[t] = IF t \in Before(p) THEN "True"
                  ELSE IF t \in {p, "Succeeded"} THEN "False" ELSE "Unknown"

AllDone(cond) == \A t \in ConditionTypes : cond[t] = "True"

\* What follows phase p.
Passed(cond, p) ==
    CASE p = "SandboxReady" -> InPhase(cond, "AgentExecuted")
      [] p = "AgentExecuted" -> InPhase(cond, "ResultsCollected")
      [] p = "ResultsCollected" -> InPhase(cond, "ActionsExecuted")
      [] OTHER -> AllDone(cond)

\* Phases are done in their order, and nothing comes after a failure.
InOrder(cond) ==
    AllDone(cond) \/ \E p \in Dependents : InPhase(cond, p) \/ FailedIn(cond, p)

\* What StatusConsistent says of one object, and with it the order of phases.
FieldsConsistent(o) ==
    /\ o.sandbox # NoSandbox <=> o.cond["SandboxReady"] = "True"
    /\ o.completed <=> IsTerminal(o.cond)
    /\ o.cond["Succeeded"] = "True" <=> \A d \in Dependents : o.cond[d] = "True"
    /\ o.usage # NoResult <=> o.cond["ResultsCollected"] = "True"
    /\ o.audit # <<>> => o.cond["ActionsExecuted"] # "Unknown"

Consistent(o) == InOrder(o.cond) /\ FieldsConsistent(o)

\* An object that does not exist yet has no status.
UnbornHasNoStatus(o) == o.life = "unborn" => InPhase(o.cond, "SandboxReady")

-----------------------------------------------------------------------------
\* Copies that a Reconcile call works on

\* The points at which a call is inside a phase, and which phase that is.
Working == Dependents \cup {"agent-run", "Execute"}

PhaseOf(pc) ==
    IF pc = "agent-run" THEN "AgentExecuted"
    ELSE IF pc = "Execute" THEN "ActionsExecuted" ELSE pc

\* Inside a phase the copy is consistent but for the audit Execute collects.
InPhaseCopy(o, p) ==
    /\ InPhase(o.cond, p)
    /\ o.sandbox # NoSandbox <=> p # "SandboxReady"
    /\ ~ o.completed
    /\ o.usage # NoResult <=> p = "ActionsExecuted"

CallConsistent(w) ==
    /\ w.pc \in Writing => w.obj.life = "alive"
    /\ w.pc \in Working => InPhaseCopy(w.obj, PhaseOf(w.pc))
    /\ w.pc \in Working \ {"Execute"} => w.obj.audit = <<>>
    /\ w.pc \in {"UpdateStatus", "markFailed"} => Consistent(w.obj)

\* obj is what phase p made of base, by success and by failure.
Settlement(obj, base, p) ==
    /\ InPhase(base.cond, p)
    /\ p # "SandboxReady" => obj.sandbox = base.sandbox
    /\ p # "ActionsExecuted" => obj.audit = base.audit

\* A copy with the server's version differs from the server's object by what
\* the phase of the call did.
CallFollows(w, base) ==
    w.obj.rv = base.rv =>
        /\ w.pc \in Working =>
             /\ InPhase(base.cond, PhaseOf(w.pc))
             /\ w.obj.sandbox = base.sandbox
        /\ w.pc = "UpdateStatus" =>
             \E p \in Dependents : Settlement(w.obj, base, p) /\ Passed(w.obj.cond, p)
        /\ w.pc = "markFailed" =>
             \E p \in Dependents :
                /\ Settlement(w.obj, base, p) /\ FailedIn(w.obj.cond, p)
                /\ w.obj.sandbox = base.sandbox

ObjectsConsistent ==
    /\ \A r \in Runs : Consistent(api[r]) /\ UnbornHasNoStatus(api[r])
    /\ \A c \in Controllers, r \in Runs : Consistent(cache[c][r])

CallsConsistent ==
    \A c \in Controllers :
        work[c].pc # "idle" =>
            CallConsistent(work[c]) /\ CallFollows(work[c], api[work[c].run])

StatusInv == VersionInv /\ ObjectsConsistent /\ CallsConsistent

\* A sandbox that was never handed out has no owner, and every other name in a
\* status or in a call's copy is that of a sandbox made for the run.
BoxOf(r, s) == s # NoSandbox => sandboxes[s].owner = r

SandboxesOwned ==
    /\ \A s \in Sandboxes : sandboxes[s].state = "free" => sandboxes[s].owner = NoRun
    /\ \A r \in Runs : BoxOf(r, api[r].sandbox)
    /\ \A c \in Controllers, r \in Runs :
         cache[c][r].sandbox # NoSandbox => cache[c][r].sandbox = api[r].sandbox
    /\ \A c \in Controllers :
         /\ work[c].pc \in Writing => BoxOf(work[c].run, work[c].obj.sandbox)
         /\ work[c].pc \in InSandbox => work[c].obj.sandbox = api[work[c].run].sandbox

\* The audit of a copy, and the actions Execute has still to do, are those of
\* a result, and what is audited was performed.
Audited(audit, r) == \A a \in Actions : Times(a, audit) <= performed[r][a]

AuditInv ==
    /\ \A r \in Runs :
         /\ Audited(api[r].audit, r)
         /\ AllDone(api[r].cond) => \E res \in Results : api[r].audit = res.actions
    /\ \A c \in Controllers :
         LET w == work[c]
         IN  /\ w.pc \in Writing => Audited(w.obj.audit, w.run)
             /\ w.pc = "Execute" /\ ~ w.failed =>
                  \E res \in Results : w.obj.audit \o w.todo = res.actions
             /\ w.pc = "UpdateStatus" /\ AllDone(w.obj.cond) =>
                  \E res \in Results : w.obj.audit = res.actions

-----------------------------------------------------------------------------
\* Conditions

\* The five conditions, one by one.
LEMMA ConditionsAre ==
    /\ ConditionTypes = {"SandboxReady", "AgentExecuted", "ResultsCollected",
                         "ActionsExecuted", "Succeeded"}
    /\ \A p \in Dependents : Before(p) \subseteq Dependents /\ p \notin Before(p)
<1>1. ConditionTypes = {"SandboxReady", "AgentExecuted", "ResultsCollected",
                        "ActionsExecuted", "Succeeded"}
  BY DependentsAre DEF ConditionTypes
<1>2. \A p \in Dependents : Before(p) \subseteq Dependents /\ p \notin Before(p)
  BY DependentsAre DEF Before
<1>3. QED
  BY <1>1, <1>2

\* A run that is in phase p has p as its first phase that is not done, and no
\* other, and is not over.
LEMMA InPhaseIs ==
    ASSUME NEW cond \in Conditions, NEW p \in Dependents, InPhase(cond, p)
    PROVE  /\ GetCurrentPhase(cond) = p
           /\ ~ IsTerminal(cond)
           /\ ~ AllDone(cond)
           /\ \A q \in Dependents : InPhase(cond, q) => q = p
           /\ cond["SandboxReady"] = "True" <=> p # "SandboxReady"
           /\ cond["ResultsCollected"] = "True" <=> p = "ActionsExecuted"
           /\ cond["ActionsExecuted"] = "Unknown"
           /\ cond["Succeeded"] = "Unknown"
           /\ ~ \A d \in Dependents : cond[d] = "True"
<1>1. cond["Succeeded"] = "Unknown" /\ cond[p] = "Unknown"
  BY DependentsAre, ConditionsAre DEF InPhase
<1>2. /\ cond["SandboxReady"] = IF p = "SandboxReady" THEN "Unknown" ELSE "True"
      /\ cond["AgentExecuted"] = IF p \in {"SandboxReady", "AgentExecuted"}
                                   THEN "Unknown" ELSE "True"
      /\ cond["ResultsCollected"] = IF p = "ActionsExecuted" THEN "True" ELSE "Unknown"
      /\ cond["ActionsExecuted"] = "Unknown"
  BY DependentsAre, ConditionsAre DEF InPhase, Before
<1>3. \A q \in Dependents : InPhase(cond, q) => q = p
  <2> SUFFICES ASSUME NEW q \in Dependents, InPhase(cond, q) PROVE q = p
    OBVIOUS
  <2>1. /\ cond["SandboxReady"] = IF q = "SandboxReady" THEN "Unknown" ELSE "True"
        /\ cond["AgentExecuted"] = IF q \in {"SandboxReady", "AgentExecuted"}
                                     THEN "Unknown" ELSE "True"
        /\ cond["ResultsCollected"] = IF q = "ActionsExecuted" THEN "True" ELSE "Unknown"
    BY DependentsAre, ConditionsAre DEF InPhase, Before
  <2>2. QED
    BY <1>2, <2>1, DependentsAre
<1>4. ~ \A d \in Dependents : cond[d] = "True"
  BY <1>1
<1>5. GetCurrentPhase(cond) = p
  <2> DEFINE First(i) == /\ cond[Phases[i]] # "True"
                         /\ \A j \in 1..(i - 1) : cond[Phases[j]] = "True"
  <2>1. /\ 1..4 = {1, 2, 3, 4} /\ 1..(1 - 1) = {} /\ 1..(2 - 1) = {1}
        /\ 1..(3 - 1) = {1, 2} /\ 1..(4 - 1) = {1, 2, 3}
    OBVIOUS
  <2>2. /\ Phases[1] = "SandboxReady" /\ Phases[2] = "AgentExecuted"
        /\ Phases[3] = "ResultsCollected" /\ Phases[4] = "ActionsExecuted"
    BY DEF Phases
  <2>3. PICK n \in 1..4 : Phases[n] = p
    BY DEF Dependents
  <2>4. \A i \in {1, 2, 3, 4} : First(i) <=> i = n
    <3>1. CASE n = 1
      BY <1>2, <2>1, <2>2, <2>3, <3>1
    <3>2. CASE n = 2
      BY <1>2, <2>1, <2>2, <2>3, <3>2
    <3>3. CASE n = 3
      BY <1>2, <2>1, <2>2, <2>3, <3>3
    <3>4. CASE n = 4
      BY <1>2, <2>1, <2>2, <2>3, <3>4
    <3>5. QED
      BY <2>1, <3>1, <3>2, <3>3, <3>4
  <2>5. (CHOOSE i \in 1..4 : First(i)) = n
    BY <2>1, <2>4
  <2>6. QED
    BY <1>4, <2>3, <2>5 DEF GetCurrentPhase
<1>6. QED
  BY <1>1, <1>2, <1>3, <1>4, <1>5, ConditionsAre DEF IsTerminal, AllDone

\* A phase that is marked done is passed, one that is marked failed is where
\* the run failed.
LEMMA MarksFollow ==
    ASSUME NEW cond \in Conditions, NEW p \in Dependents, InPhase(cond, p)
    PROVE  Passed(MarkTrue(cond, p), p) /\ FailedIn(MarkFalse(cond, p), p)
<1> USE DependentsAre, ConditionsAre
<1> DEFINE set == [cond EXCEPT ![p] = "True"]
<1>1. FailedIn(MarkFalse(cond, p), p)
  BY DEF FailedIn, InPhase, MarkFalse, Conditions, Before
<1>2. set \in Conditions /\ \A t \in ConditionTypes : set[t] = IF t = p THEN "True" ELSE cond[t]
  BY DEF Conditions, ConditionValues
<1>3. MarkTrue(cond, p) = [set EXCEPT !["Succeeded"] = Happiness(set, p)]
  BY DEF MarkTrue
<1>4. PICK m : m = MarkTrue(cond, p)
  OBVIOUS
<1>5. /\ m["Succeeded"] = Happiness(set, p)
      /\ \A t \in Dependents : m[t] = IF t = p THEN "True" ELSE cond[t]
  BY <1>2, <1>3, <1>4 DEF Conditions
<1> HIDE DEF set
<1>6. CASE p = "ActionsExecuted"
  <2>1. \A d \in Dependents : set[d] = "True"
    BY <1>2, <1>6 DEF InPhase, Before
  <2>2. Happiness(set, p) = "True"
    BY <1>6, <2>1 DEF Happiness
  <2>3. AllDone(m)
    BY <1>5, <1>6, <2>2 DEF InPhase, Before, AllDone
  <2>4. QED
    BY <1>1, <1>4, <1>6, <2>3 DEF Passed
<1>7. CASE p # "ActionsExecuted"
  <2>1. set["ActionsExecuted"] = "Unknown" /\ \A d \in Dependents : set[d] # "False"
    BY <1>2, <1>7 DEF InPhase, Before
  <2>2. Happiness(set, p) = "Unknown"
    BY <2>1 DEF Happiness
  <2>3. CASE p = "SandboxReady"
    <3>1. InPhase(m, "AgentExecuted")
      BY <1>5, <2>2, <2>3 DEF InPhase, Before
    <3>2. QED
      BY <1>1, <1>4, <2>3, <3>1 DEF Passed
  <2>4. CASE p = "AgentExecuted"
    <3>1. InPhase(m, "ResultsCollected")
      BY <1>5, <2>2, <2>4 DEF InPhase, Before
    <3>2. QED
      BY <1>1, <1>4, <2>4, <3>1 DEF Passed
  <2>5. CASE p = "ResultsCollected"
    <3>1. InPhase(m, "ActionsExecuted")
      BY <1>5, <2>2, <2>5 DEF InPhase, Before
    <3>2. QED
      BY <1>1, <1>4, <2>5, <3>1 DEF Passed
  <2>6. QED
    BY <1>7, <2>3, <2>4, <2>5
<1>8. QED
  BY <1>6, <1>7

\* Conditions that are done or failed are over, and where phases are done in
\* order there is no other way to be over.
LEMMA OverIs ==
    ASSUME NEW cond \in Conditions
    PROVE  /\ AllDone(cond) => /\ IsTerminal(cond) /\ InOrder(cond)
                               /\ cond["Succeeded"] = "True"
                               /\ \A d \in Dependents : cond[d] = "True"
                               /\ \A p \in Dependents : ~ FailedIn(cond, p)
           /\ \A p \in Dependents : FailedIn(cond, p) =>
                /\ IsTerminal(cond) /\ InOrder(cond)
                /\ cond["Succeeded"] = "False"
                /\ ~ \A d \in Dependents : cond[d] = "True"
                /\ cond["SandboxReady"] = "True" <=> p # "SandboxReady"
                /\ cond["ResultsCollected"] = "True" <=> p = "ActionsExecuted"
                /\ cond["ActionsExecuted"] # "Unknown" <=> p = "ActionsExecuted"
           /\ \A p \in Dependents : InPhase(cond, p) => InOrder(cond)
           /\ InOrder(cond) /\ ~ IsTerminal(cond) => \E p \in Dependents : InPhase(cond, p)
<1> USE DependentsAre, ConditionsAre
<1>1. ASSUME AllDone(cond)
      PROVE  /\ IsTerminal(cond) /\ InOrder(cond)
             /\ cond["Succeeded"] = "True"
             /\ \A d \in Dependents : cond[d] = "True"
             /\ \A p \in Dependents : ~ FailedIn(cond, p)
  BY <1>1 DEF AllDone, IsTerminal, InOrder, FailedIn
<1>2. ASSUME NEW p \in Dependents, FailedIn(cond, p)
      PROVE  /\ IsTerminal(cond) /\ InOrder(cond)
             /\ cond["Succeeded"] = "False"
             /\ ~ \A d \in Dependents : cond[d] = "True"
             /\ cond["SandboxReady"] = "True" <=> p # "SandboxReady"
             /\ cond["ResultsCollected"] = "True" <=> p = "ActionsExecuted"
             /\ cond["ActionsExecuted"] # "Unknown" <=> p = "ActionsExecuted"
  <2>1. InOrder(cond)
    BY <1>2 DEF InOrder
  <2>2. /\ cond["Succeeded"] = "False" /\ cond[p] = "False"
        /\ cond["SandboxReady"] = IF p = "SandboxReady" THEN "False" ELSE "True"
        /\ cond["ResultsCollected"] = IF p = "ActionsExecuted" THEN "True"
                                      ELSE IF p = "ResultsCollected" THEN "False" ELSE "Unknown"
        /\ cond["ActionsExecuted"] = IF p = "ActionsExecuted" THEN "False" ELSE "Unknown"
    BY <1>2 DEF FailedIn, Before
  <2>3. QED
    BY <2>1, <2>2 DEF IsTerminal
<1>3. \A p \in Dependents : InPhase(cond, p) => InOrder(cond)
  BY DEF InOrder
<1>4. InOrder(cond) /\ ~ IsTerminal(cond) => \E p \in Dependents : InPhase(cond, p)
  BY <1>1, <1>2 DEF InOrder
<1>5. QED
  BY <1>1, <1>2, <1>3, <1>4

-----------------------------------------------------------------------------
\* Copies

\* A copy from which a call starts is in the phase the call starts with.
LEMMA FetchedCopy ==
    ASSUME NEW o \in Objects, Consistent(o), ~ IsTerminal(o.cond)
    PROVE  /\ GetCurrentPhase(o.cond) \in Dependents
           /\ InPhaseCopy(o, GetCurrentPhase(o.cond))
           /\ o.audit = <<>>
<1>1. o.cond \in Conditions
  BY DEF Objects
<1>2. PICK p \in Dependents : InPhase(o.cond, p)
  BY <1>1, OverIs DEF Consistent
<1>3. GetCurrentPhase(o.cond) = p
  BY <1>1, <1>2, InPhaseIs
<1>4. InPhaseCopy(o, p) /\ o.audit = <<>>
  BY <1>1, <1>2, InPhaseIs DEF Consistent, FieldsConsistent, InPhaseCopy
<1>5. QED
  BY <1>2, <1>3, <1>4

\* A copy that is marked failed in the phase it is in becomes consistent.
LEMMA FailedCopy ==
    ASSUME NEW o \in Objects, NEW p \in Dependents, InPhaseCopy(o, p),
           o.audit # <<>> => p = "ActionsExecuted"
    PROVE  LET f == MarkFailedObject(o)
           IN  /\ Consistent(f) /\ FailedIn(f.cond, p)
               /\ f.sandbox = o.sandbox /\ f.audit = o.audit
               /\ f.rv = o.rv /\ f.life = o.life
<1>1. o.cond \in Conditions /\ MarkFalse(o.cond, p) \in Conditions
  BY MarkFalseType DEF Objects
<1>2. GetCurrentPhase(o.cond) = p /\ FailedIn(MarkFalse(o.cond, p), p)
  BY <1>1, InPhaseIs, MarksFollow DEF InPhaseCopy
<1>3. PICK f : f = MarkFailedObject(o)
  OBVIOUS
<1>4. /\ f.cond = MarkFalse(o.cond, p) /\ f.completed = TRUE
      /\ f.sandbox = o.sandbox /\ f.audit = o.audit /\ f.usage = o.usage
      /\ f.rv = o.rv /\ f.life = o.life
  BY <1>2, <1>3 DEF MarkFailedObject, Objects
<1>5. FailedIn(f.cond, p) /\ f.cond \in Conditions
  BY <1>1, <1>2, <1>4
<1>6. Consistent(f)
  BY <1>4, <1>5, OverIs DEF Consistent, FieldsConsistent, InPhaseCopy
<1>7. QED
  BY <1>3, <1>4, <1>5, <1>6

\* A copy whose phase is marked done, with what the phase brought, likewise:
\* all phases but the last are marked this way.
LEMMA PassedCopy ==
    ASSUME NEW o \in Objects, NEW p \in Dependents, p # "ActionsExecuted", InPhase(o.cond, p),
           o.sandbox # NoSandbox, ~ o.completed, o.audit = <<>>,
           o.usage # NoResult <=> p = "ResultsCollected"
    PROVE  LET d == [o EXCEPT !.cond = MarkTrue(@, p)]
           IN  /\ Consistent(d) /\ Passed(d.cond, p)
               /\ d.sandbox = o.sandbox /\ d.audit = o.audit
               /\ d.rv = o.rv /\ d.life = o.life
<1>1. o.cond \in Conditions /\ MarkTrue(o.cond, p) \in Conditions
  BY MarkTrueType DEF Objects, ConditionTypes
<1>2. Passed(MarkTrue(o.cond, p), p)
  BY <1>1, MarksFollow
<1>3. PICK d : d = [o EXCEPT !.cond = MarkTrue(@, p)]
  OBVIOUS
<1>4. /\ d.cond = MarkTrue(o.cond, p) /\ d.completed = o.completed
      /\ d.sandbox = o.sandbox /\ d.audit = o.audit /\ d.usage = o.usage
      /\ d.rv = o.rv /\ d.life = o.life
  BY <1>3 DEF Objects
<1>5. Passed(d.cond, p) /\ d.cond \in Conditions
  BY <1>1, <1>2, <1>4
<1>6. PICK q \in Dependents : /\ InPhase(d.cond, q) /\ q # "SandboxReady"
                              /\ q = "ActionsExecuted" <=> p = "ResultsCollected"
  BY <1>5, DependentsAre DEF Passed
<1>7. Consistent(d)
  BY <1>4, <1>5, <1>6, InPhaseIs, OverIs DEF Consistent, FieldsConsistent
<1>8. QED
  BY <1>3, <1>4, <1>5, <1>7

\* The last phase, whatever its audit.
LEMMA SucceededCopy ==
    ASSUME NEW o \in Objects, InPhaseCopy(o, "ActionsExecuted")
    PROVE  LET d == Succeed(o)
           IN  /\ Consistent(d) /\ AllDone(d.cond)
               /\ d.sandbox = o.sandbox /\ d.audit = o.audit
               /\ d.rv = o.rv /\ d.life = o.life
<1> DEFINE first == MarkTrue(o.cond, "ActionsExecuted")
           second == MarkTrue(first, "Succeeded")
<1>1. o.cond \in Conditions /\ first \in Conditions /\ second \in Conditions
  BY MarkTrueType, ConditionsAre DEF Objects
<1>2. AllDone(first)
  BY <1>1, MarksFollow, DependentsAre DEF InPhaseCopy, Passed
<1>3. AllDone(second)
  <2> HIDE DEF first
  <2> DEFINE set == [first EXCEPT !["Succeeded"] = "True"]
  <2>1. set = first
    BY <1>1, <1>2 DEF AllDone, Conditions, ConditionTypes
  <2>2. Happiness(first, "Succeeded") = "True"
    BY <1>2 DEF Happiness, AllDone, ConditionTypes
  <2>3. second = [first EXCEPT !["Succeeded"] = "True"]
    BY <2>1, <2>2 DEF MarkTrue
  <2>4. QED
    BY <1>2, <2>1, <2>3
<1>4. PICK d : d = Succeed(o)
  OBVIOUS
<1>5. /\ d.cond = second /\ d.completed = TRUE
      /\ d.sandbox = o.sandbox /\ d.audit = o.audit /\ d.usage = o.usage
      /\ d.rv = o.rv /\ d.life = o.life
  BY <1>4 DEF Succeed, Objects
<1> HIDE DEF second
<1>6. Consistent(d)
  BY <1>1, <1>3, <1>5, OverIs, DependentsAre DEF Consistent, FieldsConsistent, InPhaseCopy
<1>7. QED
  BY <1>3, <1>4, <1>5, <1>6

-----------------------------------------------------------------------------
\* A phase keeps its call consistent

\* c's call has got to pc with the copy obj; the other calls are where they were.
Moved(c, pc, obj) ==
    /\ work'[c].pc = pc /\ work'[c].obj = obj /\ work'[c].run = work[c].run
    /\ \A d \in Controllers \ {c} : work'[d] = work[d]

LEMMA GotoMoves ==
    ASSUME WorkInv, NEW c \in Controllers, NEW pc, NEW obj, Goto(c, pc, obj)
    PROVE  Moved(c, pc, obj)
<1>1. work' = [work EXCEPT ![c] = [work[c] EXCEPT !.pc = pc, !.obj = obj]] /\ work[c] \in Work
  BY DEF Goto, WorkInv
<1>2. work'[c] = [work[c] EXCEPT !.pc = pc, !.obj = obj]
      /\ \A d \in Controllers \ {c} : work'[d] = work[d]
  BY <1>1 DEF WorkInv
<1>3. QED
  BY <1>1, <1>2 DEF Moved, Work

\* What the invariant says of c's call, and of c's call after a step that
\* leaves the server's objects alone.
CallOK(c) == CallConsistent(work[c]) /\ CallFollows(work[c], api[work[c].run])

CallOKNext(c) == CallConsistent(work'[c]) /\ CallFollows(work'[c], api[work[c].run])

\* What is known of a call inside a phase.
LEMMA WorkingCall ==
    ASSUME TypeInv, ObjectsConsistent, CallsConsistent,
           NEW c \in Controllers, work[c].pc \in Working
    PROVE  /\ PhaseOf(work[c].pc) \in Dependents
           /\ work[c].obj \in Objects /\ work[c].obj.life = "alive"
           /\ work[c].run \in Runs /\ api[work[c].run] \in Objects
           /\ InPhaseCopy(work[c].obj, PhaseOf(work[c].pc))
           /\ work[c].pc # "Execute" => work[c].obj.audit = <<>>
           /\ work[c].obj.rv = api[work[c].run].rv =>
                /\ InPhase(api[work[c].run].cond, PhaseOf(work[c].pc))
                /\ work[c].obj.sandbox = api[work[c].run].sandbox
                /\ api[work[c].run].audit = <<>>
<1> DEFINE base == api[work[c].run]
<1>1. work[c].pc # "idle" /\ work[c].pc \in Writing
  BY DependentsAre DEF Working, Writing, Points
<1>2. work[c].obj \in Objects /\ work[c].run \in Runs /\ base \in Objects
  BY <1>1, TypeInvParts, CallObject DEF WorkInv, ApiInv
<1>3. CallOK(c)
  BY <1>1 DEF CallsConsistent, CallOK
<1>4. PhaseOf(work[c].pc) \in Dependents
  BY DependentsAre DEF Working, PhaseOf
<1>5. /\ work[c].obj.life = "alive"
      /\ InPhaseCopy(work[c].obj, PhaseOf(work[c].pc))
      /\ work[c].pc # "Execute" => work[c].obj.audit = <<>>
  BY <1>1, <1>3 DEF CallOK, CallConsistent
<1>6. ASSUME work[c].obj.rv = base.rv
      PROVE  /\ InPhase(base.cond, PhaseOf(work[c].pc))
             /\ work[c].obj.sandbox = base.sandbox
             /\ base.audit = <<>>
  <2>1. InPhase(base.cond, PhaseOf(work[c].pc)) /\ work[c].obj.sandbox = base.sandbox
    BY <1>3, <1>6 DEF CallOK, CallFollows
  <2>2. base.cond \in Conditions /\ Consistent(base)
    BY <1>2 DEF Objects, ObjectsConsistent
  <2>3. base.cond["ActionsExecuted"] = "Unknown"
    BY <1>4, <2>1, <2>2, InPhaseIs
  <2>4. QED
    BY <2>1, <2>2, <2>3 DEF Consistent, FieldsConsistent
<1>7. QED
  BY <1>2, <1>4, <1>5, <1>6

\* A phase that fails.
LEMMA FailStep ==
    ASSUME TypeInv, ObjectsConsistent, CallsConsistent,
           NEW c \in Controllers, work[c].pc \in Working, Fail(c)
    PROVE  CallOKNext(c) /\ Moved(c, "markFailed", MarkFailedObject(work[c].obj))
<1> DEFINE base == api[work[c].run]
           obj == work[c].obj
           p == PhaseOf(work[c].pc)
<1>1. PICK f : f = MarkFailedObject(obj)
  OBVIOUS
<1>2. Moved(c, "markFailed", f)
  BY <1>1, TypeInvParts, GotoMoves DEF Fail
<1>3. /\ p \in Dependents /\ obj \in Objects /\ InPhaseCopy(obj, p) /\ obj.life = "alive"
      /\ obj.audit # <<>> => p = "ActionsExecuted"
      /\ obj.rv = base.rv =>
           InPhase(base.cond, p) /\ obj.sandbox = base.sandbox /\ base.audit = <<>>
  BY WorkingCall DEF PhaseOf
<1>4. /\ Consistent(f) /\ FailedIn(f.cond, p)
      /\ f.sandbox = obj.sandbox /\ f.audit = obj.audit /\ f.rv = obj.rv /\ f.life = obj.life
  BY <1>1, <1>3, FailedCopy
<1>5. CallConsistent(work'[c])
  BY <1>2, <1>3, <1>4, DependentsAre DEF Moved, CallConsistent, Working
<1>6. ASSUME f.rv = base.rv
      PROVE  \E q \in Dependents : /\ Settlement(f, base, q) /\ FailedIn(f.cond, q)
                                   /\ f.sandbox = base.sandbox
  BY <1>3, <1>4, <1>6 DEF Settlement
<1>7. CallFollows(work'[c], base)
  BY <1>2, <1>6, DependentsAre DEF Moved, CallFollows, Working
<1>8. QED
  BY <1>1, <1>2, <1>5, <1>7 DEF CallOKNext

\* A phase p that succeeds, from the copy o with what the phase brought, to d.
LEMMA DoneStep ==
    ASSUME TypeInv, ObjectsConsistent, CallsConsistent,
           NEW c \in Controllers, work[c].pc \in Working, NEW d,
           Moved(c, "UpdateStatus", d), Consistent(d), Passed(d.cond, PhaseOf(work[c].pc)),
           d.rv = work[c].obj.rv, d.life = work[c].obj.life,
           PhaseOf(work[c].pc) # "SandboxReady" => d.sandbox = work[c].obj.sandbox,
           PhaseOf(work[c].pc) # "ActionsExecuted" => d.audit = <<>>
    PROVE  CallOKNext(c)
<1> DEFINE base == api[work[c].run]
           p == PhaseOf(work[c].pc)
<1>1. /\ p \in Dependents /\ work[c].obj.life = "alive"
      /\ d.rv = base.rv =>
           InPhase(base.cond, p) /\ work[c].obj.sandbox = base.sandbox /\ base.audit = <<>>
  BY WorkingCall
<1>2. CallConsistent(work'[c])
  BY <1>1, DependentsAre DEF Moved, CallConsistent, Working
<1>3. ASSUME d.rv = base.rv
      PROVE  \E q \in Dependents : Settlement(d, base, q) /\ Passed(d.cond, q)
  BY <1>1, <1>3 DEF Settlement
<1>4. CallFollows(work'[c], base)
  BY <1>3, DependentsAre DEF Moved, CallFollows, Working
<1>5. QED
  BY <1>2, <1>4 DEF CallOKNext

\* The phases before the last end in PhaseDone.
LEMMA PhaseDoneStep ==
    ASSUME TypeInv, ObjectsConsistent, CallsConsistent,
           NEW c \in Controllers, work[c].pc \in Working, NEW o \in Objects, NEW p \in Dependents,
           p = PhaseOf(work[c].pc), p # "ActionsExecuted", PhaseDone(c, o, p),
           o.cond = work[c].obj.cond, o.rv = work[c].obj.rv, o.life = work[c].obj.life,
           ~ o.completed, o.audit = <<>>, o.sandbox # NoSandbox,
           p # "SandboxReady" => o.sandbox = work[c].obj.sandbox,
           o.usage # NoResult <=> p = "ResultsCollected"
    PROVE  /\ CallOKNext(c) /\ work'[c].obj.sandbox = o.sandbox
           /\ work'[c].obj.audit = <<>> /\ ~ AllDone(work'[c].obj.cond)
           /\ Moved(c, "UpdateStatus", work'[c].obj)
<1>1. PICK d : d = [o EXCEPT !.cond = MarkTrue(@, p)]
  OBVIOUS
<1>2. Moved(c, "UpdateStatus", d)
  BY <1>1, TypeInvParts, GotoMoves DEF PhaseDone
<1>3. InPhase(o.cond, p)
  BY WorkingCall DEF InPhaseCopy
<1>4. /\ Consistent(d) /\ Passed(d.cond, p)
      /\ d.sandbox = o.sandbox /\ d.audit = o.audit /\ d.rv = o.rv /\ d.life = o.life
  BY <1>1, <1>3, PassedCopy
<1>5. CallOKNext(c)
  BY <1>2, <1>4, DoneStep
<1>6. ~ AllDone(d.cond)
  BY <1>4, DependentsAre, ConditionsAre DEF Passed, InPhase, AllDone, Before
<1>7. QED
  BY <1>2, <1>4, <1>5, <1>6 DEF Moved

\* What a phase does with its call: it stays inside the phase, or leaves it to
\* write what it has come to.  (The branch of reconcileSandbox that reconnects
\* is not among it.)
LEMMA SandboxStep ==
    ASSUME TypeInv, ObjectsConsistent, CallsConsistent,
           NEW c \in Controllers, ReconcileSandbox(c)
    PROVE  /\ CallOKNext(c) /\ Moved(c, "UpdateStatus", work'[c].obj)
           /\ work'[c].obj.audit = <<>> /\ ~ AllDone(work'[c].obj.cond)
           /\ \E s \in Sandboxes :
                /\ sandboxes[s].state = "free" /\ work'[c].obj.sandbox = s
                /\ sandboxes' = [sandboxes EXCEPT ![s].state = "live", ![s].owner = work[c].run]
<1> DEFINE obj == work[c].obj
<1>1. /\ work[c].pc \in Working /\ work[c].pc = "SandboxReady"
      /\ PhaseOf(work[c].pc) = "SandboxReady" /\ "SandboxReady" \in Dependents
  BY DependentsAre DEF ReconcileSandbox, Working, PhaseOf
<1>2. /\ obj \in Objects /\ obj.life = "alive" /\ InPhaseCopy(obj, "SandboxReady")
      /\ obj.audit = <<>>
  BY <1>1, WorkingCall
<1>3. obj.sandbox = NoSandbox
  BY <1>2 DEF InPhaseCopy
<1>4. PICK s \in Sandboxes :
        /\ sandboxes[s].state = "free"
        /\ sandboxes' = [sandboxes EXCEPT ![s].state = "live", ![s].owner = work[c].run]
        /\ PhaseDone(c, [obj EXCEPT !.sandbox = s], "SandboxReady")
  BY <1>3 DEF ReconcileSandbox
<1>5. PICK o : o = [obj EXCEPT !.sandbox = s]
  OBVIOUS
<1>6. /\ o \in Objects /\ o.sandbox = s /\ o.cond = obj.cond /\ o.rv = obj.rv /\ o.life = obj.life
      /\ o.completed = obj.completed /\ o.audit = obj.audit /\ o.usage = obj.usage
  BY <1>2, <1>5 DEF Objects
<1>7. s # NoSandbox
  BY ConstantsAssumption
<1>8. PhaseDone(c, o, "SandboxReady")
  BY <1>4, <1>5
<1>9. ~ o.completed /\ o.usage = NoResult /\ o.audit = <<>> /\ o.sandbox # NoSandbox
  BY <1>2, <1>6, <1>7 DEF InPhaseCopy
<1>10. /\ CallOKNext(c) /\ work'[c].obj.sandbox = s /\ work'[c].obj.audit = <<>>
       /\ ~ AllDone(work'[c].obj.cond)
       /\ Moved(c, "UpdateStatus", work'[c].obj)
  BY <1>1, <1>6, <1>8, <1>9, PhaseDoneStep
<1>11. QED
  BY <1>4, <1>10

LEMMA PrepareStep ==
    ASSUME TypeInv, ObjectsConsistent, CallsConsistent,
           NEW c \in Controllers, PrepareAgent(c)
    PROVE  CallOKNext(c) /\ Moved(c, "agent-run", work[c].obj)
<1>1. work[c].pc \in Working /\ PhaseOf(work[c].pc) = "AgentExecuted" /\ work[c].pc # "Execute"
  BY DependentsAre DEF PrepareAgent, Working, PhaseOf
<1>2. Moved(c, "agent-run", work[c].obj)
  BY TypeInvParts, GotoMoves DEF PrepareAgent
<1>3. CallConsistent(work'[c])
  BY <1>1, <1>2, WorkingCall DEF Moved, CallConsistent, Working, PhaseOf
<1>4. CallFollows(work'[c], api[work[c].run])
  BY <1>1, <1>2, WorkingCall DEF Moved, CallFollows, Working, PhaseOf
<1>5. QED
  BY <1>2, <1>3, <1>4 DEF CallOKNext

LEMMA AgentStep ==
    ASSUME TypeInv, ObjectsConsistent, CallsConsistent,
           NEW c \in Controllers, RunAgent(c)
    PROVE  /\ CallOKNext(c) /\ work'[c].obj.sandbox = work[c].obj.sandbox
           /\ work'[c].obj.audit = <<>>
           /\ \/ Moved(c, "UpdateStatus", work'[c].obj) /\ ~ AllDone(work'[c].obj.cond)
              \/ Moved(c, "markFailed", work'[c].obj)
<1> DEFINE obj == work[c].obj
<1>1. /\ work[c].pc \in Working /\ PhaseOf(work[c].pc) = "AgentExecuted"
      /\ work[c].pc # "Execute" /\ "AgentExecuted" \in Dependents
  BY DependentsAre DEF RunAgent, Working, PhaseOf
<1>2. /\ obj \in Objects /\ obj.life = "alive" /\ InPhaseCopy(obj, "AgentExecuted")
      /\ obj.audit = <<>>
  BY <1>1, WorkingCall
<1>3. ~ obj.completed /\ obj.usage = NoResult /\ obj.sandbox # NoSandbox
  BY <1>2 DEF InPhaseCopy
<1>4. CASE PhaseDone(c, obj, "AgentExecuted")
  BY <1>1, <1>2, <1>3, <1>4, PhaseDoneStep
<1>5. CASE Fail(c)
  <2>1. CallOKNext(c) /\ Moved(c, "markFailed", MarkFailedObject(obj))
    BY <1>1, <1>5, FailStep
  <2>2. MarkFailedObject(obj).sandbox = obj.sandbox /\ MarkFailedObject(obj).audit = obj.audit
    BY <1>2 DEF MarkFailedObject, Objects
  <2>3. QED
    BY <1>2, <2>1, <2>2 DEF Moved
<1>6. QED
  BY <1>4, <1>5 DEF RunAgent

LEMMA ResultsStep ==
    ASSUME TypeInv, ObjectsConsistent, CallsConsistent,
           NEW c \in Controllers, ReconcileResults(c)
    PROVE  /\ CallOKNext(c) /\ work'[c].obj.sandbox = work[c].obj.sandbox
           /\ work'[c].obj.audit = <<>> /\ ~ AllDone(work'[c].obj.cond)
           /\ Moved(c, "UpdateStatus", work'[c].obj)
<1> DEFINE obj == work[c].obj
<1>1. /\ work[c].pc \in Working /\ PhaseOf(work[c].pc) = "ResultsCollected"
      /\ work[c].pc # "Execute" /\ "ResultsCollected" \in Dependents
  BY DependentsAre DEF ReconcileResults, Working, PhaseOf
<1>2. /\ obj \in Objects /\ obj.life = "alive" /\ InPhaseCopy(obj, "ResultsCollected")
      /\ obj.audit = <<>>
  BY <1>1, WorkingCall
<1>3. ~ obj.completed /\ obj.sandbox # NoSandbox
  BY <1>2 DEF InPhaseCopy
<1>4. PICK res \in Results : PhaseDone(c, [obj EXCEPT !.usage = res], "ResultsCollected")
  BY DEF ReconcileResults
<1>5. PICK o : o = [obj EXCEPT !.usage = res]
  OBVIOUS
<1>6. /\ o \in Objects /\ o.usage = res /\ o.cond = obj.cond /\ o.rv = obj.rv
      /\ o.life = obj.life /\ o.completed = obj.completed /\ o.audit = obj.audit
      /\ o.sandbox = obj.sandbox
  BY <1>2, <1>5 DEF Objects
<1>7. res # NoResult
  BY ConstantsAssumption
<1>8. QED
  BY <1>1, <1>2, <1>3, <1>4, <1>5, <1>6, <1>7, PhaseDoneStep

\* The last phase ends at once if there is nothing to do, or starts Execute.
LEMMA ActionsStep ==
    ASSUME TypeInv, ObjectsConsistent, CallsConsistent,
           NEW c \in Controllers, ReconcileActions(c)
    PROVE  /\ CallOKNext(c) /\ work'[c].obj.sandbox = work[c].obj.sandbox
           /\ work'[c].obj.audit = <<>>
           /\ \E res \in Results :
                /\ res = sandboxes[work[c].obj.sandbox].result
                /\ \/ Moved(c, "UpdateStatus", work'[c].obj) /\ res.actions = <<>>
                   \/ Moved(c, "Execute", work'[c].obj) /\ work'[c].todo = res.actions
<1> DEFINE obj == work[c].obj
           base == api[work[c].run]
<1>1. /\ work[c].pc \in Working /\ PhaseOf(work[c].pc) = "ActionsExecuted"
      /\ work[c].pc # "Execute" /\ PhaseOf("Execute") = "ActionsExecuted"
      /\ "Execute" \in Working /\ "Execute" \notin Dependents
  BY DependentsAre DEF ReconcileActions, Working, PhaseOf
<1>2. /\ obj \in Objects /\ obj.life = "alive" /\ InPhaseCopy(obj, "ActionsExecuted")
      /\ obj.audit = <<>>
      /\ obj.rv = base.rv => InPhase(base.cond, "ActionsExecuted") /\ obj.sandbox = base.sandbox
  BY <1>1, WorkingCall
<1>3. PICK res \in Results :
        /\ res = sandboxes[obj.sandbox].result
        /\ IF res.actions = <<>>
             THEN Goto(c, "UpdateStatus", Succeed(obj))
             ELSE work' = [work EXCEPT ![c].pc = "Execute",
                                       ![c].obj = [obj EXCEPT !.audit = <<>>],
                                       ![c].todo = res.actions,
                                       ![c].failed = FALSE]
  BY DEF ReconcileActions
<1>4. CASE res.actions = <<>>
  <2>1. PICK d : d = Succeed(obj)
    OBVIOUS
  <2>2. Moved(c, "UpdateStatus", d)
    BY <1>3, <1>4, <2>1, TypeInvParts, GotoMoves
  <2>3. /\ Consistent(d) /\ AllDone(d.cond)
        /\ d.sandbox = obj.sandbox /\ d.audit = obj.audit /\ d.rv = obj.rv /\ d.life = obj.life
    BY <1>2, <2>1, SucceededCopy
  <2>4. CallOKNext(c)
    BY <1>1, <2>2, <2>3, DoneStep DEF Passed
  <2>5. QED
    BY <1>2, <1>3, <1>4, <2>2, <2>3, <2>4 DEF Moved
<1>5. CASE res.actions # <<>>
  <2>1. PICK o : o = [obj EXCEPT !.audit = <<>>]
    OBVIOUS
  <2>2. o = obj
    BY <1>2, <2>1 DEF Objects
  <2>3. work[c] \in Work
    BY TypeInvParts DEF WorkInv
  <2> DEFINE call == [work[c] EXCEPT !.pc = "Execute", !.obj = obj,
                                     !.todo = res.actions, !.failed = FALSE]
  <2>4. work'[c] = call /\ \A d \in Controllers \ {c} : work'[d] = work[d]
    <3>1. work' = [work EXCEPT ![c].pc = "Execute", ![c].obj = obj,
                               ![c].todo = res.actions, ![c].failed = FALSE]
      BY <1>3, <1>5, <2>1, <2>2
    <3>2. QED
      BY <3>1, TypeInvParts DEF WorkInv
  <2>5. /\ call.pc = "Execute" /\ call.obj = obj /\ call.run = work[c].run
        /\ call.todo = res.actions
    BY <2>3 DEF Work
  <2> HIDE DEF call
  <2>6. Moved(c, "Execute", obj) /\ work'[c].obj = obj
    BY <2>4, <2>5 DEF Moved
  <2>7. CallConsistent(work'[c])
    BY <1>1, <1>2, <2>6 DEF Moved, CallConsistent
  <2>8. CallFollows(work'[c], base)
    BY <1>1, <1>2, <2>6 DEF Moved, CallFollows
  <2>9. QED
    BY <1>2, <1>3, <2>4, <2>5, <2>6, <2>7, <2>8 DEF CallOKNext
<1>6. QED
  BY <1>4, <1>5

\* An action is audited only if it took effect.  w, a, took and ok are the call,
\* the action and the outcome of ExecuteAction.
Executed(c, a, took, ok) ==
    LET w == work[c]
        x == work'[c]
    IN  /\ w.todo # <<>> /\ a = Head(w.todo) /\ (ok => took)
        /\ performed' = [performed EXCEPT ![w.run][a] = IF took THEN @ + 1 ELSE @]
        /\ Moved(c, "Execute", x.obj)
        /\ x.todo = Tail(w.todo)
        /\ x.obj.sandbox = w.obj.sandbox
        /\ x.obj.audit = IF ok THEN Append(w.obj.audit, a) ELSE w.obj.audit
        /\ x.failed = (w.failed \/ ~ ok)

LEMMA ExecuteStep ==
    ASSUME TypeInv, ObjectsConsistent, CallsConsistent,
           NEW c \in Controllers, ExecuteAction(c)
    PROVE  CallOKNext(c) /\ \E a \in Actions, took, ok \in BOOLEAN : Executed(c, a, took, ok)
<1> DEFINE obj == work[c].obj
           base == api[work[c].run]
<1>1. /\ work[c].pc \in Working /\ PhaseOf(work[c].pc) = "ActionsExecuted"
      /\ work[c].pc = "Execute" /\ PhaseOf("Execute") = "ActionsExecuted"
      /\ "Execute" \in Working
  BY DependentsAre DEF ExecuteAction, Working, PhaseOf
<1>2. /\ obj \in Objects /\ obj.life = "alive" /\ InPhaseCopy(obj, "ActionsExecuted")
      /\ obj.rv = base.rv => InPhase(base.cond, "ActionsExecuted") /\ obj.sandbox = base.sandbox
  BY <1>1, WorkingCall
<1>3. work[c] \in Work /\ work[c].todo \in Seq(Actions) /\ work[c].todo # <<>>
  BY TypeInvParts DEF WorkInv, Work, ExecuteAction
<1>4. PICK a \in Actions : a = Head(work[c].todo)
  BY <1>3
<1>5. PICK took \in BOOLEAN, ok \in BOOLEAN :
        /\ ok => took
        /\ performed' = [performed EXCEPT ![work[c].run][a] = IF took THEN @ + 1 ELSE @]
        /\ work' = [work EXCEPT ![c].todo = Tail(@),
                                ![c].obj.audit = IF ok THEN Append(@, a) ELSE @,
                                ![c].failed = @ \/ ~ ok]
  BY <1>4 DEF ExecuteAction
<1> DEFINE audit == IF ok THEN Append(obj.audit, a) ELSE obj.audit
           o == [obj EXCEPT !.audit = audit]
           failed == work[c].failed \/ ~ ok
           call == [work[c] EXCEPT !.todo = Tail(work[c].todo), !.obj = o, !.failed = failed]
<1>6. work' = [work EXCEPT ![c] = call]
  BY <1>5, TypeInvParts DEF WorkInv, Work
<1> HIDE DEF audit, failed
<1>7. /\ o.audit = audit /\ o.rv = obj.rv /\ o.life = obj.life /\ o.cond = obj.cond
      /\ o.sandbox = obj.sandbox /\ o.usage = obj.usage /\ o.completed = obj.completed
  BY <1>2 DEF Objects
<1> HIDE DEF o
<1>8. /\ call.pc = "Execute" /\ call.run = work[c].run /\ call.obj = o
      /\ call.todo = Tail(work[c].todo) /\ call.failed = failed
  BY <1>1, <1>3 DEF Work
<1> HIDE DEF call
<1>9. work'[c] = call /\ \A d \in Controllers \ {c} : work'[d] = work[d]
  BY <1>6, TypeInvParts DEF WorkInv
<1>10. Moved(c, "Execute", o) /\ work'[c].obj = o
  BY <1>8, <1>9 DEF Moved
<1>11. InPhaseCopy(o, "ActionsExecuted")
  BY <1>2, <1>7 DEF InPhaseCopy
<1>12. CallConsistent(work'[c])
  BY <1>1, <1>2, <1>7, <1>10, <1>11 DEF Moved, CallConsistent
<1>13. CallFollows(work'[c], base)
  BY <1>1, <1>2, <1>7, <1>10 DEF Moved, CallFollows
<1>14. Executed(c, a, took, ok)
  BY <1>3, <1>4, <1>5, <1>7, <1>8, <1>9, <1>10 DEF Executed, audit, failed
<1>15. QED
  BY <1>12, <1>13, <1>14 DEF CallOKNext

LEMMA FinishStep ==
    ASSUME TypeInv, ObjectsConsistent, CallsConsistent,
           NEW c \in Controllers, FinishExecute(c)
    PROVE  /\ CallOKNext(c)
           /\ work'[c].obj.sandbox = work[c].obj.sandbox
           /\ work'[c].obj.audit = work[c].obj.audit
           /\ \/ Moved(c, "UpdateStatus", work'[c].obj) /\ ~ work[c].failed
              \/ Moved(c, "markFailed", work'[c].obj)
<1> DEFINE obj == work[c].obj
<1>1. work[c].pc \in Working /\ PhaseOf(work[c].pc) = "ActionsExecuted"
  BY DependentsAre DEF FinishExecute, Working, PhaseOf
<1>2. obj \in Objects /\ InPhaseCopy(obj, "ActionsExecuted")
  BY <1>1, WorkingCall
<1>3. CASE work[c].failed
  <2>1. CallOKNext(c) /\ Moved(c, "markFailed", MarkFailedObject(obj))
    BY <1>1, <1>3, FailStep DEF FinishExecute
  <2>2. MarkFailedObject(obj).sandbox = obj.sandbox /\ MarkFailedObject(obj).audit = obj.audit
    BY <1>2 DEF MarkFailedObject, Objects
  <2>3. QED
    BY <2>1, <2>2 DEF Moved
<1>4. CASE ~ work[c].failed
  <2>1. PICK d : d = Succeed(obj)
    OBVIOUS
  <2>2. Moved(c, "UpdateStatus", d)
    BY <1>4, <2>1, TypeInvParts, GotoMoves DEF FinishExecute
  <2>3. /\ Consistent(d) /\ AllDone(d.cond)
        /\ d.sandbox = obj.sandbox /\ d.audit = obj.audit /\ d.rv = obj.rv /\ d.life = obj.life
    BY <1>2, <2>1, SucceededCopy
  <2>4. CallOKNext(c)
    BY <1>1, <2>2, <2>3, DoneStep DEF Passed
  <2>5. QED
    BY <1>4, <2>2, <2>3, <2>4 DEF Moved
<1>5. QED
  BY <1>3, <1>4

\* A phase that ends early: PhaseError, LoseAgent and CreateLost.
LEMMA AbortStep ==
    ASSUME TypeInv, ObjectsConsistent, CallsConsistent,
           NEW c \in Controllers, PhaseError(c) \/ LoseAgent(c) \/ CreateLost(c)
    PROVE  /\ CallOKNext(c) /\ Moved(c, "markFailed", work'[c].obj)
           /\ work'[c].obj.sandbox = work[c].obj.sandbox
           /\ work'[c].obj.audit = work[c].obj.audit
<1>1. work[c].pc \in Working /\ Fail(c)
  BY DependentsAre DEF PhaseError, LoseAgent, CreateLost, Working
<1>2. CallOKNext(c) /\ Moved(c, "markFailed", MarkFailedObject(work[c].obj))
  BY <1>1, FailStep
<1>3. /\ MarkFailedObject(work[c].obj).sandbox = work[c].obj.sandbox
      /\ MarkFailedObject(work[c].obj).audit = work[c].obj.audit
  BY <1>1, WorkingCall DEF MarkFailedObject, Objects
<1>4. QED
  BY <1>2, <1>3 DEF Moved

\* A phase does something, whether or not the call gets to know what.
Worked(c) == Phase(c) \/ CreateLost(c)

LEMMA PhaseStep ==
    ASSUME TypeInv, ObjectsConsistent, CallsConsistent, NEW c \in Controllers, Worked(c)
    PROVE  /\ CallOKNext(c)
           /\ \E pc : Moved(c, pc, work'[c].obj)
           /\ api' = api /\ cache' = cache
<1>1. api' = api /\ cache' = cache
  BY DEF Worked, Phase, PhaseError, ReconcileSandbox, PrepareAgent, RunAgent, LoseAgent,
         CreateLost, ReconcileResults, ReconcileActions, ExecuteAction, FinishExecute
<1>2. CASE PhaseError(c) \/ LoseAgent(c) \/ CreateLost(c)
  BY <1>1, <1>2, AbortStep
<1>3. CASE ReconcileSandbox(c)
  BY <1>1, <1>3, SandboxStep
<1>4. CASE PrepareAgent(c)
  <2>1. CallOKNext(c) /\ Moved(c, "agent-run", work[c].obj)
    BY <1>4, PrepareStep
  <2>2. Moved(c, "agent-run", work'[c].obj)
    BY <2>1 DEF Moved
  <2>3. QED
    BY <1>1, <2>1, <2>2
<1>5. CASE RunAgent(c)
  BY <1>1, <1>5, AgentStep
<1>6. CASE ReconcileResults(c)
  BY <1>1, <1>6, ResultsStep
<1>7. CASE ReconcileActions(c)
  BY <1>1, <1>7, ActionsStep
<1>8. CASE ExecuteAction(c)
  BY <1>1, <1>8, ExecuteStep DEF Executed
<1>9. CASE FinishExecute(c)
  BY <1>1, <1>9, FinishStep
<1>10. QED
  BY <1>2, <1>3, <1>4, <1>5, <1>6, <1>7, <1>8, <1>9 DEF Worked, Phase

-----------------------------------------------------------------------------
\* Consistency

\* Consistency is a matter of the status alone.
LEMMA StatusIsAll ==
    ASSUME NEW o, NEW b, StatusOf(o) = StatusOf(b)
    PROVE  Consistent(o) <=> Consistent(b)
BY DEF StatusOf, Consistent, FieldsConsistent

\* What becomes of the objects at the server in one step: r's object may get a
\* new version, with the old status or with that of a call which has ended.
Kept(r) ==
    /\ Bumped(r) /\ StatusOf(api'[r]) = StatusOf(api[r])
    /\ \/ api[r].life = "unborn" /\ api'[r].life = "alive"
       \/ api[r].life = "alive" /\ api'[r].life \in {"alive", "deleted"}

Written(c) ==
    LET w == work[c]
    IN  /\ w.pc \in {"UpdateStatus", "markFailed"} /\ w.run \in Runs
        /\ Bumped(w.run)
        /\ api'[w.run] = NewVersion(w.obj)
        /\ w.obj.rv = api[w.run].rv /\ Alive(w.run)

\* The calls that are still going on after a step are where they were, except
\* for the one that takes the step.
OthersStay(c) == \A d \in Controllers \ {c} : work'[d] = work[d]

Ended(w) == w.pc \in {"idle", "destroySandbox"}

\* Each step of the specification is one of the following: nothing that is
\* seen here changes; the environment gives an object a new version; a call
\* ends, with or without a write; a cache is refreshed; a call starts; a phase
\* of a call is carried out.
EnvironmentKeeps == \E r \in Runs : Kept(r) /\ cache' = cache /\ work' = work

CallStops(c) == /\ cache' = cache /\ (api' = api \/ Written(c))
                /\ Ended(work'[c]) /\ OthersStay(c)

Refreshed(c) ==
    /\ api' = api /\ work' = work
    /\ \A d \in Controllers, r \in Runs : cache'[d][r] \in {cache[d][r], api[r]}

Fetched(c, r) ==
    LET obj == cache[c][r]
    IN  /\ api' = api /\ cache' = cache
        /\ obj.life = "alive" /\ ~ IsTerminal(obj.cond)
        /\ work'[c] = [Idle EXCEPT !.pc = GetCurrentPhase(obj.cond), !.run = r, !.obj = obj]
        /\ OthersStay(c)

LEMMA StepIs ==
    ASSUME TypeInv, TypeInv', [Next]_vars
    PROVE  \/ api' = api /\ cache' = cache /\ work' = work
           \/ EnvironmentKeeps
           \/ \E c \in Controllers :
                CallStops(c) \/ Refreshed(c) \/ Worked(c) \/ \E r \in Runs : Fetched(c, r)
<1> USE TypeInvParts
<1>1. ASSUME NEW r \in Runs, CreateAgentRun(r) \/ EditAgentRun(r) \/ DeleteAgentRun(r)
      PROVE  EnvironmentKeeps
  <2>1. api[r] \in Objects /\ api \in [Runs -> Objects]
    BY DEF ApiInv
  <2>2. cache' = cache /\ work' = work
    BY <1>1 DEF CreateAgentRun, EditAgentRun, DeleteAgentRun
  <2>3. PICK o : /\ api' = [api EXCEPT ![r] = o] /\ o.rv = api[r].rv + 1
                 /\ StatusOf(o) = StatusOf(api[r])
                 /\ \/ api[r].life = "unborn" /\ o.life = "alive"
                    \/ api[r].life = "alive" /\ o.life \in {"alive", "deleted"}
    <3>1. CASE CreateAgentRun(r)
      <4> DEFINE o == [api[r] EXCEPT !.life = "alive", !.rv = @ + 1]
      <4>1. api' = [api EXCEPT ![r] = o] /\ api[r].life = "unborn"
        BY <2>1, <3>1 DEF CreateAgentRun
      <4>2. o.rv = api[r].rv + 1 /\ o.life = "alive" /\ StatusOf(o) = StatusOf(api[r])
        BY <2>1 DEF StatusOf, Objects
      <4>3. QED
        BY <4>1, <4>2
    <3>2. CASE EditAgentRun(r)
      <4> DEFINE o == [api[r] EXCEPT !.rv = @ + 1]
      <4>1. api' = [api EXCEPT ![r] = o] /\ api[r].life = "alive"
        BY <2>1, <3>2 DEF EditAgentRun, Alive
      <4>2. o.rv = api[r].rv + 1 /\ o.life = api[r].life /\ StatusOf(o) = StatusOf(api[r])
        BY <2>1 DEF StatusOf, Objects
      <4>3. QED
        BY <4>1, <4>2
    <3>3. CASE DeleteAgentRun(r)
      <4> DEFINE o == [api[r] EXCEPT !.life = "deleted", !.rv = @ + 1]
      <4>1. api' = [api EXCEPT ![r] = o] /\ api[r].life = "alive"
        BY <2>1, <3>3 DEF DeleteAgentRun, Alive
      <4>2. o.rv = api[r].rv + 1 /\ o.life = "deleted" /\ StatusOf(o) = StatusOf(api[r])
        BY <2>1 DEF StatusOf, Objects
      <4>3. QED
        BY <4>1, <4>2
    <3>4. QED
      BY <1>1, <3>1, <3>2, <3>3
  <2>4. api'[r] = o /\ (\A q \in Runs \ {r} : api'[q] = api[q]) /\ api[r].rv \in Nat
    BY <2>1, <2>3 DEF Objects
  <2>5. Kept(r)
    BY <2>3, <2>4 DEF Kept, Bumped
  <2>6. QED
    BY <2>2, <2>5 DEF EnvironmentKeeps
<1>2. ASSUME NEW c \in Controllers, Return(c) \/ \E obj : Goto(c, "destroySandbox", obj)
      PROVE  Ended(work'[c]) /\ OthersStay(c)
  <2>1. CASE Return(c)
    BY <2>1 DEF Return, WorkInv, Idle, Ended, OthersStay
  <2>2. ASSUME NEW obj, Goto(c, "destroySandbox", obj) PROVE Ended(work'[c]) /\ OthersStay(c)
    BY <2>2, GotoMoves DEF Moved, Ended, OthersStay
  <2>3. QED
    BY <1>2, <2>1, <2>2
<1>3. ASSUME NEW c \in Controllers, Crash(c) PROVE CallStops(c)
  BY <1>2, <1>3 DEF Crash, CallStops
<1>4. ASSUME NEW s \in Sandboxes, StragglerEnds(s)
      PROVE  api' = api /\ cache' = cache /\ work' = work
  BY <1>4 DEF StragglerEnds
<1>5. ASSUME NEW c \in Controllers, Informer(c) PROVE Refreshed(c)
  <2>1. cache \in [Controllers -> [Runs -> Objects]] /\ api \in [Runs -> Objects]
    BY DEF CacheInv, ApiInv
  <2>2. CASE Start(c)
    BY <2>1, <2>2 DEF Start, Refreshed
  <2>3. CASE Resync(c)
    BY <2>3 DEF Resync, Refreshed
  <2>4. ASSUME NEW r \in Runs, CacheSync(c, r) PROVE Refreshed(c)
    BY <2>1, <2>4 DEF CacheSync, Refreshed
  <2>5. QED
    BY <1>5, <2>2, <2>3, <2>4 DEF Informer
<1>6. ASSUME NEW c \in Controllers, NEW r \in Runs, Fetch(c, r)
      PROVE  (api' = api /\ cache' = cache /\ work' = work) \/ Fetched(c, r)
  BY <1>6 DEF Fetch, WorkInv, Fetched, OthersStay
<1>7. ASSUME NEW c \in Controllers,
             UpdateStatus(c) \/ UpdateStatusError(c) \/ MarkFailed(c) \/ DestroySandbox(c)
      PROVE  CallStops(c)
  <2>1. Return(c) \/ \E obj : Goto(c, "destroySandbox", obj)
    BY <1>7 DEF UpdateStatus, UpdateStatusError, MarkFailed, DestroySandbox
  <2>2. /\ cache' = cache
        /\ \/ api' = api
           \/ work[c].pc \in {"UpdateStatus", "markFailed"} /\ Accepted(c) /\ Store(c)
    BY <1>7 DEF UpdateStatus, UpdateStatusError, MarkFailed, DestroySandbox
  <2>3. ASSUME work[c].pc \in {"UpdateStatus", "markFailed"}, Accepted(c), Store(c)
        PROVE  Written(c)
    <3>1. work[c].pc # "idle"
      BY <2>3
    <3>2. Bumped(work[c].run) /\ api'[work[c].run] = NewVersion(work[c].obj)
      BY <2>3, <3>1, StoreBumps
    <3>3. QED
      BY <2>3, <3>2 DEF Written, Bumped, Accepted
  <2>4. QED
    BY <1>2, <2>1, <2>2, <2>3 DEF CallStops
<1>8. CASE UNCHANGED vars
  BY <1>8 DEF vars
<1>9. ASSUME NEW c \in Controllers, LostCall(c)
      PROVE  (api' = api /\ cache' = cache /\ work' = work) \/ Worked(c)
  BY <1>9 DEF LostCall, RetryRun, Worked
<1>10. QED
  BY <1>1, <1>3, <1>4, <1>5, <1>6, <1>7, <1>8, <1>9 DEF Next, Environment, Reconcile, Worked

\* A new version outdates every call on the object, and a call that has ended
\* has nothing to be consistent with.
LEMMA BumpFollows ==
    ASSUME TypeInv, ApiInv', CallsVersioned, CallsConsistent, NEW r \in Runs, Bumped(r),
           NEW d \in Controllers, work[d].pc # "idle"
    PROVE  CallConsistent(work[d]) /\ CallFollows(work[d], api'[work[d].run])
<1> DEFINE w == work[d]
<1>1. CallConsistent(w) /\ CallFollows(w, api[w.run]) /\ w.run \in Runs /\ w.obj.rv \in Nat
  BY TypeInvParts, CallObject DEF CallsConsistent, WorkInv, Objects
<1>2. CASE w.run # r
  BY <1>1, <1>2 DEF Bumped
<1>3. CASE w.run = r /\ w.pc \in Writing
  <2>1. w.obj.rv <= api[r].rv /\ api[r].rv \in Nat /\ api'[r].rv \in Nat /\ api'[r].rv > api[r].rv
    BY <1>3, TypeInvParts DEF CallsVersioned, CurrentCall, Bumped, ApiInv, Objects
  <2>2. w.obj.rv # api'[r].rv
    BY <1>1, <2>1
  <2>3. QED
    BY <1>1, <1>3, <2>2 DEF CallFollows
<1>4. CASE w.pc \notin Writing
  <2>1. w.pc \notin Working /\ w.pc \notin {"UpdateStatus", "markFailed"}
    BY <1>4, DependentsAre DEF Writing, Points, Working
  <2>2. QED
    BY <1>1, <2>1 DEF CallFollows
<1>5. QED
  BY <1>2, <1>3, <1>4

LEMMA EndedIsConsistent ==
    ASSUME NEW w, Ended(w) PROVE \A b : CallConsistent(w) /\ CallFollows(w, b)
<1>1. w.pc \notin Writing /\ w.pc \notin Working /\ w.pc \notin {"UpdateStatus", "markFailed"}
  BY DependentsAre DEF Ended, Writing, Points, Working
<1>2. QED
  BY <1>1 DEF CallConsistent, CallFollows

\* What a call writes is consistent.
LEMMA WrittenIsConsistent ==
    ASSUME TypeInv, CallsConsistent, NEW c \in Controllers, Written(c)
    PROVE  Consistent(api'[work[c].run]) /\ api'[work[c].run].life = "alive"
<1>1. work[c].pc # "idle" /\ work[c].obj \in Objects /\ work[c].pc \in Writing
  BY TypeInvParts, CallObject DEF Written, Writing, Points
<1>2. Consistent(work[c].obj) /\ work[c].obj.life = "alive"
  BY <1>1 DEF Written, CallsConsistent, CallConsistent
<1>3. PICK n : n = NewVersion(work[c].obj)
  OBVIOUS
<1>4. StatusOf(n) = StatusOf(work[c].obj) /\ n.life = work[c].obj.life
  BY <1>1, <1>3 DEF NewVersion, StatusOf, Objects
<1>5. QED
  BY <1>2, <1>3, <1>4, StatusIsAll DEF Written

\* A step of an object.
LEMMA ObjectsStep ==
    ASSUME TypeInv, TypeInv', ObjectsConsistent, CallsConsistent, [Next]_vars
    PROVE  ObjectsConsistent'
<1>1. CASE EnvironmentKeeps
  <2>1. PICK r \in Runs : Kept(r) /\ cache' = cache
    BY <1>1 DEF EnvironmentKeeps
  <2>2. Consistent(api'[r]) /\ UnbornHasNoStatus(api'[r])
    BY <2>1, StatusIsAll DEF Kept, ObjectsConsistent, UnbornHasNoStatus
  <2>3. QED
    BY <2>1, <2>2 DEF Kept, Bumped, ObjectsConsistent
<1>2. ASSUME NEW c \in Controllers, CallStops(c) PROVE ObjectsConsistent'
  <2>1. CASE api' = api
    BY <1>2, <2>1 DEF CallStops, ObjectsConsistent
  <2>2. CASE Written(c)
    <3>1. Consistent(api'[work[c].run]) /\ UnbornHasNoStatus(api'[work[c].run])
      BY <2>2, WrittenIsConsistent DEF UnbornHasNoStatus
    <3>2. QED
      BY <1>2, <2>2, <3>1 DEF CallStops, Written, Bumped, ObjectsConsistent
  <2>3. QED
    BY <1>2, <2>1, <2>2 DEF CallStops
<1>3. ASSUME NEW c \in Controllers, Refreshed(c) PROVE ObjectsConsistent'
  BY <1>3 DEF Refreshed, ObjectsConsistent
<1>4. ASSUME NEW c \in Controllers, Worked(c) \/ \E r \in Runs : Fetched(c, r)
      PROVE  ObjectsConsistent'
  BY <1>4, PhaseStep DEF Fetched, ObjectsConsistent
<1>5. CASE api' = api /\ cache' = cache
  BY <1>5 DEF ObjectsConsistent
<1>6. QED
  BY <1>1, <1>2, <1>3, <1>4, <1>5, StepIs

\* A step of the calls.
LEMMA CallsStep ==
    ASSUME TypeInv, TypeInv', CacheVersioned, CallsVersioned,
           ObjectsConsistent, CallsConsistent, [Next]_vars
    PROVE  CallsConsistent'
<1>0. ApiInv'
  BY DEF TypeInv, TypeOK, AllSettled, ApiInv
<1>1. CASE EnvironmentKeeps
  BY <1>0, <1>1, BumpFollows DEF EnvironmentKeeps, Kept, CallsConsistent
<1>2. ASSUME NEW c \in Controllers, CallStops(c) PROVE CallsConsistent'
  <2>1. SUFFICES ASSUME NEW d \in Controllers, work'[d].pc # "idle"
                 PROVE  CallConsistent(work'[d]) /\ CallFollows(work'[d], api'[work'[d].run])
    BY DEF CallsConsistent
  <2>2. CASE d = c
    BY <1>2, <2>2, EndedIsConsistent DEF CallStops
  <2>3. CASE d # c
    <3>1. work'[d] = work[d]
      BY <1>2, <2>3 DEF CallStops, OthersStay
    <3>2. CASE api' = api
      BY <2>1, <3>1, <3>2 DEF CallsConsistent
    <3>3. CASE Written(c)
      BY <1>0, <2>1, <3>1, <3>3, BumpFollows DEF Written
    <3>4. QED
      BY <1>2, <3>2, <3>3 DEF CallStops
  <2>4. QED
    BY <2>2, <2>3
<1>3. ASSUME NEW c \in Controllers, Refreshed(c) PROVE CallsConsistent'
  BY <1>3 DEF Refreshed, CallsConsistent
<1>4. ASSUME NEW c \in Controllers, NEW r \in Runs, Fetched(c, r) PROVE CallsConsistent'
  <2> DEFINE obj == cache[c][r]
             p == GetCurrentPhase(obj.cond)
             call == [Idle EXCEPT !.pc = p, !.run = r, !.obj = obj]
  <2>1. obj \in Objects /\ Consistent(obj) /\ ~ IsTerminal(obj.cond) /\ obj.life = "alive"
    BY <1>4, TypeInvParts DEF Fetched, CacheInv, ObjectsConsistent
  <2>2. p \in Dependents /\ InPhaseCopy(obj, p) /\ obj.audit = <<>>
    BY <2>1, FetchedCopy
  <2>3. call.pc = p /\ call.run = r /\ call.obj = obj
    BY DEF Idle
  <2>4. p \in Working \ {"Execute"} /\ PhaseOf(p) = p /\ p \notin {"UpdateStatus", "markFailed"}
    BY <2>2, DependentsAre DEF Working, PhaseOf
  <2>5. obj.rv = api[r].rv => obj = api[r]
    BY DEF CacheVersioned
  <2> HIDE DEF call, p
  <2>6. CallConsistent(call)
    BY <2>1, <2>2, <2>3, <2>4 DEF CallConsistent
  <2>7. CallFollows(call, api[r])
    BY <2>2, <2>3, <2>4, <2>5 DEF CallFollows, InPhaseCopy
  <2>8. work'[c] = call /\ api' = api
    BY <1>4 DEF Fetched, call, p
  <2>9. QED
    BY <1>4, <2>3, <2>6, <2>7, <2>8 DEF Fetched, OthersStay, CallsConsistent
<1>5. ASSUME NEW c \in Controllers, Worked(c) PROVE CallsConsistent'
  BY <1>5, PhaseStep DEF Moved, CallOKNext, CallsConsistent
<1>6. CASE api' = api /\ work' = work
  BY <1>6 DEF CallsConsistent
<1>7. QED
  BY <1>1, <1>2, <1>3, <1>4, <1>5, <1>6, StepIs

LEMMA StatusInit == Init => StatusInv
<1> SUFFICES ASSUME Init PROVE StatusInv
  OBVIOUS
<1>1. Unborn.cond \in Conditions /\ InPhase(Unborn.cond, "SandboxReady")
  BY UnbornType, ConditionsAre DEF Unborn, Objects, NoConditions, InPhase, Before
<1>2. Consistent(Unborn) /\ UnbornHasNoStatus(Unborn)
  <2>1. "SandboxReady" \in Dependents
    BY DependentsAre
  <2>2. /\ Unborn.sandbox = NoSandbox /\ Unborn.completed = FALSE
        /\ Unborn.usage = NoResult /\ Unborn.audit = <<>>
    BY DEF Unborn
  <2>3. QED
    BY <1>1, <2>1, <2>2, InPhaseIs, OverIs DEF Consistent, FieldsConsistent, UnbornHasNoStatus
<1>3. ObjectsConsistent
  BY <1>2 DEF Init, ObjectsConsistent
<1>4. CallsConsistent
  BY DEF Init, CallsConsistent, Idle
<1>5. QED
  BY <1>3, <1>4, TypeInit, VersionInit DEF StatusInv, VersionInv

LEMMA StatusStep == StatusInv /\ [Next]_vars => StatusInv'
<1> SUFFICES ASSUME StatusInv, [Next]_vars PROVE StatusInv'
  OBVIOUS
<1>1. VersionInv'
  BY VersionStep DEF StatusInv
<1>2. TypeInv /\ TypeInv' /\ CacheVersioned /\ CallsVersioned
  BY <1>1, VersionedParts DEF StatusInv, VersionInv
<1>3. ObjectsConsistent'
  BY <1>2, ObjectsStep DEF StatusInv
<1>4. CallsConsistent'
  BY <1>2, CallsStep DEF StatusInv
<1>5. QED
  BY <1>1, <1>3, <1>4 DEF StatusInv

\* The status of a run never contradicts itself, whatever is lost and however
\* many controllers write it.
THEOREM Consistency == Spec => []StatusConsistent
<1>1. StatusInv => StatusConsistent
  BY DEF StatusInv, ObjectsConsistent, Consistent, FieldsConsistent, StatusConsistent
<1>2. QED
  BY <1>1, StatusInit, StatusStep, PTL DEF Spec

-----------------------------------------------------------------------------
\* The controller implements the lifecycle

\* The stages that the lifecycle sees.
LEMMA StageIs ==
    ASSUME NEW o \in Objects
    PROVE  /\ o.life # "alive" => Stage(o) = o.life
           /\ o.life = "alive" =>
                /\ AllDone(o.cond) => Stage(o) = "Succeeded"
                /\ \A p \in Dependents : /\ FailedIn(o.cond, p) => Stage(o) = "Failed"
                                         /\ InPhase(o.cond, p) => Stage(o) = p
<1>1. o.cond \in Conditions
  BY DEF Objects
<1>2. CASE o.life # "alive"
  BY <1>2 DEF Stage
<1>3. CASE o.life = "alive"
  <2>1. ASSUME AllDone(o.cond) PROVE Stage(o) = "Succeeded"
    <3>1. o.cond["Succeeded"] = "True"
      BY <1>1, <2>1, OverIs
    <3>2. QED
      BY <1>3, <3>1 DEF Stage
  <2>2. ASSUME NEW p \in Dependents, FailedIn(o.cond, p) PROVE Stage(o) = "Failed"
    <3>1. o.cond["Succeeded"] = "False"
      BY <1>1, <2>2, OverIs
    <3>2. QED
      BY <1>3, <3>1 DEF Stage
  <2>3. ASSUME NEW p \in Dependents, InPhase(o.cond, p) PROVE Stage(o) = p
    <3>1. o.cond["Succeeded"] = "Unknown" /\ GetCurrentPhase(o.cond) = p
      BY <1>1, <2>3, InPhaseIs
    <3>2. QED
      BY <1>3, <3>1 DEF Stage
  <2>4. QED
    BY <1>3, <2>1, <2>2, <2>3
<1>4. QED
  BY <1>2, <1>3

\* The abstract state, and that a step which changes one object changes one
\* entry of it.
StageOf == [r \in Runs |-> Stage(api[r])]
SandboxOf == [r \in Runs |-> api[r].sandbox]
AuditOf == [r \in Runs |-> api[r].audit]

LEMMA OneEntry ==
    ASSUME NEW r \in Runs, \A q \in Runs \ {r} : api'[q] = api[q]
    PROVE  /\ StageOf' = [StageOf EXCEPT ![r] = Stage(api'[r])]
           /\ SandboxOf' = [SandboxOf EXCEPT ![r] = api'[r].sandbox]
           /\ AuditOf' = [AuditOf EXCEPT ![r] = api'[r].audit]
<1>1. PICK n : n = Stage(api'[r])
  OBVIOUS
<1>2. \A q \in Runs : Stage(api'[q]) = IF q = r THEN n ELSE Stage(api[q])
  BY <1>1
<1>3. StageOf' = [q \in Runs |-> IF q = r THEN n ELSE Stage(api[q])]
  BY <1>2 DEF StageOf
<1>4. StageOf' = [StageOf EXCEPT ![r] = Stage(api'[r])]
  BY <1>1, <1>3 DEF StageOf
<1>5. SandboxOf' = [SandboxOf EXCEPT ![r] = api'[r].sandbox]
  BY DEF SandboxOf
<1>6. AuditOf' = [AuditOf EXCEPT ![r] = api'[r].audit]
  BY DEF AuditOf
<1>7. QED
  BY <1>4, <1>5, <1>6

\* The two ways in which a phase p ends for the reader.
LEMMA AdvanceMaps ==
    ASSUME NEW r \in Runs, NEW p \in DOMAIN Lifecycle!Following,
           StageOf[r] = p, StageOf' = [StageOf EXCEPT ![r] = Lifecycle!Following[p]],
           IF p = "SandboxReady" THEN SandboxOf'[r] \in Sandboxes ELSE SandboxOf'[r] = SandboxOf[r],
           IF p = "ActionsExecuted" THEN AuditOf'[r] \in Seq(Actions) ELSE AuditOf'[r] = AuditOf[r],
           SandboxOf' = [SandboxOf EXCEPT ![r] = SandboxOf'[r]],
           AuditOf' = [AuditOf EXCEPT ![r] = AuditOf'[r]]
    PROVE  Lifecycle!Advance(r)
BY DEF Lifecycle!Advance, Lifecycle!Running, Lifecycle!Settles, StageOf, SandboxOf, AuditOf

LEMMA FailMaps ==
    ASSUME NEW r \in Runs, NEW p \in DOMAIN Lifecycle!Following,
           StageOf[r] = p, StageOf' = [StageOf EXCEPT ![r] = "Failed"],
           SandboxOf' = SandboxOf,
           IF p = "ActionsExecuted" THEN AuditOf'[r] \in Seq(Actions) ELSE AuditOf'[r] = AuditOf[r],
           AuditOf' = [AuditOf EXCEPT ![r] = AuditOf'[r]]
    PROVE  Lifecycle!FailRun(r)
BY DEF Lifecycle!FailRun, Lifecycle!Running, Lifecycle!Settles, StageOf, SandboxOf, AuditOf

LEMMA PhasesAreStages ==
    /\ DOMAIN Lifecycle!Following = Dependents
    /\ \A p \in Dependents, o \in Objects :
         o.life = "alive" /\ Passed(o.cond, p) => Stage(o) = Lifecycle!Following[p]
<1>1. DOMAIN Lifecycle!Following = Dependents
  BY DependentsAre DEF Lifecycle!Following
<1>2. ASSUME NEW p \in Dependents, NEW o \in Objects, o.life = "alive", Passed(o.cond, p)
      PROVE  Stage(o) = Lifecycle!Following[p]
  <2>1. CASE p = "SandboxReady"
    BY <1>2, <2>1, StageIs, DependentsAre DEF Passed, Lifecycle!Following
  <2>2. CASE p = "AgentExecuted"
    BY <1>2, <2>2, StageIs, DependentsAre DEF Passed, Lifecycle!Following
  <2>3. CASE p = "ResultsCollected"
    BY <1>2, <2>3, StageIs, DependentsAre DEF Passed, Lifecycle!Following
  <2>4. CASE p = "ActionsExecuted"
    BY <1>2, <2>4, StageIs, DependentsAre DEF Passed, Lifecycle!Following
  <2>5. QED
    BY <2>1, <2>2, <2>3, <2>4, DependentsAre
<1>3. QED
  BY <1>1, <1>2

\* A write is the end of the phase that its call was in.
LEMMA WriteMaps ==
    ASSUME StatusInv, TypeInv, TypeInv', NEW c \in Controllers, Written(c)
    PROVE  Lifecycle!Advance(work[c].run) \/ Lifecycle!FailRun(work[c].run)
<1> DEFINE w == work[c]
           r == w.run
<1>1. /\ w.pc # "idle" /\ r \in Runs /\ w.obj \in Objects /\ api[r] \in Objects
      /\ api'[r] \in Objects
  BY TypeInvParts, CallObject DEF Written, ApiInv, TypeInv, TypeOK
<1>2. CallConsistent(w) /\ CallFollows(w, api[r]) /\ Consistent(api[r])
  BY <1>1 DEF StatusInv, CallsConsistent, ObjectsConsistent
<1>3. PICK n \in Objects : n = api'[r]
  BY <1>1
<1>4. /\ n.cond = w.obj.cond /\ n.sandbox = w.obj.sandbox /\ n.audit = w.obj.audit
      /\ n.life = "alive"
  <2>1. w.pc \in Writing
    BY DEF Written, Writing, Points
  <2>2. n = NewVersion(w.obj) /\ w.obj.life = "alive"
    BY <1>2, <1>3, <2>1 DEF Written, CallConsistent
  <2>3. QED
    BY <1>1, <2>2 DEF NewVersion, Objects
<1>5. /\ StageOf' = [StageOf EXCEPT ![r] = Stage(n)]
      /\ SandboxOf' = [SandboxOf EXCEPT ![r] = n.sandbox]
      /\ AuditOf' = [AuditOf EXCEPT ![r] = n.audit]
  BY <1>1, <1>3, OneEntry DEF Written, Bumped
<1>6. SandboxOf'[r] = n.sandbox /\ AuditOf'[r] = n.audit
  BY <1>1, <1>5 DEF SandboxOf, AuditOf
<1>7. SandboxOf[r] = api[r].sandbox /\ AuditOf[r] = api[r].audit /\ StageOf[r] = Stage(api[r])
  BY <1>1 DEF StageOf, SandboxOf, AuditOf
<1>8. n.audit \in Seq(Actions) /\ n.sandbox \in Sandboxes \cup {NoSandbox} /\ n.cond \in Conditions
  BY DEF Objects
<1>9. CASE w.pc = "UpdateStatus"
  <2>1. PICK p \in Dependents : Settlement(w.obj, api[r], p) /\ Passed(w.obj.cond, p)
    BY <1>2, <1>9 DEF CallFollows, Written
  <2>2. StageOf[r] = p
    BY <1>1, <1>7, <2>1, StageIs DEF Settlement, Written, Alive
  <2>3. Stage(n) = Lifecycle!Following[p]
    BY <1>4, <2>1, PhasesAreStages
  <2>4. p = "SandboxReady" => n.sandbox \in Sandboxes
    <3>1. p = "SandboxReady" => InPhase(n.cond, "AgentExecuted")
      BY <1>4, <2>1 DEF Passed
    <3>2. p = "SandboxReady" => n.cond["SandboxReady"] = "True"
      BY <1>8, <3>1, InPhaseIs, DependentsAre
    <3>3. Consistent(w.obj)
      BY <1>2, <1>9 DEF CallConsistent
    <3>4. QED
      BY <1>4, <1>8, <3>2, <3>3 DEF Consistent, FieldsConsistent
  <2>5. /\ p # "SandboxReady" => n.sandbox = api[r].sandbox
        /\ p # "ActionsExecuted" => n.audit = api[r].audit
    BY <1>4, <2>1 DEF Settlement
  <2>6. Lifecycle!Advance(r)
    BY <1>1, <1>5, <1>6, <1>7, <1>8, <2>2, <2>3, <2>4, <2>5, PhasesAreStages, AdvanceMaps
  <2>7. QED
    BY <2>6
<1>10. CASE w.pc = "markFailed"
  <2>1. PICK p \in Dependents : /\ Settlement(w.obj, api[r], p) /\ FailedIn(w.obj.cond, p)
                                /\ w.obj.sandbox = api[r].sandbox
    BY <1>2, <1>10 DEF CallFollows, Written
  <2>2. StageOf[r] = p
    BY <1>1, <1>7, <2>1, StageIs DEF Settlement, Written, Alive
  <2>3. Stage(n) = "Failed"
    BY <1>4, <2>1, StageIs
  <2>4. SandboxOf' = SandboxOf
    BY <1>4, <1>5, <2>1 DEF SandboxOf
  <2>5. p # "ActionsExecuted" => n.audit = api[r].audit
    BY <1>4, <2>1 DEF Settlement
  <2>6. Lifecycle!FailRun(r)
    BY <1>1, <1>5, <1>6, <1>7, <1>8, <2>2, <2>3, <2>4, <2>5, PhasesAreStages, FailMaps
  <2>7. QED
    BY <2>6
<1>11. QED
  BY <1>9, <1>10 DEF Written

\* What the environment does to an object is a creation, a deletion, or nothing
\* that the lifecycle sees.
LEMMA KeptMaps ==
    ASSUME TypeInv, TypeInv', ObjectsConsistent, NEW r \in Runs, Kept(r)
    PROVE  \/ Lifecycle!Create(r) \/ Lifecycle!Delete(r)
           \/ StageOf' = StageOf /\ SandboxOf' = SandboxOf /\ AuditOf' = AuditOf
<1>1. api[r] \in Objects /\ api'[r] \in Objects
  BY TypeInvParts DEF ApiInv, TypeInv, TypeOK
<1>2. PICK n \in Objects : n = api'[r]
  BY <1>1
<1>3. StatusOf(n) = StatusOf(api[r])
  BY <1>2 DEF Kept
<1>4. n.cond = api[r].cond /\ n.sandbox = api[r].sandbox /\ n.audit = api[r].audit
  BY <1>3 DEF StatusOf
<1>5. /\ StageOf' = [StageOf EXCEPT ![r] = Stage(n)]
      /\ SandboxOf' = [SandboxOf EXCEPT ![r] = n.sandbox]
      /\ AuditOf' = [AuditOf EXCEPT ![r] = n.audit]
  BY <1>1, <1>2, OneEntry DEF Kept, Bumped
<1>6. SandboxOf' = SandboxOf /\ AuditOf' = AuditOf
  BY <1>4, <1>5 DEF SandboxOf, AuditOf
<1>7. StageOf[r] = Stage(api[r])
  BY DEF StageOf
<1>8. CASE api[r].life = "unborn" /\ n.life = "alive"
  <2>1. InPhase(n.cond, "SandboxReady")
    BY <1>4, <1>8 DEF ObjectsConsistent, UnbornHasNoStatus
  <2>2. Stage(n) = "SandboxReady" /\ StageOf[r] = "unborn"
    BY <1>1, <1>7, <1>8, <2>1, StageIs, DependentsAre
  <2>3. Lifecycle!Create(r)
    BY <1>5, <1>6, <2>2 DEF Lifecycle!Create, StageOf, SandboxOf, AuditOf
  <2>4. QED
    BY <2>3
<1>9. CASE api[r].life = "alive" /\ n.life = "alive"
  <2>1. Stage(n) = Stage(api[r])
    BY <1>4, <1>9 DEF Stage
  <2>2. StageOf' = StageOf
    BY <1>5, <2>1 DEF StageOf
  <2>3. QED
    BY <1>6, <2>2
<1>10. CASE api[r].life = "alive" /\ n.life = "deleted"
  <2>1. Stage(n) = "deleted"
    BY <1>10, StageIs
  <2>2. StageOf[r] \in Dependents \cup {"Succeeded", "Failed"}
    <3>1. InOrder(api[r].cond)
      BY DEF ObjectsConsistent, Consistent
    <3>2. QED
      BY <1>1, <1>7, <1>10, <3>1, StageIs DEF InOrder
  <2>3. StageOf[r] \notin {"unborn", "deleted"}
    BY <2>2, DependentsAre
  <2>4. Lifecycle!Delete(r)
    BY <1>5, <1>6, <2>1, <2>3 DEF Lifecycle!Delete, StageOf, SandboxOf, AuditOf
  <2>5. QED
    BY <2>4
<1>11. QED
  BY <1>2, <1>8, <1>9, <1>10 DEF Kept

LEMMA LifecycleInit == Init => Lifecycle!Init
<1> SUFFICES ASSUME Init PROVE Lifecycle!Init
  OBVIOUS
<1>1. \A r \in Runs : api[r] = Unborn
  BY DEF Init
<1>2. Stage(Unborn) = "unborn" /\ Unborn.sandbox = NoSandbox /\ Unborn.audit = <<>>
  BY DEF Stage, Unborn
<1>3. QED
  BY <1>1, <1>2 DEF Lifecycle!Init

LEMMA LifecycleStep ==
    StatusInv /\ StatusInv' /\ [Next]_vars => [Lifecycle!Next]_(Lifecycle!lifecycleVars)
<1> SUFFICES ASSUME StatusInv, StatusInv', [Next]_vars
             PROVE  [Lifecycle!Next]_(Lifecycle!lifecycleVars)
  OBVIOUS
<1>1. TypeInv /\ TypeInv' /\ ObjectsConsistent /\ CallsConsistent
  BY DEF StatusInv, VersionInv
<1>2. StageOf' = StageOf /\ SandboxOf' = SandboxOf /\ AuditOf' = AuditOf
        => UNCHANGED Lifecycle!lifecycleVars
  BY DEF Lifecycle!lifecycleVars, StageOf, SandboxOf, AuditOf
<1>3. CASE api' = api
  BY <1>2, <1>3 DEF StageOf, SandboxOf, AuditOf
<1>4. CASE EnvironmentKeeps
  BY <1>1, <1>2, <1>4, KeptMaps DEF EnvironmentKeeps, Lifecycle!Next
<1>5. ASSUME NEW c \in Controllers, Written(c)
      PROVE  Lifecycle!Next
  BY <1>1, <1>5, WriteMaps DEF Written, Lifecycle!Next
<1>6. QED
  BY <1>1, <1>3, <1>4, <1>5, StepIs, PhaseStep DEF CallStops, Refreshed, Fetched

\* What a reader sees of the runs at the API server is the documented
\* lifecycle: every step of every controller is a step of it or a stutter.
THEOREM Refinement == Spec => ImplementsLifecycle
<1>1. Init => Lifecycle!Init
  BY LifecycleInit
<1>2. StatusInv /\ StatusInv' /\ [Next]_vars => [Lifecycle!Next]_(Lifecycle!lifecycleVars)
  BY LifecycleStep
<1>3. QED
  BY <1>1, <1>2, StatusInit, StatusStep, PTL DEF Spec, ImplementsLifecycle, Lifecycle!Spec

-----------------------------------------------------------------------------
\* The sandbox of a run

\* Sandboxes keep their owners and, once handed out, are never free again.
OwnersKept ==
    \A s \in Sandboxes :
        /\ sandboxes'[s].owner = sandboxes[s].owner
        /\ sandboxes'[s].state = "free" => sandboxes[s].state = "free"

LEMMA OwnersStep ==
    ASSUME TypeInv, [Next]_vars
    PROVE  OwnersKept \/ \E c \in Controllers : ReconcileSandbox(c) \/ CreateLost(c)
<1>0. sandboxes \in [Sandboxes -> SandboxStates]
  BY TypeInvParts DEF OthersInv
<1>1. sandboxes' = sandboxes => OwnersKept
  BY DEF OwnersKept
<1>2. ASSUME NEW s, Abandon(s) PROVE OwnersKept
  BY <1>0, <1>2 DEF Abandon, SandboxStates, OwnersKept
<1>3. ASSUME NEW s, NEW res, \/ sandboxes' = [sandboxes EXCEPT ![s].result = res]
                             \/ sandboxes' = [sandboxes EXCEPT ![s].cloned = res]
                             \/ sandboxes' = [sandboxes EXCEPT ![s].state = "destroyed"]
      PROVE  OwnersKept
  <2>1. CASE sandboxes' = [sandboxes EXCEPT ![s].result = res]
    BY <1>0, <2>1 DEF SandboxStates, OwnersKept
  <2>2. CASE sandboxes' = [sandboxes EXCEPT ![s].cloned = res]
    BY <1>0, <2>2 DEF SandboxStates, OwnersKept
  <2>3. CASE sandboxes' = [sandboxes EXCEPT ![s].state = "destroyed"]
    BY <1>0, <2>3 DEF SandboxStates, OwnersKept
  <2>4. QED
    BY <1>3, <2>1, <2>2, <2>3
<1>4. ASSUME NEW s \in Sandboxes, StragglerEnds(s) PROVE OwnersKept
  <2>1. PICK res : sandboxes' = [sandboxes EXCEPT ![s].result = res, ![s].stragglers = @ - 1]
    BY <1>4 DEF StragglerEnds
  <2>2. PICK n : n = sandboxes[s].stragglers - 1
    OBVIOUS
  <2>3. sandboxes' = [sandboxes EXCEPT ![s].result = res, ![s].stragglers = n]
    BY <2>1, <2>2
  <2>4. QED
    BY <1>0, <2>3 DEF SandboxStates, OwnersKept
<1>5. CASE Environment
  BY <1>1, <1>2, <1>4, <1>5
     DEF Environment, CreateAgentRun, EditAgentRun, DeleteAgentRun, Crash
<1>6. ASSUME NEW c \in Controllers, Informer(c) PROVE OwnersKept
  BY <1>1, <1>6 DEF Informer, Start, Resync, CacheSync
<1>7. ASSUME NEW c \in Controllers, PrepareAgent(c) \/ RunAgent(c) \/ LoseAgent(c)
      PROVE  OwnersKept
  <2>1. CASE PrepareAgent(c)
    <3>1. PICK cloned : sandboxes' = [sandboxes EXCEPT ![work[c].obj.sandbox].cloned = cloned]
      BY <2>1 DEF PrepareAgent
    <3>2. QED
      BY <1>3, <3>1
  <2>2. CASE RunAgent(c)
    BY <1>3, <2>2 DEF RunAgent
  <2>3. CASE LoseAgent(c)
    BY <1>2, <2>3 DEF LoseAgent
  <2>4. QED
    BY <1>7, <2>1, <2>2, <2>3
<1>8. ASSUME NEW c \in Controllers,
             \/ PhaseError(c) \/ ReconcileResults(c) \/ ReconcileActions(c)
             \/ ExecuteAction(c) \/ FinishExecute(c) \/ \E r \in Runs : Fetch(c, r)
             \/ UpdateStatus(c) \/ UpdateStatusError(c) \/ MarkFailed(c)
      PROVE  OwnersKept
  BY <1>1, <1>8 DEF PhaseError, ReconcileResults, ReconcileActions, ExecuteAction, FinishExecute,
                    Fetch, UpdateStatus, UpdateStatusError, MarkFailed
<1>9. ASSUME NEW c \in Controllers, DestroySandbox(c) PROVE OwnersKept
  BY <1>1, <1>3, <1>9 DEF DestroySandbox
<1>10. CASE UNCHANGED vars
  BY <1>1, <1>10 DEF vars
<1>11. ASSUME NEW c \in Controllers, RetryRun(c) PROVE OwnersKept
  BY <1>2, <1>11 DEF RetryRun
<1>12. QED
  BY <1>5, <1>6, <1>7, <1>8, <1>9, <1>10, <1>11 DEF Next, Reconcile, Phase, LostCall

\* A phase other than the first leaves its call with the sandbox it has, and
\* only a call that is in a sandbox gets to the next point in it.
LEMMA SandboxKept ==
    ASSUME TypeInv, ObjectsConsistent, CallsConsistent,
           NEW c \in Controllers, Worked(c), ~ ReconcileSandbox(c)
    PROVE  /\ work'[c].obj.sandbox = work[c].obj.sandbox
           /\ work'[c].run = work[c].run /\ OthersStay(c)
           /\ work[c].pc \in Writing
           /\ work'[c].pc \in InSandbox => work[c].pc \in InSandbox
<1>1. work[c].pc \in Writing
  BY DependentsAre DEF Worked, Phase, PhaseError, PrepareAgent, RunAgent, LoseAgent,
                       CreateLost, ReconcileResults, ReconcileActions, ExecuteAction, FinishExecute, ReconcileSandbox,
                       Writing, Points
<1>2. /\ work'[c].obj.sandbox = work[c].obj.sandbox
      /\ \E pc : Moved(c, pc, work'[c].obj) /\ (pc \in InSandbox => work[c].pc \in InSandbox)
  <2>1. CASE PhaseError(c) \/ LoseAgent(c) \/ CreateLost(c)
    BY <2>1, AbortStep DEF InSandbox
  <2>2. CASE PrepareAgent(c)
    <3>1. Moved(c, "agent-run", work[c].obj) /\ work[c].pc = "AgentExecuted"
      BY <2>2, PrepareStep DEF PrepareAgent
    <3>2. Moved(c, "agent-run", work'[c].obj) /\ work'[c].obj = work[c].obj
      BY <3>1 DEF Moved
    <3>3. QED
      BY <3>1, <3>2 DEF InSandbox
  <2>3. CASE RunAgent(c)
    BY <2>3, AgentStep DEF InSandbox
  <2>4. CASE ReconcileResults(c)
    BY <2>4, ResultsStep DEF InSandbox
  <2>5. CASE ReconcileActions(c)
    <3>1. work[c].pc \in InSandbox
      BY <2>5 DEF ReconcileActions, InSandbox
    <3>2. QED
      BY <2>5, <3>1, ActionsStep
  <2>6. CASE ExecuteAction(c)
    <3>1. work[c].pc \in InSandbox
      BY <2>6 DEF ExecuteAction, InSandbox
    <3>2. QED
      BY <2>6, <3>1, ExecuteStep DEF Executed
  <2>7. CASE FinishExecute(c)
    BY <2>7, FinishStep DEF InSandbox
  <2>8. QED
    BY <2>1, <2>2, <2>3, <2>4, <2>5, <2>6, <2>7 DEF Worked, Phase
<1>3. QED
  BY <1>1, <1>2 DEF Moved, OthersStay

\* The parts of SandboxesOwned.
FreeUnowned == \A s \in Sandboxes : sandboxes[s].state = "free" => sandboxes[s].owner = NoRun

CopiesAgree ==
    \A c \in Controllers, r \in Runs :
        cache[c][r].sandbox # NoSandbox => cache[c][r].sandbox = api[r].sandbox

CallOwns(w) ==
    /\ w.pc \in Writing => BoxOf(w.run, w.obj.sandbox)
    /\ w.pc \in InSandbox => w.obj.sandbox = api[w.run].sandbox

LEMMA OwnedParts ==
    SandboxesOwned <=>
        /\ FreeUnowned /\ CopiesAgree
        /\ \A r \in Runs : BoxOf(r, api[r].sandbox)
        /\ \A c \in Controllers : CallOwns(work[c])
BY DEF SandboxesOwned, FreeUnowned, CopiesAgree, CallOwns

\* A sandbox that somebody owns stays his: the first phase takes a free one.
LEMMA OwnedStaysOwned ==
    ASSUME StatusInv, FreeUnowned, [Next]_vars
    PROVE  /\ FreeUnowned'
           /\ \A r \in Runs, s \in Sandboxes \cup {NoSandbox} : BoxOf(r, s) => BoxOf(r, s)'
<1>1. TypeInv /\ ObjectsConsistent /\ CallsConsistent
  BY DEF StatusInv, VersionInv
<1>2. CASE OwnersKept
  BY <1>2 DEF OwnersKept, FreeUnowned, BoxOf
<1>3. ASSUME NEW c \in Controllers, ReconcileSandbox(c) \/ CreateLost(c)
      PROVE  /\ FreeUnowned'
             /\ \A r \in Runs, s \in Sandboxes \cup {NoSandbox} : BoxOf(r, s) => BoxOf(r, s)'
  <2>1. PICK t \in Sandboxes :
          /\ sandboxes[t].state = "free"
          /\ sandboxes' = [sandboxes EXCEPT ![t].state = "live", ![t].owner = work[c].run]
    BY <1>1, <1>3, SandboxStep DEF CreateLost
  <2>2. sandboxes \in [Sandboxes -> SandboxStates]
    BY <1>1, TypeInvParts DEF OthersInv
  <2>3. /\ sandboxes'[t].state = "live"
        /\ \A s \in Sandboxes \ {t} : sandboxes'[s] = sandboxes[s]
    BY <2>1, <2>2 DEF SandboxStates
  <2>4. \A r \in Runs : sandboxes[t].owner # r
    BY <2>1, ConstantsAssumption DEF FreeUnowned
  <2>5. QED
    BY <2>3, <2>4 DEF FreeUnowned, BoxOf
<1>4. QED
  BY <1>1, <1>2, <1>3, OwnersStep

LEMMA OwnedStep ==
    ASSUME StatusInv, SandboxesOwned, [Next]_vars
    PROVE  SandboxesOwned'
<1>1. /\ TypeInv /\ TypeInv' /\ ObjectsConsistent /\ CallsConsistent /\ VersionInv
      /\ CacheVersioned /\ CallsVersioned
  BY StatusStep, VersionedParts DEF StatusInv, VersionInv
<1>2. /\ FreeUnowned /\ CopiesAgree
      /\ \A r \in Runs : BoxOf(r, api[r].sandbox)
      /\ \A c \in Controllers : CallOwns(work[c])
  BY OwnedParts
<1>3. /\ FreeUnowned'
      /\ \A r \in Runs, s \in Sandboxes \cup {NoSandbox} : BoxOf(r, s) => BoxOf(r, s)'
  BY <1>2, OwnedStaysOwned
<1>4. \A r \in Runs : api[r].sandbox # NoSandbox => api'[r].sandbox = api[r].sandbox
  BY <1>1, StepGrows DEF StatusGrows, StatusOf, Extends
<1>5. /\ \A r \in Runs : api[r] \in Objects /\ api[r].sandbox \in Sandboxes \cup {NoSandbox}
      /\ \A d \in Controllers :
           /\ work[d].obj \in Objects /\ work[d].obj.sandbox \in Sandboxes \cup {NoSandbox}
           /\ work[d].pc \in Writing \cup InSandbox => work[d].run \in Runs
  <2>1. \A d \in Controllers : work[d].pc \in Writing \cup InSandbox => work[d].pc # "idle"
    BY DEF Writing, InSandbox
  <2>2. QED
    BY <1>1, <2>1, TypeInvParts, CallObject DEF ApiInv, WorkInv, Objects
<1>6. CopiesAgree'
  <2>1. SUFFICES ASSUME NEW d \in Controllers, NEW r \in Runs, cache'[d][r].sandbox # NoSandbox
                 PROVE  cache'[d][r].sandbox = api'[r].sandbox
    BY DEF CopiesAgree
  <2>2. cache'[d][r] \in {cache[d][r], api[r]}
    <3>1. CASE cache' = cache
      BY <3>1
    <3>2. ASSUME NEW c \in Controllers, Refreshed(c) PROVE cache'[d][r] \in {cache[d][r], api[r]}
      BY <3>2 DEF Refreshed
    <3>3. ASSUME NEW c \in Controllers, Worked(c) PROVE cache' = cache
      BY <1>1, <3>3, PhaseStep
    <3>4. QED
      BY <1>1, <3>1, <3>2, <3>3, StepIs DEF EnvironmentKeeps, CallStops, Fetched
  <2>3. QED
    BY <1>2, <1>4, <2>1, <2>2 DEF CopiesAgree
\* An object gets its sandbox from the call that writes it.
<1>7. ASSUME NEW r \in Runs PROVE BoxOf(r, api[r].sandbox)'
  <2>1. \/ api'[r].sandbox = api[r].sandbox
        \/ \E c \in Controllers : Written(c) /\ work[c].run = r
    <3>1. ASSUME NEW c \in Controllers, Worked(c) PROVE api' = api
      BY <1>1, <3>1, PhaseStep
    <3>2. CASE EnvironmentKeeps
      BY <3>2 DEF EnvironmentKeeps, Kept, Bumped, StatusOf
    <3>3. ASSUME NEW c \in Controllers, CallStops(c)
          PROVE  \/ api'[r].sandbox = api[r].sandbox
                 \/ \E d \in Controllers : Written(d) /\ work[d].run = r
      BY <3>3 DEF CallStops, Written, Bumped
    <3>4. QED
      BY <1>1, <3>1, <3>2, <3>3, StepIs DEF Refreshed, Fetched
  <2>2. CASE api'[r].sandbox = api[r].sandbox
    <3>1. PICK s \in Sandboxes \cup {NoSandbox} : s = api[r].sandbox
      BY <1>5
    <3>2. BoxOf(r, s)'
      BY <1>2, <1>3, <3>1
    <3>3. QED
      BY <2>2, <3>1, <3>2 DEF BoxOf
  <2>3. ASSUME NEW c \in Controllers, Written(c), work[c].run = r
        PROVE  BoxOf(r, api[r].sandbox)'
    <3>1. BoxOf(r, work[c].obj.sandbox)
      BY <1>2, <2>3 DEF CallOwns, Written, Writing, Points
    <3>2. PICK s \in Sandboxes \cup {NoSandbox} : s = work[c].obj.sandbox
      BY <1>5
    <3>3. BoxOf(r, s)'
      BY <1>3, <3>1, <3>2
    <3>4. api'[r].sandbox = s
      BY <1>5, <2>3, <3>2 DEF Written, NewVersion, Objects
    <3>5. QED
      BY <3>3, <3>4 DEF BoxOf
  <2>4. QED
    BY <2>1, <2>2, <2>3
\* A call that stays where it is keeps its sandbox, and so does its run.
<1>8. ASSUME NEW d \in Controllers, work'[d] = work[d] PROVE CallOwns(work[d])'
  <2>1. CallOwns(work[d])
    BY <1>2
  <2>2. PICK s \in Sandboxes \cup {NoSandbox} : s = work[d].obj.sandbox
    BY <1>5
  <2>3. ASSUME work[d].pc \in Writing PROVE BoxOf(work[d].run, work[d].obj.sandbox)'
    <3>1. BoxOf(work[d].run, s)'
      BY <1>3, <1>5, <1>8, <2>1, <2>2, <2>3 DEF CallOwns
    <3>2. QED
      BY <1>8, <2>2, <3>1
  <2>4. ASSUME work[d].pc \in InSandbox PROVE work[d].obj.sandbox = api'[work[d].run].sandbox
    <3>1. work[d].pc \in Working /\ PhaseOf(work[d].pc) # "SandboxReady"
      BY <2>4, DependentsAre DEF InSandbox, Working, PhaseOf
    <3>2. work[d].obj.sandbox # NoSandbox
      BY <1>1, <3>1, WorkingCall DEF InPhaseCopy
    <3>3. QED
      BY <1>4, <1>5, <2>1, <2>4, <3>2 DEF CallOwns
  <2>5. QED
    BY <1>8, <2>3, <2>4 DEF CallOwns
<1>9. ASSUME NEW c \in Controllers, Ended(work'[c]) PROVE CallOwns(work[c])'
  BY <1>9 DEF Ended, CallOwns, Writing, InSandbox
<1>10. ASSUME NEW c \in Controllers, NEW r \in Runs, Fetched(c, r) PROVE CallOwns(work[c])'
  <2> DEFINE obj == cache[c][r]
             p == GetCurrentPhase(obj.cond)
  <2>1. obj \in Objects /\ Consistent(obj) /\ ~ IsTerminal(obj.cond)
    BY <1>1, <1>10, TypeInvParts DEF Fetched, CacheInv, ObjectsConsistent
  <2>2. p \in Dependents /\ InPhaseCopy(obj, p)
    BY <2>1, FetchedCopy
  <2>3. p \in InSandbox => obj.sandbox # NoSandbox
    BY <2>2 DEF InPhaseCopy, InSandbox
  <2>4. obj.sandbox # NoSandbox => obj.sandbox = api[r].sandbox
    BY <1>2 DEF CopiesAgree
  <2>5. PICK s \in Sandboxes \cup {NoSandbox} : s = obj.sandbox
    BY <2>1 DEF Objects
  <2>6. BoxOf(r, s)'
    <3>1. BoxOf(r, s)
      BY <1>2, <2>4, <2>5 DEF BoxOf
    <3>2. QED
      BY <1>3, <3>1
  <2> HIDE DEF p
  <2>7. work'[c].pc = p /\ work'[c].run = r /\ work'[c].obj.sandbox = s /\ api' = api
    BY <1>10, <2>5 DEF Fetched, Idle, p
  <2>8. QED
    BY <2>3, <2>4, <2>5, <2>6, <2>7 DEF CallOwns
\* A phase keeps the sandbox of its call; the first one takes a free one.
<1>11. ASSUME NEW c \in Controllers, Worked(c)
       PROVE  CallOwns(work[c])' /\ OthersStay(c)
  <2>1. CASE ReconcileSandbox(c)
    <3>1. /\ Moved(c, "UpdateStatus", work'[c].obj)
          /\ \E s \in Sandboxes :
               /\ sandboxes[s].state = "free" /\ work'[c].obj.sandbox = s
               /\ sandboxes' = [sandboxes EXCEPT ![s].state = "live", ![s].owner = work[c].run]
      BY <1>1, <2>1, SandboxStep
    <3>2. PICK s \in Sandboxes :
             /\ work'[c].obj.sandbox = s
             /\ sandboxes' = [sandboxes EXCEPT ![s].state = "live", ![s].owner = work[c].run]
      BY <3>1
    <3>3. sandboxes'[s].owner = work[c].run
      BY <1>1, <3>2, TypeInvParts DEF OthersInv, SandboxStates
    <3>4. work'[c].pc = "UpdateStatus" /\ work'[c].run = work[c].run /\ OthersStay(c)
      BY <3>1 DEF Moved, OthersStay
    <3>5. QED
      BY <3>2, <3>3, <3>4 DEF CallOwns, BoxOf, InSandbox
  <2>2. CASE ~ ReconcileSandbox(c)
    <3>1. /\ work'[c].obj.sandbox = work[c].obj.sandbox
          /\ work'[c].run = work[c].run /\ OthersStay(c)
          /\ work[c].pc \in Writing
          /\ work'[c].pc \in InSandbox => work[c].pc \in InSandbox
      BY <1>1, <1>11, <2>2, SandboxKept
    <3>2. api' = api
      BY <1>1, <1>11, PhaseStep
    <3>3. PICK s \in Sandboxes \cup {NoSandbox} : s = work[c].obj.sandbox
      BY <1>5
    <3>4. BoxOf(work[c].run, s)'
      BY <1>2, <1>3, <1>5, <3>1, <3>3 DEF CallOwns
    <3>5. CallOwns(work[c])
      BY <1>2
    <3>6. QED
      BY <3>1, <3>2, <3>3, <3>4, <3>5 DEF CallOwns
  <2>3. QED
    BY <2>1, <2>2
<1>12. \A d \in Controllers : CallOwns(work[d])'
  BY <1>1, <1>8, <1>9, <1>10, <1>11, StepIs
     DEF EnvironmentKeeps, CallStops, Refreshed, Fetched, OthersStay
<1>13. QED
  BY <1>3, <1>6, <1>7, <1>12 DEF SandboxesOwned, FreeUnowned, CopiesAgree, CallOwns

\* Whatever a call does after the first phase it does in the sandbox that was
\* created for its run and that the run records.
THEOREM Isolation == Spec => []CallsUseOwnSandbox
<1>1. Init => SandboxesOwned
  BY DEF Init, SandboxesOwned, BoxOf, Unborn, Idle, Writing, InSandbox
<1>2. StatusInv /\ SandboxesOwned /\ [Next]_vars => SandboxesOwned'
  BY OwnedStep
<1>3. StatusInv /\ SandboxesOwned => CallsUseOwnSandbox
  <2> SUFFICES ASSUME StatusInv, SandboxesOwned, NEW c \in Controllers, work[c].pc \in InSandbox
               PROVE  /\ work[c].obj.sandbox \in CreatedFor(work[c].run)
                      /\ work[c].obj.sandbox = api[work[c].run].sandbox
    BY DEF CallsUseOwnSandbox
  <2>1. work[c].pc \in Working /\ PhaseOf(work[c].pc) # "SandboxReady" /\ work[c].pc \in Writing
    BY DependentsAre DEF InSandbox, Working, PhaseOf, Writing, Points
  <2>2. work[c].obj \in Objects /\ work[c].obj.sandbox # NoSandbox
    BY <2>1, WorkingCall DEF StatusInv, VersionInv, InPhaseCopy
  <2>3. work[c].obj.sandbox \in Sandboxes
    BY <2>2 DEF Objects
  <2>4. QED
    BY <2>1, <2>2, <2>3 DEF SandboxesOwned, BoxOf, CreatedFor
<1>4. QED
  BY <1>1, <1>2, <1>3, StatusInit, StatusStep, PTL DEF Spec

-----------------------------------------------------------------------------
\* The audit

\* Times counts: one more action, one more time.
LEMMA TimesAppend ==
    ASSUME NEW audit \in Seq(Actions), NEW a \in Actions
    PROVE  /\ \A b \in Actions : Times(b, audit) \in Nat
           /\ Times(a, Append(audit, a)) = Times(a, audit) + 1
           /\ \A b \in Actions \ {a} : Times(b, Append(audit, a)) = Times(b, audit)
<1> DEFINE n == Len(audit) + 1
           At(b, q) == {i \in DOMAIN q : q[i] = b}
           longer == Append(audit, a)
<1>1. /\ n \in Nat /\ n \notin DOMAIN audit /\ DOMAIN audit = 1..Len(audit)
      /\ DOMAIN longer = DOMAIN audit \cup {n}
      /\ longer[n] = a /\ \A i \in DOMAIN audit : longer[i] = audit[i]
  OBVIOUS
<1>2. ASSUME NEW b PROVE IsFiniteSet(At(b, audit)) /\ Cardinality(At(b, audit)) \in Nat
  <2>1. IsFiniteSet(1..Len(audit))
    BY FS_Interval
  <2>2. At(b, audit) \in SUBSET (1..Len(audit))
    BY <1>1
  <2>3. IsFiniteSet(At(b, audit))
    BY <2>1, <2>2, FS_Subset
  <2>4. QED
    BY <2>3, FS_CardinalityType
<1>3. At(a, longer) = At(a, audit) \cup {n} /\ n \notin At(a, audit)
  BY <1>1
<1>4. Cardinality(At(a, audit) \cup {n}) = Cardinality(At(a, audit)) + 1
  <2>1. PICK S : S = At(a, audit)
    OBVIOUS
  <2>2. IsFiniteSet(S) /\ n \notin S
    BY <1>2, <1>3, <2>1
  <2>3. Cardinality(S \cup {n}) = Cardinality(S) + 1
    BY <2>2, FS_AddElement
  <2>4. QED
    BY <2>1, <2>3
<1>5. \A b \in Actions \ {a} : At(b, longer) = At(b, audit)
  BY <1>1
<1>6. QED
  BY <1>2, <1>3, <1>4, <1>5 DEF Times

\* What is performed is never undone.
LEMMA PerformedStep ==
    ASSUME TypeInv, [Next]_vars
    PROVE  \/ performed' = performed
           \/ \E c \in Controllers : ExecuteAction(c)
BY DEF Next, Environment, CreateAgentRun, EditAgentRun, DeleteAgentRun, Crash, StragglerEnds,
       Informer, Start, Resync, CacheSync, Reconcile, Fetch, Phase, PhaseError, ReconcileSandbox,
       PrepareAgent, RunAgent, LoseAgent, ReconcileResults, ReconcileActions, FinishExecute,
       LostCall, CreateLost, RetryRun, UpdateStatus, UpdateStatusError, MarkFailed, DestroySandbox, vars

LEMMA MoreIsPerformed ==
    ASSUME StatusInv, [Next]_vars
    PROVE  \A r \in Runs, a \in Actions :
              /\ performed[r][a] \in Nat /\ performed'[r][a] \in Nat
              /\ performed[r][a] <= performed'[r][a]
<1>1. TypeInv /\ ObjectsConsistent /\ CallsConsistent
  BY DEF StatusInv, VersionInv
<1>2. performed \in [Runs -> [Actions -> Nat]]
  BY <1>1, TypeInvParts DEF OthersInv
<1>3. CASE performed' = performed
  BY <1>2, <1>3
<1>4. ASSUME NEW c \in Controllers, ExecuteAction(c)
      PROVE  \A r \in Runs, a \in Actions :
                /\ performed[r][a] \in Nat /\ performed'[r][a] \in Nat
                /\ performed[r][a] <= performed'[r][a]
  <2>1. PICK a \in Actions, took \in BOOLEAN :
          performed' = [performed EXCEPT ![work[c].run][a] = IF took THEN @ + 1 ELSE @]
    BY <1>1, <1>4, ExecuteStep DEF Executed
  <2>2. QED
    BY <1>2, <2>1
<1>5. QED
  BY <1>1, <1>3, <1>4, PerformedStep

\* Nothing is audited in an empty audit.
LEMMA NothingAudited ==
    ASSUME TypeInv, NEW r \in Runs PROVE Audited(<<>>, r)
<1>1. \A a : Times(a, <<>>) = 0
  BY FS_EmptySet DEF Times
<1>2. \A a \in Actions : performed[r][a] \in Nat
  BY TypeInvParts DEF OthersInv
<1>3. QED
  BY <1>1, <1>2 DEF Audited

\* Moving an action from the actions still to do to the end of the audit.
LEMMA HeadMoves ==
    ASSUME NEW audit \in Seq(Actions), NEW todo \in Seq(Actions), todo # <<>>
    PROVE  Append(audit, Head(todo)) \o Tail(todo) = audit \o todo
<1> DEFINE n == Len(audit)
           left == Append(audit, Head(todo)) \o Tail(todo)
           right == audit \o todo
<1>1. n \in Nat /\ Len(todo) \in Nat /\ Len(todo) > 0 /\ Head(todo) = todo[1]
      /\ Len(Tail(todo)) = Len(todo) - 1 /\ Tail(todo) \in Seq(Actions)
      /\ Append(audit, Head(todo)) \in Seq(Actions)
  OBVIOUS
<1>2. /\ left \in Seq(Actions) /\ right \in Seq(Actions)
      /\ Len(left) = n + Len(todo) /\ Len(right) = n + Len(todo)
  BY <1>1
<1>3. ASSUME NEW i \in 1..(n + Len(todo)) PROVE left[i] = right[i]
  <2>1. CASE i <= n
    BY <1>1, <2>1
  <2>2. CASE i = n + 1
    BY <1>1, <2>2
  <2>3. CASE i > n + 1
    <3>1. i - (n + 1) \in 1..Len(Tail(todo)) /\ i - n \in 1..Len(todo)
      BY <1>1, <2>3
    <3>2. left[i] = Tail(todo)[i - (n + 1)] /\ right[i] = todo[i - n]
      BY <1>1, <2>3
    <3>3. Tail(todo)[i - (n + 1)] = todo[i - n]
      BY <1>1, <3>1
    <3>4. QED
      BY <3>2, <3>3
  <2>4. QED
    BY <1>1, <2>1, <2>2, <2>3
<1>4. QED
  BY <1>2, <1>3

\* The parts of AuditInv.
ObjectAudited(o, r) ==
    /\ Audited(o.audit, r)
    /\ AllDone(o.cond) => \E res \in Results : o.audit = res.actions

CallAudited(w) ==
    /\ w.pc \in Writing => Audited(w.obj.audit, w.run)
    /\ w.pc = "Execute" /\ ~ w.failed => \E res \in Results : w.obj.audit \o w.todo = res.actions
    /\ w.pc = "UpdateStatus" /\ AllDone(w.obj.cond) => \E res \in Results : w.obj.audit = res.actions

LEMMA AuditParts ==
    AuditInv <=> /\ \A r \in Runs : ObjectAudited(api[r], r)
                 /\ \A c \in Controllers : CallAudited(work[c])
BY DEF AuditInv, ObjectAudited, CallAudited

\* An audit that does not change stays true.
LEMMA AuditedStays ==
    ASSUME StatusInv, [Next]_vars, NEW r \in Runs, NEW audit \in Seq(Actions), Audited(audit, r)
    PROVE  Audited(audit, r)'
<1>1. \A a \in Actions : /\ Times(a, audit) \in Nat /\ Times(a, audit) <= performed[r][a]
                         /\ performed[r][a] \in Nat /\ performed'[r][a] \in Nat
                         /\ performed[r][a] <= performed'[r][a]
  BY TimesAppend, MoreIsPerformed DEF Audited
<1>2. QED
  BY <1>1 DEF Audited

\* Executing an action keeps the audit true: it grows only if the action took
\* effect.
LEMMA ExecuteAudited ==
    ASSUME StatusInv, [Next]_vars, NEW c \in Controllers, ExecuteAction(c), CallAudited(work[c])
    PROVE  CallAudited(work[c])'
<1> DEFINE w == work[c]
           x == work'[c]
<1>1. TypeInv /\ ObjectsConsistent /\ CallsConsistent
  BY DEF StatusInv, VersionInv
<1>2. PICK a \in Actions, took \in BOOLEAN, ok \in BOOLEAN : Executed(c, a, took, ok)
  BY <1>1, ExecuteStep
<1>3. /\ w.pc = "Execute" /\ w.run \in Runs
      /\ w.obj.audit \in Seq(Actions) /\ w.todo \in Seq(Actions) /\ w.todo # <<>>
      /\ x.pc = "Execute" /\ x.run = w.run
  BY <1>1, <1>2, TypeInvParts DEF ExecuteAction, WorkInv, Work, Objects, Executed, Moved
<1>4. /\ a = Head(w.todo) /\ (ok => took)
      /\ x.todo = Tail(w.todo) /\ x.failed = (w.failed \/ ~ ok)
      /\ x.obj.audit = IF ok THEN Append(w.obj.audit, a) ELSE w.obj.audit
      /\ performed' = [performed EXCEPT ![w.run][a] = IF took THEN @ + 1 ELSE @]
  BY <1>2 DEF Executed
<1>5. PICK r \in Runs, old \in Seq(Actions), new \in Seq(Actions) :
        /\ r = w.run /\ old = w.obj.audit /\ new = x.obj.audit
        /\ new = IF ok THEN Append(old, a) ELSE old
  <2>1. Append(w.obj.audit, a) \in Seq(Actions)
    BY <1>3
  <2>2. x.obj.audit \in Seq(Actions)
    BY <1>3, <1>4, <2>1
  <2>3. QED
    BY <1>3, <1>4, <2>2
<1>6. Audited(old, r)
  BY <1>3, <1>5 DEF CallAudited, Writing, Points
<1>7. Audited(new, r)'
  <2>1. CASE ~ ok
    BY <1>5, <1>6, <2>1, AuditedStays
  <2>2. CASE ok
    <3>1. /\ Times(a, new) = Times(a, old) + 1
          /\ \A b \in Actions : Times(b, old) \in Nat
          /\ \A b \in Actions \ {a} : Times(b, new) = Times(b, old)
      BY <1>5, <2>2, TimesAppend
    <3>2. performed \in [Runs -> [Actions -> Nat]]
      BY <1>1, TypeInvParts DEF OthersInv
    <3>3. performed'[r][a] = performed[r][a] + 1
      BY <1>4, <1>5, <2>2, <3>2
    <3>4. \A b \in Actions \ {a} : performed'[r][b] = performed[r][b]
      BY <1>4, <1>5, <3>2
    <3>5. ASSUME NEW b \in Actions PROVE Times(b, new) <= performed'[r][b]
      <4>1. Times(b, old) <= performed[r][b] /\ performed[r][b] \in Nat /\ Times(b, old) \in Nat
        BY <1>6, <3>1, <3>2 DEF Audited
      <4>2. CASE b = a
        BY <3>1, <3>3, <4>1, <4>2
      <4>3. CASE b # a
        BY <3>1, <3>4, <4>1, <4>3
      <4>4. QED
        BY <4>2, <4>3
    <3>6. QED
      BY <3>5 DEF Audited
  <2>3. QED
    BY <2>1, <2>2
<1>8. ASSUME ~ x.failed PROVE \E res \in Results : new \o x.todo = res.actions
  <2>1. ~ w.failed /\ ok
    BY <1>4, <1>8
  <2>2. PICK res \in Results : w.obj.audit \o w.todo = res.actions
    BY <1>3, <2>1 DEF CallAudited
  <2>3. new \o x.todo = w.obj.audit \o w.todo
    BY <1>3, <1>4, <1>5, <2>1, HeadMoves
  <2>4. QED
    BY <2>2, <2>3
<1>9. x.run = r /\ x.obj.audit = new /\ x.pc = "Execute"
  BY <1>3, <1>5
<1>10. QED
  BY <1>7, <1>8, <1>9 DEF CallAudited

\* Every other step of a phase keeps the audit of the call's copy, which is
\* empty before Execute.
AuditKept(c) ==
    /\ work'[c].run = work[c].run /\ OthersStay(c)
    /\ work[c].pc \in Writing
    /\ work'[c].obj.audit = work[c].obj.audit
    /\ work'[c].pc = "Execute" =>
          \E res \in Results : work'[c].obj.audit \o work'[c].todo = res.actions
    /\ work'[c].pc = "UpdateStatus" /\ AllDone(work'[c].obj.cond) =>
          \E res \in Results : work'[c].obj.audit = res.actions

LEMMA PhaseKeepsAudit ==
    ASSUME TypeInv, ObjectsConsistent, CallsConsistent,
           NEW c \in Controllers, CallAudited(work[c]), Worked(c), ~ ExecuteAction(c)
    PROVE  AuditKept(c)
<1>1. \A res \in Results : res.actions \in Seq(Actions) /\ <<>> \o res.actions = res.actions
  BY ConstantsAssumption
<1>2. ASSUME work[c].pc \in Working \ {"Execute"}
      PROVE  work[c].obj.audit = <<>>
  BY <1>2, WorkingCall
<1>3. CASE PhaseError(c) \/ LoseAgent(c) \/ CreateLost(c)
  <2>1. work[c].pc \in Writing
    BY <1>3, DependentsAre DEF PhaseError, LoseAgent, CreateLost, Writing, Points
  <2>2. QED
    BY <1>3, <2>1, AbortStep DEF Moved, AuditKept, OthersStay
<1>4. CASE ReconcileSandbox(c)
  <2>1. work[c].pc \in Working \ {"Execute"} /\ work[c].pc \in Writing
    BY <1>4, DependentsAre DEF ReconcileSandbox, Working, Writing, Points
  <2>2. QED
    BY <1>2, <1>4, <2>1, SandboxStep DEF Moved, AuditKept, OthersStay
<1>5. CASE PrepareAgent(c)
  <2>1. work[c].pc \in Writing
    BY <1>5, DependentsAre DEF PrepareAgent, Writing, Points
  <2>2. QED
    BY <1>5, <2>1, PrepareStep DEF Moved, AuditKept, OthersStay
<1>6. CASE RunAgent(c)
  <2>1. work[c].pc \in Working \ {"Execute"} /\ work[c].pc \in Writing
    BY <1>6, DependentsAre DEF RunAgent, Working, Writing, Points
  <2>2. QED
    BY <1>2, <1>6, <2>1, AgentStep DEF Moved, AuditKept, OthersStay
<1>7. CASE ReconcileResults(c)
  <2>1. work[c].pc \in Working \ {"Execute"} /\ work[c].pc \in Writing
    BY <1>7, DependentsAre DEF ReconcileResults, Working, Writing, Points
  <2>2. QED
    BY <1>2, <1>7, <2>1, ResultsStep DEF Moved, AuditKept, OthersStay
<1>8. CASE ReconcileActions(c)
  <2>1. work[c].pc \in Working \ {"Execute"} /\ work[c].pc \in Writing
    BY <1>8, DependentsAre DEF ReconcileActions, Working, Writing, Points
  <2>2. QED
    BY <1>1, <1>2, <1>8, <2>1, ActionsStep DEF Moved, AuditKept, OthersStay
<1>9. CASE FinishExecute(c)
  <2>1. work[c].pc = "Execute" /\ work[c].pc \in Writing /\ work[c].todo = <<>>
    BY <1>9 DEF FinishExecute, Writing, Points
  <2>2. work[c].obj.audit \in Seq(Actions) /\ work[c].obj.audit \o <<>> = work[c].obj.audit
    BY TypeInvParts DEF WorkInv, Work, Objects
  <2>3. ~ work[c].failed => \E res \in Results : work[c].obj.audit = res.actions
    BY <2>1, <2>2 DEF CallAudited
  <2>4. QED
    BY <1>9, <2>1, <2>3, FinishStep DEF Moved, AuditKept, OthersStay
<1>10. QED
  BY <1>3, <1>4, <1>5, <1>6, <1>7, <1>8, <1>9 DEF Worked, Phase

LEMMA AuditStep ==
    ASSUME StatusInv, AuditInv, [Next]_vars PROVE AuditInv'
<1>1. TypeInv /\ TypeInv' /\ ObjectsConsistent /\ CallsConsistent
  BY StatusStep DEF StatusInv, VersionInv
<1>2. /\ \A r \in Runs : ObjectAudited(api[r], r)
      /\ \A c \in Controllers : CallAudited(work[c])
  BY AuditParts
<1>3. /\ \A r \in Runs : api[r].audit \in Seq(Actions)
      /\ \A d \in Controllers : /\ work[d].obj.audit \in Seq(Actions)
                                /\ work[d].obj \in Objects
                                /\ work[d].pc \in Writing => work[d].run \in Runs
  <2>1. \A d \in Controllers : work[d].pc \in Writing => work[d].pc # "idle"
    BY DEF Writing
  <2>2. QED
    BY <1>1, <2>1, TypeInvParts, CallObject DEF ApiInv, WorkInv, Objects
\* An object that is not written keeps its audit; one that is gets the call's.
<1>4. ASSUME NEW r \in Runs PROVE ObjectAudited(api[r], r)'
  <2>1. \/ StatusOf(api'[r]) = StatusOf(api[r])
        \/ \E c \in Controllers : Written(c) /\ work[c].run = r
    <3>1. ASSUME NEW c \in Controllers, Worked(c) PROVE api' = api
      BY <1>1, <3>1, PhaseStep
    <3>2. CASE EnvironmentKeeps
      BY <3>2 DEF EnvironmentKeeps, Kept, Bumped
    <3>3. ASSUME NEW c \in Controllers, CallStops(c)
          PROVE  \/ StatusOf(api'[r]) = StatusOf(api[r])
                 \/ \E d \in Controllers : Written(d) /\ work[d].run = r
      BY <3>3 DEF CallStops, Written, Bumped
    <3>4. QED
      BY <1>1, <3>1, <3>2, <3>3, StepIs DEF Refreshed, Fetched
  <2>2. CASE StatusOf(api'[r]) = StatusOf(api[r])
    <3>1. PICK audit \in Seq(Actions) : audit = api[r].audit
      BY <1>3
    <3>2. Audited(audit, r)'
      BY <1>2, <3>1, AuditedStays DEF ObjectAudited
    <3>3. api'[r].audit = audit /\ api'[r].cond = api[r].cond
      BY <2>2, <3>1 DEF StatusOf
    <3>4. QED
      BY <1>2, <3>1, <3>2, <3>3 DEF ObjectAudited
  <2>3. ASSUME NEW c \in Controllers, Written(c), work[c].run = r
        PROVE  ObjectAudited(api[r], r)'
    <3>1. /\ api'[r].audit = work[c].obj.audit /\ api'[r].cond = work[c].obj.cond
          /\ work[c].pc \in {"UpdateStatus", "markFailed"} /\ work[c].obj.rv = api[r].rv
      BY <1>3, <2>3 DEF Written, NewVersion, Objects
    <3>2. PICK audit \in Seq(Actions) : audit = work[c].obj.audit
      BY <1>3
    <3>3. CallAudited(work[c]) /\ work[c].pc \in Writing
      BY <1>2, <3>1 DEF Writing, Points
    <3>4. Audited(audit, r)'
      BY <2>3, <3>2, <3>3, AuditedStays DEF CallAudited
    <3>5. ASSUME AllDone(work[c].obj.cond) PROVE work[c].pc = "UpdateStatus"
      <4>1. SUFFICES ASSUME work[c].pc = "markFailed" PROVE FALSE
        BY <3>1
      <4>2. \E p \in Dependents : FailedIn(work[c].obj.cond, p)
        BY <1>1, <2>3, <3>1, <4>1 DEF CallsConsistent, CallFollows
      <4>3. work[c].obj.cond \in Conditions
        BY <1>3 DEF Objects
      <4>4. QED
        BY <3>5, <4>2, <4>3, OverIs
    <3>6. AllDone(api'[r].cond) => \E res \in Results : api'[r].audit = res.actions
      BY <3>1, <3>3, <3>5 DEF CallAudited
    <3>7. QED
      BY <3>1, <3>2, <3>4, <3>6 DEF ObjectAudited
  <2>4. QED
    BY <2>1, <2>2, <2>3
<1>5. ASSUME NEW d \in Controllers, work'[d] = work[d] PROVE CallAudited(work[d])'
  <2>1. CallAudited(work[d])
    BY <1>2
  <2>2. PICK audit \in Seq(Actions) : audit = work[d].obj.audit
    BY <1>3
  <2>3. ASSUME work[d].pc \in Writing PROVE Audited(audit, work[d].run)'
    <3>1. PICK r \in Runs : r = work[d].run
      BY <1>3, <2>3
    <3>2. Audited(audit, r)'
      BY <2>1, <2>2, <2>3, <3>1, AuditedStays DEF CallAudited
    <3>3. QED
      BY <1>5, <3>1, <3>2
  <2>4. work'[d].obj.audit = audit
    BY <1>5, <2>2
  <2>5. QED
    BY <1>5, <2>1, <2>3, <2>4 DEF CallAudited
<1>6. ASSUME NEW c \in Controllers, Ended(work'[c]) PROVE CallAudited(work[c])'
  BY <1>6 DEF Ended, CallAudited, Writing
<1>7. ASSUME NEW c \in Controllers, NEW r \in Runs, Fetched(c, r) PROVE CallAudited(work[c])'
  <2> DEFINE obj == cache[c][r]
             p == GetCurrentPhase(obj.cond)
  <2>1. obj \in Objects /\ Consistent(obj) /\ ~ IsTerminal(obj.cond)
    BY <1>1, <1>7, TypeInvParts DEF Fetched, CacheInv, ObjectsConsistent
  <2>2. p \in Dependents /\ obj.audit = <<>>
    BY <2>1, FetchedCopy
  <2>3. PICK none \in Seq(Actions) : none = <<>> /\ Audited(none, r)'
    <3>0. <<>> \in Seq(Actions)
      OBVIOUS
    <3>1. PICK none \in Seq(Actions) : none = <<>>
      BY <3>0
    <3>2. Audited(none, r)
      BY <1>1, <3>1, NothingAudited
    <3>3. Audited(none, r)'
      BY <3>2, AuditedStays
    <3>4. QED
      BY <3>1, <3>3
  <2> HIDE DEF p
  <2>4. work'[c].pc = p /\ work'[c].run = r /\ work'[c].obj.audit = none
    BY <1>7, <2>2, <2>3 DEF Fetched, Idle, p
  <2>5. p \notin {"Execute", "UpdateStatus"}
    BY <2>2, DependentsAre
  <2>6. QED
    BY <2>3, <2>4, <2>5 DEF CallAudited
<1>8. ASSUME NEW c \in Controllers, Worked(c) PROVE CallAudited(work[c])' /\ OthersStay(c)
  <2>1. CASE ExecuteAction(c)
    <3>1. OthersStay(c)
      BY <1>1, <2>1, ExecuteStep DEF Executed, Moved, OthersStay
    <3>2. QED
      BY <1>2, <2>1, <3>1, ExecuteAudited
  <2>2. CASE ~ ExecuteAction(c)
    <3>1. AuditKept(c) /\ CallAudited(work[c])
      BY <1>1, <1>2, <1>8, <2>2, PhaseKeepsAudit
    <3>2. PICK r \in Runs, audit \in Seq(Actions) : r = work[c].run /\ audit = work[c].obj.audit
      BY <1>3, <3>1 DEF AuditKept
    <3>3. Audited(audit, r)'
      BY <3>1, <3>2, AuditedStays DEF AuditKept, CallAudited
    <3>4. work'[c].run = r /\ work'[c].obj.audit = audit
      BY <3>1, <3>2 DEF AuditKept
    <3>5. QED
      BY <3>1, <3>3, <3>4 DEF AuditKept, CallAudited
  <2>3. QED
    BY <2>1, <2>2
<1>9. \A d \in Controllers : CallAudited(work[d])'
  BY <1>1, <1>5, <1>6, <1>7, <1>8, StepIs
     DEF EnvironmentKeeps, CallStops, Refreshed, Fetched, OthersStay
<1>10. QED
  BY <1>4, <1>9 DEF AuditInv, ObjectAudited, CallAudited

\* What the audit of a run lists was performed, as often as it is listed, and
\* that of a run which succeeded lists all the actions of a result.
THEOREM AuditTruth == Spec => []AuditIsTrue
<1>1. ASSUME Init PROVE AuditInv
  <2>1. TypeInv
    BY <1>1, TypeInit
  <2>2. \A r \in Runs : api[r].audit = <<>> /\ api[r].cond["Succeeded"] = "Unknown"
    BY <1>1, DependentsAre DEF Init, Unborn, NoConditions, ConditionTypes
  <2>3. \A r \in Runs : ~ AllDone(api[r].cond)
    BY <2>2 DEF AllDone, ConditionTypes
  <2>4. \A r \in Runs : Audited(api[r].audit, r)
    BY <2>1, <2>2, NothingAudited
  <2>5. \A c \in Controllers : work[c].pc \notin Writing \cup {"Execute", "UpdateStatus"}
    BY <1>1 DEF Init, Idle, Writing
  <2>6. QED
    BY <2>3, <2>4, <2>5 DEF AuditInv
<1>2. StatusInv /\ AuditInv /\ [Next]_vars => AuditInv'
  BY AuditStep
<1>3. ASSUME StatusInv, AuditInv PROVE AuditIsTrue
  <2>1. SUFFICES ASSUME NEW r \in Runs, api[r].cond["Succeeded"] = "True"
                 PROVE  AllDone(api[r].cond)
    BY <1>3 DEF AuditIsTrue, AuditInv, Audited
  <2>2. \A d \in Dependents : api[r].cond[d] = "True"
    BY <1>3, <2>1 DEF StatusInv, ObjectsConsistent, Consistent, FieldsConsistent
  <2>3. QED
    BY <2>1, <2>2 DEF AllDone, ConditionTypes
<1>4. QED
  BY <1>1, <1>2, <1>3, StatusInit, StatusStep, PTL DEF Spec

=============================================================================
