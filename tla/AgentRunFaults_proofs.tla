-------------------------- MODULE AgentRunFaults_proofs --------------------------
(***************************************************************************)
(* Proofs about what faults cost, for one controller process and any sets  *)
(* of runs, sandboxes and results: without conflicts a run keeps its       *)
(* sandbox; what was collected is what is executed; each sandbox that is   *)
(* left behind and each effect that is repeated is paid for by a fault.    *)
(*                                                                         *)
(* A fault and its cost are several steps apart: an edit only makes the    *)
(* copy of the call under way too old, which shows when its update is      *)
(* refused.  The invariants therefore count what is going to be lost or    *)
(* repeated together with what has been.  A Create whose error hides the   *)
(* sandbox it made, and a Run that the client makes again, cost at once.   *)
(***************************************************************************)
EXTENDS AgentRunConsistency_proofs

OneController == \A c, d \in Controllers : c = d

-----------------------------------------------------------------------------
\* Calls and the objects they work on

\* A run somebody would still work on.
Going(r) == Alive(r) /\ ~ Terminal(r)

\* The call of c is about r and will get as far as an update.
Calls(c, r) == work[c].pc \in Writing /\ work[c].run = r

\* A copy is as new as the object only of a run that is there.
CopiesAreOfRuns ==
    /\ \A c \in Controllers, r \in Runs :
         cache[c][r].life # "unborn" => api[r].life # "unborn"
    /\ \A c \in Controllers, r \in Runs : Calls(c, r) =>
         /\ api[r].life # "unborn"
         /\ work[c].obj.rv = api[r].rv => Alive(r)

\* The sandbox that a call is about to destroy is its run's own.
CleanupIsOwn(c) ==
    work[c].pc = "destroySandbox" => BoxOf(work[c].run, work[c].obj.sandbox)

CleanupOwned == \A c \in Controllers : CleanupIsOwn(c)

BaseInv == StatusInv /\ SandboxesOwned /\ CopiesAreOfRuns /\ CleanupOwned

-----------------------------------------------------------------------------
\* The invariants

\* No update is refused or gets lost, except that of a run that was deleted.
NoConflicts == \A k \in {"updateError", "edit", "staleRead"} : MaxFaults[k] = 0

\* Then a call works on the object as it is, in a sandbox that is live, and a
\* call that destroys the sandbox has recorded how its run ended.
KeepInv ==
    /\ \A r \in Runs : Going(r) /\ api[r].sandbox # NoSandbox => Live(api[r].sandbox)
    /\ \A c \in Controllers, r \in Runs : Calls(c, r) =>
         /\ work[c].obj.rv = api[r].rv \/ api[r].life = "deleted"
         /\ work[c].obj.sandbox # NoSandbox => Live(work[c].obj.sandbox)
    /\ \A c \in Controllers : work[c].pc = "destroySandbox" =>
         api[work[c].run].life # "unborn" /\ ~ Going(work[c].run)

\* No agent-run goes on in a sandbox that is used.
Undisturbed == faults["crash"] + faults["destroyError"] + faults["retry"] = 0

\* What o says of the result is what result.json holds.
Shown(o) ==
    o.usage # NoResult /\ Reachable(o.sandbox) => sandboxes[o.sandbox].result = o.usage

\* A straggler is in a sandbox that is about to be destroyed.
StragglersAreDoomed ==
    \A s \in Sandboxes : sandboxes[s].stragglers > 0 /\ sandboxes[s].state # "destroyed" =>
        \E c \in Controllers :
            /\ work[c].pc \in {"markFailed", "destroySandbox"}
            /\ work[c].obj.sandbox = s
            /\ FailedIn(work[c].obj.cond, "AgentExecuted")

ExecutedBefore(o) == o.cond["AgentExecuted"] = "True"

\* Once a result was collected, nobody goes back to the agent's phase.
CallSees(c) ==
    LET w == work[c]
    IN  w.pc # "idle" =>
          /\ api[w.run].usage # NoResult => ExecutedBefore(w.obj)
          /\ w.obj.usage # NoResult \/ w.pc = "ResultsCollected" => ExecutedBefore(cache[c][w.run])

CollectionIsSeen ==
    /\ \A c \in Controllers, r \in Runs :
         /\ Extends(api[r], cache[c][r])
         /\ api[r].usage # NoResult => ExecutedBefore(cache[c][r])
    /\ \A c \in Controllers : CallSees(c)

CopiesShown ==
    /\ \A r \in Runs : Shown(api[r])
    /\ \A c \in Controllers, r \in Runs :
         Shown(cache[c][r]) /\ (Calls(c, r) => Shown(work[c].obj))

\* What is executed is what was collected.
ObjectMatches(o) == AllDone(o.cond) => o.audit = o.usage.actions

CallMatches(w) ==
    /\ w.pc = "Execute" /\ ~ w.failed => w.obj.audit \o w.todo = w.obj.usage.actions
    /\ w.pc = "UpdateStatus" => ObjectMatches(w.obj)

AuditsMatch ==
    /\ \A r \in Runs : ObjectMatches(api[r])
    /\ \A c \in Controllers : CallMatches(work[c])

CollectedInv == StragglersAreDoomed /\ CollectionIsSeen /\ CopiesShown /\ AuditsMatch

CollectInv == Undisturbed => CollectedInv

\* The call of c will have its update refused, and leave its sandbox behind.
Doomed(c) == work[c].pc \in Writing /\ ~ Accepted(c)

LeakedSandboxes == {s \in Sandboxes : Leaked(s)}

If1(b) == IF b THEN 1 ELSE 0

Doom == \E c \in Controllers : Doomed(c)

Paid == Reruns + faults["destroyError"] + faults["delete"] + faults["createError"]

\* Who is not in a call holds no sandbox.
IdleHoldsNothing == \A c \in Controllers : work[c].pc = "idle" => work[c].obj.sandbox = NoSandbox

LeakInv ==
    /\ IdleHoldsNothing
    /\ IsFiniteSet(LeakedSandboxes)
    /\ Cardinality(LeakedSandboxes) + If1(Doom) <= Paid

-----------------------------------------------------------------------------
\* Repetition

\* Where a call stands that has the effect of phase p still to come.
PointsBefore(p) == IF p = "AgentExecuted" THEN {"AgentExecuted", "agent-run"} ELSE {p}

At(c, r, p) == Calls(c, r) /\ work[c].pc \in PointsBefore(p)

Current(c, r) == Calls(c, r) /\ work[c].obj.rv = api[r].rv

\* A new call could still come to phase p; no call has it behind itself and is
\* going to record that.
Due(r, p) ==
    /\ api[r].life # "deleted" /\ ~ Terminal(r) /\ api[r].cond[p] # "True"
    /\ ~ \E c \in Controllers :
            Current(c, r) /\ InPhase(api[r].cond, p) /\ work[c].pc \notin PointsBefore(p)

\* A call that works on an old copy may come to phase p without anybody needing it.
Astray(r, p) == \E c \in Controllers : At(c, r, p) /\ ~ Current(c, r)

\* How often phase p of r can still be executed without a further fault.
Budget(r, p) == If1(Due(r, p)) + If1(Astray(r, p))

\* agent-run processes that go on in boxes, each with a number of its own.
StragglersIn(boxes, r) ==
    {x \in Sandboxes \X Nat : boxes[x[1]].owner = r /\ 1 <= x[2] /\ x[2] <= boxes[x[1]].stragglers}

Stragglers(r) == StragglersIn(sandboxes, r)

ToDo(r, a) ==
    \E c \in Controllers :
        Calls(c, r) /\ work[c].pc = "Execute" /\ \E i \in DOMAIN work[c].todo : work[c].todo[i] = a

Distinct(s) == \A i, j \in DOMAIN s : s[i] = s[j] => i = j

DistinctResults == \A res \in Results : Distinct(res.actions)

\* A sandbox is handed out with nothing going on in it.
FreeIsQuiet == \A s \in Sandboxes : sandboxes[s].state = "free" => sandboxes[s].stragglers = 0

TodoDistinct == \A c \in Controllers : work[c].pc = "Execute" => Distinct(work[c].todo)

\* An attempt of Run that is made again repeats the agent and nothing else.
Retries(p) == IF p = "AgentExecuted" THEN faults["retry"] ELSE 0

\* n effects of phase p are paid for, and so are those that may still come.
PaidFor(n, r, p) == n \in Nat /\ n + Budget(r, p) <= 1 + Reruns + Retries(p)

RepeatInv ==
    /\ FreeIsQuiet /\ TodoDistinct
    /\ \A r \in Runs :
        /\ IsFiniteSet(CreatedFor(r)) /\ IsFiniteSet(Stragglers(r))
        /\ PaidFor(Cardinality(CreatedFor(r)), r, "SandboxReady")
        /\ PaidFor(executions[r] + Cardinality(Stragglers(r)), r, "AgentExecuted")
        /\ \A a \in Actions :
             PaidFor(performed[r][a] + If1(ToDo(r, a)), r, "ActionsExecuted")

-----------------------------------------------------------------------------
\* Steps and what they cost

\* Nothing happens but to the objects and the calls.
BackendStays == UNCHANGED <<sandboxes, performed, executions>>

Created(r) ==
    /\ Kept(r) /\ api[r].life = "unborn" /\ api'[r].life = "alive"
    /\ UNCHANGED <<cache, work, faults>> /\ BackendStays

Edited(r) ==
    /\ Kept(r) /\ api[r].life = "alive" /\ api'[r].life = "alive" /\ Spend("edit")
    /\ UNCHANGED <<cache, work>> /\ BackendStays

Deleted(r) ==
    /\ Kept(r) /\ api[r].life = "alive" /\ api'[r].life = "deleted" /\ Spend("delete")
    /\ UNCHANGED <<cache, work>> /\ BackendStays

Crashed(c) ==
    /\ UNCHANGED <<api, cache, performed, executions>> /\ Spend("crash")
    /\ work'[c] = Idle /\ OthersStay(c)
    /\ \/ sandboxes' = sandboxes
       \/ /\ work[c].pc = "agent-run" /\ Reachable(work[c].obj.sandbox)
          /\ Abandon(work[c].obj.sandbox)

\* A cache is refreshed, or a call ends before it has begun.
Quiet ==
    /\ UNCHANGED <<api, work>> /\ BackendStays
    /\ faults' = faults \/ Spend("staleRead")
    /\ \A d \in Controllers, r \in Runs : cache'[d][r] \in {cache[d][r], api[r]}

Started(c, r) ==
    /\ work[c].pc = "idle" /\ Fetched(c, r) /\ BackendStays
    /\ (cache[c][r] = api[r] /\ faults' = faults) \/ Spend("staleRead")

\* The update at the end of a phase or of a failure, and what comes after it.
Updated(c) ==
    LET w == work[c]
        x == work'[c]
    IN  /\ w.pc \in {"UpdateStatus", "markFailed"}
        /\ cache' = cache /\ BackendStays /\ OthersStay(c)
        /\ \/ Written(c) /\ faults' = faults
           \/ api' = api /\ ~ Accepted(c) /\ faults' = faults
           \/ (api' = api \/ Written(c)) /\ Spend("updateError")
        /\ \/ /\ x = Idle /\ w.pc = "UpdateStatus"
              /\ Written(c) /\ faults' = faults => ~ IsTerminal(w.obj.cond)
           \/ /\ x.pc = "destroySandbox" /\ x.run = w.run
              /\ x.obj.sandbox = w.obj.sandbox /\ x.obj.cond = w.obj.cond
              /\ x.obj.usage = w.obj.usage
              /\ w.pc = "markFailed" \/ (Written(c) /\ IsTerminal(w.obj.cond) /\ faults' = faults)

Destroyed(c) ==
    LET s == work[c].obj.sandbox
    IN  /\ work[c].pc = "destroySandbox" /\ work'[c] = Idle /\ OthersStay(c)
        /\ UNCHANGED <<api, cache, performed, executions>>
        /\ \/ /\ Reachable(s) /\ faults' = faults
              /\ sandboxes' = [sandboxes EXCEPT ![s].state = "destroyed"]
           \/ ~ Reachable(s) /\ UNCHANGED <<sandboxes, faults>>
           \/ Spend("destroyError") /\ sandboxes' = sandboxes

LEMMA EnvironmentCosts ==
    ASSUME TypeInv, NEW r \in Runs, CreateAgentRun(r) \/ EditAgentRun(r) \/ DeleteAgentRun(r)
    PROVE  Created(r) \/ Edited(r) \/ Deleted(r)
<1>1. api[r] \in Objects /\ api \in [Runs -> Objects]
  BY TypeInvParts DEF ApiInv
<1>2. UNCHANGED <<cache, work>> /\ BackendStays
  BY DEF CreateAgentRun, EditAgentRun, DeleteAgentRun, BackendStays
<1>3. ASSUME NEW o, api' = [api EXCEPT ![r] = o], o.rv = api[r].rv + 1,
             StatusOf(o) = StatusOf(api[r])
      PROVE  /\ Bumped(r) /\ StatusOf(api'[r]) = StatusOf(api[r]) /\ api'[r].life = o.life
  BY <1>1, <1>3 DEF Bumped, Objects
<1>4. CASE CreateAgentRun(r)
  <2> DEFINE o == [api[r] EXCEPT !.life = "alive", !.rv = @ + 1]
  <2>1. api' = [api EXCEPT ![r] = o] /\ api[r].life = "unborn" /\ faults' = faults
    BY <1>1, <1>4 DEF CreateAgentRun
  <2>2. o.rv = api[r].rv + 1 /\ o.life = "alive" /\ StatusOf(o) = StatusOf(api[r])
    BY <1>1 DEF StatusOf, Objects
  <2> HIDE DEF o
  <2>3. Bumped(r) /\ StatusOf(api'[r]) = StatusOf(api[r]) /\ api'[r].life = "alive"
    BY <1>3, <2>1, <2>2
  <2>4. QED
    BY <1>2, <2>1, <2>3 DEF Created, Kept
<1>5. CASE EditAgentRun(r)
  <2> DEFINE o == [api[r] EXCEPT !.rv = @ + 1]
  <2>1. api' = [api EXCEPT ![r] = o] /\ api[r].life = "alive" /\ Spend("edit")
    BY <1>1, <1>5 DEF EditAgentRun, Alive, Spend
  <2>2. o.rv = api[r].rv + 1 /\ o.life = "alive" /\ StatusOf(o) = StatusOf(api[r])
    BY <1>1, <2>1 DEF StatusOf, Objects
  <2> HIDE DEF o
  <2>3. Bumped(r) /\ StatusOf(api'[r]) = StatusOf(api[r]) /\ api'[r].life = "alive"
    BY <1>3, <2>1, <2>2
  <2>4. QED
    BY <1>2, <2>1, <2>3 DEF Edited, Kept
<1>6. CASE DeleteAgentRun(r)
  <2> DEFINE o == [api[r] EXCEPT !.life = "deleted", !.rv = @ + 1]
  <2>1. api' = [api EXCEPT ![r] = o] /\ api[r].life = "alive" /\ Spend("delete")
    BY <1>1, <1>6 DEF DeleteAgentRun, Alive, Spend
  <2>2. o.rv = api[r].rv + 1 /\ o.life = "deleted" /\ StatusOf(o) = StatusOf(api[r])
    BY <1>1 DEF StatusOf, Objects
  <2> HIDE DEF o
  <2>3. Bumped(r) /\ StatusOf(api'[r]) = StatusOf(api[r]) /\ api'[r].life = "deleted"
    BY <1>3, <2>1, <2>2
  <2>4. QED
    BY <1>2, <2>1, <2>3 DEF Deleted, Kept
<1>7. QED
  BY <1>4, <1>5, <1>6

LEMMA UpdateCosts ==
    ASSUME TypeInv, NEW c \in Controllers, UpdateStatus(c) \/ UpdateStatusError(c) \/ MarkFailed(c)
    PROVE  Updated(c)
<1> DEFINE w == work[c]
<1>1. /\ w.pc \in {"UpdateStatus", "markFailed"} /\ cache' = cache /\ BackendStays
      /\ \/ Accepted(c) /\ Store(c) /\ faults' = faults
         \/ api' = api /\ ~ Accepted(c) /\ faults' = faults
         \/ (api' = api \/ (Accepted(c) /\ Store(c))) /\ Spend("updateError")
  BY DEF UpdateStatus, UpdateStatusError, MarkFailed, BackendStays, Spend
<1>2. ASSUME Accepted(c), Store(c) PROVE Written(c)
  <2>1. Bumped(w.run) /\ api'[w.run] = NewVersion(w.obj)
    BY <1>1, <1>2, StoreBumps
  <2>2. QED
    BY <1>1, <1>2, <2>1 DEF Written, Bumped, Accepted
<1>3. \/ Written(c) /\ faults' = faults
      \/ api' = api /\ ~ Accepted(c) /\ faults' = faults
      \/ (api' = api \/ Written(c)) /\ Spend("updateError")
  BY <1>1, <1>2
<1>4. ASSUME Return(c) PROVE work'[c] = Idle /\ OthersStay(c)
  BY <1>4, TypeInvParts DEF Return, WorkInv, OthersStay
<1>5. w.obj \in Objects /\ w.run \in Runs
  BY <1>1, TypeInvParts, CallObject DEF WorkInv
<1>6. CASE UpdateStatus(c) /\ IsTerminal(w.obj.cond)
  <2>1. PICK o : o = NewVersion(w.obj)
    OBVIOUS
  <2>2. o.sandbox = w.obj.sandbox /\ o.cond = w.obj.cond /\ o.usage = w.obj.usage
    BY <1>5, <2>1 DEF NewVersion, Objects
  <2>3. Moved(c, "destroySandbox", o)
    BY <1>6, <2>1, TypeInvParts, GotoMoves DEF UpdateStatus
  <2>4. Written(c) /\ faults' = faults
    BY <1>2, <1>6 DEF UpdateStatus
  <2>5. QED
    BY <1>1, <1>6, <2>2, <2>3, <2>4 DEF Updated, Moved, OthersStay
<1>7. CASE UpdateStatus(c) /\ ~ IsTerminal(w.obj.cond)
  <2>1. w.pc = "UpdateStatus" /\ work'[c] = Idle /\ OthersStay(c)
    BY <1>4, <1>7 DEF UpdateStatus
  <2>2. QED
    BY <1>1, <1>3, <1>7, <2>1 DEF Updated
<1>8. CASE UpdateStatusError(c)
  <2>1. w.pc = "UpdateStatus" /\ work'[c] = Idle /\ OthersStay(c)
    BY <1>4, <1>8 DEF UpdateStatusError
  <2>2. ~ (Written(c) /\ faults' = faults)
    <3>1. CASE ~ Accepted(c)
      BY <3>1 DEF Written, Accepted
    <3>2. CASE Spend("updateError")
      <4>1. faults \in [FaultKinds -> Nat] /\ "updateError" \in FaultKinds
        BY TypeInvParts DEF OthersInv, FaultKinds
      <4>2. faults'["updateError"] = faults["updateError"] + 1 /\ faults["updateError"] \in Nat
        BY <3>2, <4>1 DEF Spend
      <4>3. QED
        BY <4>2
    <3>3. QED
      BY <1>8, <3>1, <3>2 DEF UpdateStatusError
  <2>3. QED
    BY <1>1, <1>3, <2>1, <2>2 DEF Updated
<1>9. CASE MarkFailed(c)
  <2>1. Moved(c, "destroySandbox", w.obj) /\ w.pc = "markFailed"
    BY <1>9, TypeInvParts, GotoMoves DEF MarkFailed
  <2>2. QED
    BY <1>1, <1>3, <2>1 DEF Updated, Moved, OthersStay
<1>10. QED
  BY <1>6, <1>7, <1>8, <1>9

\* A fault of a kind is one more of that kind.
LEMMA SpendCosts ==
    ASSUME TypeInv, NEW kind \in FaultKinds, Spend(kind)
    PROVE  /\ faults'[kind] = faults[kind] + 1
           /\ \A k \in FaultKinds \ {kind} : faults'[k] = faults[k]
           /\ \A k \in FaultKinds : faults[k] \in Nat /\ faults'[k] \in Nat
<1>1. faults \in [FaultKinds -> Nat]
  BY TypeInvParts DEF OthersInv
<1>2. faults'[kind] = faults[kind] + 1 /\ \A k \in FaultKinds \ {kind} : faults'[k] = faults[k]
  BY <1>1 DEF Spend
<1>3. QED
  BY <1>1, <1>2

\* Every step of the specification, with what it costs.
LEMMA StepCosts ==
    ASSUME TypeInv, [Next]_vars
    PROVE  \/ Quiet
           \/ \E r \in Runs : Created(r) \/ Edited(r) \/ Deleted(r)
           \/ \E s \in Sandboxes : StragglerEnds(s)
           \/ \E c \in Controllers :
                \/ Crashed(c) \/ Updated(c) \/ Destroyed(c) \/ CreateLost(c) \/ RetryRun(c)
                \/ Phase(c) \/ \E r \in Runs : Started(c, r)
<1>1. ASSUME NEW c \in Controllers, Return(c) PROVE work'[c] = Idle /\ OthersStay(c)
  BY <1>1, TypeInvParts DEF Return, WorkInv, OthersStay
<1>2. cache \in [Controllers -> [Runs -> Objects]] /\ api \in [Runs -> Objects]
  BY TypeInvParts DEF CacheInv, ApiInv
<1>3. CASE Environment
  <2>1. ASSUME NEW c \in Controllers, Crash(c) PROVE Crashed(c)
    BY <1>1, <2>1 DEF Crash, Crashed, Spend
  <2>2. QED
    BY <1>3, <2>1, EnvironmentCosts DEF Environment
<1>4. ASSUME NEW c \in Controllers, Informer(c) PROVE Quiet
  <2>1. UNCHANGED <<api, work, faults>> /\ BackendStays
    BY <1>4 DEF Informer, Start, Resync, CacheSync, BackendStays
  <2>2. \A d \in Controllers, r \in Runs : cache'[d][r] \in {cache[d][r], api[r]}
    <3>1. CASE Start(c)
      BY <1>2, <3>1 DEF Start
    <3>2. CASE Resync(c)
      BY <3>2 DEF Resync
    <3>3. ASSUME NEW r \in Runs, CacheSync(c, r)
          PROVE  \A d \in Controllers, q \in Runs : cache'[d][q] \in {cache[d][q], api[q]}
      BY <1>2, <3>3 DEF CacheSync
    <3>4. QED
      BY <1>4, <3>1, <3>2, <3>3 DEF Informer
  <2>3. QED
    BY <2>1, <2>2 DEF Quiet
<1>5. ASSUME NEW c \in Controllers, NEW r \in Runs, Fetch(c, r) PROVE Quiet \/ Started(c, r)
  <2>1. /\ UNCHANGED <<api, cache>> /\ BackendStays /\ work[c].pc = "idle"
        /\ (cache[c][r] = api[r] /\ faults' = faults) \/ Spend("staleRead")
    BY <1>5 DEF Fetch, BackendStays, Spend
  <2>2. work' = work \/ Fetched(c, r)
    BY <1>5, TypeInvParts DEF Fetch, WorkInv, Fetched, OthersStay
  <2>3. QED
    BY <2>1, <2>2 DEF Quiet, Started
<1>6. ASSUME NEW c \in Controllers, DestroySandbox(c) PROVE Destroyed(c)
  <2>1. work'[c] = Idle /\ OthersStay(c)
    BY <1>1, <1>6 DEF DestroySandbox
  <2>2. QED
    BY <1>6, <2>1 DEF DestroySandbox, Destroyed, Spend
<1>7. CASE UNCHANGED vars
  BY <1>7 DEF vars, Quiet, BackendStays
<1>8. QED
  BY <1>3, <1>4, <1>5, <1>6, <1>7, UpdateCosts DEF Next, Reconcile, LostCall

-----------------------------------------------------------------------------
\* What holds of calls whatever the faults

LEMMA BaseParts ==
    ASSUME BaseInv
    PROVE  /\ TypeInv /\ VersionInv /\ CacheVersioned /\ CallsVersioned
           /\ ObjectsConsistent /\ CallsConsistent
           /\ FreeUnowned /\ CopiesAgree
           /\ \A r \in Runs : BoxOf(r, api[r].sandbox) /\ api[r] \in Objects
           /\ \A c \in Controllers : CallOwns(work[c])
BY OwnedParts, VersionedParts, TypeInvParts DEF BaseInv, StatusInv, VersionInv, ApiInv

\* A call that is under way.
LEMMA CallIs ==
    ASSUME BaseInv, NEW c \in Controllers, work[c].pc # "idle"
    PROVE  /\ work[c].run \in Runs /\ work[c] \in Work /\ work[c].obj \in Objects
           /\ work[c].obj.rv \in Nat /\ api[work[c].run] \in Objects
           /\ api[work[c].run].rv \in Nat
           /\ work[c].obj.sandbox \in Sandboxes \cup {NoSandbox}
           /\ BoxOf(work[c].run, work[c].obj.sandbox)
           /\ work[c].pc \in Writing =>
                /\ work[c].obj.life = "alive"
                /\ work[c].obj.rv <= api[work[c].run].rv
<1>1. /\ work[c].run \in Runs /\ work[c] \in Work /\ work[c].obj \in Objects
      /\ api[work[c].run] \in Objects
  BY BaseParts, TypeInvParts, CallObject DEF WorkInv
<1>2. /\ work[c].obj.rv \in Nat /\ api[work[c].run].rv \in Nat
      /\ work[c].obj.sandbox \in Sandboxes \cup {NoSandbox}
  BY <1>1 DEF Objects
<1>3. work[c].pc \in Writing \cup {"destroySandbox"}
  BY <1>1 DEF Work, Writing
<1>4. BoxOf(work[c].run, work[c].obj.sandbox)
  BY <1>3, BaseParts DEF CallOwns, BaseInv, CleanupOwned, CleanupIsOwn
<1>5. work[c].pc \in Writing =>
        work[c].obj.life = "alive" /\ work[c].obj.rv <= api[work[c].run].rv
  BY BaseParts DEF CallsConsistent, CallConsistent, CallsVersioned, CurrentCall
<1>6. QED
  BY <1>1, <1>2, <1>4, <1>5

\* A phase neither writes to the API server nor is it a fault.
LEMMA PhaseIsNoFault ==
    ASSUME NEW c \in Controllers, Phase(c) PROVE UNCHANGED <<api, cache, faults>>
<1>1. CASE PhaseError(c) \/ LoseAgent(c) \/ FinishExecute(c)
  BY <1>1 DEF PhaseError, LoseAgent, FinishExecute
<1>2. CASE ReconcileSandbox(c)
  BY <1>2 DEF ReconcileSandbox
<1>3. CASE PrepareAgent(c)
  BY <1>3 DEF PrepareAgent
<1>4. CASE RunAgent(c)
  BY <1>4 DEF RunAgent
<1>5. CASE ReconcileResults(c)
  BY <1>5 DEF ReconcileResults
<1>6. CASE ReconcileActions(c)
  BY <1>6 DEF ReconcileActions
<1>7. CASE ExecuteAction(c)
  BY <1>7 DEF ExecuteAction
<1>8. QED
  BY <1>1, <1>2, <1>3, <1>4, <1>5, <1>6, <1>7 DEF Phase

\* A step is one fault at most, and faults are not taken back.
LEMMA FaultsStep ==
    ASSUME TypeInv, [Next]_vars
    PROVE  /\ faults' = faults \/ \E k \in FaultKinds : Spend(k)
           /\ \A k \in FaultKinds : faults[k] \in Nat /\ faults'[k] \in Nat /\ faults[k] <= faults'[k]
<1>1. faults' = faults \/ \E k \in FaultKinds : Spend(k)
  <2>1. \A s \in Sandboxes : StragglerEnds(s) => faults' = faults
    BY DEF StragglerEnds
  <2>2. ASSUME NEW c \in Controllers, Phase(c) PROVE faults' = faults
    BY <2>2, PhaseIsNoFault
  <2>3. \A k \in {"crash", "updateError", "destroyError", "edit", "delete", "staleRead",
                  "createError", "retry"} : k \in FaultKinds
    BY DEF FaultKinds
  <2>4. Quiet => faults' = faults \/ Spend("staleRead")
    BY DEF Quiet
  <2>5. \A r \in Runs : /\ Created(r) => faults' = faults
                        /\ Edited(r) => Spend("edit")
                        /\ Deleted(r) => Spend("delete")
    BY DEF Created, Edited, Deleted
  <2>6. \A c \in Controllers :
          /\ Crashed(c) => Spend("crash")
          /\ Updated(c) => faults' = faults \/ Spend("updateError")
          /\ Destroyed(c) => faults' = faults \/ Spend("destroyError")
          /\ \A r \in Runs : Started(c, r) => faults' = faults \/ Spend("staleRead")
    BY DEF Crashed, Updated, Destroyed, Started
  <2>7. \A c \in Controllers : /\ CreateLost(c) => Spend("createError")
                               /\ RetryRun(c) => Spend("retry")
    BY DEF CreateLost, RetryRun
  <2>8. QED
    BY <2>1, <2>2, <2>3, <2>4, <2>5, <2>6, <2>7, StepCosts
<1>2. \A k \in FaultKinds : faults[k] \in Nat
  BY TypeInvParts DEF OthersInv
<1>3. ASSUME NEW i \in FaultKinds, Spend(i), NEW k \in FaultKinds
      PROVE  faults'[k] \in Nat /\ faults[k] <= faults'[k]
  <2>1. faults'[k] = faults[k] \/ faults'[k] = faults[k] + 1
    BY <1>3, SpendCosts
  <2>2. QED
    BY <1>2, <2>1
<1>4. QED
  BY <1>1, <1>2, <1>3

\* A phase works on the copy of its call, adds to it, and does not come to the
\* effect of another phase.
LEMMA PhaseCall ==
    ASSUME BaseInv, NEW c \in Controllers, Phase(c)
    PROVE  LET w == work[c]
               x == work'[c]
           IN  /\ w.pc \in Working /\ w.pc \in Writing /\ x.pc \in Writing
               /\ x.run = w.run /\ x.obj.rv = w.obj.rv /\ Extends(x.obj, w.obj)
               /\ OthersStay(c) /\ UNCHANGED <<api, cache, faults>>
               /\ \A p \in Dependents : x.pc \in PointsBefore(p) => w.pc \in PointsBefore(p)
               /\ x.pc \in {"agent-run", "Execute", "UpdateStatus", "markFailed"}
               /\ ReconcileSandbox(c) \/ x.obj.sandbox = w.obj.sandbox
<1>1. TypeInv /\ WorkInv /\ ObjectsConsistent /\ CallsConsistent
  BY BaseParts, TypeInvParts
<1>2. /\ work[c].pc \in Writing /\ work'[c].run = work[c].run
      /\ work'[c].obj.rv = work[c].obj.rv /\ Extends(work'[c].obj, work[c].obj) /\ OthersStay(c)
  BY <1>1, PhaseGrows DEF CallGrows, OthersStay
<1>3. UNCHANGED <<api, cache, faults>>
  BY PhaseIsNoFault
<1>4. work[c].pc \in Working
  BY DependentsAre DEF Phase, PhaseError, ReconcileSandbox, PrepareAgent, RunAgent, LoseAgent,
         ReconcileResults, ReconcileActions, ExecuteAction, FinishExecute, Working
<1>5. ReconcileSandbox(c) \/ work'[c].obj.sandbox = work[c].obj.sandbox
  BY <1>1, SandboxKept DEF Worked
<1>6. \/ work'[c].pc = "agent-run" /\ work[c].pc = "AgentExecuted"
      \/ work'[c].pc \in {"Execute", "UpdateStatus", "markFailed"}
  <2>1. CASE PhaseError(c) \/ LoseAgent(c)
    BY <1>1, <2>1, AbortStep DEF Moved
  <2>2. CASE ReconcileSandbox(c)
    BY <1>1, <2>2, SandboxStep DEF Moved
  <2>3. CASE PrepareAgent(c)
    BY <1>1, <2>3, PrepareStep DEF Moved, PrepareAgent
  <2>4. CASE RunAgent(c)
    BY <1>1, <2>4, AgentStep DEF Moved
  <2>5. CASE ReconcileResults(c)
    BY <1>1, <2>5, ResultsStep DEF Moved
  <2>6. CASE ReconcileActions(c)
    BY <1>1, <2>6, ActionsStep DEF Moved
  <2>7. CASE ExecuteAction(c)
    BY <1>1, <2>7, ExecuteStep DEF Moved, Executed
  <2>8. CASE FinishExecute(c)
    BY <1>1, <2>8, FinishStep DEF Moved
  <2>9. QED
    BY <2>1, <2>2, <2>3, <2>4, <2>5, <2>6, <2>7, <2>8 DEF Phase
<1>7. work'[c].pc \in Writing
  BY <1>6 DEF Writing, Points
<1>8. \A p \in Dependents : work'[c].pc \in PointsBefore(p) => work[c].pc \in PointsBefore(p)
  BY <1>6, DependentsAre DEF PointsBefore
<1>9. QED
  BY <1>2, <1>3, <1>4, <1>5, <1>6, <1>7, <1>8

\* A Create whose answer is lost: the call fails, and does not know of a sandbox.
LEMMA LostCreateIs ==
    ASSUME BaseInv, NEW c \in Controllers, CreateLost(c)
    PROVE  LET w == work[c]
               x == work'[c]
           IN  /\ Spend("createError") /\ UNCHANGED <<api, cache, performed, executions>>
               /\ w.pc = "SandboxReady" /\ w.pc \in Writing /\ OthersStay(c)
               /\ x.pc = "markFailed" /\ x.pc \in Writing /\ x.run = w.run
               /\ x.obj.rv = w.obj.rv /\ Extends(x.obj, w.obj)
               /\ w.obj.sandbox = NoSandbox /\ x.obj.sandbox = NoSandbox
               /\ x.obj.usage = w.obj.usage
               /\ \E s \in Sandboxes :
                    /\ sandboxes[s].state = "free" /\ sandboxes'[s].state = "live"
                    /\ sandboxes[s].owner = NoRun /\ sandboxes'[s].owner = w.run
                    /\ sandboxes'[s].stragglers = sandboxes[s].stragglers
                    /\ \A t \in Sandboxes \ {s} : sandboxes'[t] = sandboxes[t]
<1>1. /\ sandboxes \in [Sandboxes -> SandboxStates]
      /\ TypeInv /\ WorkInv /\ ObjectsConsistent /\ CallsConsistent /\ FreeUnowned
  BY BaseParts, TypeInvParts DEF OthersInv
<1>2. /\ Spend("createError") /\ UNCHANGED <<api, cache, performed, executions>>
      /\ work[c].pc = "SandboxReady" /\ work[c].obj.sandbox = NoSandbox /\ Fail(c)
  BY DEF CreateLost
<1>3. work[c].pc \in Writing /\ work[c].pc # "idle"
  BY <1>2, DependentsAre DEF Writing, Points
<1>4. /\ work'[c].run = work[c].run /\ work'[c].obj.rv = work[c].obj.rv
      /\ Extends(work'[c].obj, work[c].obj) /\ OthersStay(c)
  BY <1>1, <1>2, <1>3, FailGrows DEF CallGrows, OthersStay
<1>5. work'[c].pc = "markFailed" /\ work'[c].obj.sandbox = work[c].obj.sandbox
  BY <1>1, AbortStep DEF Moved
<1>6. work'[c].obj.usage = work[c].obj.usage
  <2>1. PICK f : f = MarkFailedObject(work[c].obj)
    OBVIOUS
  <2>2. work'[c].obj = f
    BY <1>1, <1>2, <2>1, GotoMoves DEF Fail, Moved
  <2>3. work[c].obj \in Objects
    BY <1>3, CallIs
  <2>4. QED
    BY <2>1, <2>2, <2>3 DEF MarkFailedObject, Objects
<1>7. PICK q : q = work[c].run
  OBVIOUS
<1>8. PICK s \in Sandboxes :
        /\ sandboxes[s].state = "free"
        /\ sandboxes' = [sandboxes EXCEPT ![s].state = "live", ![s].owner = q]
  BY <1>7 DEF CreateLost
<1>9. /\ sandboxes'[s].state = "live" /\ sandboxes'[s].owner = q
      /\ sandboxes'[s].stragglers = sandboxes[s].stragglers
      /\ \A t \in Sandboxes \ {s} : sandboxes'[t] = sandboxes[t]
  BY <1>1, <1>8 DEF SandboxStates
<1>10. sandboxes[s].owner = NoRun
  BY <1>1, <1>8 DEF FreeUnowned
<1>11. work'[c].pc \in Writing
  BY <1>5 DEF Writing, Points
<1>12. QED
  BY <1>2, <1>3, <1>4, <1>5, <1>6, <1>7, <1>8, <1>9, <1>10, <1>11

\* An attempt of Run that is made again: nothing is written.
LEMMA RetryKeeps ==
    ASSUME NEW c \in Controllers, RetryRun(c)
    PROVE  /\ UNCHANGED <<api, cache, work, performed, executions>> /\ Spend("retry")
           /\ work[c].pc = "agent-run" /\ Reachable(work[c].obj.sandbox)
           /\ Abandon(work[c].obj.sandbox)
BY DEF RetryRun

\* A call that has just started.
LEMMA StartedCall ==
    ASSUME BaseInv, NEW c \in Controllers, NEW r \in Runs, Started(c, r)
    PROVE  LET x == work'[c]
               o == cache[c][r]
           IN  /\ x.pc \in Dependents /\ x.pc \in Writing /\ x.run = r /\ x.obj = o
               /\ InPhaseCopy(o, x.pc) /\ o.life = "alive" /\ o \in Objects
               /\ Consistent(o) /\ ~ IsTerminal(o.cond) /\ o.audit = <<>>
               /\ o.rv <= api[r].rv /\ (o.rv = api[r].rv => o = api[r])
<1> DEFINE o == cache[c][r]
           p == GetCurrentPhase(o.cond)
           call == [Idle EXCEPT !.pc = p, !.run = r, !.obj = o]
<1>1. /\ o \in Objects /\ Consistent(o) /\ ~ IsTerminal(o.cond) /\ o.life = "alive"
      /\ work'[c] = call
  BY BaseParts, TypeInvParts DEF Started, Fetched, CacheInv, ObjectsConsistent
<1>2. p \in Dependents /\ InPhaseCopy(o, p) /\ o.audit = <<>>
  BY <1>1, FetchedCopy
<1>3. call.pc = p /\ call.run = r /\ call.obj = o
  BY DEF Idle
<1>4. o.rv <= api[r].rv /\ (o.rv = api[r].rv => o = api[r])
  BY BaseParts DEF CacheVersioned
<1> HIDE DEF call, p
<1>5. p \in Writing
  BY <1>2, DependentsAre DEF Writing, Points
<1>6. QED
  BY <1>1, <1>2, <1>3, <1>4, <1>5

\* What an update writes.
LEMMA WrittenObject ==
    ASSUME BaseInv, NEW c \in Controllers, Written(c)
    PROVE  LET w == work[c]
               o == api'[w.run]
           IN  /\ w.run \in Runs /\ w.pc \in Writing /\ Bumped(w.run)
               /\ w.obj.rv = api[w.run].rv /\ api[w.run].life = "alive" /\ o.life = "alive"
               /\ o.cond = w.obj.cond /\ o.sandbox = w.obj.sandbox
               /\ o.usage = w.obj.usage /\ o.audit = w.obj.audit
               /\ Extends(w.obj, api[w.run]) /\ ~ IsTerminal(api[w.run].cond)
<1>1. /\ work[c].run \in Runs /\ Bumped(work[c].run) /\ work[c].pc \in Writing
      /\ api'[work[c].run] = NewVersion(work[c].obj)
      /\ work[c].obj.rv = api[work[c].run].rv /\ api[work[c].run].life = "alive"
  BY DEF Written, Alive, Writing, Points
<1>2. work[c].obj \in Objects /\ work[c].obj.life = "alive"
  BY <1>1, CallIs DEF Writing
<1>3. PICK o : o = NewVersion(work[c].obj)
  OBVIOUS
<1>4. /\ o.life = "alive" /\ o.cond = work[c].obj.cond /\ o.sandbox = work[c].obj.sandbox
      /\ o.usage = work[c].obj.usage /\ o.audit = work[c].obj.audit
  BY <1>2, <1>3 DEF NewVersion, Objects
<1>5. Extends(work[c].obj, api[work[c].run]) /\ ~ IsTerminal(api[work[c].run].cond)
  BY <1>1, BaseParts DEF CallsVersioned, CurrentCall
<1>6. QED
  BY <1>1, <1>3, <1>4, <1>5

LEMMA IdleIs == Idle.pc = "idle" /\ Idle.pc \notin Writing
BY DEF Idle, Writing

LEMMA BaseInit == Init => BaseInv
<1> SUFFICES ASSUME Init PROVE BaseInv
  OBVIOUS
<1>1. SandboxesOwned
  BY DEF Init, SandboxesOwned, BoxOf, Unborn, Idle, Writing, InSandbox
<1>2. CopiesAreOfRuns /\ CleanupOwned
  BY IdleIs DEF Init, CopiesAreOfRuns, CleanupOwned, CleanupIsOwn, Calls, Unborn, Idle
<1>3. QED
  BY <1>1, <1>2, StatusInit DEF BaseInv

LEMMA CopiesOfRunsStep ==
    ASSUME BaseInv, TypeInv', [Next]_vars PROVE CopiesAreOfRuns'
<1>1. /\ \A c \in Controllers, r \in Runs : cache[c][r].life # "unborn" => api[r].life # "unborn"
      /\ \A c \in Controllers, r \in Runs : Calls(c, r) =>
           /\ api[r].life # "unborn"
           /\ work[c].obj.rv = api[r].rv => api[r].life = "alive"
  BY DEF BaseInv, CopiesAreOfRuns, Alive
<1>2. \A c \in Controllers, r \in Runs : Calls(c, r) =>
        work[c].obj.rv \in Nat /\ api[r].rv \in Nat /\ work[c].obj.rv <= api[r].rv
  <2> SUFFICES ASSUME NEW c \in Controllers, NEW r \in Runs, Calls(c, r)
               PROVE  work[c].obj.rv \in Nat /\ api[r].rv \in Nat /\ work[c].obj.rv <= api[r].rv
    OBVIOUS
  <2>1. work[c].pc # "idle" /\ work[c].pc \in Writing /\ work[c].run = r
    BY DEF Calls, Writing
  <2>2. QED
    BY <2>1, CallIs
<1>3. \A r \in Runs : api'[r].rv \in Nat
  BY DEF TypeInv, TypeOK, Objects
\* A run that is there does not become unborn, and a new version outdates all copies.
<1>4. ASSUME NEW r \in Runs, Bumped(r), api'[r].life # "unborn",
             UNCHANGED cache,
             \A d \in Controllers : work'[d] = work[d] \/ work'[d].pc \notin Writing
      PROVE  CopiesAreOfRuns'
  <2>1. \A c \in Controllers, q \in Runs : cache'[c][q].life # "unborn" => api'[q].life # "unborn"
    BY <1>1, <1>4 DEF Bumped
  <2>2. ASSUME NEW d \in Controllers, NEW q \in Runs, work'[d].pc \in Writing, work'[d].run = q
        PROVE  /\ api'[q].life # "unborn"
               /\ work'[d].obj.rv = api'[q].rv => api'[q].life = "alive"
    <3>1. work'[d] = work[d] /\ Calls(d, q)
      BY <1>4, <2>2 DEF Calls
    <3>2. CASE q = r
      BY <1>2, <1>3, <1>4, <3>1, <3>2 DEF Bumped
    <3>3. CASE q # r
      BY <1>1, <1>4, <3>1, <3>3 DEF Bumped
    <3>4. QED
      BY <3>2, <3>3
  <2>3. QED
    BY <2>1, <2>2 DEF CopiesAreOfRuns, Calls, Alive
<1>5. ASSUME api' = api,
             \A d \in Controllers, q \in Runs : cache'[d][q] \in {cache[d][q], api[q]},
             \A d \in Controllers : work'[d] = work[d] \/ work'[d].pc \notin Writing
      PROVE  CopiesAreOfRuns'
  BY <1>1, <1>5 DEF CopiesAreOfRuns, Calls, Alive
<1>6. CASE \/ Quiet \/ \E s \in Sandboxes : StragglerEnds(s)
           \/ \E c \in Controllers : RetryRun(c)
  BY <1>5, <1>6, RetryKeeps DEF Quiet, StragglerEnds
<1>7. ASSUME NEW r \in Runs, Created(r) \/ Edited(r) \/ Deleted(r) PROVE CopiesAreOfRuns'
  BY <1>4, <1>7 DEF Created, Edited, Deleted, Kept
<1>8. ASSUME NEW c \in Controllers, Crashed(c) \/ Destroyed(c) PROVE CopiesAreOfRuns'
  BY <1>5, <1>8, IdleIs DEF Crashed, Destroyed, OthersStay
<1>9. ASSUME NEW c \in Controllers, Updated(c) PROVE CopiesAreOfRuns'
  <2>1. cache' = cache /\ \A d \in Controllers : work'[d] = work[d] \/ work'[d].pc \notin Writing
    BY <1>9, IdleIs DEF Updated, OthersStay, Writing
  <2>2. CASE api' = api
    BY <1>5, <2>1, <2>2
  <2>3. CASE Written(c)
    BY <1>4, <2>1, <2>3, WrittenObject
  <2>4. QED
    BY <1>9, <2>2, <2>3 DEF Updated
<1>10. ASSUME NEW c \in Controllers, NEW r \in Runs, Started(c, r) PROVE CopiesAreOfRuns'
  <2>1. api' = api /\ cache' = cache /\ OthersStay(c)
    BY <1>10 DEF Started, Fetched
  <2>2. /\ work'[c].run = r /\ work'[c].obj = cache[c][r] /\ cache[c][r].life = "alive"
        /\ cache[c][r].rv = api[r].rv => cache[c][r] = api[r]
    BY <1>10, StartedCall
  <2>3. QED
    BY <1>1, <2>1, <2>2 DEF CopiesAreOfRuns, Calls, Alive, OthersStay
<1>11. ASSUME NEW c \in Controllers, Phase(c) \/ CreateLost(c) PROVE CopiesAreOfRuns'
  <2>1. /\ api' = api /\ cache' = cache /\ OthersStay(c)
        /\ work[c].pc \in Writing /\ work'[c].run = work[c].run /\ work'[c].obj.rv = work[c].obj.rv
    BY <1>11, PhaseCall, LostCreateIs
  <2>2. QED
    BY <1>1, <2>1 DEF CopiesAreOfRuns, Calls, Alive, OthersStay
<1>12. QED
  BY <1>6, <1>7, <1>8, <1>9, <1>10, <1>11, StepCosts, BaseParts

LEMMA CleanupStep ==
    ASSUME BaseInv, [Next]_vars PROVE CleanupOwned'
<1>1. SUFFICES ASSUME NEW d \in Controllers, work'[d].pc = "destroySandbox"
               PROVE  CleanupIsOwn(d)'
  BY DEF CleanupOwned, CleanupIsOwn
<1>2. ASSUME work[d].pc # "idle", work'[d].run = work[d].run,
             work'[d].obj.sandbox = work[d].obj.sandbox
      PROVE  CleanupIsOwn(d)'
  <2>1. PICK r \in Runs, s \in Sandboxes \cup {NoSandbox} :
          r = work[d].run /\ s = work[d].obj.sandbox /\ BoxOf(r, s)
    BY <1>2, CallIs
  <2>2. BoxOf(r, s)'
    BY <2>1, BaseParts, OwnedStaysOwned DEF BaseInv
  <2>3. QED
    BY <1>2, <2>1, <2>2 DEF BoxOf, CleanupIsOwn
<1>3. work'[d] = work[d] => work[d].pc # "idle"
  BY <1>1
<1>4. ASSUME NEW c \in Controllers, Updated(c) PROVE CleanupIsOwn(d)'
  <2>1. CASE d = c
    BY <1>1, <1>2, <1>4, <2>1, IdleIs DEF Updated
  <2>2. CASE d # c
    BY <1>2, <1>3, <1>4, <2>2 DEF Updated, OthersStay
  <2>3. QED
    BY <2>1, <2>2
<1>5. ASSUME NEW c \in Controllers,
             \/ Crashed(c) \/ Destroyed(c) \/ CreateLost(c) \/ Phase(c)
             \/ \E r \in Runs : Started(c, r)
      PROVE  CleanupIsOwn(d)'
  <2>1. OthersStay(c) /\ work'[c].pc # "destroySandbox"
    BY <1>5, IdleIs, PhaseCall, LostCreateIs, StartedCall, DependentsAre
       DEF Crashed, Destroyed, Started, Fetched
  <2>2. QED
    BY <1>1, <1>2, <1>3, <2>1 DEF OthersStay
<1>6. work' = work => CleanupIsOwn(d)'
  BY <1>2, <1>3
<1>7. QED
  BY <1>4, <1>5, <1>6, StepCosts, BaseParts, RetryKeeps
     DEF Quiet, Created, Edited, Deleted, StragglerEnds

LEMMA BaseStep == BaseInv /\ [Next]_vars => BaseInv'
<1> SUFFICES ASSUME BaseInv, [Next]_vars PROVE BaseInv'
  OBVIOUS
<1>1. StatusInv' /\ SandboxesOwned'
  BY StatusStep, OwnedStep DEF BaseInv
<1>2. TypeInv'
  BY <1>1 DEF StatusInv, VersionInv
<1>3. QED
  BY <1>1, <1>2, CopiesOfRunsStep, CleanupStep DEF BaseInv

-----------------------------------------------------------------------------
\* Without conflicts a run keeps its sandbox

\* No sandbox is handed out or destroyed.
BoxesKept ==
    \A s \in Sandboxes :
        sandboxes'[s].state = sandboxes[s].state /\ sandboxes'[s].owner = sandboxes[s].owner

LEMMA AbandonIs ==
    ASSUME TypeInv, NEW s, Reachable(s), Abandon(s)
    PROVE  /\ BoxesKept /\ s \in Sandboxes
           /\ sandboxes'[s].stragglers = sandboxes[s].stragglers + 1
           /\ sandboxes'[s].result = sandboxes[s].result
           /\ \A t \in Sandboxes \ {s} : sandboxes'[t] = sandboxes[t]
<1>1. sandboxes \in [Sandboxes -> SandboxStates] /\ s \in Sandboxes
  BY TypeInvParts DEF OthersInv, Reachable
<1>2. PICK n : n = sandboxes[s].stragglers + 1
  OBVIOUS
<1>3. sandboxes' = [sandboxes EXCEPT ![s].stragglers = n]
  BY <1>2 DEF Abandon
<1>4. QED
  BY <1>1, <1>2, <1>3 DEF SandboxStates, BoxesKept

LEMMA RetryIs ==
    ASSUME TypeInv, NEW c \in Controllers, RetryRun(c)
    PROVE  /\ BoxesKept /\ Spend("retry") /\ work[c].pc = "agent-run"
           /\ UNCHANGED <<api, cache, work, performed, executions>>
           /\ \E s \in Sandboxes :
                /\ s = work[c].obj.sandbox /\ sandboxes[s].state = "live"
                /\ sandboxes'[s].stragglers = sandboxes[s].stragglers + 1
                /\ \A t \in Sandboxes \ {s} : sandboxes'[t] = sandboxes[t]
<1>1. PICK s \in Sandboxes :
        s = work[c].obj.sandbox /\ sandboxes[s].state = "live" /\ Reachable(s) /\ Abandon(s)
  BY RetryKeeps DEF Reachable
<1>2. /\ BoxesKept /\ sandboxes'[s].stragglers = sandboxes[s].stragglers + 1
      /\ \A t \in Sandboxes \ {s} : sandboxes'[t] = sandboxes[t]
  BY <1>1, AbandonIs
<1>3. QED
  BY <1>1, <1>2, RetryKeeps

LEMMA StragglerIs ==
    ASSUME TypeInv, NEW s \in Sandboxes, StragglerEnds(s)
    PROVE  /\ BoxesKept /\ Reachable(s) /\ sandboxes[s].stragglers > 0
           /\ sandboxes'[s].stragglers = sandboxes[s].stragglers - 1
           /\ \A t \in Sandboxes \ {s} : sandboxes'[t] = sandboxes[t]
           /\ executions' = [executions EXCEPT ![sandboxes[s].owner] = @ + 1]
           /\ UNCHANGED <<api, cache, work, performed, faults>>
<1>1. sandboxes \in [Sandboxes -> SandboxStates]
  BY TypeInvParts DEF OthersInv
<1>2. PICK n, res : /\ n = sandboxes[s].stragglers - 1
                    /\ sandboxes' = [sandboxes EXCEPT ![s].result = res, ![s].stragglers = n]
  BY DEF StragglerEnds
<1>3. /\ BoxesKept /\ sandboxes'[s].stragglers = sandboxes[s].stragglers - 1
      /\ \A t \in Sandboxes \ {s} : sandboxes'[t] = sandboxes[t]
  BY <1>1, <1>2 DEF SandboxStates, BoxesKept
<1>4. QED
  BY <1>3 DEF StragglerEnds

LEMMA DestroyIs ==
    ASSUME TypeInv, NEW s \in Sandboxes,
           sandboxes' = [sandboxes EXCEPT ![s].state = "destroyed"]
    PROVE  /\ sandboxes'[s].state = "destroyed"
           /\ \A t \in Sandboxes : /\ sandboxes'[t].owner = sandboxes[t].owner
                                   /\ sandboxes'[t].stragglers = sandboxes[t].stragglers
                                   /\ sandboxes'[t].result = sandboxes[t].result
           /\ \A t \in Sandboxes \ {s} : sandboxes'[t] = sandboxes[t]
<1>1. sandboxes \in [Sandboxes -> SandboxStates]
  BY TypeInvParts DEF OthersInv
<1>2. QED
  BY <1>1 DEF SandboxStates

\* The first phase takes a free sandbox for its run; the others leave it to its
\* owner.
LEMMA FirstPhaseIs ==
    ASSUME BaseInv, NEW c \in Controllers, ReconcileSandbox(c)
    PROVE  \E s \in Sandboxes :
             /\ sandboxes[s].state = "free" /\ sandboxes'[s].state = "live"
             /\ sandboxes[s].owner = NoRun /\ sandboxes'[s].owner = work[c].run
             /\ sandboxes'[s].stragglers = sandboxes[s].stragglers
             /\ \A t \in Sandboxes \ {s} : sandboxes'[t] = sandboxes[t]
             /\ work[c].pc = "SandboxReady" /\ work'[c].pc = "UpdateStatus"
             /\ work'[c].obj.sandbox = s /\ work[c].obj.sandbox = NoSandbox
<1>1. /\ sandboxes \in [Sandboxes -> SandboxStates]
      /\ TypeInv /\ ObjectsConsistent /\ CallsConsistent /\ FreeUnowned
  BY BaseParts, TypeInvParts DEF OthersInv
<1>2. PICK s \in Sandboxes :
        /\ sandboxes[s].state = "free" /\ work'[c].obj.sandbox = s
        /\ sandboxes' = [sandboxes EXCEPT ![s].state = "live", ![s].owner = work[c].run]
        /\ work'[c].pc = "UpdateStatus"
  BY <1>1, SandboxStep DEF Moved
<1>3. PICK q : q = work[c].run
  OBVIOUS
<1>4. sandboxes' = [sandboxes EXCEPT ![s].state = "live", ![s].owner = q]
  BY <1>2, <1>3
<1>5. /\ sandboxes'[s].state = "live" /\ sandboxes'[s].owner = q
      /\ sandboxes'[s].stragglers = sandboxes[s].stragglers
      /\ \A t \in Sandboxes \ {s} : sandboxes'[t] = sandboxes[t]
  BY <1>1, <1>4 DEF SandboxStates
<1>6. work[c].pc = "SandboxReady"
  BY DEF ReconcileSandbox
<1>7. work[c].pc \in Working /\ PhaseOf(work[c].pc) = "SandboxReady"
  BY <1>6, DependentsAre DEF Working, PhaseOf
<1>8. work[c].obj.sandbox = NoSandbox
  BY <1>1, <1>7, WorkingCall DEF InPhaseCopy
<1>9. sandboxes[s].owner = NoRun
  BY <1>1, <1>2 DEF FreeUnowned
<1>10. QED
  BY <1>2, <1>3, <1>5, <1>6, <1>8, <1>9

LEMMA LaterPhasesKeep ==
    ASSUME BaseInv, NEW c \in Controllers, Phase(c), ~ ReconcileSandbox(c)
    PROVE  BoxesKept
<1>1. sandboxes \in [Sandboxes -> SandboxStates] /\ TypeInv
  BY BaseParts, TypeInvParts DEF OthersInv
<1>2. sandboxes' = sandboxes => BoxesKept
  BY DEF BoxesKept
<1>3. CASE PrepareAgent(c)
  <2>1. PICK cloned, s : sandboxes' = [sandboxes EXCEPT ![s].cloned = cloned]
    BY <1>3 DEF PrepareAgent
  <2>2. QED
    BY <1>1, <2>1 DEF SandboxStates, BoxesKept
<1>4. CASE RunAgent(c)
  <2>1. PICK res, s : sandboxes' = [sandboxes EXCEPT ![s].result = res]
    BY <1>4 DEF RunAgent
  <2>2. QED
    BY <1>1, <2>1 DEF SandboxStates, BoxesKept
<1>5. CASE LoseAgent(c)
  BY <1>1, <1>5, AbandonIs DEF LoseAgent
<1>6. QED
  BY <1>2, <1>3, <1>4, <1>5 DEF Phase, PhaseError, ReconcileResults, ReconcileActions,
                                ExecuteAction, FinishExecute

\* The parts of KeepInv.
RunKept(r) == Going(r) /\ api[r].sandbox # NoSandbox => Live(api[r].sandbox)

CallKept(c, r) ==
    Calls(c, r) =>
        /\ work[c].obj.rv = api[r].rv \/ api[r].life = "deleted"
        /\ work[c].obj.sandbox # NoSandbox => Live(work[c].obj.sandbox)

CleanupKept(c) ==
    work[c].pc = "destroySandbox" => api[work[c].run].life # "unborn" /\ ~ Going(work[c].run)

LEMMA KeepParts ==
    KeepInv <=> /\ \A r \in Runs : RunKept(r)
                /\ \A c \in Controllers, r \in Runs : CallKept(c, r)
                /\ \A c \in Controllers : CleanupKept(c)
BY DEF KeepInv, RunKept, CallKept, CleanupKept

LEMMA KeepStep ==
    ASSUME OneController, NoConflicts, BaseInv, KeepInv, [Next]_vars PROVE KeepInv'
<1>1. /\ \A r \in Runs : RunKept(r)
      /\ \A c \in Controllers, r \in Runs : CallKept(c, r)
      /\ \A c \in Controllers : CleanupKept(c)
  BY KeepParts
<1>2. /\ TypeInv /\ api \in [Runs -> Objects]
      /\ \A r \in Runs : api[r].sandbox \in Sandboxes \cup {NoSandbox}
  BY BaseParts, TypeInvParts DEF ApiInv, Objects
<1>3. \A k \in {"updateError", "edit", "staleRead"} : ~ Spend(k)
  <2>1. \A k \in FaultKinds : faults[k] \in Nat
    BY <1>2, TypeInvParts DEF OthersInv
  <2>2. QED
    BY <2>1 DEF NoConflicts, Spend, FaultKinds
<1>4. \A c \in Controllers, r \in Runs : Calls(c, r) =>
         /\ api[r].life # "unborn"
         /\ work[c].obj.rv = api[r].rv => Alive(r)
         /\ work[c].obj.sandbox \in Sandboxes \cup {NoSandbox}
  <2>1. \A c \in Controllers, r \in Runs : Calls(c, r) => work[c].pc # "idle"
    BY DEF Calls, Writing
  <2>2. QED
    BY <2>1, CallIs DEF BaseInv, CopiesAreOfRuns
\* Nothing happens to the objects and to the sandboxes.
<1>5. ASSUME api' = api, BoxesKept,
             \A c \in Controllers : work'[c] = work[c] \/ work'[c] = Idle
      PROVE  KeepInv'
  <2>1. ASSUME NEW r \in Runs PROVE RunKept(r)'
    BY <1>1, <1>2, <1>5, <2>1 DEF RunKept, Going, Alive, Terminal, Live, BoxesKept
  <2>2. ASSUME NEW c \in Controllers, NEW r \in Runs PROVE CallKept(c, r)'
    BY <1>1, <1>4, <1>5, <2>2, IdleIs DEF CallKept, Calls, Live, BoxesKept
  <2>3. ASSUME NEW c \in Controllers PROVE CleanupKept(c)'
    BY <1>1, <1>5, <2>3, IdleIs DEF CleanupKept, Going, Alive, Terminal
  <2>4. QED
    BY <2>1, <2>2, <2>3, KeepParts DEF KeepInv, RunKept, CallKept, CleanupKept
<1>6. CASE Quiet
  BY <1>5, <1>6 DEF Quiet, BackendStays, BoxesKept
<1>7. ASSUME NEW s \in Sandboxes, StragglerEnds(s) PROVE KeepInv'
  BY <1>2, <1>5, <1>7, StragglerIs
<1>8. ASSUME NEW c \in Controllers, Crashed(c) PROVE KeepInv'
  <2>1. BoxesKept
    BY <1>2, <1>8, AbandonIs DEF Crashed, BoxesKept
  <2>2. QED
    BY <1>5, <1>8, <2>1 DEF Crashed, OthersStay
<1>9. ASSUME NEW r \in Runs, Created(r) PROVE KeepInv'
  <2>1. /\ work' = work /\ sandboxes' = sandboxes
        /\ api'[r].sandbox = api[r].sandbox /\ api[r].life = "unborn"
        /\ \A q \in Runs \ {r} : api'[q] = api[q]
    BY <1>9 DEF Created, Kept, Bumped, BackendStays, StatusOf
  <2>2. api[r].sandbox = NoSandbox
    <3>1. InPhase(api[r].cond, "SandboxReady") /\ FieldsConsistent(api[r])
      BY <2>1, BaseParts DEF ObjectsConsistent, UnbornHasNoStatus, Consistent
    <3>2. api[r].cond["SandboxReady"] # "True"
      BY <3>1, ConditionsAre DEF InPhase, Before
    <3>3. QED
      BY <3>1, <3>2 DEF FieldsConsistent
  <2>3. ASSUME NEW q \in Runs PROVE RunKept(q)'
    BY <1>1, <2>1, <2>2, <2>3 DEF RunKept, Going, Alive, Terminal, Live
  <2>4. ASSUME NEW c \in Controllers, NEW q \in Runs PROVE CallKept(c, q)'
    BY <1>1, <1>4, <2>1, <2>4 DEF CallKept, Calls, Live
  <2>5. ASSUME NEW c \in Controllers PROVE CleanupKept(c)'
    <3>1. work[c].pc = "destroySandbox" => work[c].run \in Runs
      BY CallIs
    <3>2. QED
      BY <1>1, <2>1, <2>5, <3>1 DEF CleanupKept, Going, Alive, Terminal
  <2>6. QED
    BY <2>3, <2>4, <2>5 DEF KeepInv, RunKept, CallKept, CleanupKept
<1>10. ASSUME NEW r \in Runs, Deleted(r) PROVE KeepInv'
  <2>1. /\ work' = work /\ sandboxes' = sandboxes /\ api'[r].life = "deleted"
        /\ \A q \in Runs \ {r} : api'[q] = api[q]
    BY <1>10 DEF Deleted, Kept, Bumped, BackendStays
  <2>2. ASSUME NEW q \in Runs PROVE RunKept(q)'
    BY <1>1, <2>1, <2>2 DEF RunKept, Going, Alive, Terminal, Live
  <2>3. ASSUME NEW c \in Controllers, NEW q \in Runs PROVE CallKept(c, q)'
    BY <1>1, <2>1, <2>3 DEF CallKept, Calls, Live
  <2>4. ASSUME NEW c \in Controllers PROVE CleanupKept(c)'
    <3>1. work[c].pc = "destroySandbox" => work[c].run \in Runs
      BY CallIs
    <3>2. QED
      BY <1>1, <2>1, <2>4, <3>1 DEF CleanupKept, Going, Alive, Terminal
  <2>5. QED
    BY <2>2, <2>3, <2>4 DEF KeepInv, RunKept, CallKept, CleanupKept
<1>11. ASSUME NEW r \in Runs, Edited(r) PROVE KeepInv'
  BY <1>3, <1>11 DEF Edited
\* An update is accepted, or its run was deleted.
<1>12. ASSUME NEW c \in Controllers, Updated(c) PROVE KeepInv'
  <2> DEFINE w == work[c]
  <2>1. /\ w.pc \in {"UpdateStatus", "markFailed"} /\ sandboxes' = sandboxes
        /\ Written(c) \/ (api' = api /\ ~ Accepted(c))
        /\ \/ work'[c] = Idle
           \/ /\ work'[c].pc = "destroySandbox" /\ work'[c].run = w.run
              /\ w.pc = "markFailed" \/ (Written(c) /\ IsTerminal(w.obj.cond))
    BY <1>3, <1>12 DEF Updated, BackendStays
  <2>2. PICK r \in Runs : r = w.run /\ Calls(c, r) /\ w.pc # "idle"
    BY <2>1, CallIs DEF Calls, Writing, Points
  <2>3. \A d \in Controllers : d = c
    BY DEF OneController
  <2>4. work'[c].pc \notin Writing
    BY <2>1, IdleIs DEF Writing
  <2>5. ASSUME NEW d \in Controllers, NEW q \in Runs PROVE CallKept(d, q)'
    BY <2>3, <2>4, <2>5 DEF CallKept, Calls
  <2>6. CASE Written(c)
    <3>1. /\ Bumped(r) /\ w.obj.rv = api[r].rv /\ api'[r].life = "alive"
          /\ api'[r].cond = w.obj.cond /\ api'[r].sandbox = w.obj.sandbox
      BY <2>2, <2>6, WrittenObject
    <3>2. ASSUME NEW q \in Runs PROVE RunKept(q)'
      <4>1. CASE q = r
        BY <1>1, <2>1, <2>2, <3>1, <4>1 DEF RunKept, CallKept, Live
      <4>2. CASE q # r
        BY <1>1, <2>1, <3>1, <4>2 DEF RunKept, Going, Alive, Terminal, Live, Bumped
      <4>3. QED
        BY <4>1, <4>2
    <3>3. w.pc = "markFailed" => IsTerminal(w.obj.cond)
      <4>1. CallFollows(w, api[r]) /\ w.obj.cond \in Conditions
        BY <2>2, BaseParts, CallIs DEF CallsConsistent, Objects
      <4>2. QED
        BY <3>1, <4>1, OverIs DEF CallFollows
    <3>4. CleanupKept(c)'
      BY <2>1, <2>2, <3>1, <3>3, IdleIs DEF CleanupKept, Going, Alive, Terminal
    <3>5. QED
      BY <2>3, <2>5, <3>2, <3>4 DEF KeepInv, RunKept, CallKept, CleanupKept
  <2>7. CASE api' = api /\ ~ Accepted(c)
    <3>1. api[r].life = "deleted"
      BY <1>1, <1>4, <2>2, <2>7 DEF CallKept, Accepted, Alive
    <3>2. ASSUME NEW q \in Runs PROVE RunKept(q)'
      BY <1>1, <2>1, <2>7, <3>2 DEF RunKept, Going, Alive, Terminal, Live
    <3>3. CleanupKept(c)'
      BY <2>1, <2>2, <2>7, <3>1, IdleIs DEF CleanupKept, Going, Alive, Terminal
    <3>4. QED
      BY <2>3, <2>5, <3>2, <3>3 DEF KeepInv, RunKept, CallKept, CleanupKept
  <2>8. QED
    BY <2>1, <2>6, <2>7
\* The sandbox that is destroyed is that of a run that is over or gone.
<1>13. ASSUME NEW c \in Controllers, Destroyed(c) PROVE KeepInv'
  <2>1. /\ work[c].pc = "destroySandbox" /\ api' = api
        /\ \A d \in Controllers : work'[d] = work[d] \/ work'[d] = Idle
    BY <1>13 DEF Destroyed, OthersStay
  <2>2. CASE sandboxes' = sandboxes
    BY <1>5, <2>1, <2>2 DEF BoxesKept
  <2>3. CASE /\ Reachable(work[c].obj.sandbox)
             /\ sandboxes' = [sandboxes EXCEPT ![work[c].obj.sandbox].state = "destroyed"]
    <3>1. PICK s \in Sandboxes, q \in Runs :
            s = work[c].obj.sandbox /\ q = work[c].run /\ BoxOf(q, s)
      BY <2>1, <2>3, CallIs DEF Reachable
    <3>2. ~ Going(q) /\ sandboxes[s].owner = q /\ s # NoSandbox
      BY <1>1, <2>1, <3>1, ConstantsAssumption DEF CleanupKept, BoxOf
    <3>3. \A t \in Sandboxes \ {s} : sandboxes'[t] = sandboxes[t]
      BY <1>2, <2>3, <3>1, DestroyIs
    <3>4. ASSUME NEW r \in Runs PROVE RunKept(r)'
      <4>1. api[r].sandbox = s => r = q
        BY <3>2, BaseParts DEF BoxOf
      <4>2. QED
        BY <1>1, <1>2, <2>1, <3>2, <3>3, <4>1 DEF RunKept, Going, Alive, Terminal, Live
    <3>5. \A d \in Controllers : work'[d] = Idle
      BY <1>13 DEF Destroyed, OneController
    <3>6. QED
      BY <3>4, <3>5, IdleIs DEF KeepInv, RunKept, Calls, Idle
  <2>4. QED
    BY <1>13, <2>2, <2>3 DEF Destroyed
\* A call starts from the object as it is.
<1>14. ASSUME NEW c \in Controllers, NEW r \in Runs, Started(c, r) PROVE KeepInv'
  <2>1. /\ cache[c][r] = api[r] /\ api' = api /\ sandboxes' = sandboxes
        /\ \A d \in Controllers : d = c
    BY <1>3, <1>14 DEF Started, Fetched, BackendStays, OneController
  <2>2. /\ work'[c].pc \in Writing /\ work'[c].run = r /\ work'[c].obj = api[r]
        /\ api[r].life = "alive" /\ ~ IsTerminal(api[r].cond)
    BY <1>14, <2>1, StartedCall
  <2>3. ASSUME NEW q \in Runs PROVE RunKept(q)'
    BY <1>1, <2>1, <2>3 DEF RunKept, Going, Alive, Terminal, Live
  <2>4. ASSUME NEW q \in Runs PROVE CallKept(c, q)'
    BY <1>1, <2>1, <2>2, <2>4 DEF CallKept, Calls, RunKept, Going, Alive, Terminal, Live
  <2>5. CleanupKept(c)'
    BY <2>2 DEF CleanupKept, Writing
  <2>6. QED
    BY <2>1, <2>3, <2>4, <2>5 DEF KeepInv, RunKept, CallKept, CleanupKept
<1>15. ASSUME NEW c \in Controllers, Phase(c) PROVE KeepInv'
  <2>1. /\ api' = api /\ work[c].pc \in Writing /\ work'[c].pc \in Writing
        /\ work'[c].run = work[c].run /\ work'[c].obj.rv = work[c].obj.rv
        /\ ReconcileSandbox(c) \/ work'[c].obj.sandbox = work[c].obj.sandbox
    BY <1>15, PhaseCall
  <2>2. \A d \in Controllers : d = c
    BY DEF OneController
  <2>3. CleanupKept(c)'
    BY <2>1 DEF CleanupKept, Writing
  <2>4. CASE ReconcileSandbox(c)
    <3>1. PICK s \in Sandboxes : /\ sandboxes'[s].state = "live" /\ work'[c].obj.sandbox = s
                                 /\ \A t \in Sandboxes \ {s} : sandboxes'[t] = sandboxes[t]
      BY <2>4, FirstPhaseIs
    <3>2. ASSUME NEW q \in Runs PROVE RunKept(q)'
      BY <1>1, <1>2, <2>1, <3>1, <3>2 DEF RunKept, Going, Alive, Terminal, Live
    <3>3. ASSUME NEW q \in Runs PROVE CallKept(c, q)'
      BY <1>1, <2>1, <3>1, <3>3 DEF CallKept, Calls, Live
    <3>4. QED
      BY <2>2, <2>3, <3>2, <3>3 DEF KeepInv, RunKept, CallKept, CleanupKept
  <2>5. CASE ~ ReconcileSandbox(c)
    <3>1. BoxesKept
      BY <1>15, <2>5, LaterPhasesKeep
    <3>2. ASSUME NEW q \in Runs PROVE RunKept(q)'
      BY <1>1, <1>2, <2>1, <3>1, <3>2 DEF RunKept, Going, Alive, Terminal, Live, BoxesKept
    <3>3. ASSUME NEW q \in Runs PROVE CallKept(c, q)'
      BY <1>1, <1>4, <2>1, <2>5, <3>1, <3>3 DEF CallKept, Calls, Live, BoxesKept
    <3>4. QED
      BY <2>2, <2>3, <3>2, <3>3 DEF KeepInv, RunKept, CallKept, CleanupKept
  <2>6. QED
    BY <2>4, <2>5
\* A call whose Create is lost fails without a sandbox.
<1>16. ASSUME NEW c \in Controllers, CreateLost(c) PROVE KeepInv'
  <2>1. /\ api' = api /\ work[c].pc \in Writing /\ work'[c].pc \in Writing
        /\ work'[c].run = work[c].run /\ work'[c].obj.rv = work[c].obj.rv
        /\ work'[c].obj.sandbox = NoSandbox
    BY <1>16, LostCreateIs
  <2>2. \A d \in Controllers : d = c
    BY DEF OneController
  <2>3. CleanupKept(c)'
    BY <2>1 DEF CleanupKept, Writing
  <2>4. PICK s \in Sandboxes : /\ sandboxes'[s].state = "live"
                               /\ \A t \in Sandboxes \ {s} : sandboxes'[t] = sandboxes[t]
    BY <1>16, LostCreateIs
  <2>5. ASSUME NEW q \in Runs PROVE RunKept(q)'
    BY <1>1, <1>2, <2>1, <2>4, <2>5 DEF RunKept, Going, Alive, Terminal, Live
  <2>6. ASSUME NEW q \in Runs PROVE CallKept(c, q)'
    BY <1>1, <2>1, <2>6 DEF CallKept, Calls
  <2>7. QED
    BY <2>2, <2>3, <2>5, <2>6 DEF KeepInv, RunKept, CallKept, CleanupKept
<1>17. ASSUME NEW c \in Controllers, RetryRun(c) PROVE KeepInv'
  BY <1>2, <1>5, <1>17, RetryIs
<1>18. QED
  BY <1>2, <1>6, <1>7, <1>8, <1>9, <1>10, <1>11, <1>12, <1>13, <1>14, <1>15, <1>16, <1>17, StepCosts

\* A run that is going on has its sandbox: the failure path, which destroys it,
\* is only left with the failure recorded.  Crashes, deletions of objects and
\* failing deletions of sandboxes do not change that; a second controller, an
\* edit, a stale read or a lost answer do.
THEOREM SandboxIsKept ==
    ASSUME OneController, NoConflicts
    PROVE  Spec => []RunKeepsItsSandbox
<1>1. Init => KeepInv
  BY IdleIs DEF Init, KeepInv, Going, Alive, Calls, Unborn, Idle
<1>2. BaseInv /\ KeepInv /\ [Next]_vars => KeepInv'
  BY KeepStep
<1>3. KeepInv => RunKeepsItsSandbox
  BY DEF KeepInv, RunKeepsItsSandbox, Going
<1>4. QED
  BY <1>1, <1>2, <1>3, BaseInit, BaseStep, PTL DEF Spec

-----------------------------------------------------------------------------
\* Every sandbox that is left behind is paid for

\* The faults that do not make a phase be executed again.
OtherFaults == {"destroyError", "delete", "createError", "retry"}

LEMMA PaidIs ==
    ASSUME TypeInv
    PROVE  /\ Reruns \in Nat /\ Paid \in Nat
           /\ faults' = faults => Reruns' = Reruns /\ Paid' = Paid
           /\ \A k \in FaultKinds : Spend(k) =>
                /\ Paid' = IF k = "retry" THEN Paid ELSE Paid + 1
                /\ Reruns' = IF k \in OtherFaults THEN Reruns ELSE Reruns + 1
<1>1. \A k \in FaultKinds : faults[k] \in Nat
  BY TypeInvParts DEF OthersInv
<1>2. Reruns \in Nat /\ Paid \in Nat
  BY <1>1 DEF Reruns, Paid, FaultKinds
<1>3. ASSUME NEW k \in FaultKinds, Spend(k)
      PROVE  /\ Paid' = IF k = "retry" THEN Paid ELSE Paid + 1
             /\ Reruns' = IF k \in OtherFaults THEN Reruns ELSE Reruns + 1
  BY <1>1, <1>3, SpendCosts DEF Reruns, Paid, FaultKinds, OtherFaults
<1>4. faults' = faults => Reruns' = Reruns /\ Paid' = Paid
  BY DEF Reruns, Paid
<1>5. QED
  BY <1>2, <1>3, <1>4

\* A set that grows by one element at most.
LEMMA GrowsByOne ==
    ASSUME NEW L, NEW M, NEW x, IsFiniteSet(L), M \subseteq L \cup {x}
    PROVE  /\ IsFiniteSet(M) /\ Cardinality(M) \in Nat /\ Cardinality(L) \in Nat
           /\ Cardinality(M) <= Cardinality(L) + 1
           /\ M \subseteq L => Cardinality(M) <= Cardinality(L)
<1>1. PICK K : K = L \cup {x}
  OBVIOUS
<1>2. IsFiniteSet(K) /\ Cardinality(K) = IF x \in L THEN Cardinality(L) ELSE Cardinality(L) + 1
  BY <1>1, FS_AddElement
<1>3. Cardinality(L) \in Nat /\ Cardinality(K) \in Nat
  BY <1>2, FS_CardinalityType
<1>4. IsFiniteSet(M) /\ Cardinality(M) <= Cardinality(K)
  <2>1. M \in SUBSET K
    BY <1>1
  <2>2. QED
    BY <1>2, <2>1, FS_Subset
<1>5. Cardinality(M) \in Nat
  BY <1>4, FS_CardinalityType
<1>6. M \subseteq L => Cardinality(M) <= Cardinality(L)
  BY FS_Subset
<1>7. QED
  BY <1>2, <1>3, <1>4, <1>5, <1>6

\* A step costs enough if it leaves nothing behind, if it leaves one sandbox
\* behind that was doomed, or if it is a fault and does one of the two.
LEMMA LeakPaid ==
    ASSUME TypeInv, LeakInv, IdleHoldsNothing', NEW x,
           LeakedSandboxes' \subseteq LeakedSandboxes \cup {x},
           \/ /\ faults' = faults \/ Spend("retry")
              /\ \/ LeakedSandboxes' \subseteq LeakedSandboxes /\ (Doom' => Doom)
                 \/ Doom /\ ~ Doom'
           \/ /\ \E k \in FaultKinds \ {"retry"} : Spend(k)
              /\ LeakedSandboxes' \subseteq LeakedSandboxes \/ (Doom' => Doom)
    PROVE  LeakInv'
<1>1. PICK L : L = LeakedSandboxes
  OBVIOUS
<1>2. PICK M : M = LeakedSandboxes'
  OBVIOUS
<1>3. /\ IsFiniteSet(M) /\ Cardinality(M) \in Nat /\ Cardinality(L) \in Nat
      /\ Cardinality(M) <= Cardinality(L) + 1
      /\ M \subseteq L => Cardinality(M) <= Cardinality(L)
  BY <1>1, <1>2, GrowsByOne DEF LeakInv
<1>4. Cardinality(L) + If1(Doom) <= Paid /\ Paid \in Nat
  BY <1>1, PaidIs DEF LeakInv
<1>5. Cardinality(M) + If1(Doom') <= Paid'
  <2>1. CASE /\ faults' = faults \/ Spend("retry")
             /\ \/ LeakedSandboxes' \subseteq LeakedSandboxes /\ (Doom' => Doom)
                \/ Doom /\ ~ Doom'
    <3>1. Paid' = Paid
      BY <2>1, PaidIs DEF FaultKinds
    <3>2. QED
      BY <1>1, <1>2, <1>3, <1>4, <2>1, <3>1 DEF If1
  <2>2. CASE /\ \E k \in FaultKinds \ {"retry"} : Spend(k)
             /\ LeakedSandboxes' \subseteq LeakedSandboxes \/ (Doom' => Doom)
    <3>1. Paid' = Paid + 1
      BY <2>2, PaidIs
    <3>2. QED
      BY <1>1, <1>2, <1>3, <1>4, <2>2, <3>1 DEF If1
  <2>3. QED
    BY <2>1, <2>2
<1>6. QED
  BY <1>2, <1>3, <1>5 DEF LeakInv, If1

\* Whether s is left behind, by who holds it and who records it.
Holds(c, s) == work[c].obj.sandbox = s
Records(r, s) == Going(r) /\ api[r].sandbox = s

LEMMA LeakedIs ==
    LeakedSandboxes = {s \in Sandboxes : /\ Live(s)
                                         /\ \A c \in Controllers : ~ Holds(c, s)
                                         /\ \A r \in Runs : ~ Records(r, s)}
BY DEF LeakedSandboxes, Leaked, Holds, Records, Going

\* A step leaves at most x behind if nothing but x is created, let go of or
\* crossed out.
LEMMA LeavesBehind ==
    ASSUME NEW x,
           \A s \in Sandboxes \ {x} :
               /\ Live(s)' => Live(s)
               /\ Live(s)' => \A c \in Controllers : Holds(c, s) => \E d \in Controllers : Holds(d, s)'
               /\ Live(s)' => \A r \in Runs : Records(r, s) =>
                    \/ \E d \in Controllers : Holds(d, s)'
                    \/ \E q \in Runs : Records(q, s)'
    PROVE  LeakedSandboxes' \subseteq LeakedSandboxes \cup {x}
<1>1. LeakedSandboxes' = {s \in Sandboxes : /\ Live(s)'
                                            /\ \A c \in Controllers : ~ Holds(c, s)'
                                            /\ \A r \in Runs : ~ Records(r, s)'}
  BY DEF LeakedSandboxes, Leaked, Holds, Records, Going
<1>2. QED
  BY <1>1, LeakedIs

LEMMA IdleStep ==
    ASSUME BaseInv, IdleHoldsNothing, [Next]_vars PROVE IdleHoldsNothing'
<1>1. ASSUME NEW c \in Controllers, OthersStay(c),
             work'[c] = Idle \/ work'[c].pc # "idle"
      PROVE  IdleHoldsNothing'
  <2>1. Idle.obj.sandbox = NoSandbox
    BY DEF Idle, Unborn
  <2>2. QED
    BY <1>1, <2>1 DEF IdleHoldsNothing, OthersStay
<1>2. work' = work => IdleHoldsNothing'
  BY DEF IdleHoldsNothing
<1>3. ASSUME NEW c \in Controllers,
             \/ Crashed(c) \/ Updated(c) \/ Destroyed(c) \/ CreateLost(c) \/ Phase(c)
             \/ \E r \in Runs : Started(c, r)
      PROVE  OthersStay(c) /\ (work'[c] = Idle \/ work'[c].pc # "idle")
  <2>1. ASSUME NEW r \in Runs, Started(c, r) PROVE OthersStay(c) /\ work'[c].pc \in Writing
    <3>1. OthersStay(c)
      BY <2>1 DEF Started, Fetched
    <3>2. QED
      BY <2>1, <3>1, StartedCall
  <2>2. Phase(c) \/ CreateLost(c) => OthersStay(c) /\ work'[c].pc \in Writing
    BY PhaseCall, LostCreateIs
  <2>3. QED
    BY <1>3, <2>1, <2>2 DEF Crashed, Updated, Destroyed, Writing
<1>4. QED
  BY <1>1, <1>2, <1>3, StepCosts, BaseParts, RetryKeeps
     DEF Quiet, Created, Edited, Deleted, StragglerEnds

LEMMA LeakStep ==
    ASSUME OneController, BaseInv, LeakInv, [Next]_vars PROVE LeakInv'
<1> DEFINE L == LeakedSandboxes
<1>1. /\ TypeInv /\ IdleHoldsNothing'
      /\ \A k \in {"crash", "updateError", "destroyError", "edit", "delete", "staleRead",
                   "createError"} : k \in FaultKinds \ {"retry"}
  BY BaseParts, IdleStep DEF LeakInv, FaultKinds
<1>2. \A s \in Sandboxes : s # NoSandbox
  BY ConstantsAssumption
<1>3. \A c, d \in Controllers : c = d
  BY DEF OneController
\* A call that has a current copy of its run holds the sandbox that is recorded.
<1>4. ASSUME NEW c \in Controllers, work[c].pc \in Writing, work[c].obj.rv = api[work[c].run].rv
      PROVE  \A s \in Sandboxes : Records(work[c].run, s) => Holds(c, s)
  BY <1>2, <1>4, BaseParts DEF CallsVersioned, CurrentCall, Extends, Records, Holds
<1>5. ASSUME BoxesKept, api' = api, work' = work
      PROVE  LeakedSandboxes' \subseteq L /\ (Doom' => Doom)
  <2>1. \A s \in Sandboxes : Live(s)' => Live(s)
    BY <1>5 DEF Live, BoxesKept
  <2>2. \A c \in Controllers, s \in Sandboxes : Holds(c, s)' <=> Holds(c, s)
    BY <1>5 DEF Holds
  <2>3. \A r \in Runs, s \in Sandboxes : Records(r, s)' <=> Records(r, s)
    BY <1>5 DEF Records, Going, Alive, Terminal
  <2>4. LeakedSandboxes' \subseteq L \cup {NoSandbox}
    BY <2>1, <2>2, <2>3, LeavesBehind
  <2>5. LeakedSandboxes' \subseteq L
    BY <1>2, <2>4 DEF LeakedSandboxes
  <2>6. QED
    BY <1>5, <2>5 DEF Doom, Doomed, Accepted, Alive
<1>6. CASE Quiet
  <2>1. LeakedSandboxes' \subseteq L /\ (Doom' => Doom)
    BY <1>5, <1>6 DEF Quiet, BackendStays, BoxesKept
  <2>2. QED
    BY <1>1, <1>6, <2>1, LeakPaid DEF Quiet
<1>7. ASSUME NEW s \in Sandboxes, StragglerEnds(s) PROVE LeakInv'
  <2>1. BoxesKept /\ UNCHANGED <<api, work, faults>>
    BY <1>1, <1>7, StragglerIs
  <2>2. QED
    BY <1>1, <1>5, <2>1, LeakPaid
\* A run that is created is not recorded anywhere yet.
<1>8. ASSUME NEW r \in Runs, Created(r) PROVE LeakInv'
  <2>1. /\ UNCHANGED <<work, sandboxes, faults>> /\ api[r].life = "unborn"
        /\ \A q \in Runs \ {r} : api'[q] = api[q]
    BY <1>8 DEF Created, Kept, Bumped, BackendStays
  <2>2. \A s \in Sandboxes : /\ Live(s)' <=> Live(s)
                             /\ \A c \in Controllers : Holds(c, s)' <=> Holds(c, s)
    BY <2>1 DEF Live, Holds
  <2>3. \A q \in Runs, s \in Sandboxes : Records(q, s) => Records(q, s)'
    BY <2>1 DEF Records, Going, Alive, Terminal
  <2>4. LeakedSandboxes' \subseteq L \cup {NoSandbox}
    BY <2>2, <2>3, LeavesBehind
  <2>5. LeakedSandboxes' \subseteq L
    BY <1>2, <2>4 DEF LeakedSandboxes
  <2>6. ASSUME NEW c \in Controllers, Doomed(c)' PROVE Doomed(c)
    <3>1. work[c].pc \in Writing /\ work[c].run \in Runs /\ work[c].run # r
      BY <2>1, <2>6, CallIs DEF Doomed, BaseInv, CopiesAreOfRuns, Calls, Writing
    <3>2. QED
      BY <2>1, <2>6, <3>1 DEF Doomed, Accepted, Alive
  <2>7. QED
    BY <1>1, <2>1, <2>5, <2>6, LeakPaid DEF Doom
<1>9. ASSUME NEW r \in Runs, Edited(r) PROVE LeakInv'
  <2>1. /\ UNCHANGED <<work, sandboxes>> /\ Spend("edit")
        /\ api[r].life = "alive" /\ api'[r].life = "alive" /\ StatusOf(api'[r]) = StatusOf(api[r])
        /\ \A q \in Runs \ {r} : api'[q] = api[q]
    BY <1>9 DEF Edited, Kept, Bumped, BackendStays
  <2>2. \A s \in Sandboxes : /\ Live(s)' <=> Live(s)
                             /\ \A c \in Controllers : Holds(c, s)' <=> Holds(c, s)
    BY <2>1 DEF Live, Holds
  <2>3. \A q \in Runs, s \in Sandboxes : Records(q, s) => Records(q, s)'
    BY <2>1 DEF Records, Going, Alive, Terminal, StatusOf
  <2>4. LeakedSandboxes' \subseteq L \cup {NoSandbox}
    BY <2>2, <2>3, LeavesBehind
  <2>5. LeakedSandboxes' \subseteq L
    BY <1>2, <2>4 DEF LeakedSandboxes
  <2>6. QED
    BY <1>1, <2>1, <2>5, LeakPaid
\* The sandbox of a run that is deleted is left behind, at once or, if the call
\* that works on the run has it, when that call's update is refused.
<1>10. ASSUME NEW r \in Runs, Deleted(r) PROVE LeakInv'
  <2>1. /\ UNCHANGED <<work, sandboxes>> /\ Spend("delete")
        /\ api[r].life = "alive"
        /\ \A q \in Runs \ {r} : api'[q] = api[q]
    BY <1>10 DEF Deleted, Kept, Bumped, BackendStays
  <2>2. \A s \in Sandboxes : /\ Live(s)' <=> Live(s)
                             /\ \A c \in Controllers : Holds(c, s)' <=> Holds(c, s)
    BY <2>1 DEF Live, Holds
  <2>3. \A q \in Runs \ {r}, s \in Sandboxes : Records(q, s) => Records(q, s)'
    BY <2>1 DEF Records, Going, Alive, Terminal
  <2>4. LeakedSandboxes' \subseteq L \cup {api[r].sandbox}
    <3>1. \A s \in Sandboxes \ {api[r].sandbox} : ~ Records(r, s)
      BY DEF Records
    <3>2. QED
      BY <2>2, <2>3, <3>1, LeavesBehind
  <2>5. CASE Doom' => Doom
    BY <1>1, <2>1, <2>4, <2>5, LeakPaid
  <2>6. CASE Doom' /\ ~ Doom
    <3>1. PICK c \in Controllers : Doomed(c)' /\ ~ Doomed(c)
      BY <2>6 DEF Doom
    <3>2. work[c].pc \in Writing /\ Accepted(c) /\ ~ Accepted(c)'
      BY <2>1, <3>1 DEF Doomed
    <3>3. work[c].run = r
      <4>1. work[c].run \in Runs
        BY <3>2, CallIs DEF Writing
      <4>2. QED
        BY <2>1, <3>2, <4>1 DEF Accepted, Alive
    <3>4. \A s \in Sandboxes : Records(r, s) => Holds(c, s)
      BY <1>4, <3>2, <3>3 DEF Accepted
    <3>5. LeakedSandboxes' \subseteq L \cup {NoSandbox}
      BY <2>2, <2>3, <3>4, LeavesBehind
    <3>6. LeakedSandboxes' \subseteq L
      BY <1>2, <3>5 DEF LeakedSandboxes
    <3>7. QED
      BY <1>1, <2>1, <3>6, LeakPaid
  <2>7. QED
    BY <2>5, <2>6
\* A call that is cut short lets go of one sandbox.
<1>11. ASSUME NEW c \in Controllers, Crashed(c) PROVE LeakInv'
  <2>1. api' = api /\ work'[c] = Idle /\ Spend("crash") /\ BoxesKept
    BY <1>1, <1>11, AbandonIs DEF Crashed, BoxesKept
  <2>2. ~ Doom'
    BY <1>3, <2>1, IdleIs DEF Doom, Doomed
  <2>3. \A s \in Sandboxes : (Live(s)' <=> Live(s)) /\ \A r \in Runs : Records(r, s)' <=> Records(r, s)
    BY <2>1 DEF Live, Records, BoxesKept, Going, Alive, Terminal
  <2>4. \A s \in Sandboxes \ {work[c].obj.sandbox}, d \in Controllers : ~ Holds(d, s)
    BY <1>3 DEF Holds
  <2>5. LeakedSandboxes' \subseteq L \cup {work[c].obj.sandbox}
    BY <2>3, <2>4, LeavesBehind
  <2>6. QED
    BY <1>1, <2>1, <2>2, <2>5, LeakPaid
<1>12. ASSUME NEW c \in Controllers, Updated(c) PROVE LeakInv'
  <2>0. PICK x : x = work[c].obj.sandbox
    OBVIOUS
  <2>1. /\ work[c].pc \in Writing /\ work[c].pc # "idle" /\ sandboxes' = sandboxes
        /\ work'[c].pc \notin Writing
        /\ work'[c] = Idle \/ work'[c].obj.sandbox = x
    BY <1>12, <2>0, IdleIs DEF Updated, BackendStays, Writing, Points
  <2>2. ~ Doom'
    BY <1>3, <2>1 DEF Doom, Doomed
  <2>3. \A s \in Sandboxes \ {x}, d \in Controllers : ~ Holds(d, s)
    BY <1>3, <2>0 DEF Holds
  <2>4. \A s \in Sandboxes : Live(s)' <=> Live(s)
    BY <2>1 DEF Live
  <2>5. CASE api' = api
    <3>1. \A s \in Sandboxes, r \in Runs : Records(r, s)' <=> Records(r, s)
      BY <2>5 DEF Records, Going, Alive, Terminal
    <3>2. LeakedSandboxes' \subseteq L \cup {x}
      BY <2>3, <2>4, <3>1, LeavesBehind
    <3>3. CASE ~ Accepted(c) /\ faults' = faults
      <4>1. Doom
        BY <2>1, <3>3 DEF Doom, Doomed
      <4>2. QED
        BY <1>1, <2>2, <3>2, <3>3, <4>1, LeakPaid
    <3>4. CASE Spend("updateError")
      BY <1>1, <2>2, <3>2, <3>4, LeakPaid
    <3>5. CASE Written(c)
      <4>1. api'[work[c].run].rv # api[work[c].run].rv
        BY <3>5, CallIs, <2>1, WrittenObject DEF Bumped
      <4>2. QED
        BY <2>5, <4>1
    <3>6. QED
      BY <1>12, <3>3, <3>4, <3>5 DEF Updated
  <2>6. CASE Written(c)
    <3>1. PICK r \in Runs : r = work[c].run
      BY <2>6, WrittenObject
    <3>2. /\ \A q \in Runs \ {r} : api'[q] = api[q]
          /\ work[c].obj.rv = api[r].rv
          /\ api'[r].life = "alive" /\ api'[r].cond = work[c].obj.cond /\ api'[r].sandbox = x
      BY <2>0, <2>6, <3>1, WrittenObject DEF Bumped
    <3>3. \A q \in Runs \ {r}, s \in Sandboxes : Records(q, s) => Records(q, s)'
      BY <3>2 DEF Records, Going, Alive, Terminal
    <3>4. \A s \in Sandboxes \ {x} : ~ Records(r, s)
      BY <1>4, <2>0, <2>1, <3>1, <3>2 DEF Holds
    <3>5. LeakedSandboxes' \subseteq L \cup {x}
      BY <2>3, <2>4, <3>3, <3>4, LeavesBehind
    <3>6. CASE faults' = faults
      <4>1. work'[c] = Idle => Records(r, x)'
        <5>1. Written(c) /\ faults' = faults =>
                ~ IsTerminal(work[c].obj.cond) \/ work'[c].pc = "destroySandbox"
          BY <1>12 DEF Updated
        <5>2. QED
          BY <2>6, <3>2, <3>6, <5>1, IdleIs DEF Records, Going, Alive, Terminal
      <4>2. x \notin LeakedSandboxes'
        BY <2>1, <3>1, <4>1 DEF LeakedSandboxes, Leaked, Records, Going
      <4>3. QED
        BY <1>1, <2>2, <3>5, <3>6, <4>2, LeakPaid
    <3>7. CASE Spend("updateError")
      BY <1>1, <2>2, <3>5, <3>7, LeakPaid
    <3>8. QED
      BY <1>12, <2>6, <3>6, <3>7 DEF Updated, Written, Accepted
  <2>7. QED
    BY <1>12, <2>5, <2>6 DEF Updated
<1>13. ASSUME NEW c \in Controllers, Destroyed(c) PROVE LeakInv'
  <2>0. PICK x : x = work[c].obj.sandbox
    OBVIOUS
  <2>1. /\ work[c].pc = "destroySandbox" /\ api' = api /\ work'[c] = Idle
    BY <1>13 DEF Destroyed
  <2>2. ~ Doom'
    BY <1>3, <2>1, IdleIs DEF Doom, Doomed
  <2>3. \A s \in Sandboxes \ {x}, d \in Controllers : ~ Holds(d, s)
    BY <1>3, <2>0 DEF Holds
  <2>4. \A s \in Sandboxes, r \in Runs : Records(r, s)' <=> Records(r, s)
    BY <2>1 DEF Records, Going, Alive, Terminal
  <2>5. ASSUME sandboxes' = sandboxes PROVE LeakedSandboxes' \subseteq L \cup {x}
    <3>1. \A s \in Sandboxes : Live(s)' <=> Live(s)
      BY <2>5 DEF Live
    <3>2. QED
      BY <2>3, <2>4, <3>1, LeavesBehind
  <2>6. CASE Spend("destroyError") /\ sandboxes' = sandboxes
    BY <1>1, <2>2, <2>5, <2>6, LeakPaid
  <2>7. CASE faults' = faults /\ ~ Live(x)' /\ LeakedSandboxes' \subseteq L \cup {x}
    <3>1. LeakedSandboxes' \subseteq L
      BY <2>7 DEF LeakedSandboxes, Leaked
    <3>2. QED
      BY <1>1, <2>2, <2>7, <3>1, LeakPaid
  <2>8. CASE ~ Reachable(x) /\ UNCHANGED <<sandboxes, faults>>
    <3>1. x \in Sandboxes => ~ Live(x)'
      BY <2>8 DEF Reachable, Live
    <3>2. x \notin LeakedSandboxes' /\ LeakedSandboxes' \subseteq L \cup {x}
      BY <2>5, <2>8, <3>1 DEF LeakedSandboxes, Leaked
    <3>3. QED
      BY <1>1, <2>2, <2>8, <3>2, LeakPaid
  <2>9. CASE /\ Reachable(x) /\ faults' = faults
             /\ sandboxes' = [sandboxes EXCEPT ![x].state = "destroyed"]
    <3>1. x \in Sandboxes
      BY <2>9 DEF Reachable
    <3>2. sandboxes'[x].state = "destroyed" /\ \A s \in Sandboxes \ {x} : sandboxes'[s] = sandboxes[s]
      BY <1>1, <2>9, <3>1, DestroyIs
    <3>3. ~ Live(x)' /\ \A s \in Sandboxes : Live(s)' => Live(s)
      BY <3>2 DEF Live
    <3>4. LeakedSandboxes' \subseteq L \cup {x}
      BY <2>3, <2>4, <3>3, LeavesBehind
    <3>5. QED
      BY <2>7, <2>9, <3>3, <3>4
  <2>10. QED
    BY <1>13, <2>0, <2>6, <2>8, <2>9 DEF Destroyed
<1>14. ASSUME NEW c \in Controllers, NEW r \in Runs, Started(c, r) PROVE LeakInv'
  <2>1. /\ work[c].pc = "idle" /\ UNCHANGED <<api, sandboxes>>
        /\ (cache[c][r] = api[r] /\ faults' = faults) \/ Spend("staleRead")
    BY <1>14 DEF Started, Fetched, BackendStays
  <2>2. \A s \in Sandboxes, d \in Controllers : ~ Holds(d, s)
    BY <1>2, <1>3, <2>1 DEF Holds, LeakInv, IdleHoldsNothing
  <2>3. \A s \in Sandboxes : (Live(s)' <=> Live(s)) /\ \A q \in Runs : Records(q, s)' <=> Records(q, s)
    BY <2>1 DEF Live, Records, Going, Alive, Terminal
  <2>4. LeakedSandboxes' \subseteq L \cup {NoSandbox}
    BY <2>2, <2>3, LeavesBehind
  <2>5. LeakedSandboxes' \subseteq L
    BY <1>2, <2>4 DEF LeakedSandboxes
  <2>6. CASE cache[c][r] = api[r] /\ faults' = faults
    <3>1. /\ work'[c].run = r /\ work'[c].obj = api[r] /\ api[r].life = "alive"
      BY <1>14, <2>6, StartedCall
    <3>2. ~ Doom'
      BY <1>3, <2>1, <3>1 DEF Doom, Doomed, Accepted, Alive
    <3>3. QED
      BY <1>1, <2>5, <2>6, <3>2, LeakPaid
  <2>7. CASE Spend("staleRead")
    BY <1>1, <2>5, <2>7, LeakPaid
  <2>8. QED
    BY <2>1, <2>6, <2>7
<1>15. ASSUME NEW c \in Controllers, Phase(c) PROVE LeakInv'
  <2>1. /\ UNCHANGED <<api, faults>> /\ work[c].pc \in Writing
        /\ work'[c].run = work[c].run /\ work'[c].obj.rv = work[c].obj.rv
        /\ ReconcileSandbox(c) \/ work'[c].obj.sandbox = work[c].obj.sandbox
    BY <1>15, PhaseCall
  <2>2. Doom' => Doom
    BY <1>3, <2>1 DEF Doom, Doomed, Accepted, Alive
  <2>3. \A s \in Sandboxes, q \in Runs : Records(q, s)' <=> Records(q, s)
    BY <2>1 DEF Records, Going, Alive, Terminal
  <2>4. LeakedSandboxes' \subseteq L
    <3>1. CASE ReconcileSandbox(c)
      <4>1. PICK x \in Sandboxes : /\ work'[c].obj.sandbox = x /\ work[c].obj.sandbox = NoSandbox
                                   /\ \A t \in Sandboxes \ {x} : sandboxes'[t] = sandboxes[t]
        BY <3>1, FirstPhaseIs
      <4>2. \A s \in Sandboxes \ {x} : Live(s)' <=> Live(s)
        BY <4>1 DEF Live
      <4>3. \A s \in Sandboxes, d \in Controllers : ~ Holds(d, s)
        BY <1>2, <1>3, <4>1 DEF Holds
      <4>4. LeakedSandboxes' \subseteq L \cup {x}
        BY <2>3, <4>2, <4>3, LeavesBehind
      <4>5. x \notin LeakedSandboxes'
        BY <4>1 DEF LeakedSandboxes, Leaked
      <4>6. QED
        BY <4>4, <4>5
    <3>2. CASE ~ ReconcileSandbox(c)
      <4>1. BoxesKept /\ work'[c].obj.sandbox = work[c].obj.sandbox
        BY <1>15, <2>1, <3>2, LaterPhasesKeep
      <4>2. \A s \in Sandboxes : /\ Live(s)' <=> Live(s)
                                 /\ \A d \in Controllers : Holds(d, s)' <=> Holds(d, s)
        BY <1>3, <4>1 DEF Live, Holds, BoxesKept
      <4>3. LeakedSandboxes' \subseteq L \cup {NoSandbox}
        BY <2>3, <4>2, LeavesBehind
      <4>4. QED
        BY <1>2, <4>3 DEF LeakedSandboxes
    <3>3. QED
      BY <3>1, <3>2
  <2>5. QED
    BY <1>1, <2>1, <2>2, <2>4, LeakPaid
\* Nobody has the sandbox whose Create was lost.
<1>16. ASSUME NEW c \in Controllers, CreateLost(c) PROVE LeakInv'
  <2>1. /\ api' = api /\ Spend("createError") /\ work[c].pc \in Writing
        /\ work'[c].run = work[c].run /\ work'[c].obj.rv = work[c].obj.rv
        /\ work[c].obj.sandbox = NoSandbox
    BY <1>16, LostCreateIs
  <2>2. PICK x \in Sandboxes : \A t \in Sandboxes \ {x} : sandboxes'[t] = sandboxes[t]
    BY <1>16, LostCreateIs
  <2>3. Doom' => Doom
    BY <1>3, <2>1 DEF Doom, Doomed, Accepted, Alive
  <2>4. \A s \in Sandboxes, q \in Runs : Records(q, s)' <=> Records(q, s)
    BY <2>1 DEF Records, Going, Alive, Terminal
  <2>5. \A s \in Sandboxes \ {x} : Live(s)' <=> Live(s)
    BY <2>2 DEF Live
  <2>6. \A s \in Sandboxes, d \in Controllers : ~ Holds(d, s)
    BY <1>2, <1>3, <2>1 DEF Holds
  <2>7. LeakedSandboxes' \subseteq L \cup {x}
    BY <2>4, <2>5, <2>6, LeavesBehind
  <2>8. QED
    BY <1>1, <2>1, <2>3, <2>7, LeakPaid
<1>17. ASSUME NEW c \in Controllers, RetryRun(c) PROVE LeakInv'
  <2>1. BoxesKept /\ UNCHANGED <<api, work>> /\ Spend("retry")
    BY <1>1, <1>17, RetryIs
  <2>2. LeakedSandboxes' \subseteq L /\ (Doom' => Doom)
    BY <1>5, <2>1
  <2>3. QED
    BY <1>1, <2>1, <2>2, LeakPaid
<1>18. QED
  BY <1>1, <1>6, <1>7, <1>8, <1>9, <1>10, <1>11, <1>12, <1>13, <1>14, <1>15, <1>16, <1>17, StepCosts

\* Every sandbox that nobody will destroy any more is paid for by a fault of its
\* own.  An edit, a deletion or a stale read is paid before its cost shows: it
\* dooms the call that is under way, which leaves its sandbox behind when its
\* update is refused (reconciler.go:74 and 250).  A Create that returns an error
\* for a sandbox it made leaves that one behind at once (reconciler.go:105-107).
THEOREM LeaksArePaidFor ==
    ASSUME OneController
    PROVE  Spec => []LeakNeedsFault
<1>1. Init => LeakInv
  <2> SUFFICES ASSUME Init PROVE LeakInv
    OBVIOUS
  <2>1. LeakedSandboxes = {} /\ ~ Doom /\ IdleHoldsNothing
    BY IdleIs DEF Init, LeakedSandboxes, Leaked, Live, Doom, Doomed, IdleHoldsNothing, Idle, Unborn
  <2>2. TypeInv
    BY TypeInit
  <2>3. QED
    BY <2>1, <2>2, PaidIs, FS_EmptySet DEF LeakInv, If1
<1>2. BaseInv /\ LeakInv /\ [Next]_vars => LeakInv'
  BY LeakStep
<1>3. BaseInv /\ LeakInv => LeakNeedsFault
  <2> SUFFICES ASSUME BaseInv, LeakInv PROVE LeakNeedsFault
    OBVIOUS
  <2>1. /\ Cardinality(LeakedSandboxes) \in Nat /\ Paid \in Nat
        /\ Cardinality(LeakedSandboxes) + If1(Doom) <= Paid
    BY PaidIs, BaseParts, FS_CardinalityType DEF LeakInv
  <2>2. Cardinality(LeakedSandboxes) <= Paid
    BY <2>1 DEF If1
  <2>3. QED
    BY <2>2 DEF LeakNeedsFault, LeakedSandboxes, Paid
<1>4. QED
  BY <1>1, <1>2, <1>3, BaseInit, BaseStep, PTL DEF Spec

-----------------------------------------------------------------------------
\* Every repetition is paid for

\* The call of a controller leaves the part of phase p of r that has an effect.
Left(r, p) == \E c \in Controllers : At(c, r, p) /\ ~ At(c, r, p)'

\* The ways in which a step keeps within the budget.
LEMMA BudgetCount ==
    ASSUME NEW r, NEW p, Reruns \in Nat, Reruns' \in Nat,
           \/ /\ Reruns' = Reruns \/ Reruns' = Reruns + 1
              /\ ~ Left(r, p)
              /\ (Due(r, p)' => Due(r, p)) /\ (Astray(r, p)' => Astray(r, p))
           \/ Reruns' = Reruns /\ ~ Left(r, p) /\ Due(r, p) /\ ~ Due(r, p)'
           \/ /\ Reruns' = Reruns
              /\ \/ Due(r, p) /\ ~ Due(r, p)' /\ (Astray(r, p)' => Astray(r, p))
                 \/ (Due(r, p)' => Due(r, p)) /\ Astray(r, p) /\ ~ Astray(r, p)'
           \/ /\ Reruns' = Reruns + 1 /\ ~ Left(r, p)
              /\ (Due(r, p)' => Due(r, p)) \/ (Astray(r, p)' => Astray(r, p))
           \/ Reruns' = Reruns + 1 /\ ~ Astray(r, p)' /\ (Due(r, p) \/ Astray(r, p))
    PROVE  Budget(r, p)' + If1(Left(r, p)) <= Budget(r, p) + (Reruns' - Reruns)
<1>1. PICK d \in {0, 1} : d = If1(Due(r, p)) /\ (Due(r, p) <=> d = 1)
  BY DEF If1
<1>2. PICK e \in {0, 1} : e = If1(Due(r, p)') /\ (Due(r, p)' <=> e = 1)
  BY DEF If1
<1>3. PICK a \in {0, 1} : a = If1(Astray(r, p)) /\ (Astray(r, p) <=> a = 1)
  BY DEF If1
<1>4. PICK b \in {0, 1} : b = If1(Astray(r, p)') /\ (Astray(r, p)' <=> b = 1)
  BY DEF If1
<1>5. PICK l \in {0, 1} : l = If1(Left(r, p)) /\ (Left(r, p) <=> l = 1)
  BY DEF If1
<1>6. Budget(r, p) = d + a /\ Budget(r, p)' = e + b
  BY <1>1, <1>2, <1>3, <1>4 DEF Budget, If1
<1>7. PICK m \in Nat, n \in Nat : m = Reruns /\ n = Reruns'
  OBVIOUS
<1>8. \/ (n = m \/ n = m + 1) /\ l = 0 /\ e <= d /\ b <= a
      \/ n = m /\ l = 0 /\ d = 1 /\ e = 0
      \/ n = m /\ ((d = 1 /\ e = 0 /\ b <= a) \/ (e <= d /\ a = 1 /\ b = 0))
      \/ n = m + 1 /\ l = 0 /\ (e <= d \/ b <= a)
      \/ n = m + 1 /\ b = 0 /\ (d = 1 \/ a = 1)
  BY <1>1, <1>2, <1>3, <1>4, <1>5, <1>7
<1>9. (e + b) + l <= (d + a) + (n - m)
  BY <1>8
<1>10. QED
  BY <1>5, <1>6, <1>7, <1>9

LEMMA AtIs ==
    ASSUME NEW c \in Controllers, NEW r \in Runs, NEW p \in Dependents, At(c, r, p)
    PROVE  /\ work[c].pc \in Working /\ PhaseOf(work[c].pc) = p
           /\ work[c].pc \notin {"UpdateStatus", "markFailed", "Execute"}
           /\ work[c].run = r /\ Calls(c, r)
BY DependentsAre DEF At, PointsBefore, PhaseOf, Working, Calls

\* A call that has the effect of its phase still to come is due or astray.
LEMMA AtIsDue ==
    ASSUME OneController, BaseInv, NEW c \in Controllers, NEW r \in Runs, NEW p \in Dependents,
           At(c, r, p)
    PROVE  Due(r, p) \/ Astray(r, p)
<1>1. CASE ~ Current(c, r)
  BY <1>1 DEF Astray
<1>2. CASE Current(c, r)
  <2>1. /\ work[c].pc \in Working /\ PhaseOf(work[c].pc) = p /\ work[c].run = r
        /\ work[c].pc \in Writing /\ work[c].pc \in PointsBefore(p)
        /\ work[c].obj.rv = api[r].rv
    BY <1>2, AtIs DEF At, Current, Calls
  <2>2. Alive(r) /\ ~ Terminal(r)
    BY <2>1, BaseParts DEF BaseInv, CopiesAreOfRuns, Calls, CallsVersioned, CurrentCall, Terminal
  <2>3. api[r].cond[p] = "Unknown"
    <3>1. InPhase(api[r].cond, p)
      BY <2>1, BaseParts, WorkingCall
    <3>2. QED
      BY <3>1, ConditionsAre DEF InPhase, ConditionTypes
  <2>4. \A d \in Controllers : d = c
    BY DEF OneController
  <2>5. QED
    BY <2>1, <2>2, <2>3, <2>4 DEF Due, Alive
<1>3. QED
  BY <1>1, <1>2

\* A call that is about r and current knows in which phase r is.
LEMMA WrittenIsDue ==
    ASSUME OneController, BaseInv, NEW c \in Controllers, Written(c),
           NEW r \in Runs, r = work[c].run, NEW p \in Dependents, Due(r, p)'
    PROVE  Due(r, p)
<1>1. /\ api'[r].cond = work[c].obj.cond /\ api[r].life = "alive"
      /\ work[c].obj.rv = api[r].rv
      /\ Extends(work[c].obj, api[r]) /\ ~ IsTerminal(api[r].cond)
  BY WrittenObject
<1>2. ~ IsTerminal(work[c].obj.cond) /\ work[c].obj.cond[p] # "True"
  BY <1>1 DEF Due, Terminal
<1>3. api[r].cond[p] # "True"
  BY <1>1, <1>2 DEF Extends
<1>4. ~ InPhase(api[r].cond, p)
  <2>1. SUFFICES ASSUME InPhase(api[r].cond, p) PROVE FALSE
    OBVIOUS
  <2>2. work[c].pc \in {"UpdateStatus", "markFailed"} /\ work[c].pc # "idle"
    BY DEF Written
  <2>3. /\ CallFollows(work[c], api[r]) /\ work[c].obj.cond \in Conditions
        /\ api[r].cond \in Conditions
    BY <2>2, BaseParts, CallIs DEF CallsConsistent, Objects
  <2>4. PICK q \in Dependents : /\ InPhase(api[r].cond, q)
                                /\ Passed(work[c].obj.cond, q) \/ FailedIn(work[c].obj.cond, q)
    BY <1>1, <2>2, <2>3 DEF CallFollows, Settlement
  <2>5. q = p
    BY <2>1, <2>3, <2>4, InPhaseIs
  <2>6. ~ FailedIn(work[c].obj.cond, p)
    BY <1>2, <2>3, OverIs
  <2>7. Passed(work[c].obj.cond, p) => work[c].obj.cond[p] = "True"
    BY DependentsAre, ConditionsAre DEF Passed, InPhase, AllDone, Before
  <2>8. QED
    BY <1>2, <2>4, <2>5, <2>6, <2>7
<1>5. QED
  BY <1>1, <1>3, <1>4 DEF Due, Terminal

\* A step that is not about r: r, and the calls about it, stay as they are.
LEMMA BudgetStays ==
    ASSUME TypeInv, TypeInv', NEW r \in Runs, NEW p \in Dependents, api'[r] = api[r],
           \A c \in Controllers : work'[c] = work[c] \/ (~ Calls(c, r) /\ ~ Calls(c, r)'),
           Reruns' = Reruns \/ Reruns' = Reruns + 1
    PROVE  Budget(r, p)' + If1(Left(r, p)) <= Budget(r, p) + (Reruns' - Reruns)
<1>1. \A c \in Controllers : Calls(c, r) <=> Calls(c, r)'
  BY DEF Calls
<1>2. \A c \in Controllers : Calls(c, r) => work'[c] = work[c]
  OBVIOUS
<1>3. Due(r, p)' => Due(r, p)
  BY <1>1, <1>2 DEF Due, Terminal, Current
<1>4. (Astray(r, p)' => Astray(r, p)) /\ ~ Left(r, p)
  BY <1>1, <1>2 DEF Astray, At, Current, Left
<1>5. Reruns \in Nat /\ Reruns' \in Nat
  BY PaidIs
<1>6. QED
  BY <1>3, <1>4, <1>5, BudgetCount

LEMMA RerunsStep ==
    ASSUME TypeInv, [Next]_vars
    PROVE  /\ Reruns \in Nat /\ Reruns' \in Nat /\ (Reruns' = Reruns \/ Reruns' = Reruns + 1)
           /\ \A p : Retries(p) \in Nat /\ Retries(p)' \in Nat /\ Retries(p) <= Retries(p)'
<1>1. Reruns \in Nat /\ Reruns' \in Nat /\ (Reruns' = Reruns \/ Reruns' = Reruns + 1)
  BY FaultsStep, PaidIs
<1>2. "retry" \in FaultKinds
  BY DEF FaultKinds
<1>3. QED
  BY <1>1, <1>2, FaultsStep DEF Retries

LEMMA BudgetStep ==
    ASSUME OneController, BaseInv, [Next]_vars, NEW r \in Runs, NEW p \in Dependents
    PROVE  Budget(r, p)' + If1(Left(r, p)) <= Budget(r, p) + (Reruns' - Reruns)
<1> DEFINE Goal == Budget(r, p)' + If1(Left(r, p)) <= Budget(r, p) + (Reruns' - Reruns)
<1>1. /\ TypeInv /\ TypeInv'
      /\ \A k \in {"crash", "updateError", "edit", "staleRead"} :
           k \in FaultKinds /\ k \notin OtherFaults
      /\ "delete" \in FaultKinds /\ "delete" \in OtherFaults
      /\ "createError" \in FaultKinds /\ "createError" \in OtherFaults
  BY BaseParts, TypeStep DEF FaultKinds, OtherFaults
<1>2. Reruns \in Nat /\ Reruns' \in Nat /\ (Reruns' = Reruns \/ Reruns' = Reruns + 1)
  BY <1>1, RerunsStep
<1>3. \A q \in Runs : api[q].life = "unborn" => \A c \in Controllers : ~ Calls(c, q)
  BY DEF BaseInv, CopiesAreOfRuns
<1> HIDE DEF Goal
\* Steps that are not about r.
<1>4. ASSUME api'[r] = api[r],
             \A c \in Controllers : work'[c] = work[c] \/ (~ Calls(c, r) /\ ~ Calls(c, r)')
      PROVE  Goal
  BY <1>1, <1>2, <1>4, BudgetStays DEF Goal
<1>5. ASSUME work' = work,
             api'[r] = api[r] \/ Created(r) \/ Edited(r) \/ Deleted(r)
      PROVE  Goal
  <2>1. \A c \in Controllers : (Calls(c, r) <=> Calls(c, r)') /\ (At(c, r, p) <=> At(c, r, p)')
    BY <1>5 DEF Calls, At
  <2>2. ~ Left(r, p)
    BY <2>1 DEF Left
  <2>3. CASE api'[r] = api[r]
    BY <1>4, <1>5, <2>3
  <2>4. CASE Created(r)
    <3>1. /\ \A c \in Controllers : ~ Calls(c, r)
          /\ StatusOf(api'[r]) = StatusOf(api[r]) /\ api[r].life = "unborn"
      BY <1>3, <2>4 DEF Created, Kept
    <3>2. Due(r, p)' => Due(r, p)
      BY <3>1 DEF Due, Terminal, Current, StatusOf
    <3>3. ~ Astray(r, p)'
      BY <2>1, <3>1 DEF Astray, At
    <3>4. QED
      BY <1>2, <2>2, <3>2, <3>3, BudgetCount DEF Goal
  <2>5. CASE Edited(r)
    <3>1. Reruns' = Reruns + 1
      BY <1>1, <2>5, PaidIs DEF Edited
    <3>2. Astray(r, p)' => Astray(r, p) \/ Due(r, p)
      BY <2>1, AtIsDue DEF Astray
    <3>3. QED
      BY <1>2, <2>2, <3>1, <3>2, BudgetCount DEF Goal
  <2>6. CASE Deleted(r)
    <3>1. Reruns' = Reruns
      BY <1>1, <2>6, PaidIs DEF Deleted
    <3>2. ~ Due(r, p)'
      BY <2>6 DEF Deleted, Due
    <3>3. Astray(r, p)' => Astray(r, p) \/ Due(r, p)
      BY <2>1, AtIsDue DEF Astray
    <3>4. QED
      BY <1>2, <2>2, <3>1, <3>2, <3>3, BudgetCount DEF Goal
  <2>7. QED
    BY <1>5, <2>3, <2>4, <2>5, <2>6
\* The only controller is c, and it is about r.
<1>6. ASSUME NEW c \in Controllers, Crashed(c), Calls(c, r) PROVE Goal
  <2>1. Reruns' = Reruns + 1
    BY <1>1, <1>6, PaidIs DEF Crashed
  <2>2. ~ Astray(r, p)'
    BY <1>6, IdleIs DEF Astray, At, Calls, Crashed, OneController
  <2>3. Left(r, p) => Due(r, p) \/ Astray(r, p)
    BY AtIsDue DEF Left
  <2>4. QED
    BY <1>2, <2>1, <2>2, <2>3, BudgetCount DEF Goal
<1>7. ASSUME NEW c \in Controllers, Updated(c), Calls(c, r) PROVE Goal
  <2>1. /\ work[c].run = r /\ work[c].pc \in {"UpdateStatus", "markFailed"}
        /\ work'[c].pc \notin Writing
    BY <1>7, IdleIs DEF Calls, Updated, Writing
  <2>2. ~ Left(r, p) /\ ~ Astray(r, p)'
    <3>1. \A d \in Controllers : d = c
      BY DEF OneController
    <3>2. ~ At(c, r, p)
      BY <2>1, AtIs
    <3>3. QED
      BY <2>1, <3>1, <3>2 DEF Left, Astray, At, Calls
  <2>3. CASE Spend("updateError")
    BY <1>1, <1>2, <2>2, <2>3, PaidIs, BudgetCount DEF Goal
  <2>4. CASE Written(c)
    BY <1>2, <2>1, <2>2, <2>4, WrittenIsDue, BudgetCount DEF Goal
  <2>5. CASE api' = api /\ ~ Accepted(c)
    <3>1. ~ Current(c, r)
      BY <2>1, <2>5 DEF BaseInv, CopiesAreOfRuns, Current, Accepted
    <3>2. Due(r, p)' => Due(r, p)
      BY <2>5, <3>1 DEF Due, Terminal, OneController
    <3>3. QED
      BY <1>2, <2>2, <3>2, BudgetCount DEF Goal
  <2>6. QED
    BY <1>7, <2>3, <2>4, <2>5 DEF Updated
<1>8. ASSUME NEW c \in Controllers, Started(c, r) PROVE Goal
  <2>1. work[c].pc = "idle" /\ api' = api
    BY <1>8 DEF Started, Fetched
  <2>2. \A d \in Controllers, q \in Runs : ~ Calls(d, q)
    BY <2>1 DEF Calls, Writing, OneController
  <2>3. ~ Left(r, p) /\ (Due(r, p)' => Due(r, p))
    BY <2>1, <2>2 DEF Left, At, Due, Current, Terminal
  <2>4. CASE cache[c][r] = api[r]
    <3>1. work'[c].obj = api[r]
      BY <1>8, <2>4, StartedCall
    <3>2. ~ Astray(r, p)'
      BY <2>1, <3>1 DEF Astray, At, Current, OneController
    <3>3. QED
      BY <1>2, <2>3, <3>2, BudgetCount DEF Goal
  <2>5. CASE Spend("staleRead")
    BY <1>1, <1>2, <2>3, <2>5, PaidIs, BudgetCount DEF Goal
  <2>6. QED
    BY <1>8, <2>4, <2>5 DEF Started
<1>9. ASSUME NEW c \in Controllers, Phase(c) \/ CreateLost(c), Calls(c, r) PROVE Goal
  <2>1. /\ work[c].run = r /\ work[c].pc \in Working /\ work[c].pc \in Writing
        /\ work'[c].pc \in Writing /\ work'[c].run = r
        /\ work'[c].obj.rv = work[c].obj.rv /\ api' = api /\ Reruns' = Reruns
        /\ work'[c].pc \in PointsBefore(p) => work[c].pc \in PointsBefore(p)
    <3>1. CASE Phase(c)
      BY <1>1, <1>9, <3>1, PhaseCall, PaidIs DEF Calls
    <3>2. CASE CreateLost(c)
      <4>1. work[c].pc \in Working /\ work'[c].pc \notin PointsBefore(p)
        BY <3>2, LostCreateIs, DependentsAre DEF Working, PointsBefore
      <4>2. QED
        BY <1>1, <1>9, <3>2, <4>1, LostCreateIs, PaidIs DEF Calls
    <3>3. QED
      BY <1>9, <3>1, <3>2
  <2>2. /\ Reruns' = Reruns /\ Calls(c, r)' /\ (Current(c, r)' <=> Current(c, r))
        /\ At(c, r, p)' => At(c, r, p)
    BY <1>9, <2>1 DEF Calls, Current, At
  <2>3. \A d \in Controllers : d = c
    BY DEF OneController
  <2>4. CASE Current(c, r)
    <3>1. ~ Astray(r, p) /\ ~ Astray(r, p)'
      BY <2>2, <2>3, <2>4 DEF Astray
    <3>2. CASE At(c, r, p) /\ ~ At(c, r, p)'
      <4>1. Due(r, p)
        BY <3>1, <3>2, AtIsDue
      <4>2. InPhase(api[r].cond, p)
        BY <2>1, <2>4, <3>2, AtIs, BaseParts, WorkingCall DEF Current
      <4>3. ~ Due(r, p)'
        BY <2>1, <2>2, <2>4, <3>2, <4>2 DEF Due, At
      <4>4. QED
        BY <1>2, <2>2, <3>1, <4>1, <4>3, BudgetCount DEF Goal
    <3>3. CASE At(c, r, p)' <=> At(c, r, p)
      <4>1. ~ Left(r, p)
        BY <2>3, <3>3 DEF Left
      <4>2. Due(r, p)' => Due(r, p)
        BY <1>9, <2>1, <2>2, <2>3, <3>3 DEF Due, Terminal, At
      <4>3. QED
        BY <1>2, <3>1, <4>1, <4>2, BudgetCount DEF Goal
    <3>4. QED
      BY <2>2, <3>2, <3>3
  <2>5. CASE ~ Current(c, r)
    <3>1. Due(r, p)' => Due(r, p)
      BY <2>1, <2>2, <2>3, <2>5 DEF Due, Terminal
    <3>2. (Astray(r, p) <=> At(c, r, p)) /\ (Astray(r, p)' <=> At(c, r, p)')
      BY <2>2, <2>3, <2>5 DEF Astray
    <3>3. Left(r, p) <=> At(c, r, p) /\ ~ At(c, r, p)'
      BY <2>3 DEF Left
    <3>4. QED
      BY <1>2, <2>2, <3>1, <3>2, <3>3, BudgetCount DEF Goal
  <2>6. QED
    BY <2>4, <2>5
\* Steps of the controller while it is not about r.
<1>10. ASSUME NEW c \in Controllers, OthersStay(c), ~ Calls(c, r), ~ Calls(c, r)', api'[r] = api[r]
       PROVE  Goal
  BY <1>4, <1>10 DEF OthersStay
<1>11. ASSUME NEW c \in Controllers,
              \/ Crashed(c) \/ Updated(c) \/ Destroyed(c) \/ CreateLost(c) \/ RetryRun(c)
              \/ Phase(c) \/ \E q \in Runs : Started(c, q)
       PROVE  Goal
  <2>1. CASE Crashed(c) /\ ~ Calls(c, r)
    BY <1>10, <2>1, IdleIs DEF Crashed, Calls
  <2>2. CASE Destroyed(c)
    BY <1>10, <2>2, IdleIs DEF Destroyed, Calls, Writing
  <2>3. CASE Updated(c) /\ ~ Calls(c, r)
    <3>1. /\ OthersStay(c) /\ work'[c].pc \notin Writing /\ work[c].pc \in Writing
          /\ api' = api \/ Written(c)
      BY <2>3, IdleIs DEF Updated, Writing, Points
    <3>2. work[c].run # r
      BY <2>3, <3>1 DEF Calls
    <3>3. api'[r] = api[r]
      BY <3>1, <3>2, WrittenObject DEF Bumped
    <3>4. QED
      BY <1>10, <2>3, <3>1, <3>3 DEF Calls
  <2>4. CASE (Phase(c) \/ CreateLost(c)) /\ ~ Calls(c, r)
    BY <1>10, <2>4, PhaseCall, LostCreateIs DEF Calls
  <2>5. ASSUME NEW q \in Runs, q # r, Started(c, q) PROVE Goal
    <3>1. work'[c].run = q
      BY <2>5, StartedCall
    <3>2. work[c].pc = "idle" /\ OthersStay(c) /\ api' = api
      BY <2>5 DEF Started, Fetched
    <3>3. QED
      BY <1>10, <2>5, <3>1, <3>2 DEF Calls, Writing
  <2>6. CASE RetryRun(c)
    BY <1>5, <2>6, RetryKeeps
  <2>7. QED
    BY <1>6, <1>7, <1>8, <1>9, <1>11, <2>1, <2>2, <2>3, <2>4, <2>5, <2>6
<1>12. ASSUME NEW q \in Runs, Created(q) \/ Edited(q) \/ Deleted(q) PROVE Goal
  <2>1. work' = work
    BY <1>12 DEF Created, Edited, Deleted
  <2>2. q # r => api'[r] = api[r]
    BY <1>12 DEF Created, Edited, Deleted, Kept, Bumped
  <2>3. QED
    BY <1>5, <1>12, <2>1, <2>2
<1>13. Goal
  BY <1>1, <1>5, <1>11, <1>12, StepCosts DEF Quiet, StragglerEnds
<1>14. QED
  BY <1>13 DEF Goal

\* What a phase leaves alone.
LEMMA PhaseEffects ==
    ASSUME BaseInv, NEW c \in Controllers, Phase(c)
    PROVE  /\ ~ LoseAgent(c) => \A s \in Sandboxes : sandboxes'[s].stragglers = sandboxes[s].stragglers
           /\ ~ RunAgent(c) => /\ executions' = executions
                               /\ \A s \in Sandboxes : sandboxes'[s].result = sandboxes[s].result
           /\ work'[c].pc = "Execute" => ExecuteAction(c) \/ ReconcileActions(c)
<1>1. /\ TypeInv /\ ObjectsConsistent /\ CallsConsistent
      /\ sandboxes \in [Sandboxes -> SandboxStates]
  BY BaseParts, TypeInvParts DEF OthersInv
<1> DEFINE Straggling == \A s \in Sandboxes : sandboxes'[s].stragglers = sandboxes[s].stragglers
           Resulting == \A s \in Sandboxes : sandboxes'[s].result = sandboxes[s].result
<1>2. sandboxes' = sandboxes => Straggling /\ Resulting
  OBVIOUS
<1>3. CASE PhaseError(c)
  <2>1. UNCHANGED <<sandboxes, executions>>
    BY <1>3 DEF PhaseError
  <2>2. work'[c].pc = "markFailed"
    BY <1>1, <1>3, AbortStep DEF Moved
  <2>3. QED
    BY <1>2, <2>1, <2>2
<1>4. CASE LoseAgent(c)
  <2>1. executions' = executions /\ Resulting
    BY <1>1, <1>4, AbandonIs DEF LoseAgent
  <2>2. work'[c].pc = "markFailed"
    BY <1>1, <1>4, AbortStep DEF Moved
  <2>3. QED
    BY <1>4, <2>1, <2>2
<1>5. CASE ReconcileSandbox(c)
  <2>1. executions' = executions /\ work'[c].pc = "UpdateStatus"
    BY <1>5, FirstPhaseIs DEF ReconcileSandbox
  <2>2. \E s, q : sandboxes' = [sandboxes EXCEPT ![s].state = "live", ![s].owner = q]
    BY <1>1, <1>5, SandboxStep
  <2>3. Straggling /\ Resulting
    BY <1>1, <2>2 DEF SandboxStates
  <2>4. QED
    BY <2>1, <2>3
<1>6. CASE PrepareAgent(c)
  <2>1. executions' = executions /\ \E cloned, s : sandboxes' = [sandboxes EXCEPT ![s].cloned = cloned]
    BY <1>6 DEF PrepareAgent
  <2>2. Straggling /\ Resulting
    BY <1>1, <2>1 DEF SandboxStates
  <2>3. work'[c].pc = "agent-run"
    BY <1>1, <1>6, PrepareStep DEF Moved
  <2>4. QED
    BY <2>1, <2>2, <2>3
<1>7. CASE RunAgent(c)
  <2>1. PICK res, s : sandboxes' = [sandboxes EXCEPT ![s].result = res]
    BY <1>7 DEF RunAgent
  <2>2. Straggling
    BY <1>1, <2>1 DEF SandboxStates
  <2>3. work'[c].pc # "Execute"
    BY <1>1, <1>7, AgentStep DEF Moved
  <2>4. QED
    BY <1>7, <2>2, <2>3
<1>8. CASE ReconcileResults(c)
  <2>1. UNCHANGED <<sandboxes, executions>>
    BY <1>8 DEF ReconcileResults
  <2>2. work'[c].pc = "UpdateStatus"
    BY <1>1, <1>8, ResultsStep DEF Moved
  <2>3. QED
    BY <1>2, <2>1, <2>2
<1>9. CASE ReconcileActions(c)
  <2>1. UNCHANGED <<sandboxes, executions>>
    BY <1>9 DEF ReconcileActions
  <2>2. QED
    BY <1>2, <1>9, <2>1
<1>10. CASE ExecuteAction(c)
  <2>1. UNCHANGED <<sandboxes, executions>>
    BY <1>10 DEF ExecuteAction
  <2>2. QED
    BY <1>2, <1>10, <2>1
<1>11. CASE FinishExecute(c)
  <2>1. UNCHANGED <<sandboxes, executions>>
    BY <1>11 DEF FinishExecute
  <2>2. work'[c].pc # "Execute"
    BY <1>1, <1>11, FinishStep DEF Moved
  <2>3. QED
    BY <1>2, <2>1, <2>2
<1>12. QED
  BY <1>3, <1>4, <1>5, <1>6, <1>7, <1>8, <1>9, <1>10, <1>11 DEF Phase

\* A count that grows by one only with the phase or with a retry keeps within
\* what was paid for.
LEMMA PaidStays ==
    ASSUME OneController, BaseInv, [Next]_vars, NEW r \in Runs, NEW p \in Dependents,
           NEW n, NEW m \in Nat, PaidFor(n, r, p),
           m <= (n + If1(Left(r, p))) + (Retries(p)' - Retries(p))
    PROVE  PaidFor(m, r, p)'
<1>1. Budget(r, p)' + If1(Left(r, p)) <= Budget(r, p) + (Reruns' - Reruns)
  BY BudgetStep
<1>2. Reruns \in Nat /\ Reruns' \in Nat /\ Retries(p) \in Nat /\ Retries(p)' \in Nat
  BY RerunsStep, BaseParts
<1>3. Budget(r, p) \in Nat /\ Budget(r, p)' \in Nat /\ If1(Left(r, p)) \in Nat
  BY DEF Budget, If1
<1>4. n \in Nat /\ n + Budget(r, p) <= 1 + Reruns + Retries(p)
  BY DEF PaidFor
<1>5. m + Budget(r, p)' <= 1 + Reruns' + Retries(p)'
  BY <1>1, <1>2, <1>3, <1>4
<1>6. QED
  BY <1>5 DEF PaidFor

\* A count that grows by one only with the phase needs no retries.
LEMMA PaidStaysWithout ==
    ASSUME OneController, BaseInv, [Next]_vars, NEW r \in Runs, NEW p \in Dependents,
           NEW n, NEW m \in Nat, PaidFor(n, r, p), m <= n + If1(Left(r, p))
    PROVE  PaidFor(m, r, p)'
<1>1. Retries(p) \in Nat /\ Retries(p)' \in Nat /\ Retries(p) <= Retries(p)'
  BY RerunsStep, BaseParts
<1>2. n \in Nat /\ If1(Left(r, p)) \in Nat
  BY DEF PaidFor, If1
<1>3. m <= (n + If1(Left(r, p))) + (Retries(p)' - Retries(p))
  BY <1>1, <1>2
<1>4. QED
  BY <1>3, PaidStays

LEMMA CreatedGrows ==
    ASSUME BaseInv, [Next]_vars, NEW r \in Runs
    PROVE  \/ CreatedFor(r)' \subseteq CreatedFor(r)
           \/ /\ Left(r, "SandboxReady")
              /\ \E s : CreatedFor(r)' \subseteq CreatedFor(r) \cup {s}
<1>1. CASE OwnersKept
  BY <1>1 DEF OwnersKept, CreatedFor
<1>2. ASSUME NEW c \in Controllers, ReconcileSandbox(c) \/ CreateLost(c)
      PROVE  \/ CreatedFor(r)' \subseteq CreatedFor(r)
             \/ /\ Left(r, "SandboxReady")
                /\ \E s : CreatedFor(r)' \subseteq CreatedFor(r) \cup {s}
  <2>1. PICK s \in Sandboxes : /\ sandboxes'[s].owner = work[c].run
                               /\ \A t \in Sandboxes \ {s} : sandboxes'[t] = sandboxes[t]
                               /\ work[c].pc = "SandboxReady"
                               /\ work'[c].pc \in {"UpdateStatus", "markFailed"}
    BY <1>2, FirstPhaseIs, LostCreateIs
  <2>2. CreatedFor(r)' \subseteq CreatedFor(r) \cup {s}
    BY <2>1 DEF CreatedFor
  <2>3. CASE work[c].run = r
    <3>1. At(c, r, "SandboxReady") /\ ~ At(c, r, "SandboxReady")'
      BY <2>1, <2>3, DependentsAre DEF At, Calls, PointsBefore, Writing, Points
    <3>2. QED
      BY <2>2, <3>1 DEF Left
  <2>4. CASE work[c].run # r
    BY <2>1, <2>4 DEF CreatedFor
  <2>5. QED
    BY <2>3, <2>4
<1>3. QED
  BY <1>1, <1>2, OwnersStep, BaseParts

\* agent-run processes before and after a step.
LEMMA StragglersSame ==
    ASSUME NEW b, NEW d, NEW r,
           \A s \in Sandboxes : /\ d[s].stragglers = b[s].stragglers
                                /\ d[s].owner = b[s].owner \/ b[s].stragglers = 0
    PROVE  StragglersIn(d, r) = StragglersIn(b, r)
BY DEF StragglersIn

LEMMA StragglersMore ==
    ASSUME NEW b, NEW d, NEW r, NEW s \in Sandboxes, b[s].stragglers \in Nat,
           d[s].stragglers = b[s].stragglers + 1, d[s].owner = b[s].owner,
           \A t \in Sandboxes \ {s} : d[t] = b[t]
    PROVE  /\ StragglersIn(d, r) \subseteq StragglersIn(b, r) \cup {<<s, b[s].stragglers + 1>>}
           /\ b[s].owner # r => StragglersIn(d, r) = StragglersIn(b, r)
<1>1. ASSUME NEW t \in Sandboxes, NEW i \in Nat, <<t, i>> \in StragglersIn(d, r),
             <<t, i>> # <<s, b[s].stragglers + 1>>
      PROVE  <<t, i>> \in StragglersIn(b, r)
  BY <1>1 DEF StragglersIn
<1>2. StragglersIn(d, r) \subseteq Sandboxes \X Nat
  BY DEF StragglersIn
<1>3. ASSUME b[s].owner # r PROVE StragglersIn(d, r) = StragglersIn(b, r)
  BY <1>3 DEF StragglersIn
<1>4. QED
  BY <1>1, <1>2, <1>3

LEMMA StragglersLess ==
    ASSUME NEW b, NEW d, NEW r, NEW s \in Sandboxes, NEW n \in Nat, b[s].stragglers = n, n > 0,
           d[s].stragglers = n - 1, d[s].owner = b[s].owner,
           \A t \in Sandboxes \ {s} : d[t] = b[t]
    PROVE  IF b[s].owner = r
             THEN /\ <<s, n>> \in StragglersIn(b, r)
                  /\ StragglersIn(d, r) = StragglersIn(b, r) \ {<<s, n>>}
             ELSE StragglersIn(d, r) = StragglersIn(b, r)
<1>1. CASE b[s].owner = r
  <2>1. <<s, n>> \in StragglersIn(b, r)
    BY <1>1 DEF StragglersIn
  <2>2. ASSUME NEW t \in Sandboxes, NEW i \in Nat
        PROVE  <<t, i>> \in StragglersIn(d, r) <=> <<t, i>> \in StragglersIn(b, r) /\ <<t, i>> # <<s, n>>
    BY <1>1 DEF StragglersIn
  <2>3. /\ StragglersIn(d, r) \subseteq Sandboxes \X Nat
        /\ StragglersIn(b, r) \subseteq Sandboxes \X Nat
    BY DEF StragglersIn
  <2>4. QED
    BY <1>1, <2>1, <2>2, <2>3
<1>2. CASE b[s].owner # r
  BY <1>2 DEF StragglersIn
<1>3. QED
  BY <1>1, <1>2

\* How the agent-run processes of a run, ended and going on, get more.
LEMMA ExecutionsGrow ==
    ASSUME BaseInv, FreeIsQuiet, [Next]_vars, NEW r \in Runs
    PROVE  /\ FreeIsQuiet'
           /\ \/ executions'[r] = executions[r] /\ Stragglers(r)' = Stragglers(r)
              \/ /\ Left(r, "AgentExecuted") /\ executions'[r] = executions[r]
                 /\ \E x : Stragglers(r)' \subseteq Stragglers(r) \cup {x}
              \/ /\ Left(r, "AgentExecuted") /\ executions'[r] = executions[r] + 1
                 /\ Stragglers(r)' = Stragglers(r)
              \/ /\ executions'[r] = executions[r] + 1
                 /\ \E x \in Stragglers(r) : Stragglers(r)' = Stragglers(r) \ {x}
              \/ /\ Spend("retry") /\ executions'[r] = executions[r]
                 /\ \E x : Stragglers(r)' \subseteq Stragglers(r) \cup {x}
<1> DEFINE Grown == \/ executions'[r] = executions[r] /\ Stragglers(r)' = Stragglers(r)
                    \/ /\ Left(r, "AgentExecuted") /\ executions'[r] = executions[r]
                       /\ \E x : Stragglers(r)' \subseteq Stragglers(r) \cup {x}
                    \/ /\ Left(r, "AgentExecuted") /\ executions'[r] = executions[r] + 1
                       /\ Stragglers(r)' = Stragglers(r)
                    \/ /\ executions'[r] = executions[r] + 1
                       /\ \E x \in Stragglers(r) : Stragglers(r)' = Stragglers(r) \ {x}
                    \/ /\ Spend("retry") /\ executions'[r] = executions[r]
                       /\ \E x : Stragglers(r)' \subseteq Stragglers(r) \cup {x}
<1>1. /\ TypeInv /\ sandboxes \in [Sandboxes -> SandboxStates] /\ executions \in [Runs -> Nat]
      /\ \A s \in Sandboxes : sandboxes[s].stragglers \in Nat
  BY BaseParts, TypeInvParts DEF OthersInv, SandboxStates
<1>2. Stragglers(r)' = StragglersIn(sandboxes', r) /\ Stragglers(r) = StragglersIn(sandboxes, r)
  BY DEF Stragglers, StragglersIn
<1>3. ASSUME NEW c \in Controllers, At(c, r, "AgentExecuted"),
             work'[c].pc \in {"UpdateStatus", "markFailed", "idle"}
      PROVE  Left(r, "AgentExecuted")
  BY <1>3 DEF Left, At, PointsBefore
<1>4. ASSUME NEW c \in Controllers, work[c].pc = "agent-run"
      PROVE  At(c, work[c].run, "AgentExecuted")
  BY <1>4 DEF At, Calls, PointsBefore, Writing, Points
\* No sandbox is handed out, no process let go of or ended.
<1>5. ASSUME executions' = executions,
             \A s \in Sandboxes :
                /\ sandboxes'[s].stragglers = sandboxes[s].stragglers
                /\ sandboxes'[s].owner = sandboxes[s].owner
                /\ sandboxes'[s].state = "free" => sandboxes[s].state = "free"
      PROVE  FreeIsQuiet' /\ Grown
  <2>1. FreeIsQuiet'
    BY <1>5 DEF FreeIsQuiet
  <2>2. Stragglers(r)' = Stragglers(r)
    BY <1>2, <1>5, StragglersSame
  <2>3. QED
    BY <1>5, <2>1, <2>2
<1>6. ASSUME executions' = executions, sandboxes' = sandboxes PROVE FreeIsQuiet' /\ Grown
  BY <1>5, <1>6
\* A process is let go of.
<1>7. ASSUME NEW c \in Controllers, work[c].pc = "agent-run",
             Reachable(work[c].obj.sandbox), Abandon(work[c].obj.sandbox),
             executions' = executions, work'[c].pc \in {"markFailed", "idle"}
      PROVE  FreeIsQuiet' /\ Grown
  <2>1. PICK s \in Sandboxes : s = work[c].obj.sandbox
    BY <1>7 DEF Reachable
  <2>2. /\ BoxesKept /\ sandboxes'[s].stragglers = sandboxes[s].stragglers + 1
        /\ \A t \in Sandboxes \ {s} : sandboxes'[t] = sandboxes[t]
    BY <1>1, <1>7, <2>1, AbandonIs
  <2>3. sandboxes[s].state = "live"
    BY <1>7, <2>1 DEF Reachable
  <2>4. FreeIsQuiet'
    BY <2>2, <2>3 DEF FreeIsQuiet, BoxesKept
  <2>5. /\ Stragglers(r)' \subseteq Stragglers(r) \cup {<<s, sandboxes[s].stragglers + 1>>}
        /\ sandboxes[s].owner # r => Stragglers(r)' = Stragglers(r)
    BY <1>1, <1>2, <2>2, StragglersMore DEF BoxesKept
  <2>6. sandboxes[s].owner = r => Left(r, "AgentExecuted")
    <3>1. sandboxes[s].owner = work[c].run
      BY <1>7, <2>1, CallIs, ConstantsAssumption DEF BoxOf
    <3>2. QED
      BY <1>3, <1>4, <1>7, <3>1
  <2>7. QED
    BY <1>7, <2>4, <2>5, <2>6
<1>8. ASSUME NEW s \in Sandboxes, StragglerEnds(s) PROVE FreeIsQuiet' /\ Grown
  <2>1. PICK n \in Nat : n = sandboxes[s].stragglers /\ n > 0
    BY <1>1, <1>8, StragglerIs
  <2>2. /\ BoxesKept /\ sandboxes[s].state = "live"
        /\ sandboxes'[s].stragglers = n - 1
        /\ \A t \in Sandboxes \ {s} : sandboxes'[t] = sandboxes[t]
        /\ executions' = [executions EXCEPT ![sandboxes[s].owner] = @ + 1]
    BY <1>1, <1>8, <2>1, StragglerIs DEF Reachable
  <2>3. FreeIsQuiet'
    BY <2>2 DEF FreeIsQuiet, BoxesKept
  <2>4. IF sandboxes[s].owner = r
          THEN <<s, n>> \in Stragglers(r) /\ Stragglers(r)' = Stragglers(r) \ {<<s, n>>}
          ELSE Stragglers(r)' = Stragglers(r)
    BY <1>2, <2>1, <2>2, StragglersLess DEF BoxesKept
  <2>5. executions'[r] = IF sandboxes[s].owner = r THEN executions[r] + 1 ELSE executions[r]
    BY <1>1, <2>2
  <2>6. QED
    BY <2>3, <2>4, <2>5
<1>9. ASSUME NEW c \in Controllers, Phase(c) PROVE FreeIsQuiet' /\ Grown
  <2>1. CASE ReconcileSandbox(c)
    <3>1. PICK s \in Sandboxes :
            /\ sandboxes[s].state = "free" /\ sandboxes'[s].state = "live"
            /\ sandboxes'[s].stragglers = sandboxes[s].stragglers
            /\ \A t \in Sandboxes \ {s} : sandboxes'[t] = sandboxes[t]
      BY <2>1, FirstPhaseIs
    <3>2. executions' = executions
      BY <2>1 DEF ReconcileSandbox
    <3>3. FreeIsQuiet'
      BY <3>1 DEF FreeIsQuiet
    <3>4. \A t \in Sandboxes : /\ sandboxes'[t].stragglers = sandboxes[t].stragglers
                               /\ sandboxes'[t].owner = sandboxes[t].owner \/ sandboxes[t].stragglers = 0
      BY <3>1 DEF FreeIsQuiet
    <3>5. Stragglers(r)' = Stragglers(r)
      BY <1>2, <3>4, StragglersSame
    <3>6. QED
      BY <3>2, <3>3, <3>5
  <2>2. CASE LoseAgent(c)
    <3>1. /\ work[c].pc = "agent-run" /\ executions' = executions
          /\ Reachable(work[c].obj.sandbox) /\ Abandon(work[c].obj.sandbox)
      BY <2>2 DEF LoseAgent
    <3>2. work'[c].pc = "markFailed"
      BY <2>2, BaseParts, AbortStep DEF Moved
    <3>3. QED
      BY <1>7, <3>1, <3>2
  <2>3. CASE RunAgent(c)
    <3>1. /\ work[c].pc = "agent-run"
          /\ executions' = [executions EXCEPT ![work[c].run] = @ + 1]
      BY <2>3 DEF RunAgent
    <3>2. work'[c].pc \in {"UpdateStatus", "markFailed"}
      BY <2>3, BaseParts, AgentStep DEF Moved
    <3>3. BoxesKept /\ \A s \in Sandboxes : sandboxes'[s].stragglers = sandboxes[s].stragglers
      <4>1. ~ LoseAgent(c) /\ ~ ReconcileSandbox(c)
        <5>1. ~ ReconcileSandbox(c)
          BY <3>1 DEF ReconcileSandbox
        <5>2. ~ LoseAgent(c)
          <6>1. executions'[work[c].run] # executions[work[c].run]
            BY <1>1, <3>1, CallIs
          <6>2. QED
            BY <6>1 DEF LoseAgent
        <5>3. QED
          BY <5>1, <5>2
      <4>2. QED
        BY <1>9, <4>1, PhaseEffects, LaterPhasesKeep
    <3>4. FreeIsQuiet' /\ Stragglers(r)' = Stragglers(r)
      <4>1. Stragglers(r)' = Stragglers(r)
        BY <1>2, <3>3, StragglersSame DEF BoxesKept
      <4>2. FreeIsQuiet'
        BY <3>3 DEF FreeIsQuiet, BoxesKept
      <4>3. QED
        BY <4>1, <4>2
    <3>5. CASE work[c].run = r
      <4>1. Left(r, "AgentExecuted")
        BY <1>3, <1>4, <3>1, <3>2, <3>5
      <4>2. executions'[r] = executions[r] + 1
        BY <1>1, <3>1, <3>5
      <4>3. QED
        BY <3>4, <4>1, <4>2
    <3>6. CASE work[c].run # r
      <4>1. executions'[r] = executions[r]
        BY <1>1, <3>1, <3>6
      <4>2. QED
        BY <3>4, <4>1
    <3>7. QED
      BY <3>5, <3>6
  <2>4. CASE ~ ReconcileSandbox(c) /\ ~ LoseAgent(c) /\ ~ RunAgent(c)
    <3>1. BoxesKept
      BY <1>9, <2>4, LaterPhasesKeep
    <3>2. /\ executions' = executions
          /\ \A s \in Sandboxes : sandboxes'[s].stragglers = sandboxes[s].stragglers
      BY <1>9, <2>4, PhaseEffects
    <3>3. QED
      BY <1>5, <3>1, <3>2 DEF BoxesKept
  <2>5. QED
    BY <2>1, <2>2, <2>3, <2>4
<1>10. ASSUME NEW c \in Controllers, Destroyed(c) PROVE FreeIsQuiet' /\ Grown
  <2>1. executions' = executions
    BY <1>10 DEF Destroyed
  <2>2. CASE sandboxes' = sandboxes
    BY <1>6, <2>1, <2>2
  <2>3. ASSUME NEW s \in Sandboxes, sandboxes' = [sandboxes EXCEPT ![s].state = "destroyed"]
        PROVE  FreeIsQuiet' /\ Grown
    BY <1>1, <1>5, <2>1, <2>3, DestroyIs
  <2>4. QED
    BY <1>10, <2>2, <2>3 DEF Destroyed, Reachable
<1>11. ASSUME NEW c \in Controllers, Crashed(c) PROVE FreeIsQuiet' /\ Grown
  <2>1. executions' = executions /\ work'[c].pc = "idle"
    BY <1>11, IdleIs DEF Crashed
  <2>2. QED
    BY <1>6, <1>7, <1>11, <2>1 DEF Crashed
<1>12. ASSUME BackendStays PROVE FreeIsQuiet' /\ Grown
  BY <1>6, <1>12 DEF BackendStays
<1>13. ASSUME NEW c \in Controllers, CreateLost(c) PROVE FreeIsQuiet' /\ Grown
  <2>1. PICK s \in Sandboxes :
          /\ sandboxes[s].state = "free" /\ sandboxes'[s].state = "live"
          /\ sandboxes'[s].stragglers = sandboxes[s].stragglers
          /\ \A t \in Sandboxes \ {s} : sandboxes'[t] = sandboxes[t]
    BY <1>13, LostCreateIs
  <2>2. executions' = executions
    BY <1>13, LostCreateIs
  <2>3. FreeIsQuiet'
    BY <2>1 DEF FreeIsQuiet
  <2>4. \A t \in Sandboxes : /\ sandboxes'[t].stragglers = sandboxes[t].stragglers
                             /\ sandboxes'[t].owner = sandboxes[t].owner \/ sandboxes[t].stragglers = 0
    BY <2>1 DEF FreeIsQuiet
  <2>5. Stragglers(r)' = Stragglers(r)
    BY <1>2, <2>4, StragglersSame
  <2>6. QED
    BY <2>2, <2>3, <2>5
<1>14. ASSUME NEW c \in Controllers, RetryRun(c) PROVE FreeIsQuiet' /\ Grown
  <2>1. PICK s \in Sandboxes :
          /\ sandboxes[s].state = "live"
          /\ sandboxes'[s].stragglers = sandboxes[s].stragglers + 1
          /\ \A t \in Sandboxes \ {s} : sandboxes'[t] = sandboxes[t]
    BY <1>1, <1>14, RetryIs
  <2>2. BoxesKept /\ Spend("retry") /\ executions' = executions
    BY <1>1, <1>14, RetryIs
  <2>3. FreeIsQuiet'
    BY <2>1, <2>2 DEF FreeIsQuiet, BoxesKept
  <2>4. Stragglers(r)' \subseteq Stragglers(r) \cup {<<s, sandboxes[s].stragglers + 1>>}
    <3>1. sandboxes'[s].owner = sandboxes[s].owner
      BY <2>2 DEF BoxesKept
    <3>2. PICK b, d : b = sandboxes /\ d = sandboxes'
      OBVIOUS
    <3>3. /\ b[s].stragglers \in Nat /\ d[s].stragglers = b[s].stragglers + 1
          /\ d[s].owner = b[s].owner /\ \A t \in Sandboxes \ {s} : d[t] = b[t]
      BY <1>1, <2>1, <3>1, <3>2
    <3>4. StragglersIn(d, r) \subseteq StragglersIn(b, r) \cup {<<s, b[s].stragglers + 1>>}
      BY <3>3, StragglersMore
    <3>5. QED
      BY <1>2, <3>2, <3>4
  <2>5. QED
    BY <2>2, <2>3, <2>4
<1> HIDE DEF Grown
<1>15. FreeIsQuiet' /\ Grown
  <2>1. Quiet => BackendStays
    BY DEF Quiet
  <2>2. \A q \in Runs : Created(q) \/ Edited(q) \/ Deleted(q) => BackendStays
    BY DEF Created, Edited, Deleted
  <2>3. \A c \in Controllers : Updated(c) \/ (\E q \in Runs : Started(c, q)) => BackendStays
    BY DEF Updated, Started
  <2>4. QED
    BY <1>1, <1>8, <1>9, <1>10, <1>11, <1>12, <1>13, <1>14, <2>1, <2>2, <2>3, StepCosts
<1>16. QED
  BY <1>15 DEF Grown

\* What Execute does next is the first of what it has to do, once.
LEMMA DistinctTail ==
    ASSUME NEW todo \in Seq(Actions), todo # <<>>, Distinct(todo)
    PROVE  /\ Distinct(Tail(todo)) /\ Head(todo) = todo[1] /\ 1 \in DOMAIN todo
           /\ \A i \in DOMAIN Tail(todo) : i + 1 \in DOMAIN todo /\ Tail(todo)[i] = todo[i + 1]
           /\ \A i \in DOMAIN Tail(todo) : Tail(todo)[i] # Head(todo)
<1>1. /\ Len(todo) \in Nat /\ Len(todo) > 0 /\ DOMAIN todo = 1..Len(todo)
      /\ Tail(todo) \in Seq(Actions) /\ Len(Tail(todo)) = Len(todo) - 1
      /\ DOMAIN Tail(todo) = 1..(Len(todo) - 1) /\ Head(todo) = todo[1]
  OBVIOUS
<1>2. \A i \in 1..(Len(todo) - 1) : Tail(todo)[i] = todo[i + 1]
  OBVIOUS
<1>3. \A i \in 1..(Len(todo) - 1) : i + 1 \in 1..Len(todo) /\ i + 1 # 1
  BY <1>1
<1>4. \A i \in DOMAIN Tail(todo) : Tail(todo)[i] # Head(todo)
  BY <1>1, <1>2, <1>3 DEF Distinct
<1>5. Distinct(Tail(todo))
  <2>1. SUFFICES ASSUME NEW i \in 1..(Len(todo) - 1), NEW j \in 1..(Len(todo) - 1),
                        Tail(todo)[i] = Tail(todo)[j]
                 PROVE  i = j
    BY <1>1 DEF Distinct
  <2>2. todo[i + 1] = todo[j + 1] /\ i + 1 \in DOMAIN todo /\ j + 1 \in DOMAIN todo
    BY <1>1, <1>2, <1>3, <2>1
  <2>3. i + 1 = j + 1
    BY <2>2 DEF Distinct
  <2>4. QED
    BY <2>3
<1>6. QED
  BY <1>1, <1>2, <1>3, <1>4, <1>5

\* How what is performed and what is still to be done gets more.
LEMMA PerformedGrows ==
    ASSUME OneController, DistinctResults, BaseInv, TodoDistinct, [Next]_vars,
           NEW r \in Runs, NEW a \in Actions
    PROVE  /\ TodoDistinct'
           /\ \/ performed'[r][a] = performed[r][a]
                 /\ (ToDo(r, a)' => ToDo(r, a) \/ Left(r, "ActionsExecuted"))
              \/ performed'[r][a] = performed[r][a] + 1 /\ ToDo(r, a) /\ ~ ToDo(r, a)'
<1> DEFINE Grown == \/ performed'[r][a] = performed[r][a]
                       /\ (ToDo(r, a)' => ToDo(r, a) \/ Left(r, "ActionsExecuted"))
                    \/ performed'[r][a] = performed[r][a] + 1 /\ ToDo(r, a) /\ ~ ToDo(r, a)'
<1>1. /\ TypeInv /\ ObjectsConsistent /\ CallsConsistent
      /\ performed \in [Runs -> [Actions -> Nat]]
  BY BaseParts, TypeInvParts DEF OthersInv
\* No call comes to Execute, or goes on with it.
<1>2. ASSUME performed' = performed,
             \A d \in Controllers : work'[d] = work[d] \/ work'[d].pc # "Execute"
      PROVE  TodoDistinct' /\ Grown
  BY <1>2 DEF TodoDistinct, ToDo, Calls
<1>3. ASSUME NEW c \in Controllers, ReconcileActions(c) PROVE TodoDistinct' /\ Grown
  <2>1. PICK res \in Results :
          /\ OthersStay(c) /\ work'[c].run = work[c].run
          /\ \/ work'[c].pc = "UpdateStatus"
             \/ work'[c].pc = "Execute" /\ work'[c].todo = res.actions
    BY <1>1, <1>3, ActionsStep DEF Moved, OthersStay
  <2>2. performed' = performed /\ work[c].pc = "ActionsExecuted"
    BY <1>3 DEF ReconcileActions
  <2>3. TodoDistinct'
    BY <2>1 DEF TodoDistinct, DistinctResults, OthersStay
  <2>4. ToDo(r, a)' => ToDo(r, a) \/ work[c].run = r
    BY <2>1 DEF ToDo, Calls, OthersStay
  <2>5. work[c].run = r => Left(r, "ActionsExecuted")
    <3>1. work[c].pc \in PointsBefore("ActionsExecuted") /\ work[c].pc \in Writing
      BY <2>2, DependentsAre DEF PointsBefore, Writing, Points
    <3>2. work'[c].pc \notin PointsBefore("ActionsExecuted")
      BY <2>1 DEF PointsBefore
    <3>3. QED
      BY <3>1, <3>2 DEF Left, At, Calls
  <2>6. QED
    BY <2>2, <2>3, <2>4, <2>5
<1>4. ASSUME NEW c \in Controllers, ExecuteAction(c) PROVE TodoDistinct' /\ Grown
  <2>1. PICK b \in Actions, took \in BOOLEAN, ok \in BOOLEAN : Executed(c, b, took, ok)
    BY <1>1, <1>4, ExecuteStep
  <2>2. PICK q \in Runs, todo \in Seq(Actions) :
          q = work[c].run /\ todo = work[c].todo /\ Distinct(todo) /\ work[c].pc = "Execute"
    <3>1. work[c].pc = "Execute"
      BY <1>4 DEF ExecuteAction
    <3>2. QED
      BY <3>1, CallIs DEF Work, TodoDistinct
  <2>3. /\ todo # <<>> /\ b = Head(todo)
        /\ performed' = [performed EXCEPT ![q][b] = IF took THEN @ + 1 ELSE @]
        /\ work'[c].run = q /\ work'[c].todo = Tail(todo) /\ OthersStay(c)
    BY <2>1, <2>2 DEF Executed, Moved, OthersStay
  <2>4. /\ Distinct(Tail(todo)) /\ b = todo[1] /\ 1 \in DOMAIN todo
        /\ \A i \in DOMAIN Tail(todo) : i + 1 \in DOMAIN todo /\ Tail(todo)[i] = todo[i + 1]
        /\ \A i \in DOMAIN Tail(todo) : Tail(todo)[i] # b
    BY <2>2, <2>3, DistinctTail
  <2>5. TodoDistinct'
    BY <2>3, <2>4 DEF TodoDistinct, OthersStay
  <2>6. CASE q = r /\ a = b
    <3>1. ToDo(r, a)
      BY <2>2, <2>4, <2>6 DEF ToDo, Calls, Writing, Points
    <3>2. performed'[r][a] = IF took THEN performed[r][a] + 1 ELSE performed[r][a]
      BY <1>1, <2>3, <2>6
    <3>3. CASE took
      <4>1. ~ ToDo(r, a)'
        BY <2>3, <2>4, <2>6 DEF ToDo, OneController
      <4>2. QED
        BY <2>5, <3>1, <3>2, <3>3, <4>1
    <3>4. CASE ~ took
      BY <2>5, <3>1, <3>2, <3>4
    <3>5. QED
      BY <3>3, <3>4
  <2>7. CASE ~ (q = r /\ a = b)
    <3>1. performed'[r][a] = performed[r][a]
      BY <1>1, <2>3, <2>7
    <3>2. ASSUME NEW d \in Controllers, Calls(d, r)', work'[d].pc = "Execute",
                 NEW i \in DOMAIN work'[d].todo, work'[d].todo[i] = a
          PROVE  ToDo(r, a)
      <4>1. CASE d = c
        BY <2>2, <2>3, <2>4, <3>2, <4>1 DEF ToDo, Calls, Writing, Points
      <4>2. CASE d # c
        BY <2>3, <3>2, <4>2 DEF ToDo, Calls, OthersStay
      <4>3. QED
        BY <4>1, <4>2
    <3>3. ToDo(r, a)' => ToDo(r, a)
      BY <3>2 DEF ToDo
    <3>4. QED
      BY <2>5, <3>1, <3>3
  <2>8. QED
    BY <2>6, <2>7
<1> HIDE DEF Grown
<1>5. ASSUME \E c \in Controllers : ExecuteAction(c) \/ ReconcileActions(c)
      PROVE  TodoDistinct' /\ Grown
  BY <1>3, <1>4, <1>5
<1>6. ASSUME ~ \E c \in Controllers : ExecuteAction(c) \/ ReconcileActions(c)
      PROVE  TodoDistinct' /\ Grown
  <2>1. performed' = performed
    BY <1>1, <1>6, PerformedStep
  <2>2. ASSUME NEW c \in Controllers, OthersStay(c), work'[c].pc # "Execute"
        PROVE  TodoDistinct' /\ Grown
    BY <1>2, <2>1, <2>2 DEF OthersStay
  <2>3. ASSUME NEW c \in Controllers,
               \/ Crashed(c) \/ Updated(c) \/ Destroyed(c) \/ CreateLost(c) \/ Phase(c)
               \/ \E q \in Runs : Started(c, q)
        PROVE  TodoDistinct' /\ Grown
    <3>1. CASE Crashed(c) \/ Updated(c) \/ Destroyed(c)
      BY <2>2, <3>1, IdleIs DEF Crashed, Updated, Destroyed
    <3>2. CASE Phase(c)
      BY <1>6, <2>2, <3>2, PhaseCall, PhaseEffects
    <3>3. ASSUME NEW q \in Runs, Started(c, q) PROVE TodoDistinct' /\ Grown
      <4>1. work'[c].pc \in Dependents
        BY <3>3, StartedCall
      <4>2. OthersStay(c)
        BY <3>3 DEF Started, Fetched
      <4>3. QED
        BY <2>2, <4>1, <4>2, DependentsAre
    <3>4. CASE CreateLost(c)
      BY <2>2, <3>4, LostCreateIs
    <3>5. QED
      BY <2>3, <3>1, <3>2, <3>3, <3>4
  <2>4. work' = work => TodoDistinct' /\ Grown
    BY <1>2, <2>1
  <2>5. /\ Quiet => work' = work
        /\ \A q \in Runs : Created(q) \/ Edited(q) \/ Deleted(q) => work' = work
        /\ \A s \in Sandboxes : StragglerEnds(s) => work' = work
        /\ \A c \in Controllers : RetryRun(c) => work' = work
    BY DEF Quiet, Created, Edited, Deleted, StragglerEnds, RetryRun
  <2>6. QED
    BY <1>1, <2>3, <2>4, <2>5, StepCosts
<1>7. QED
  BY <1>5, <1>6 DEF Grown

LEMMA RepeatStep ==
    ASSUME OneController, DistinctResults, BaseInv, RepeatInv, [Next]_vars PROVE RepeatInv'
<1>1. ASSUME NEW r \in Runs
      PROVE  /\ IsFiniteSet(CreatedFor(r))'
             /\ PaidFor(Cardinality(CreatedFor(r)), r, "SandboxReady")'
  <2>1. PICK S : S = CreatedFor(r)
    OBVIOUS
  <2>2. PICK T : T = CreatedFor(r)'
    OBVIOUS
  <2>3. IsFiniteSet(S) /\ PaidFor(Cardinality(S), r, "SandboxReady")
    BY <2>1 DEF RepeatInv
  <2>4. T \subseteq S \/ (Left(r, "SandboxReady") /\ \E x : T \subseteq S \cup {x})
    BY <2>1, <2>2, CreatedGrows
  <2>5. PICK x : T \subseteq S \cup {x} /\ (T \subseteq S \/ Left(r, "SandboxReady"))
    BY <2>4
  <2>6. /\ IsFiniteSet(T) /\ Cardinality(T) \in Nat /\ Cardinality(S) \in Nat
        /\ Cardinality(T) <= Cardinality(S) + 1
        /\ T \subseteq S => Cardinality(T) <= Cardinality(S)
    BY <2>3, <2>5, GrowsByOne
  <2>7. PICK n \in Nat, m \in Nat : n = Cardinality(S) /\ m = Cardinality(T)
    BY <2>6
  <2>8. m <= n + If1(Left(r, "SandboxReady"))
    BY <2>5, <2>6, <2>7 DEF If1
  <2>9. PaidFor(m, r, "SandboxReady")'
    BY <2>3, <2>7, <2>8, PaidStaysWithout, DependentsAre
  <2>10. m = Cardinality(CreatedFor(r))'
    BY <2>2, <2>7
  <2>11. QED
    BY <2>2, <2>6, <2>9, <2>10 DEF PaidFor
<1>2. ASSUME NEW r \in Runs
      PROVE  /\ FreeIsQuiet' /\ IsFiniteSet(Stragglers(r))'
             /\ PaidFor(executions[r] + Cardinality(Stragglers(r)), r, "AgentExecuted")'
  <2>1. PICK S, T : S = Stragglers(r) /\ T = Stragglers(r)'
    OBVIOUS
  <2>2. executions[r] \in Nat
    BY BaseParts, TypeInvParts DEF OthersInv
  <2>3. IsFiniteSet(S) /\ PaidFor(executions[r] + Cardinality(S), r, "AgentExecuted") /\ FreeIsQuiet
    BY <2>1 DEF RepeatInv
  <2>4. /\ FreeIsQuiet'
        /\ \/ executions'[r] = executions[r] /\ T = S
           \/ /\ Left(r, "AgentExecuted") /\ executions'[r] = executions[r]
              /\ \E x : T \subseteq S \cup {x}
           \/ Left(r, "AgentExecuted") /\ executions'[r] = executions[r] + 1 /\ T = S
           \/ executions'[r] = executions[r] + 1 /\ \E x \in S : T = S \ {x}
           \/ /\ Spend("retry") /\ executions'[r] = executions[r]
              /\ \E x : T \subseteq S \cup {x}
    BY <2>1, <2>3, ExecutionsGrow
  <2>5. PICK n \in Nat : n = Cardinality(S)
    BY <2>3, FS_CardinalityType
  <2>6. \A x : T \subseteq S \cup {x} => /\ IsFiniteSet(T) /\ Cardinality(T) \in Nat
                                         /\ Cardinality(T) <= n + 1
    BY <2>3, <2>5, GrowsByOne
  <2>7. \A x \in S : T = S \ {x} => IsFiniteSet(T) /\ Cardinality(T) = n - 1
    BY <2>3, <2>5, FS_RemoveElement
  <2>8. /\ IsFiniteSet(T) /\ Cardinality(T) \in Nat /\ executions'[r] \in Nat
        /\ executions'[r] + Cardinality(T)
             <= ((executions[r] + n) + If1(Left(r, "AgentExecuted")))
                  + (Retries("AgentExecuted")' - Retries("AgentExecuted"))
    <3>0. PICK i \in Nat, j \in Nat : /\ i = Retries("AgentExecuted") /\ j = Retries("AgentExecuted")'
                                      /\ i <= j
      BY RerunsStep, BaseParts
    <3>1. CASE executions'[r] = executions[r] /\ T = S
      BY <2>2, <2>3, <2>5, <3>0, <3>1 DEF If1
    <3>2. CASE /\ Left(r, "AgentExecuted") /\ executions'[r] = executions[r]
               /\ \E x : T \subseteq S \cup {x}
      BY <2>2, <2>6, <3>0, <3>2 DEF If1
    <3>3. CASE Left(r, "AgentExecuted") /\ executions'[r] = executions[r] + 1 /\ T = S
      BY <2>2, <2>3, <2>5, <3>0, <3>3 DEF If1
    <3>4. CASE executions'[r] = executions[r] + 1 /\ \E x \in S : T = S \ {x}
      <4>1. IsFiniteSet(T) /\ Cardinality(T) = n - 1
        BY <2>7, <3>4
      <4>2. Cardinality(T) \in Nat
        BY <4>1, FS_CardinalityType
      <4>3. QED
        BY <2>2, <3>0, <3>4, <4>1, <4>2 DEF If1
    <3>5. CASE /\ Spend("retry") /\ executions'[r] = executions[r]
               /\ \E x : T \subseteq S \cup {x}
      <4>1. "retry" \in FaultKinds
        BY DEF FaultKinds
      <4>2. j = i + 1
        BY <3>0, <3>5, <4>1, SpendCosts, BaseParts DEF Retries
      <4>3. QED
        BY <2>2, <2>6, <3>0, <3>5, <4>2 DEF If1
    <3>6. QED
      BY <2>4, <3>1, <3>2, <3>3, <3>4, <3>5
  <2>9. PICK m \in Nat : m = executions'[r] + Cardinality(T)
    BY <2>8
  <2>10. PaidFor(m, r, "AgentExecuted")'
    BY <2>3, <2>5, <2>8, <2>9, PaidStays, DependentsAre
  <2>11. m = executions'[r] + Cardinality(Stragglers(r))'
    BY <2>1, <2>9
  <2>12. QED
    BY <2>1, <2>4, <2>8, <2>10, <2>11 DEF PaidFor
<1>3. ASSUME NEW r \in Runs, NEW a \in Actions
      PROVE  TodoDistinct' /\ PaidFor(performed[r][a] + If1(ToDo(r, a)), r, "ActionsExecuted")'
  <2>1. performed[r][a] \in Nat
    BY BaseParts, TypeInvParts DEF OthersInv
  <2>2. PaidFor(performed[r][a] + If1(ToDo(r, a)), r, "ActionsExecuted") /\ TodoDistinct
    BY DEF RepeatInv
  <2>3. /\ TodoDistinct'
        /\ \/ performed'[r][a] = performed[r][a]
              /\ (ToDo(r, a)' => ToDo(r, a) \/ Left(r, "ActionsExecuted"))
           \/ performed'[r][a] = performed[r][a] + 1 /\ ToDo(r, a) /\ ~ ToDo(r, a)'
    BY <2>2, PerformedGrows
  <2>4. PICK d \in {0, 1} : d = If1(ToDo(r, a)) /\ (ToDo(r, a) <=> d = 1)
    BY DEF If1
  <2>5. PICK e \in {0, 1} : e = If1(ToDo(r, a)') /\ (ToDo(r, a)' <=> e = 1)
    BY DEF If1
  <2>6. PICK l \in {0, 1} : l = If1(Left(r, "ActionsExecuted")) /\ (Left(r, "ActionsExecuted") <=> l = 1)
    BY DEF If1
  <2>7. PICK m \in Nat : m = performed'[r][a] + e /\ m <= (performed[r][a] + d) + l
    BY <2>1, <2>3, <2>4, <2>5, <2>6
  <2>8. PaidFor(m, r, "ActionsExecuted")'
    BY <2>2, <2>4, <2>6, <2>7, PaidStaysWithout, DependentsAre
  <2>9. (performed[r][a] + If1(ToDo(r, a)))' = m
    BY <2>5, <2>7 DEF If1
  <2>10. QED
    BY <2>3, <2>8, <2>9 DEF PaidFor
\* Without runs there are no calls.
<1>4. Runs = {} => FreeIsQuiet'
  <2>1. SUFFICES ASSUME Runs = {} PROVE FreeIsQuiet'
    OBVIOUS
  <2>2. TypeInv /\ FreeIsQuiet /\ \A c \in Controllers : work[c].pc = "idle"
    BY <2>1, BaseParts, CallIs DEF RepeatInv
  <2>3. ~ \E c \in Controllers : Crashed(c) /\ sandboxes' # sandboxes
    BY <2>2 DEF Crashed
  <2>4. ~ \E c \in Controllers : Updated(c) \/ Destroyed(c)
    BY <2>2 DEF Updated, Destroyed
  <2>5. ~ \E c \in Controllers : Phase(c) \/ CreateLost(c) \/ RetryRun(c)
    BY <2>2, PhaseCall DEF Writing, Points, CreateLost, RetryRun
  <2>6. ASSUME NEW s \in Sandboxes, StragglerEnds(s) PROVE FreeIsQuiet'
    <3>1. /\ BoxesKept /\ sandboxes[s].state = "live"
          /\ \A t \in Sandboxes \ {s} : sandboxes'[t] = sandboxes[t]
      BY <2>2, <2>6, StragglerIs DEF Reachable
    <3>2. QED
      BY <2>2, <3>1 DEF FreeIsQuiet, BoxesKept
  <2>7. sandboxes' = sandboxes => FreeIsQuiet'
    BY <2>2 DEF FreeIsQuiet
  <2>8. QED
    BY <2>1, <2>2, <2>3, <2>4, <2>5, <2>6, <2>7, StepCosts DEF Quiet, BackendStays
<1>5. (Runs = {} \/ Actions = {}) => TodoDistinct'
  <2>1. SUFFICES ASSUME Runs = {} \/ Actions = {}, NEW c \in Controllers, work'[c].pc = "Execute"
                 PROVE  Distinct(work'[c].todo)
    BY DEF TodoDistinct
  <2>2. work'[c].run \in Runs /\ work'[c].todo \in Seq(Actions)
    <3>1. TypeInv'
      BY BaseStep DEF BaseInv, StatusInv, VersionInv
    <3>2. QED
      BY <2>1, <3>1 DEF TypeInv, TypeOK, Work
  <2>3. DOMAIN work'[c].todo = {}
    BY <2>1, <2>2
  <2>4. QED
    BY <2>3 DEF Distinct
<1>6. FreeIsQuiet' /\ TodoDistinct'
  BY <1>2, <1>3, <1>4, <1>5
<1>7. QED
  BY <1>1, <1>2, <1>3, <1>6 DEF RepeatInv

LEMMA RepeatInit == ASSUME Init PROVE RepeatInv
<1>1. TypeInv
  BY TypeInit
<1>2. Reruns = 0 /\ \A p : Retries(p) = 0
  BY DEF Init, Reruns, Retries, FaultKinds
<1>3. \A s \in Sandboxes : sandboxes[s].owner = NoRun /\ sandboxes[s].stragglers = 0
  BY DEF Init
<1>4. \A c \in Controllers : work[c].pc = "idle"
  BY DEF Init, Idle
<1>5. FreeIsQuiet /\ TodoDistinct
  BY <1>3, <1>4 DEF FreeIsQuiet, TodoDistinct
<1>6. ASSUME NEW r \in Runs PROVE CreatedFor(r) = {} /\ Stragglers(r) = {} /\ executions[r] = 0
  <2>1. CreatedFor(r) = {}
    BY <1>3, ConstantsAssumption DEF CreatedFor
  <2>2. Stragglers(r) = {}
    <3>1. ASSUME NEW x \in Stragglers(r) PROVE FALSE
      BY <1>3, <3>1 DEF Stragglers, StragglersIn
    <3>2. QED
      BY <3>1
  <2>3. QED
    BY <2>1, <2>2 DEF Init
<1>7. \A r \in Runs, a \in Actions : performed[r][a] = 0 /\ ~ ToDo(r, a)
  BY <1>4 DEF Init, ToDo
<1>8. ASSUME NEW r \in Runs, NEW p PROVE Budget(r, p) \in Nat /\ Budget(r, p) <= 1
  <2>1. ~ Astray(r, p)
    BY <1>4 DEF Astray, At, Calls, Writing, Points, Dependents
  <2>2. QED
    BY <2>1 DEF Budget, If1
<1>9. ASSUME NEW r \in Runs, NEW p PROVE PaidFor(0, r, p)
  BY <1>2, <1>8 DEF PaidFor
<1>10. ASSUME NEW r \in Runs
       PROVE  /\ IsFiniteSet(CreatedFor(r)) /\ IsFiniteSet(Stragglers(r))
              /\ PaidFor(Cardinality(CreatedFor(r)), r, "SandboxReady")
              /\ PaidFor(executions[r] + Cardinality(Stragglers(r)), r, "AgentExecuted")
              /\ \A a \in Actions :
                   PaidFor(performed[r][a] + If1(ToDo(r, a)), r, "ActionsExecuted")
  <2>1. /\ IsFiniteSet(CreatedFor(r)) /\ IsFiniteSet(Stragglers(r))
        /\ Cardinality(CreatedFor(r)) = 0 /\ executions[r] + Cardinality(Stragglers(r)) = 0
    BY <1>6, FS_EmptySet
  <2>2. \A a \in Actions : performed[r][a] + If1(ToDo(r, a)) = 0
    BY <1>7 DEF If1
  <2>3. QED
    BY <1>9, <2>1, <2>2
<1>11. QED
  BY <1>5, <1>10 DEF RepeatInv

\* Every repetition is paid for by a fault: a run creates one sandbox, executes
\* one agent and performs each action once, and once more for every crash, lost
\* or refused update, edit and stale read; the agent also once more for every
\* attempt of Run that times out and is made again (agentsandbox.go:29), but not
\* for any other reason.  A phase uses up what its budget allows, and only such
\* a fault adds to the budget; an agent-run that nobody waits for counts as the
\* execution that it will be.  For one controller process, and results that name
\* no action twice.
THEOREM RepetitionsArePaidFor ==
    ASSUME OneController, DistinctResults
    PROVE  Spec => []RepetitionNeedsFault
<1>1. Init => RepeatInv
  BY RepeatInit
<1>2. BaseInv /\ RepeatInv /\ [Next]_vars => RepeatInv'
  BY RepeatStep
<1>3. BaseInv /\ RepeatInv => RepetitionNeedsFault
  <2> SUFFICES ASSUME BaseInv, RepeatInv PROVE RepetitionNeedsFault
    OBVIOUS
  <2>1. Reruns \in Nat /\ faults["retry"] \in Nat
    BY PaidIs, BaseParts, TypeInvParts DEF OthersInv, FaultKinds
  <2>2. ASSUME NEW n, NEW r, NEW p, PaidFor(n, r, p) PROVE n <= 1 + Reruns + Retries(p)
    BY <2>1, <2>2 DEF PaidFor, Budget, If1, Retries
  <2>3. ASSUME NEW r \in Runs PROVE Cardinality(CreatedFor(r)) <= 1 + Reruns
    <3>1. Cardinality(CreatedFor(r)) \in Nat /\ Retries("SandboxReady") = 0
      BY DEF RepeatInv, PaidFor, Retries
    <3>2. QED
      BY <2>1, <2>2, <3>1 DEF RepeatInv
  <2>4. ASSUME NEW r \in Runs PROVE executions[r] <= 1 + Reruns + faults["retry"]
    <3>1. /\ executions[r] \in Nat /\ Cardinality(Stragglers(r)) \in Nat
          /\ executions[r] + Cardinality(Stragglers(r)) <= 1 + Reruns + Retries("AgentExecuted")
      BY <2>2, BaseParts, TypeInvParts, FS_CardinalityType DEF RepeatInv, OthersInv
    <3>2. Retries("AgentExecuted") = faults["retry"]
      BY DEF Retries
    <3>3. QED
      BY <2>1, <3>1, <3>2
  <2>5. ASSUME NEW r \in Runs, NEW a \in Actions PROVE performed[r][a] <= 1 + Reruns
    <3>1. /\ performed[r][a] \in Nat
          /\ performed[r][a] + If1(ToDo(r, a)) <= 1 + Reruns + Retries("ActionsExecuted")
      BY <2>2, BaseParts, TypeInvParts DEF RepeatInv, OthersInv
    <3>2. Retries("ActionsExecuted") = 0
      BY DEF Retries
    <3>3. QED
      BY <2>1, <3>1, <3>2 DEF If1
  <2>6. QED
    BY <2>3, <2>4, <2>5 DEF RepetitionNeedsFault
<1>4. QED
  BY <1>1, <1>2, <1>3, BaseInit, BaseStep, PTL DEF Spec

-----------------------------------------------------------------------------
\* What was collected is what is executed

\* A behaviour that is undisturbed after a step was so before it.
LEMMA UndisturbedStep ==
    ASSUME TypeInv, [Next]_vars, Undisturbed'
    PROVE  /\ Undisturbed
           /\ \A c \in Controllers : ~ Crashed(c) /\ ~ RetryRun(c)
           /\ \A c \in Controllers : Destroyed(c) => ~ Spend("destroyError")
<1>1. \A k \in {"crash", "destroyError", "retry"} :
         /\ k \in FaultKinds /\ faults[k] \in Nat /\ faults'[k] \in Nat
         /\ faults[k] <= faults'[k]
  BY FaultsStep DEF FaultKinds
<1>2. \A k \in {"crash", "destroyError", "retry"} : faults'[k] = 0
  <2>1. faults'["crash"] + faults'["destroyError"] + faults'["retry"] = 0
    BY Zenon DEF Undisturbed
  <2>2. /\ faults'["crash"] \in Nat /\ faults'["destroyError"] \in Nat
        /\ faults'["retry"] \in Nat
    BY <1>1
  <2>3. /\ faults'["crash"] = 0 /\ faults'["destroyError"] = 0
        /\ faults'["retry"] = 0
    <3>1. \A i \in Nat, j \in Nat, k \in Nat : i + j + k = 0 => i = 0 /\ j = 0 /\ k = 0
      OBVIOUS
    <3>2. QED
      BY <2>1, <2>2, <3>1, Zenon
  <2>4. QED
    BY <2>3, Zenon
<1>3. \A k \in {"crash", "destroyError", "retry"} : faults[k] = 0
  BY <1>1, <1>2
<1>4. \A k \in {"crash", "destroyError", "retry"} : ~ Spend(k)
  BY <1>1, <1>2, <1>3, SpendCosts
<1>5. Undisturbed
  BY <1>3 DEF Undisturbed
<1>6. QED
  BY <1>4, <1>5, RetryKeeps DEF Crashed

\* Who has a usage recorded has done the agent's phase.
LEMMA UsageIs ==
    ASSUME NEW o \in Objects, Consistent(o), o.usage # NoResult
    PROVE  /\ ExecutedBefore(o) /\ o.cond["ResultsCollected"] = "True"
           /\ o.sandbox # NoSandbox /\ ~ FailedIn(o.cond, "AgentExecuted")
           /\ ~ InPhase(o.cond, "AgentExecuted")
<1>1. o.cond \in Conditions /\ o.cond["ResultsCollected"] = "True"
  BY DEF Objects, Consistent, FieldsConsistent
<1>2. CASE AllDone(o.cond)
  BY <1>1, <1>2, ConditionsAre DEF AllDone, Consistent, FieldsConsistent, ExecutedBefore,
         FailedIn, InPhase, Before
<1>3. ASSUME NEW p \in Dependents, InPhase(o.cond, p) \/ FailedIn(o.cond, p)
      PROVE  o.cond["SandboxReady"] = "True" /\ o.cond["AgentExecuted"] = "True"
  <2>1. p = "ActionsExecuted"
    BY <1>1, <1>3, InPhaseIs, OverIs
  <2>2. QED
    BY <1>3, <2>1, ConditionsAre DEF InPhase, FailedIn, Before
<1>4. QED
  BY <1>1, <1>2, <1>3, ConditionsAre DEF Consistent, InOrder, FieldsConsistent, ExecutedBefore,
         FailedIn, InPhase, Before

\* The copies of r whose word counts.
CopyOf(o, r) ==
    \/ o = api[r]
    \/ \E c \in Controllers : o = cache[c][r] \/ (Calls(c, r) /\ o = work[c].obj)

\* A call about a run of which any copy records a usage knows that the agent
\* was executed.
LEMMA CopiesAreSeen ==
    ASSUME OneController, BaseInv, CollectionIsSeen, NEW r \in Runs, NEW o, CopyOf(o, r)
    PROVE  /\ o \in Objects /\ BoxOf(r, o.sandbox)
           /\ o.usage # NoResult =>
                /\ o.sandbox \in Sandboxes /\ sandboxes[o.sandbox].state # "free"
                /\ \A c \in Controllers : work[c].pc # "idle" /\ work[c].run = r =>
                     /\ ExecutedBefore(work[c].obj)
                     /\ ~ FailedIn(work[c].obj.cond, "AgentExecuted")
                     /\ ~ InPhase(work[c].obj.cond, "AgentExecuted")
<1>1. /\ ObjectsConsistent /\ CallsConsistent /\ CopiesAgree /\ FreeUnowned
      /\ BoxOf(r, api[r].sandbox) /\ api[r] \in Objects
  BY BaseParts
<1>2. \A c \in Controllers : cache[c][r] \in Objects /\ Consistent(cache[c][r])
  BY BaseParts, TypeInvParts DEF CacheInv, ObjectsConsistent
<1>3. Consistent(api[r])
  BY <1>1 DEF ObjectsConsistent
<1>4. ASSUME NEW s \in Sandboxes, BoxOf(r, s) PROVE sandboxes[s].state # "free"
  BY <1>1, <1>4, ConstantsAssumption DEF FreeUnowned, BoxOf
<1>5. ASSUME NEW x \in Objects, BoxOf(r, x.sandbox), x.sandbox # NoSandbox
      PROVE  x.sandbox \in Sandboxes /\ sandboxes[x.sandbox].state # "free"
  <2>1. PICK s \in Sandboxes : s = x.sandbox
    BY <1>5 DEF Objects
  <2>2. QED
    BY <1>4, <1>5, <2>1
<1>6. ASSUME NEW x, ExecutedBefore(x)
      PROVE  ~ FailedIn(x.cond, "AgentExecuted") /\ ~ InPhase(x.cond, "AgentExecuted")
  BY <1>6, ConditionsAre DEF ExecutedBefore, FailedIn, InPhase, Before
<1>7. ASSUME api[r].usage # NoResult, NEW c \in Controllers, work[c].pc # "idle", work[c].run = r
      PROVE  ExecutedBefore(work[c].obj)
  BY <1>7 DEF CollectionIsSeen, CallSees
<1>8. CASE o = api[r]
  <2>1. o.usage # NoResult => o.sandbox # NoSandbox
    BY <1>1, <1>3, <1>8, UsageIs
  <2>2. QED
    BY <1>1, <1>5, <1>6, <1>7, <1>8, <2>1
<1>9. ASSUME NEW c \in Controllers, o = cache[c][r]
      PROVE  /\ o \in Objects /\ BoxOf(r, o.sandbox)
             /\ o.usage # NoResult => o.sandbox # NoSandbox /\ api[r].usage # NoResult
  <2>1. o \in Objects /\ BoxOf(r, o.sandbox)
    BY <1>1, <1>2, <1>9 DEF CopiesAgree, BoxOf
  <2>2. ASSUME o.usage # NoResult PROVE o.sandbox # NoSandbox /\ api[r].usage # NoResult
    <3>1. o.sandbox # NoSandbox /\ o.cond["ResultsCollected"] = "True"
      BY <1>2, <1>9, <2>2, UsageIs
    <3>2. Extends(api[r], o)
      BY <1>9 DEF CollectionIsSeen
    <3>3. api[r].cond["ResultsCollected"] = "True"
      BY <3>1, <3>2, DependentsAre DEF Extends
    <3>4. QED
      BY <1>3, <3>1, <3>3 DEF Consistent, FieldsConsistent
  <2>3. QED
    BY <2>1, <2>2
<1>10. ASSUME NEW c \in Controllers, Calls(c, r), o = work[c].obj
       PROVE  /\ o \in Objects /\ BoxOf(r, o.sandbox)
              /\ o.usage # NoResult => o.sandbox # NoSandbox /\ ExecutedBefore(o)
  <2>1. work[c].pc # "idle" /\ work[c].pc \in Writing /\ work[c].run = r
    BY <1>10 DEF Calls, Writing
  <2>2. o \in Objects /\ BoxOf(r, o.sandbox)
    BY <1>10, <2>1, CallIs
  <2>3. CallConsistent(work[c])
    BY <1>1, <2>1 DEF CallsConsistent
  <2>4. CASE work[c].pc \in {"UpdateStatus", "markFailed"}
    BY <1>10, <2>2, <2>3, <2>4, UsageIs DEF CallConsistent
  <2>5. CASE work[c].pc \in Working
    <3>1. PICK p : p = PhaseOf(work[c].pc) /\ InPhaseCopy(o, p)
      BY <1>10, <2>3, <2>5 DEF CallConsistent
    <3>2. o.usage # NoResult => p = "ActionsExecuted" /\ o.sandbox # NoSandbox
      BY <3>1, DependentsAre DEF InPhaseCopy
    <3>3. QED
      BY <2>2, <3>1, <3>2, ConditionsAre DEF InPhaseCopy, InPhase, Before, ExecutedBefore
  <2>6. work[c].pc \in Working \cup {"UpdateStatus", "markFailed"}
    BY <2>1, DependentsAre DEF Working, Writing, Points
  <2>7. QED
    BY <2>2, <2>4, <2>5, <2>6
<1>11. QED
  <2>1. ASSUME NEW c \in Controllers, o = cache[c][r] PROVE o \in Objects /\ BoxOf(r, o.sandbox)
                /\ (o.usage # NoResult =>
                     /\ o.sandbox \in Sandboxes /\ sandboxes[o.sandbox].state # "free"
                     /\ \A d \in Controllers : work[d].pc # "idle" /\ work[d].run = r =>
                          ExecutedBefore(work[d].obj))
    BY <1>5, <1>7, <1>9, <2>1
  <2>2. ASSUME NEW c \in Controllers, Calls(c, r), o = work[c].obj
        PROVE  o \in Objects /\ BoxOf(r, o.sandbox)
                /\ (o.usage # NoResult =>
                     /\ o.sandbox \in Sandboxes /\ sandboxes[o.sandbox].state # "free"
                     /\ \A d \in Controllers : work[d].pc # "idle" /\ work[d].run = r =>
                          ExecutedBefore(work[d].obj))
    <3>1. \A d \in Controllers : d = c
      BY DEF OneController
    <3>2. QED
      BY <1>5, <1>10, <2>2, <3>1
  <2>3. QED
    BY <1>6, <1>8, <2>1, <2>2 DEF CopyOf

\* A result that a copy records is not replaced any more.
LEMMA ShownStays ==
    ASSUME OneController, BaseInv, CollectionIsSeen, StragglersAreDoomed,
           [Next]_vars, Undisturbed', NEW r \in Runs, NEW o, CopyOf(o, r), Shown(o)
    PROVE  Shown(o)'
<1>1. /\ TypeInv /\ o \in Objects /\ BoxOf(r, o.sandbox)
      /\ sandboxes \in [Sandboxes -> SandboxStates]
  BY BaseParts, TypeInvParts, CopiesAreSeen DEF OthersInv
<1>2. CASE o.usage = NoResult
  BY <1>2 DEF Shown
<1>3. CASE o.usage # NoResult
  <2>1. PICK t \in Sandboxes : t = o.sandbox /\ sandboxes[t].state # "free" /\ BoxOf(r, t)
    BY <1>1, <1>3, CopiesAreSeen
  <2>2. \A c \in Controllers : work[c].pc # "idle" /\ work[c].run = r =>
           /\ ~ FailedIn(work[c].obj.cond, "AgentExecuted")
           /\ ~ InPhase(work[c].obj.cond, "AgentExecuted")
    BY <1>3, CopiesAreSeen
  <2>3. \A c \in Controllers : work[c].pc # "idle" /\ work[c].obj.sandbox = t => work[c].run = r
    BY <2>1, CallIs, ConstantsAssumption DEF BoxOf
  <2>4. ASSUME sandboxes'[t].result = sandboxes[t].result,
               sandboxes'[t].state = "live" => sandboxes[t].state = "live"
        PROVE  Shown(o)'
    BY <2>1, <2>4 DEF Shown, Reachable
  <2>5. ASSUME sandboxes'[t] = sandboxes[t] PROVE Shown(o)'
    BY <2>4, <2>5
  <2>6. BackendStays => Shown(o)'
    BY <2>5 DEF BackendStays
  <2>7. ASSUME NEW s \in Sandboxes, StragglerEnds(s) PROVE Shown(o)'
    <3>1. /\ sandboxes[s].stragglers > 0 /\ sandboxes[s].state = "live"
          /\ \A x \in Sandboxes \ {s} : sandboxes'[x] = sandboxes[x]
      BY <1>1, <2>7, StragglerIs DEF Reachable
    <3>2. PICK c \in Controllers :
            /\ work[c].pc \in {"markFailed", "destroySandbox"} /\ work[c].obj.sandbox = s
            /\ FailedIn(work[c].obj.cond, "AgentExecuted")
      BY <3>1 DEF StragglersAreDoomed
    <3>3. s # t
      BY <2>2, <2>3, <3>2
    <3>4. QED
      BY <2>5, <3>1, <3>3
  <2>8. ASSUME NEW c \in Controllers, Phase(c) PROVE Shown(o)'
    <3>1. CASE RunAgent(c)
      <4>1. PICK s, res :
              /\ s \in Sandboxes
              /\ s = work[c].obj.sandbox /\ sandboxes' = [sandboxes EXCEPT ![s].result = res]
        BY <3>1 DEF RunAgent, Reachable
      <4>2. work[c].pc = "agent-run"
        BY <3>1 DEF RunAgent
      <4>3. work[c].pc \in Working /\ PhaseOf(work[c].pc) = "AgentExecuted"
        BY <4>2 DEF Working, PhaseOf
      <4>4. InPhase(work[c].obj.cond, "AgentExecuted")
        BY <4>3, BaseParts, WorkingCall DEF InPhaseCopy
      <4>5. s # t
        BY <2>2, <2>3, <4>1, <4>2, <4>4
      <4>6. QED
        BY <1>1, <2>5, <4>1, <4>5
    <3>2. CASE ReconcileSandbox(c)
      BY <2>1, <2>5, <3>2, FirstPhaseIs
    <3>3. CASE ~ RunAgent(c) /\ ~ ReconcileSandbox(c)
      <4>1. BoxesKept /\ \A s \in Sandboxes : sandboxes'[s].result = sandboxes[s].result
        BY <2>8, <3>3, LaterPhasesKeep, PhaseEffects
      <4>2. QED
        BY <2>4, <4>1 DEF BoxesKept
    <3>4. QED
      BY <3>1, <3>2, <3>3
  <2>9. ASSUME NEW c \in Controllers, Destroyed(c) PROVE Shown(o)'
    <3>1. CASE sandboxes' = sandboxes
      BY <2>5, <3>1
    <3>2. ASSUME NEW s \in Sandboxes, sandboxes' = [sandboxes EXCEPT ![s].state = "destroyed"]
          PROVE  Shown(o)'
      <4>1. /\ sandboxes'[t].result = sandboxes[t].result
            /\ sandboxes'[t].state = "live" => sandboxes[t].state = "live"
        <5>1. sandboxes'[s].state = "destroyed"
          BY <1>1, <3>2, DestroyIs
        <5>2. QED
          BY <1>1, <3>2, <5>1, DestroyIs
      <4>2. QED
        BY <2>4, <4>1
    <3>3. QED
      BY <2>9, <3>1, <3>2 DEF Destroyed, Reachable
  <2>10. Quiet => BackendStays
    BY DEF Quiet
  <2>11. \A q \in Runs : Created(q) \/ Edited(q) \/ Deleted(q) => BackendStays
    BY DEF Created, Edited, Deleted
  <2>12. \A c \in Controllers : Updated(c) \/ (\E q \in Runs : Started(c, q)) => BackendStays
    BY DEF Updated, Started
  <2>13. ASSUME NEW c \in Controllers, CreateLost(c) PROVE Shown(o)'
    BY <2>1, <2>5, <2>13, LostCreateIs
  <2>14. QED
    BY <1>1, <2>6, <2>7, <2>8, <2>9, <2>10, <2>11, <2>12, <2>13, StepCosts, UndisturbedStep
<1>4. QED
  BY <1>2, <1>3

\* Collecting the results is the only phase that changes the usage.
UsageKept(c) == work'[c].obj.usage = work[c].obj.usage

LEMMA DoneUsage ==
    ASSUME TypeInv, NEW c \in Controllers, NEW o \in Objects, NEW p, PhaseDone(c, o, p)
    PROVE  work'[c].obj.usage = o.usage
<1>1. PICK d : d = [o EXCEPT !.cond = MarkTrue(@, p)]
  OBVIOUS
<1>2. Moved(c, "UpdateStatus", d)
  BY <1>1, TypeInvParts, GotoMoves DEF PhaseDone
<1>3. d.usage = o.usage
  BY <1>1 DEF Objects
<1>4. QED
  BY <1>2, <1>3 DEF Moved

LEMMA EndUsage ==
    ASSUME TypeInv, NEW c \in Controllers, work[c].obj \in Objects,
           Fail(c) \/ Goto(c, "UpdateStatus", Succeed(work[c].obj))
    PROVE  UsageKept(c)
<1> DEFINE obj == work[c].obj
<1>1. MarkFailedObject(obj).usage = obj.usage /\ Succeed(obj).usage = obj.usage
  BY DEF MarkFailedObject, Succeed, Objects
<1>2. PICK f, d : f = MarkFailedObject(obj) /\ d = Succeed(obj)
  OBVIOUS
<1>3. Moved(c, "markFailed", f) \/ Moved(c, "UpdateStatus", d)
  BY <1>2, TypeInvParts, GotoMoves DEF Fail
<1>4. QED
  BY <1>1, <1>2, <1>3 DEF Moved, UsageKept

LEMMA ActionsUsage ==
    ASSUME TypeInv, NEW c \in Controllers, work[c].obj \in Objects, ReconcileActions(c)
    PROVE  UsageKept(c)
<1> DEFINE obj == work[c].obj
<1>1. PICK res \in Results :
        /\ res = sandboxes[obj.sandbox].result
        /\ IF res.actions = <<>>
             THEN Goto(c, "UpdateStatus", Succeed(obj))
             ELSE work' = [work EXCEPT ![c].pc = "Execute",
                                       ![c].obj = [obj EXCEPT !.audit = <<>>],
                                       ![c].todo = res.actions,
                                       ![c].failed = FALSE]
  BY Zenon DEF ReconcileActions
<1>2. CASE Goto(c, "UpdateStatus", Succeed(obj))
  BY <1>2, EndUsage
<1>3. PICK o : o = [obj EXCEPT !.audit = <<>>]
  OBVIOUS
<1>4. CASE work' = [work EXCEPT ![c].pc = "Execute", ![c].obj = o,
                                ![c].todo = res.actions, ![c].failed = FALSE]
  <2> DEFINE call == [work[c] EXCEPT !.pc = "Execute", !.obj = o,
                                     !.todo = res.actions, !.failed = FALSE]
  <2>1. work'[c] = call /\ work[c] \in Work
    BY <1>4, TypeInvParts DEF WorkInv
  <2>2. call.obj = o
    BY <2>1 DEF Work
  <2>3. o.usage = obj.usage
    BY <1>3 DEF Objects
  <2>4. QED
    BY <2>1, <2>2, <2>3 DEF UsageKept
<1>5. QED
  BY <1>1, <1>2, <1>3, <1>4

LEMMA ExecuteUsage ==
    ASSUME TypeInv, NEW c \in Controllers, work[c].obj \in Objects, ExecuteAction(c)
    PROVE  UsageKept(c)
<1> DEFINE obj == work[c].obj
<1>1. PICK a : a = Head(work[c].todo)
  OBVIOUS
<1>2. PICK took \in BOOLEAN, ok \in BOOLEAN :
        /\ ok => took
        /\ performed' = [performed EXCEPT ![work[c].run][a] = IF took THEN @ + 1 ELSE @]
        /\ work' = [work EXCEPT ![c].todo = Tail(@),
                                ![c].obj.audit = IF ok THEN Append(@, a) ELSE @,
                                ![c].failed = @ \/ ~ ok]
  BY <1>1, Zenon DEF ExecuteAction
<1> DEFINE audit == IF ok THEN Append(obj.audit, a) ELSE obj.audit
           o == [obj EXCEPT !.audit = audit]
           failed == work[c].failed \/ ~ ok
           call == [work[c] EXCEPT !.todo = Tail(work[c].todo), !.obj = o, !.failed = failed]
<1>3. work' = [work EXCEPT ![c] = call] /\ work[c] \in Work
  BY <1>2, TypeInvParts DEF WorkInv, Work
<1> HIDE DEF audit, failed
<1>4. o.usage = obj.usage
  BY DEF Objects
<1> HIDE DEF o
<1>5. call.obj = o
  BY <1>3 DEF Work
<1> HIDE DEF call
<1>6. work'[c] = call
  BY <1>3, TypeInvParts DEF WorkInv
<1>7. QED
  BY <1>4, <1>5, <1>6 DEF UsageKept

LEMMA PhaseUsage ==
    ASSUME BaseInv, NEW c \in Controllers, Phase(c)
    PROVE  \/ UsageKept(c)
           \/ /\ ReconcileResults(c) /\ work[c].pc = "ResultsCollected"
              /\ Reachable(work[c].obj.sandbox)
              /\ work'[c].obj.usage = sandboxes[work[c].obj.sandbox].result
<1> DEFINE obj == work[c].obj
<1>1. TypeInv /\ ObjectsConsistent /\ CallsConsistent
  BY BaseParts
<1>2. work[c].pc # "idle" /\ obj \in Objects /\ work[c] \in Work
  <2>1. work[c].pc # "idle"
    BY PhaseCall DEF Writing
  <2>2. QED
    BY <2>1, CallIs
<1>4. CASE PhaseError(c) \/ LoseAgent(c)
  BY <1>1, <1>2, <1>4, EndUsage DEF PhaseError, LoseAgent
<1>5. CASE ReconcileSandbox(c)
  <2>1. PICK s : /\ s \in Sandboxes \cup {NoSandbox}
                 /\ PhaseDone(c, obj, "SandboxReady")
                      \/ PhaseDone(c, [obj EXCEPT !.sandbox = s], "SandboxReady")
    BY <1>5 DEF ReconcileSandbox
  <2>2. PICK o : o = [obj EXCEPT !.sandbox = s]
    OBVIOUS
  <2>3. o \in Objects /\ o.usage = obj.usage
    BY <1>2, <2>1, <2>2 DEF Objects
  <2>4. QED
    BY <1>1, <1>2, <2>1, <2>2, <2>3, DoneUsage DEF UsageKept
<1>6. CASE PrepareAgent(c)
  BY <1>1, <1>6, PrepareStep DEF Moved, UsageKept
<1>7. CASE RunAgent(c)
  <2>1. PhaseDone(c, obj, "AgentExecuted") \/ Fail(c)
    BY <1>7 DEF RunAgent
  <2>2. QED
    BY <1>1, <1>2, <2>1, DoneUsage, EndUsage DEF UsageKept
<1>8. CASE ReconcileResults(c)
  <2>1. PICK res \in Results :
          /\ res = sandboxes[obj.sandbox].result
          /\ PhaseDone(c, [obj EXCEPT !.usage = res], "ResultsCollected")
    BY <1>8 DEF ReconcileResults
  <2>2. PICK o : o = [obj EXCEPT !.usage = res]
    OBVIOUS
  <2>3. o \in Objects /\ o.usage = res
    BY <1>2, <2>2 DEF Objects
  <2>4. work'[c].obj.usage = res
    BY <1>1, <2>1, <2>2, <2>3, DoneUsage
  <2>5. QED
    BY <1>8, <2>1, <2>4 DEF ReconcileResults
<1>9. CASE ReconcileActions(c)
  BY <1>1, <1>2, <1>9, ActionsUsage
<1>10. CASE ExecuteAction(c)
  BY <1>1, <1>2, <1>10, ExecuteUsage
<1>11. CASE FinishExecute(c)
  BY <1>1, <1>2, <1>11, EndUsage DEF FinishExecute
<1>12. QED
  BY <1>4, <1>5, <1>6, <1>7, <1>8, <1>9, <1>10, <1>11 DEF Phase

\* Who is let go of is in a sandbox that its call is about to destroy.
LEMMA StragglersStep ==
    ASSUME OneController, BaseInv, StragglersAreDoomed, [Next]_vars, Undisturbed'
    PROVE  StragglersAreDoomed'
<1>1. /\ TypeInv /\ sandboxes \in [Sandboxes -> SandboxStates]
      /\ \A s \in Sandboxes : sandboxes[s].stragglers \in Nat
  BY BaseParts, TypeInvParts DEF OthersInv, SandboxStates
<1> DEFINE Straggles(s) == sandboxes[s].stragglers > 0 /\ sandboxes[s].state # "destroyed"
           Dooms(c, s) == /\ work[c].pc \in {"markFailed", "destroySandbox"}
                          /\ work[c].obj.sandbox = s
                          /\ FailedIn(work[c].obj.cond, "AgentExecuted")
\* No process more is let go of, and the call that dooms it goes on or ends it.
<1>2. ASSUME \A s \in Sandboxes : Straggles(s)' => Straggles(s),
             \A s \in Sandboxes, c \in Controllers : Straggles(s)' /\ Dooms(c, s) => Dooms(c, s)'
      PROVE  StragglersAreDoomed'
  BY <1>2 DEF StragglersAreDoomed
<1>3. ASSUME sandboxes' = sandboxes, work' = work PROVE StragglersAreDoomed'
  BY <1>3 DEF StragglersAreDoomed
<1>4. ASSUME NEW c \in Controllers, work[c].pc \notin {"markFailed", "destroySandbox"},
             NEW s \in Sandboxes
      PROVE  ~ Straggles(s)
  BY <1>4 DEF StragglersAreDoomed, OneController
<1>5. ASSUME NEW c \in Controllers, work[c].pc \notin {"markFailed", "destroySandbox"},
             \A s \in Sandboxes : Straggles(s)' => Straggles(s)
      PROVE  StragglersAreDoomed'
  BY <1>4, <1>5 DEF StragglersAreDoomed
<1>6. ASSUME NEW s \in Sandboxes, StragglerEnds(s) PROVE StragglersAreDoomed'
  <2>1. work' = work /\ \A t \in Sandboxes : Straggles(t)' => Straggles(t)
    BY <1>1, <1>6, StragglerIs DEF BoxesKept
  <2>2. QED
    BY <2>1 DEF StragglersAreDoomed
<1>7. ASSUME NEW c \in Controllers, Phase(c) PROVE StragglersAreDoomed'
  <2>1. work[c].pc \notin {"markFailed", "destroySandbox"}
    BY <1>1, <1>7, PhaseCall, DependentsAre DEF Working
  <2>2. CASE ReconcileSandbox(c)
    <3>1. \A s \in Sandboxes : Straggles(s)' => Straggles(s)
      BY <2>2, FirstPhaseIs
    <3>2. QED
      BY <1>5, <2>1, <3>1
  <2>3. CASE LoseAgent(c)
    <3>1. PICK s \in Sandboxes : s = work[c].obj.sandbox
      BY <2>3 DEF LoseAgent, Reachable
    <3>2. /\ BoxesKept /\ \A t \in Sandboxes \ {s} : sandboxes'[t] = sandboxes[t]
      BY <1>1, <2>3, <3>1, AbandonIs DEF LoseAgent
    <3>3. \A t \in Sandboxes \ {s} : ~ Straggles(t)'
      BY <1>4, <2>1, <3>2
    <3>4. Dooms(c, s)'
      <4>1. /\ work[c].pc = "agent-run" /\ work[c].pc \in Working
            /\ PhaseOf(work[c].pc) = "AgentExecuted" /\ Fail(c)
        BY <2>3 DEF LoseAgent, Working, PhaseOf
      <4>2. /\ work[c].obj \in Objects /\ InPhase(work[c].obj.cond, "AgentExecuted")
            /\ "AgentExecuted" \in Dependents
        BY <4>1, BaseParts, WorkingCall DEF InPhaseCopy
      <4>3. PICK f : f = MarkFailedObject(work[c].obj)
        OBVIOUS
      <4>4. work[c].obj.cond \in Conditions
        BY <4>2 DEF Objects
      <4>5. f.cond = MarkFalse(work[c].obj.cond, "AgentExecuted") /\ f.sandbox = s
        BY <3>1, <4>2, <4>3, <4>4, InPhaseIs DEF MarkFailedObject, Objects
      <4>6. FailedIn(f.cond, "AgentExecuted")
        BY <4>2, <4>4, <4>5, MarksFollow
      <4>7. Moved(c, "markFailed", f)
        BY <4>1, <4>3, BaseParts, FailStep
      <4>8. QED
        BY <4>5, <4>6, <4>7 DEF Moved
    <3>5. QED
      BY <3>3, <3>4 DEF StragglersAreDoomed
  <2>4. CASE ~ ReconcileSandbox(c) /\ ~ LoseAgent(c)
    <3>1. \A s \in Sandboxes : Straggles(s)' => Straggles(s)
      BY <1>7, <2>4, LaterPhasesKeep, PhaseEffects DEF BoxesKept
    <3>2. QED
      BY <1>5, <2>1, <3>1
  <2>5. QED
    BY <2>2, <2>3, <2>4
<1>8. ASSUME NEW c \in Controllers, Updated(c) PROVE StragglersAreDoomed'
  <2>1. sandboxes' = sandboxes /\ OthersStay(c)
    BY <1>8 DEF Updated, BackendStays
  <2>2. CASE work[c].pc = "UpdateStatus"
    BY <1>5, <2>1, <2>2
  <2>3. CASE work[c].pc = "markFailed"
    <3>1. \A s : Dooms(c, s) => Dooms(c, s)'
      BY <1>8, <2>3 DEF Updated
    <3>2. \A d \in Controllers : d = c
      BY DEF OneController
    <3>3. QED
      BY <1>2, <2>1, <3>1, <3>2
  <2>4. QED
    BY <1>8, <2>2, <2>3 DEF Updated
<1>9. ASSUME NEW c \in Controllers, Destroyed(c) PROVE StragglersAreDoomed'
  <2>1. work[c].pc = "destroySandbox" /\ ~ Spend("destroyError")
    BY <1>1, <1>9, UndisturbedStep DEF Destroyed
  <2>2. PICK r \in Runs, s \in Sandboxes \cup {NoSandbox} :
          r = work[c].run /\ s = work[c].obj.sandbox /\ BoxOf(r, s)
    BY <2>1, CallIs
  <2>3. s \in Sandboxes => sandboxes[s].state # "free"
    BY <2>2, BaseParts, ConstantsAssumption DEF FreeUnowned, BoxOf
  <2>4. \A t \in Sandboxes : Straggles(t) => t = s
    BY <2>2 DEF StragglersAreDoomed, OneController
  <2>5. CASE sandboxes' = [sandboxes EXCEPT ![s].state = "destroyed"] /\ s \in Sandboxes
    <3>1. \A t \in Sandboxes : ~ Straggles(t)'
      BY <1>1, <2>4, <2>5, DestroyIs
    <3>2. QED
      BY <3>1 DEF StragglersAreDoomed
  <2>6. CASE ~ Reachable(s) /\ sandboxes' = sandboxes
    <3>1. s \in Sandboxes => sandboxes[s].state = "destroyed"
      BY <1>1, <2>3, <2>6 DEF Reachable, SandboxStates
    <3>2. \A t \in Sandboxes : ~ Straggles(t)'
      BY <2>4, <2>6, <3>1
    <3>3. QED
      BY <3>2 DEF StragglersAreDoomed
  <2>7. QED
    BY <1>9, <2>1, <2>2, <2>5, <2>6 DEF Destroyed, Reachable
<1>10. ASSUME NEW c \in Controllers, NEW r \in Runs, Started(c, r) PROVE StragglersAreDoomed'
  <2>1. work[c].pc = "idle" /\ sandboxes' = sandboxes
    BY <1>10 DEF Started, BackendStays
  <2>2. QED
    BY <1>5, <2>1
<1>11. ASSUME NEW c \in Controllers, CreateLost(c) PROVE StragglersAreDoomed'
  <2>1. work[c].pc \notin {"markFailed", "destroySandbox"}
    BY <1>11, LostCreateIs
  <2>2. \A s \in Sandboxes : Straggles(s)' => Straggles(s)
    BY <1>11, LostCreateIs
  <2>3. QED
    BY <1>5, <2>1, <2>2
<1>12. QED
  <2>1. Quiet => sandboxes' = sandboxes /\ work' = work
    BY DEF Quiet, BackendStays
  <2>2. \A q \in Runs : Created(q) \/ Edited(q) \/ Deleted(q) => sandboxes' = sandboxes /\ work' = work
    BY DEF Created, Edited, Deleted, BackendStays
  <2>3. QED
    BY <1>1, <1>3, <1>6, <1>7, <1>8, <1>9, <1>10, <1>11, <2>1, <2>2, StepCosts, UndisturbedStep

\* What one step makes of the objects and the calls, when nothing crashes.
CallTurns(c) ==
    \/ \E r \in Runs : Started(c, r)
    \/ Phase(c) \/ CreateLost(c) \/ Updated(c)
    \/ work'[c] = Idle /\ OthersStay(c) /\ UNCHANGED <<api, cache>>

LEMMA StepTurns ==
    ASSUME TypeInv, [Next]_vars
    PROVE  \/ UNCHANGED <<api, work>>
                /\ \A d \in Controllers, r \in Runs : cache'[d][r] \in {cache[d][r], api[r]}
           \/ /\ UNCHANGED <<cache, work>>
              /\ \E q \in Runs : Bumped(q) /\ StatusOf(api'[q]) = StatusOf(api[q])
           \/ \E c \in Controllers : CallTurns(c)
<1>1. Quiet => /\ UNCHANGED <<api, work>>
               /\ \A d \in Controllers, r \in Runs : cache'[d][r] \in {cache[d][r], api[r]}
  BY DEF Quiet
<1>2. /\ \A s \in Sandboxes : StragglerEnds(s) => UNCHANGED <<api, cache, work>>
      /\ \A c \in Controllers : RetryRun(c) => UNCHANGED <<api, cache, work>>
  BY RetryKeeps DEF StragglerEnds
<1>3. UNCHANGED <<api, cache, work>> =>
        /\ UNCHANGED <<api, work>>
        /\ \A d \in Controllers, r \in Runs : cache'[d][r] \in {cache[d][r], api[r]}
  OBVIOUS
<1>4. \A q \in Runs : Created(q) \/ Edited(q) \/ Deleted(q) =>
        /\ UNCHANGED <<cache, work>> /\ Bumped(q) /\ StatusOf(api'[q]) = StatusOf(api[q])
  BY DEF Created, Edited, Deleted, Kept
<1>5. \A c \in Controllers : Crashed(c) \/ Destroyed(c) => CallTurns(c)
  BY DEF Crashed, Destroyed, CallTurns
<1>6. \A c \in Controllers :
        Updated(c) \/ Phase(c) \/ CreateLost(c) \/ (\E r \in Runs : Started(c, r)) => CallTurns(c)
  BY DEF CallTurns
<1>7. QED
  BY <1>1, <1>2, <1>3, <1>4, <1>5, <1>6, StepCosts

LEMMA StartedKeeps ==
    ASSUME NEW c \in Controllers, NEW r \in Runs, Started(c, r)
    PROVE  api' = api /\ cache' = cache /\ OthersStay(c)
BY DEF Started, Fetched

\* What the server's object of r becomes.
LEMMA ObjectTurns ==
    ASSUME BaseInv, [Next]_vars, NEW r \in Runs
    PROVE  \/ StatusOf(api'[r]) = StatusOf(api[r])
           \/ \E c \in Controllers : Updated(c) /\ Written(c) /\ work[c].run = r
<1>1. TypeInv
  BY BaseParts
<1>2. api' = api => StatusOf(api'[r]) = StatusOf(api[r])
  OBVIOUS
<1>3. ASSUME NEW q \in Runs, Bumped(q), StatusOf(api'[q]) = StatusOf(api[q])
      PROVE  StatusOf(api'[r]) = StatusOf(api[r])
  BY <1>3 DEF Bumped
<1>4. ASSUME NEW c \in Controllers, Updated(c), Written(c), work[c].run # r
      PROVE  StatusOf(api'[r]) = StatusOf(api[r])
  BY <1>4 DEF Written, Bumped
<1>5. ASSUME NEW c \in Controllers, Updated(c) PROVE api' = api \/ Written(c)
  BY <1>5 DEF Updated
<1>6. ASSUME NEW c \in Controllers, Phase(c) \/ CreateLost(c) \/ \E q \in Runs : Started(c, q)
      PROVE  api' = api
  BY <1>6, PhaseIsNoFault, StartedKeeps, LostCreateIs
<1>7. QED
  BY <1>1, <1>2, <1>3, <1>4, <1>5, <1>6, StepTurns DEF CallTurns

\* Who has seen a result collected does not go back to the agent's phase: a
\* call starts from the cache, and the cache does not go back either.
LEMMA SeenStep ==
    ASSUME OneController, BaseInv, CollectionIsSeen, [Next]_vars PROVE CollectionIsSeen'
<1>1. /\ TypeInv /\ VersionInv /\ ObjectsConsistent /\ CallsConsistent
      /\ \A q \in Runs : api[q] \in Objects /\ Consistent(api[q])
      /\ \A c \in Controllers, q \in Runs : cache[c][q] \in Objects /\ Consistent(cache[c][q])
  BY BaseParts, TypeInvParts DEF CacheInv, ObjectsConsistent
<1>2. \A x, y : Extends(x, y) /\ ExecutedBefore(y) => ExecutedBefore(x)
  BY DependentsAre DEF Extends, ExecutedBefore
<1>3. \A x : Extends(x, x)
  BY DEF Extends
<1>4. \A c \in Controllers, r \in Runs :
        Extends(api[r], cache[c][r]) /\ (api[r].usage # NoResult => ExecutedBefore(cache[c][r]))
  BY DEF CollectionIsSeen
\* A call that writes a usage came from a copy with the agent's phase done.
<1>5. ASSUME NEW r \in Runs, api'[r].usage # NoResult, api[r].usage = NoResult
      PROVE  \E c \in Controllers : /\ Updated(c) /\ Written(c) /\ work[c].run = r
                                    /\ ExecutedBefore(cache[c][r]) /\ ExecutedBefore(work[c].obj)
  <2>1. PICK c \in Controllers : Updated(c) /\ Written(c) /\ work[c].run = r
    BY <1>5, ObjectTurns DEF StatusOf
  <2>2. /\ work[c].obj.usage # NoResult /\ work[c].pc # "idle"
        /\ work[c].pc \in {"UpdateStatus", "markFailed"}
    BY <1>5, <2>1, WrittenObject DEF Written
  <2>3. work[c].obj \in Objects /\ Consistent(work[c].obj)
    BY <1>1, <2>2, CallIs DEF CallsConsistent, CallConsistent
  <2>4. QED
    BY <2>1, <2>2, <2>3, UsageIs DEF CollectionIsSeen, CallSees
<1>6. ASSUME NEW c \in Controllers, NEW r \in Runs
      PROVE  /\ Extends(api'[r], cache'[c][r])
             /\ api'[r].usage # NoResult => ExecutedBefore(cache'[c][r])
             /\ ExecutedBefore(cache[c][r]) => ExecutedBefore(cache'[c][r])
  <2>1. cache' = cache \/ (api' = api /\ cache'[c][r] \in {cache[c][r], api[r]})
    <3>1. \A d \in Controllers : CallTurns(d) => cache' = cache
      BY PhaseIsNoFault, StartedKeeps, LostCreateIs DEF CallTurns, Updated
    <3>2. QED
      BY <1>1, <3>1, StepTurns
  <2>2. CASE cache'[c][r] = api[r] /\ api' = api
    <3>1. api[r].usage # NoResult => ExecutedBefore(api[r])
      BY <1>1, UsageIs
    <3>2. QED
      BY <1>2, <1>3, <1>4, <2>2, <3>1
  <2>3. CASE cache'[c][r] = cache[c][r]
    <3>1. StatusGrows(r)
      BY <1>1, StepGrows
    <3>2. Extends(api'[r], api[r])
      BY <1>3, <3>1 DEF StatusGrows, StatusOf, Extends
    <3>3. Extends(api'[r], cache[c][r])
      BY <1>4, <3>2, ExtendsTransitive
    <3>4. ASSUME api'[r].usage # NoResult PROVE ExecutedBefore(cache[c][r])
      <4>1. CASE api[r].usage # NoResult
        BY <1>4, <4>1
      <4>2. CASE api[r].usage = NoResult
        BY <1>5, <3>4, <4>2 DEF OneController
      <4>3. QED
        BY <4>1, <4>2
    <3>5. QED
      BY <2>3, <3>3, <3>4
  <2>4. QED
    BY <2>1, <2>2, <2>3
\* The parts of CallSees, before and after.
<1>7. ASSUME NEW c \in Controllers, work[c].pc # "idle"
      PROVE  /\ work[c].run \in Runs
             /\ api[work[c].run].usage # NoResult => ExecutedBefore(work[c].obj)
             /\ work[c].obj.usage # NoResult \/ work[c].pc = "ResultsCollected" =>
                  ExecutedBefore(cache[c][work[c].run])
  BY <1>7, CallIs DEF CollectionIsSeen, CallSees
<1>8. ASSUME NEW c \in Controllers, NEW r \in Runs, work'[c].run = r,
             api'[r].usage # NoResult => ExecutedBefore(work'[c].obj),
             work'[c].obj.usage # NoResult \/ work'[c].pc = "ResultsCollected" =>
               ExecutedBefore(cache[c][r])
      PROVE  CallSees(c)'
  BY <1>6, <1>8 DEF CallSees
<1>9. ASSUME NEW c \in Controllers, work'[c].pc = "idle" PROVE CallSees(c)'
  BY <1>9 DEF CallSees
<1>10. ASSUME NEW c \in Controllers, work'[c] = work[c], ~ Updated(c) PROVE CallSees(c)'
  <2>1. CASE work[c].pc = "idle"
    BY <1>9, <1>10, <2>1
  <2>2. CASE work[c].pc # "idle"
    <3>1. PICK r \in Runs : r = work[c].run
      BY <1>7, <2>2
    <3>2. api'[r].usage # NoResult => api[r].usage # NoResult
      BY <1>5, <1>10 DEF OneController
    <3>3. QED
      BY <1>7, <1>8, <1>10, <2>2, <3>1, <3>2
  <2>3. QED
    BY <2>1, <2>2
<1>11. ASSUME NEW c \in Controllers, CallTurns(c) PROVE CallSees(c)'
  <2>1. ASSUME NEW r \in Runs, Started(c, r) PROVE CallSees(c)'
    <3>1. /\ work'[c].run = r /\ work'[c].obj = cache[c][r] /\ api' = api
          /\ InPhaseCopy(cache[c][r], work'[c].pc) /\ work'[c].pc \in Dependents
      BY <2>1, StartedCall, StartedKeeps
    <3>2. cache[c][r].usage # NoResult \/ work'[c].pc = "ResultsCollected" =>
            ExecutedBefore(cache[c][r])
      BY <3>1, DependentsAre, ConditionsAre DEF InPhaseCopy, InPhase, Before, ExecutedBefore
    <3>3. QED
      BY <1>4, <1>8, <3>1, <3>2
  <2>2. CASE Phase(c)
    <3>1. /\ work[c].pc # "idle" /\ work'[c].run = work[c].run /\ api' = api
          /\ Extends(work'[c].obj, work[c].obj) /\ work'[c].pc # "ResultsCollected"
      BY <2>2, PhaseCall DEF Writing
    <3>2. work'[c].obj.usage # NoResult =>
            work[c].obj.usage # NoResult \/ work[c].pc = "ResultsCollected"
      BY <2>2, PhaseUsage DEF UsageKept
    <3>3. PICK r \in Runs : r = work[c].run
      BY <1>7, <3>1
    <3>4. QED
      BY <1>2, <1>7, <1>8, <3>1, <3>2, <3>3
  <2>3. CASE Updated(c)
    <3>1. CASE work'[c].pc = "idle"
      BY <1>9, <3>1
    <3>2. CASE work'[c].pc # "idle"
      <4>1. /\ work[c].pc \in {"UpdateStatus", "markFailed"} /\ work[c].pc # "idle"
            /\ work'[c].run = work[c].run /\ work'[c].obj.usage = work[c].obj.usage
            /\ work'[c].obj.cond = work[c].obj.cond /\ work'[c].pc = "destroySandbox"
        BY <2>3, <3>2, IdleIs DEF Updated
      <4>2. PICK r \in Runs : r = work[c].run
        BY <1>7, <4>1
      <4>3. api'[r].usage # NoResult => ExecutedBefore(work[c].obj)
        BY <1>5, <1>7, <4>1, <4>2 DEF OneController
      <4>4. QED
        BY <1>7, <1>8, <4>1, <4>2, <4>3 DEF ExecutedBefore
    <3>3. QED
      BY <3>1, <3>2
  <2>4. CASE work'[c] = Idle
    BY <1>9, <2>4, IdleIs
  <2>5. CASE CreateLost(c)
    <3>1. /\ work[c].pc # "idle" /\ work'[c].run = work[c].run /\ api' = api
          /\ Extends(work'[c].obj, work[c].obj) /\ work'[c].pc # "ResultsCollected"
          /\ work'[c].obj.usage = work[c].obj.usage
      BY <2>5, LostCreateIs DEF Writing
    <3>2. PICK r \in Runs : r = work[c].run
      BY <1>7, <3>1
    <3>3. QED
      BY <1>2, <1>7, <1>8, <3>1, <3>2
  <2>6. QED
    BY <1>11, <2>1, <2>2, <2>3, <2>4, <2>5 DEF CallTurns
<1>12. ASSUME NEW c \in Controllers PROVE CallSees(c)'
  <2>1. CASE work' = work
    <3>1. work'[c] = work[c]
      BY <2>1
    <3>2. CASE Updated(c)
      BY <1>11, <3>2 DEF CallTurns
    <3>3. QED
      BY <1>10, <3>1, <3>2
  <2>2. ASSUME NEW d \in Controllers, CallTurns(d) PROVE CallSees(c)'
    BY <1>11, <2>2 DEF OneController
  <2>3. QED
    BY <1>1, <2>1, <2>2, StepTurns
<1>13. QED
  BY <1>6, <1>12 DEF CollectionIsSeen

\* Each copy gets its usage and its sandbox from another copy, or has just read
\* result.json, or has just got its sandbox.
LEMMA ShownStep ==
    ASSUME OneController, BaseInv, CollectionIsSeen, StragglersAreDoomed, CopiesShown,
           [Next]_vars, Undisturbed'
    PROVE  CopiesShown'
<1>1. TypeInv /\ ObjectsConsistent /\ CallsConsistent
  BY BaseParts
<1>2. ASSUME NEW r \in Runs, NEW o, CopyOf(o, r), NEW x,
             x.usage = o.usage, x.sandbox = o.sandbox
      PROVE  Shown(x)'
  <2>1. Shown(o)
    BY <1>2 DEF CopyOf, CopiesShown
  <2>2. Shown(o)'
    BY <1>2, <2>1, ShownStays
  <2>3. QED
    BY <1>2, <2>2 DEF Shown
<1>3. ASSUME NEW r \in Runs PROVE Shown(api[r])'
  <2>1. PICK x, o : x = api'[r] /\ o = api[r]
    OBVIOUS
  <2>2. CASE StatusOf(x) = StatusOf(o)
    <3>1. x.usage = o.usage /\ x.sandbox = o.sandbox /\ CopyOf(o, r)
      BY <2>1, <2>2 DEF StatusOf, CopyOf
    <3>2. Shown(x)'
      BY <1>2, <3>1
    <3>3. QED
      BY <2>1, <3>2 DEF Shown
  <2>3. ASSUME NEW c \in Controllers, Written(c), work[c].run = r PROVE Shown(api[r])'
    <3>1. PICK w : w = work[c].obj
      OBVIOUS
    <3>2. x.usage = w.usage /\ x.sandbox = w.sandbox /\ Calls(c, r)
      BY <2>1, <2>3, <3>1, WrittenObject DEF Calls
    <3>3. Shown(x)'
      BY <1>2, <3>1, <3>2 DEF CopyOf
    <3>4. QED
      BY <2>1, <3>3 DEF Shown
  <2>4. QED
    BY <2>1, <2>2, <2>3, ObjectTurns
<1>4. ASSUME NEW c \in Controllers, NEW r \in Runs PROVE Shown(cache[c][r])'
  <2>1. PICK x : x = cache'[c][r]
    OBVIOUS
  <2>2. cache'[c][r] \in {cache[c][r], api[r]}
    <3>1. \A d \in Controllers : CallTurns(d) => cache' = cache
      BY PhaseIsNoFault, StartedKeeps, LostCreateIs DEF CallTurns, Updated
    <3>2. QED
      BY <1>1, <3>1, StepTurns
  <2>3. CopyOf(x, r)
    BY <2>1, <2>2 DEF CopyOf
  <2>4. Shown(x)'
    BY <1>2, <2>3
  <2>5. QED
    BY <2>1, <2>4 DEF Shown
<1>5. ASSUME NEW c \in Controllers, NEW r \in Runs, Calls(c, r)' PROVE Shown(work[c].obj)'
  <2>1. PICK x, o : x = work'[c].obj /\ o = work[c].obj
    OBVIOUS
  <2>2. SUFFICES Shown(x)'
    BY <2>1 DEF Shown
  <2>3. work'[c].pc \in Writing /\ work'[c].run = r
    BY <1>5 DEF Calls
  <2>4. CASE work'[c] = work[c]
    <3>1. Calls(c, r) /\ x = o
      BY <2>1, <2>3, <2>4 DEF Calls
    <3>2. CopyOf(o, r)
      BY <2>1, <3>1 DEF CopyOf
    <3>3. QED
      BY <1>2, <3>1, <3>2
  <2>5. ASSUME NEW q \in Runs, Started(c, q) PROVE Shown(x)'
    <3>1. x = cache[c][r]
      BY <2>1, <2>3, <2>5, StartedCall
    <3>2. CopyOf(x, r)
      BY <3>1 DEF CopyOf
    <3>3. QED
      BY <1>2, <3>2
  <2>6. CASE Phase(c)
    <3>1. /\ work[c].pc \in Writing /\ work[c].run = r
          /\ ReconcileSandbox(c) \/ x.sandbox = o.sandbox
      BY <2>1, <2>3, <2>6, PhaseCall
    <3>2. CopyOf(o, r)
      BY <2>1, <3>1 DEF CopyOf, Calls
    <3>3. CASE ReconcileSandbox(c)
      <4>1. work[c].pc = "SandboxReady" /\ ~ ReconcileResults(c)
        BY <3>3 DEF ReconcileSandbox, ReconcileResults
      <4>2. work[c].pc \in Working /\ PhaseOf(work[c].pc) = "SandboxReady"
        BY <4>1, DependentsAre DEF Working, PhaseOf
      <4>3. o.usage = NoResult
        BY <1>1, <2>1, <4>2, WorkingCall DEF InPhaseCopy
      <4>4. x.usage = o.usage
        BY <2>1, <2>6, <4>1, PhaseUsage DEF UsageKept
      <4>5. QED
        BY <4>3, <4>4 DEF Shown
    <3>4. CASE ReconcileResults(c)
      <4>1. sandboxes' = sandboxes /\ ~ ReconcileSandbox(c)
        BY <3>4 DEF ReconcileResults, ReconcileSandbox
      <4>2. CASE x.usage = o.usage
        BY <1>2, <3>1, <3>2, <4>1, <4>2
      <4>3. CASE x.usage # o.usage
        <5>1. x.usage = sandboxes[o.sandbox].result
          BY <2>1, <2>6, <4>3, PhaseUsage DEF UsageKept
        <5>2. QED
          BY <3>1, <4>1, <5>1 DEF Shown
      <4>4. QED
        BY <4>2, <4>3
    <3>5. CASE ~ ReconcileSandbox(c) /\ ~ ReconcileResults(c)
      <4>1. x.usage = o.usage
        BY <2>1, <2>6, <3>5, PhaseUsage DEF UsageKept
      <4>2. QED
        BY <1>2, <3>1, <3>2, <3>5, <4>1
    <3>6. QED
      BY <3>3, <3>4, <3>5
  <2>7. CASE Updated(c)
    BY <2>3, <2>7, IdleIs DEF Updated, Writing
  <2>8. CASE work'[c] = Idle
    BY <2>3, <2>8, IdleIs
  <2>9. CASE CreateLost(c)
    <3>1. /\ x.sandbox = o.sandbox /\ x.usage = o.usage
          /\ work[c].pc \in Writing /\ work[c].run = r
      BY <2>1, <2>3, <2>9, LostCreateIs
    <3>2. CopyOf(o, r)
      BY <2>1, <3>1 DEF CopyOf, Calls
    <3>3. QED
      BY <1>2, <3>1, <3>2
  <2>10. ASSUME NEW d \in Controllers, CallTurns(d) PROVE Shown(x)'
    <3>1. d = c
      BY DEF OneController
    <3>2. QED
      BY <2>5, <2>6, <2>7, <2>8, <2>9, <2>10, <3>1 DEF CallTurns
  <2>11. QED
    BY <1>1, <2>4, <2>10, StepTurns
<1>6. QED
  BY <1>3, <1>4, <1>5 DEF CopiesShown

\* The actions to do are those of the result that was collected.
LEMMA MatchStep ==
    ASSUME OneController, BaseInv, CopiesShown, AuditsMatch, [Next]_vars PROVE AuditsMatch'
<1>1. TypeInv /\ ObjectsConsistent /\ CallsConsistent
  BY BaseParts
<1>2. (\A r \in Runs : ObjectMatches(api[r])) /\ (\A c \in Controllers : CallMatches(work[c]))
  BY DEF AuditsMatch
<1>3. ASSUME NEW r \in Runs PROVE ObjectMatches(api[r])'
  <2>1. CASE StatusOf(api'[r]) = StatusOf(api[r])
    BY <1>2, <2>1 DEF ObjectMatches, StatusOf
  <2>2. ASSUME NEW c \in Controllers, Written(c), work[c].run = r PROVE ObjectMatches(api[r])'
    <3>1. /\ api'[r].cond = work[c].obj.cond /\ api'[r].usage = work[c].obj.usage
          /\ api'[r].audit = work[c].obj.audit
          /\ work[c].obj.rv = api[r].rv /\ work[c].pc \in {"UpdateStatus", "markFailed"}
      BY <2>2, WrittenObject DEF Written
    <3>2. ASSUME AllDone(work[c].obj.cond) PROVE work[c].pc = "UpdateStatus"
      <4>1. SUFFICES ASSUME work[c].pc = "markFailed" PROVE FALSE
        BY <3>1
      <4>2. \E p \in Dependents : FailedIn(work[c].obj.cond, p)
        BY <1>1, <2>2, <3>1, <4>1 DEF CallsConsistent, CallFollows
      <4>3. work[c].obj.cond \in Conditions
        BY <4>1, CallIs DEF Objects
      <4>4. QED
        BY <3>2, <4>2, <4>3, OverIs
    <3>3. ObjectMatches(work[c].obj)
      BY <1>2, <3>2 DEF CallMatches, ObjectMatches
    <3>4. QED
      BY <3>1, <3>3 DEF ObjectMatches
  <2>3. QED
    BY <2>1, <2>2, ObjectTurns
<1>4. ASSUME NEW c \in Controllers, work'[c].pc \notin {"Execute", "UpdateStatus"}
      PROVE  CallMatches(work[c])'
  BY <1>4 DEF CallMatches
<1>5. ASSUME NEW c \in Controllers, work'[c].pc = "UpdateStatus", ~ AllDone(work'[c].obj.cond)
      PROVE  CallMatches(work[c])'
  BY <1>5 DEF CallMatches, ObjectMatches
<1>6. ASSUME NEW c \in Controllers, Phase(c) PROVE CallMatches(work[c])'
  <2>1. PICK w, x : w = work[c] /\ x = work'[c]
    OBVIOUS
  <2>2. /\ w.pc \in Writing /\ w.pc # "idle" /\ w.run \in Runs /\ w.obj \in Objects
        /\ w.todo \in Seq(Actions) /\ w.obj.audit \in Seq(Actions)
    <3>1. work[c].pc \in Writing /\ work[c].pc # "idle"
      BY <1>6, PhaseCall DEF Writing
    <3>2. QED
      BY <2>1, <3>1, CallIs DEF Work, Objects
  <2>3. SUFFICES CallMatches(x)
    BY <2>1 DEF CallMatches, ObjectMatches
  <2>4. CallMatches(w)
    BY <1>2, <2>1
  <2>5. ~ ReconcileResults(c) => x.obj.usage = w.obj.usage
    BY <1>6, <2>1, PhaseUsage DEF UsageKept
  <2>6. CASE PhaseError(c) \/ LoseAgent(c)
    BY <1>1, <1>4, <2>1, <2>6, AbortStep DEF Moved, CallMatches
  <2>7. CASE ReconcileSandbox(c)
    BY <1>1, <2>1, <2>7, SandboxStep DEF Moved, CallMatches, ObjectMatches
  <2>8. CASE PrepareAgent(c)
    BY <1>1, <2>1, <2>8, PrepareStep DEF Moved, CallMatches
  <2>9. CASE RunAgent(c)
    BY <1>1, <2>1, <2>9, AgentStep DEF Moved, CallMatches, ObjectMatches
  <2>10. CASE ReconcileResults(c)
    BY <1>1, <2>1, <2>10, ResultsStep DEF Moved, CallMatches, ObjectMatches
  <2>11. CASE ReconcileActions(c)
    <3>1. w.pc = "ActionsExecuted" /\ Reachable(w.obj.sandbox) /\ ~ ReconcileResults(c)
      BY <2>1, <2>11 DEF ReconcileActions, ReconcileResults
    <3>2. work[c].pc \in Working /\ PhaseOf(work[c].pc) = "ActionsExecuted"
      BY <2>1, <3>1, DependentsAre DEF Working, PhaseOf
    <3>3. w.obj.usage # NoResult
      BY <1>1, <2>1, <3>2, WorkingCall DEF InPhaseCopy
    <3>4. PICK r \in Runs : r = w.run /\ Calls(c, r)
      BY <2>1, <2>2 DEF Calls
    <3>5. sandboxes[w.obj.sandbox].result = w.obj.usage
      BY <2>1, <3>1, <3>3, <3>4 DEF CopiesShown, Shown
    <3>6. PICK res \in Results :
            /\ res = w.obj.usage /\ x.obj.audit = <<>> /\ x.obj.usage = w.obj.usage
            /\ \/ x.pc = "UpdateStatus" /\ res.actions = <<>>
               \/ x.pc = "Execute" /\ x.todo = res.actions
      BY <1>1, <2>1, <2>5, <2>11, <3>1, <3>5, ActionsStep DEF Moved
    <3>7. <<>> \o res.actions = res.actions
      BY ConstantsAssumption
    <3>8. QED
      BY <3>6, <3>7 DEF CallMatches, ObjectMatches
  <2>12. CASE ExecuteAction(c)
    <3>1. w.pc = "Execute" /\ ~ ReconcileResults(c)
      BY <2>1, <2>12 DEF ExecuteAction, ReconcileResults
    <3>2. PICK a \in Actions, took \in BOOLEAN, ok \in BOOLEAN : Executed(c, a, took, ok)
      BY <1>1, <2>12, ExecuteStep
    <3>3. /\ w.todo # <<>> /\ a = Head(w.todo) /\ x.pc = "Execute" /\ x.todo = Tail(w.todo)
          /\ x.failed = (w.failed \/ ~ ok)
          /\ x.obj.audit = IF ok THEN Append(w.obj.audit, a) ELSE w.obj.audit
      BY <2>1, <3>2 DEF Executed, Moved
    <3>4. ASSUME ~ x.failed PROVE x.obj.audit \o x.todo = x.obj.usage.actions
      <4>1. ~ w.failed /\ ok
        BY <3>3, <3>4
      <4>2. w.obj.audit \o w.todo = w.obj.usage.actions
        BY <2>4, <3>1, <4>1 DEF CallMatches
      <4>3. x.obj.audit \o x.todo = w.obj.audit \o w.todo
        BY <2>2, <3>3, <4>1, HeadMoves
      <4>4. QED
        BY <2>5, <3>1, <4>2, <4>3
    <3>5. QED
      BY <3>3, <3>4 DEF CallMatches
  <2>13. CASE FinishExecute(c)
    <3>1. w.pc = "Execute" /\ w.todo = <<>> /\ ~ ReconcileResults(c)
      BY <2>1, <2>13 DEF FinishExecute, ReconcileResults
    <3>2. /\ x.obj.audit = w.obj.audit
          /\ (x.pc = "UpdateStatus" /\ ~ w.failed) \/ x.pc = "markFailed"
      BY <1>1, <2>1, <2>13, FinishStep DEF Moved
    <3>3. ~ w.failed => w.obj.audit = w.obj.usage.actions
      BY <2>2, <2>4, <3>1 DEF CallMatches
    <3>4. QED
      BY <2>5, <3>1, <3>2, <3>3 DEF CallMatches, ObjectMatches
  <2>14. QED
    BY <1>6, <2>6, <2>7, <2>8, <2>9, <2>10, <2>11, <2>12, <2>13 DEF Phase
<1>7. ASSUME NEW c \in Controllers PROVE CallMatches(work[c])'
  <2>1. CASE work' = work
    BY <1>2, <2>1 DEF CallMatches, ObjectMatches
  <2>2. ASSUME NEW r \in Runs, Started(c, r) PROVE CallMatches(work[c])'
    <3>1. work'[c].pc \in Dependents
      BY <2>2, StartedCall
    <3>2. QED
      BY <1>4, <3>1, DependentsAre
  <2>3. CASE Updated(c)
    BY <1>4, <2>3, IdleIs DEF Updated
  <2>4. CASE work'[c] = Idle
    BY <1>4, <2>4, IdleIs
  <2>5. CASE CreateLost(c)
    BY <1>4, <2>5, LostCreateIs
  <2>6. ASSUME NEW d \in Controllers, CallTurns(d) PROVE CallMatches(work[c])'
    <3>1. d = c
      BY DEF OneController
    <3>2. QED
      BY <1>6, <2>2, <2>3, <2>4, <2>5, <2>6, <3>1 DEF CallTurns
  <2>7. QED
    BY <1>1, <2>1, <2>6, StepTurns
<1>8. QED
  BY <1>3, <1>7 DEF AuditsMatch

LEMMA CollectInit == ASSUME Init PROVE CollectInv
<1>1. /\ \A r \in Runs : api[r] = Unborn /\ \A c \in Controllers : cache[c][r] = Unborn
      /\ \A c \in Controllers : work[c].pc = "idle"
      /\ \A s \in Sandboxes : sandboxes[s].stragglers = 0
  BY DEF Init, Idle
<1>2. /\ Unborn.usage = NoResult /\ ~ AllDone(Unborn.cond) /\ Extends(Unborn, Unborn)
  BY DependentsAre, ConditionsAre DEF Unborn, NoConditions, AllDone, Extends
<1>3. StragglersAreDoomed
  BY <1>1 DEF StragglersAreDoomed
<1>4. CollectionIsSeen
  BY <1>1, <1>2 DEF CollectionIsSeen, CallSees
<1>5. CopiesShown
  BY <1>1, <1>2 DEF CopiesShown, Shown, Calls, Writing
<1>6. AuditsMatch
  BY <1>1, <1>2 DEF AuditsMatch, ObjectMatches, CallMatches
<1>7. QED
  BY <1>3, <1>4, <1>5, <1>6 DEF CollectInv, CollectedInv

\* What a run that Succeeded executed is what was collected from the agent and
\* validated, although result.json is read again: what a copy records of it is
\* what the file holds, because nobody who has seen a result collected goes
\* back to the agent's phase, and an agent-run that is let go of is in a sandbox
\* about to be destroyed.  For one controller process that neither crashes nor
\* fails to destroy a sandbox, and whose Run is never made again after an attempt
\* that timed out; updates and Creates may be lost, updates refused, objects
\* edited and deleted, and caches old.
THEOREM CollectedIsExecuted ==
    ASSUME OneController
    PROVE  Spec => []ExecutesWhatWasCollected
<1>1. Init => CollectInv
  BY CollectInit
<1>2. BaseInv /\ CollectInv /\ [Next]_vars => CollectInv'
  <2> SUFFICES ASSUME BaseInv, CollectInv, [Next]_vars, Undisturbed' PROVE CollectedInv'
    BY DEF CollectInv
  <2>1. CollectedInv
    BY BaseParts, UndisturbedStep DEF CollectInv
  <2>2. StragglersAreDoomed'
    BY <2>1, StragglersStep DEF CollectedInv
  <2>3. CollectionIsSeen'
    BY <2>1, SeenStep DEF CollectedInv
  <2>4. CopiesShown'
    BY <2>1, ShownStep DEF CollectedInv
  <2>5. AuditsMatch'
    BY <2>1, MatchStep DEF CollectedInv
  <2>6. QED
    BY <2>2, <2>3, <2>4, <2>5 DEF CollectedInv
<1>3. BaseInv /\ CollectInv => ExecutesWhatWasCollected
  <2> SUFFICES ASSUME BaseInv, CollectInv, Undisturbed, NEW r \in Runs,
                      api[r].cond["Succeeded"] = "True"
               PROVE  api[r].audit = api[r].usage.actions
    BY DEF ExecutesWhatWasCollected, Undisturbed
  <2>1. Consistent(api[r])
    BY BaseParts DEF ObjectsConsistent
  <2>2. AllDone(api[r].cond)
    BY <2>1, ConditionsAre DEF Consistent, FieldsConsistent, AllDone, ConditionTypes
  <2>3. QED
    BY <2>2 DEF CollectInv, CollectedInv, AuditsMatch, ObjectMatches
<1>4. QED
  BY <1>1, <1>2, <1>3, BaseInit, BaseStep, PTL DEF Spec

=============================================================================
