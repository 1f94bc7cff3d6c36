----------------------- MODULE ActionExecutor_proofs -----------------------
(***************************************************************************)
(* Proofs about ActionExecutor, for any runs, deliveries, plans and        *)
(* branches, and any number of pushes, deletions and repetitions.          *)
(***************************************************************************)
EXTENDS ExecutorProperties, TLAPS

-----------------------------------------------------------------------------
\* Type correctness

\* A delivery becomes an event of the executor.
LEMMA EventType ==
    ASSUME NEW d \in Deliveries
    PROVE  ExecutorEvent(d) \in Events
<1> DEFINE p == ParsePayload(d)
<1>1. /\ p.issue \in Numbers \cup {0} /\ p.pull \in PullRequests \cup {0}
      /\ p.head \in Branches \cup {NoBranch} /\ p.sha \in BOOLEAN
  BY EventsAssumption DEF Deliveries, PullTriggers, PullRequests, ParsePayload
<1>2. QED
  BY <1>1 DEF ExecutorEvent, CreateProviderEvent, BuildEventInfo, Events

\* An execution starts well typed, and each way it goes on keeps it so.
LEMMA ExecutionFields ==
    ASSUME NEW e \in Execution
    PROVE  /\ \A pc \in Points : [e EXCEPT !.pc = pc] \in Execution
           /\ \A pc \in Points, h \in History : [e EXCEPT !.pc = pc, !.base = h] \in Execution
           /\ [e EXCEPT !.pc = "next", !.step = @ + 1, !.base = <<>>, !.failed = TRUE] \in Execution
           /\ \A C \in SUBSET Commit, t \in ActionTypes :
                [e EXCEPT !.pc = "next", !.step = @ + 1, !.base = <<>>, !.commits = @ \cup C,
                          !.audit = Append(@, t)] \in Execution
           /\ \A b \in Branches :
                [e EXCEPT !.pc = "ref", !.base = <<>>, !.evt.head = b,
                          !.evt.default = DefaultBranch] \in Execution
<1>1. <<>> \in History /\ "next" \in Points /\ "ref" \in Points
  BY DEF History, Points
<1>s. e.step + 1 \in Nat \ {0}
  BY DEF Execution
<1>a. \A C \in SUBSET Commit, t \in ActionTypes :
        e.commits \cup C \in SUBSET Commit /\ Append(e.audit, t) \in Seq(ActionTypes)
  BY DEF Execution
<1>2. \A pc \in Points : [e EXCEPT !.pc = pc] \in Execution
  BY DEF Execution
<1>3. \A pc \in Points, h \in History : [e EXCEPT !.pc = pc, !.base = h] \in Execution
  BY DEF Execution
<1>4. [e EXCEPT !.pc = "next", !.step = @ + 1, !.base = <<>>, !.failed = TRUE] \in Execution
  BY <1>1, <1>s DEF Execution
<1>5. \A C \in SUBSET Commit, t \in ActionTypes :
        [e EXCEPT !.pc = "next", !.step = @ + 1, !.base = <<>>, !.commits = @ \cup C,
                  !.audit = Append(@, t)] \in Execution
  BY <1>1, <1>s, <1>a DEF Execution
<1>6. ASSUME NEW b \in Branches
      PROVE  [e EXCEPT !.pc = "ref", !.base = <<>>, !.evt.head = b,
                       !.evt.default = DefaultBranch] \in Execution
  <2>1. [e.evt EXCEPT !.head = b, !.default = DefaultBranch] \in Events
    BY DEF Execution, Events
  <2>2. QED
    BY <1>1, <2>1 DEF Execution
<1>7. QED
  BY <1>2, <1>3, <1>4, <1>5, <1>6

LEMMA StartType ==
    ASSUME job \in [Runs -> [delivery : Delivered, plan : Plans]], NEW r \in Runs,
           NEW n \in Nat
    PROVE  Start(r, n) \in Execution /\ Start(r, n).pc = "next"
<1>1. job[r].delivery \in Deliveries
  BY ExecutorAssumption
<1>2. ExecutorEvent(job[r].delivery) \in Events
  BY <1>1, EventType
<1>3. QED
  BY <1>2 DEF Start, Execution, Points, History

\* What an execution works on.
LEMMA CurrentType ==
    ASSUME TypeOK, NEW r \in Runs, exec[r].step <= Len(job[r].plan)
    PROVE  Current(r) \in Action /\ exec[r].step \in 1..Len(job[r].plan)
<1>1. job[r].plan \in Seq(Action) /\ exec[r].step \in Nat \ {0}
  BY ExecutorAssumption DEF TypeOK, Execution
<1>2. QED
  BY <1>1 DEF Current

\* A branch that is set has its new history and no other branch changes.
LEMMA SetBranchEffect ==
    ASSUME NEW b, NEW h, SetBranch(b, h)
    PROVE  /\ DOMAIN branches' = DOMAIN branches \cup {b}
           /\ branches'[b] = h
           /\ \A x \in DOMAIN branches : x # b => branches'[x] = branches[x]
BY DEF SetBranch

LEMMA SetBranchType ==
    ASSUME TypeOK, NEW b \in Branches, NEW h \in History, SetBranch(b, h)
    PROVE  DOMAIN branches' \subseteq Branches /\ branches' \in [DOMAIN branches' -> History]
BY DEF SetBranch, TypeOK

\* An execution that goes on as one of ExecutionFields, at a point of its plan.
LEMMA ExecType ==
    ASSUME TypeOK, NEW r \in Runs, NEW e \in Execution, exec' = [exec EXCEPT ![r] = e],
           job' = job,
           e.pc \notin {"next", "done"} => e.step \in 1..Len(job[r].plan)
    PROVE  /\ exec' \in [Runs -> Execution]
           /\ \A q \in Runs :
                exec'[q].pc \notin {"next", "done"} => exec'[q].step \in 1..Len(job'[q].plan)
BY DEF TypeOK

LEMMA NewCommitType ==
    ASSUME TypeOK, NEW r \in Runs
    PROVE  NewCommit(r) \in Commit
BY DEF NewCommit, TypeOK, Execution, Commit

LEMMA ErrType ==
    ASSUME TypeOK, NEW r \in Runs, Err(r), job' = job
    PROVE  /\ exec' \in [Runs -> Execution]
           /\ \A q \in Runs :
                exec'[q].pc \notin {"next", "done"} => exec'[q].step \in 1..Len(job'[q].plan)
<1> DEFINE e == [exec[r] EXCEPT !.pc = "next", !.step = @ + 1, !.base = <<>>, !.failed = TRUE]
<1>1. exec' = [exec EXCEPT ![r] = e]
  BY DEF Err, TypeOK
<1>2. exec[r] \in Execution
  BY DEF TypeOK
<1>3. e \in Execution
  BY <1>2, ExecutionFields
<1>4. e.pc = "next"
  BY <1>2 DEF Execution
<1> HIDE DEF e
<1>5. QED
  BY <1>1, <1>3, <1>4, ExecType

LEMMA AuditType ==
    ASSUME TypeOK, NEW r \in Runs, NEW C \in SUBSET Commit, exec[r].step <= Len(job[r].plan),
           Audit(r, C), job' = job
    PROVE  /\ exec' \in [Runs -> Execution]
           /\ \A q \in Runs :
                exec'[q].pc \notin {"next", "done"} => exec'[q].step \in 1..Len(job'[q].plan)
<1> DEFINE e == [exec[r] EXCEPT !.pc = "next", !.step = @ + 1, !.base = <<>>,
                                !.commits = @ \cup C, !.audit = Append(@, Current(r).type)]
<1>1. exec' = [exec EXCEPT ![r] = e]
  BY DEF Audit, TypeOK
<1>2. exec[r] \in Execution
  BY DEF TypeOK
<1>3. Current(r).type \in ActionTypes
  BY CurrentType DEF Action
<1>4. e \in Execution
  BY <1>2, <1>3, ExecutionFields
<1>5. e.pc = "next"
  BY <1>2 DEF Execution
<1> HIDE DEF e
<1>6. QED
  BY <1>1, <1>4, <1>5, ExecType

LEMMA InitType == Init => TypeOK
<1>1. SUFFICES ASSUME Init PROVE TypeOK
  OBVIOUS
<1>2. DOMAIN branches \subseteq Branches /\ branches \in [DOMAIN branches -> History]
  <2>1. PICK p \in People :
          branches = [b \in {DefaultBranch} \cup {PullHead[n] : n \in PullRequests} |->
                        <<[by |-> p, step |-> 0, attempt |-> 0]>>]
    BY <1>1 DEF Init
  <2>2. [by |-> p, step |-> 0, attempt |-> 0] \in Commit
    BY DEF Commit
  <2>3. {PullHead[n] : n \in PullRequests} \subseteq Branches
    BY EventsAssumption DEF PullRequests
  <2>4. QED
    BY <2>1, <2>2, <2>3, EventsAssumption DEF History
<1>3. \A r \in Runs : Start(r, 1) \in Execution /\ Start(r, 1).pc = "next"
  BY <1>1, StartType DEF Init
<1>4. QED
  BY <1>1, <1>2, <1>3, ExecutorAssumption DEF Init, TypeOK

\* One step per action; UpdateRef and CreateIssueBranch also set a branch.
LEMMA NextType == TypeOK /\ [Next]_vars => TypeOK'
<1> DEFINE ExecTyped ==
        /\ exec' \in [Runs -> Execution]
        /\ \A q \in Runs :
             exec'[q].pc \notin {"next", "done"} => exec'[q].step \in 1..Len(job'[q].plan)
           BranchesTyped ==
        DOMAIN branches' \subseteq Branches /\ branches' \in [DOMAIN branches' -> History]
<1>1. SUFFICES ASSUME TypeOK, [Next]_vars PROVE TypeOK'
  OBVIOUS
<1>u. branches' = branches => BranchesTyped
  BY <1>1 DEF TypeOK
<1>j. \A r \in Runs : exec[r] \in Execution /\ exec[r].pc \in Points /\ exec[r].evt \in Events
  BY <1>1 DEF TypeOK, Execution
<1>2. ASSUME NEW r \in Runs, SimpleAction(r) PROVE TypeOK'
  <2>1. ExecTyped
    BY <1>1, <1>2, AuditType DEF SimpleAction, At
  <2>2. QED
    BY <1>1, <1>2, <1>u, <2>1 DEF SimpleAction, TypeOK
<1>3. ASSUME NEW r \in Runs, ActionError(r) PROVE TypeOK'
  <2>1. ExecTyped
    BY <1>1, <1>3, ErrType DEF ActionError
  <2>2. QED
    BY <1>1, <1>3, <1>u, <2>1 DEF ActionError, TypeOK
<1>4. ASSUME NEW r \in Runs, ExecuteCreatePR(r) PROVE TypeOK'
  <2>1. ExecTyped
    BY <1>1, <1>4, AuditType DEF ExecuteCreatePR, At
  <2>2. exec[r].commits \in SUBSET Commit /\ DOMAIN branches \subseteq Branches
    BY <1>1 DEF TypeOK, Execution
  <2>3. pulls' \subseteq PullRequest
    BY <1>1, <1>4, <2>2 DEF ExecuteCreatePR, Exists, PullRequest, TypeOK
  <2>4. QED
    BY <1>1, <1>4, <1>u, <2>1, <2>3 DEF ExecuteCreatePR, TypeOK
<1>5. ASSUME NEW r \in Runs, BeginCommit(r) PROVE TypeOK'
  <2> DEFINE e == [exec[r] EXCEPT !.pc = IF exec[r].evt.head # NoBranch THEN "ref" ELSE "default"]
  <2>1. e \in Execution
    BY <1>j, ExecutionFields DEF Points
  <2>2. e.step = exec[r].step /\ exec' = [exec EXCEPT ![r] = e]
    BY <1>1, <1>5, <1>j DEF BeginCommit, TypeOK, Execution
  <2>3. exec[r].step \in 1..Len(job[r].plan)
    BY <1>1, <1>5, CurrentType DEF BeginCommit, At
  <2> HIDE DEF e
  <2>4. ExecTyped
    BY <1>1, <1>5, <2>1, <2>2, <2>3, ExecType DEF BeginCommit
  <2>5. QED
    BY <1>1, <1>5, <1>u, <2>4 DEF BeginCommit, TypeOK
<1>6. ASSUME NEW r \in Runs, ReadDefault(r) PROVE TypeOK'
  <2> DEFINE e == [exec[r] EXCEPT !.pc = "create-ref", !.base = branches[DefaultBranch]]
  <2>1. e \in Execution
    BY <1>1, <1>6, <1>j, ExecutionFields DEF Points, ReadDefault, Exists, TypeOK
  <2>2. e.step = exec[r].step /\ exec' = [exec EXCEPT ![r] = e]
    BY <1>1, <1>6, <1>j DEF ReadDefault, TypeOK, Execution
  <2>3. exec[r].step \in 1..Len(job[r].plan)
    BY <1>1, <1>6 DEF ReadDefault, TypeOK
  <2> HIDE DEF e
  <2>4. ExecTyped
    BY <1>1, <1>6, <2>1, <2>2, <2>3, ExecType DEF ReadDefault
  <2>5. QED
    BY <1>1, <1>6, <1>u, <2>4 DEF ReadDefault, TypeOK
<1>7. ASSUME NEW r \in Runs, CreateIssueBranch(r) PROVE TypeOK'
  <2> DEFINE b == IssueBranch[exec[r].evt.issue]
             e == [exec[r] EXCEPT !.pc = "ref", !.base = <<>>, !.evt.head = b,
                                  !.evt.default = DefaultBranch]
  <2>1. b \in Branches
    BY <1>j, ExecutorAssumption DEF Events
  <2>2. BranchesTyped
    <3>1. exec[r].base \in History
      BY <1>j DEF Execution
    <3>2. QED
      BY <1>1, <1>7, <1>u, <2>1, <3>1, SetBranchType DEF CreateIssueBranch
  <2>3. ASSUME ~ Err(r) PROVE ExecTyped
    <3>1. e \in Execution
      BY <1>j, <2>1, ExecutionFields
    <3>2. e.step = exec[r].step /\ exec' = [exec EXCEPT ![r] = e]
      BY <1>1, <1>7, <1>j, <2>3 DEF CreateIssueBranch, TypeOK, Execution
    <3>3. exec[r].step \in 1..Len(job[r].plan)
      BY <1>1, <1>7 DEF CreateIssueBranch, TypeOK
    <3> HIDE DEF e
    <3>4. QED
      BY <1>1, <1>7, <3>1, <3>2, <3>3, ExecType DEF CreateIssueBranch
  <2>4. ExecTyped
    BY <1>1, <1>7, <2>3, ErrType DEF CreateIssueBranch
  <2>5. QED
    BY <1>1, <1>7, <2>2, <2>4 DEF CreateIssueBranch, TypeOK
<1>8. ASSUME NEW r \in Runs, ReadRef(r) PROVE TypeOK'
  <2> DEFINE e == [exec[r] EXCEPT !.pc = "update-ref", !.base = branches[exec[r].evt.head]]
  <2>1. e \in Execution
    BY <1>1, <1>8, <1>j, ExecutionFields DEF Points, ReadRef, Exists, TypeOK
  <2>2. e.step = exec[r].step /\ exec' = [exec EXCEPT ![r] = e]
    BY <1>1, <1>8, <1>j DEF ReadRef, TypeOK, Execution
  <2>3. exec[r].step \in 1..Len(job[r].plan)
    BY <1>1, <1>8 DEF ReadRef, TypeOK
  <2> HIDE DEF e
  <2>4. ExecTyped
    BY <1>1, <1>8, <2>1, <2>2, <2>3, ExecType DEF ReadRef
  <2>5. QED
    BY <1>1, <1>8, <1>u, <2>4 DEF ReadRef, TypeOK
<1>9. ASSUME NEW r \in Runs, UpdateRef(r) PROVE TypeOK'
  <2>1. NewCommit(r) \in Commit /\ exec[r].base \in History
    BY <1>1, <1>j, NewCommitType DEF Execution
  <2>2. Append(exec[r].base, NewCommit(r)) \in History
    BY <2>1 DEF History
  <2>3. exec[r].evt.head \in Branches
    BY <1>1, <1>9 DEF UpdateRef, Exists, TypeOK
  <2>4. BranchesTyped
    BY <1>1, <1>9, <2>2, <2>3, SetBranchType DEF UpdateRef
  <2>5. exec[r].step <= Len(job[r].plan)
    BY <1>1, <1>9 DEF UpdateRef, TypeOK
  <2>6. ExecTyped
    BY <1>1, <1>9, <2>1, <2>5, AuditType, ErrType DEF UpdateRef
  <2>7. QED
    BY <1>1, <1>9, <2>4, <2>6 DEF UpdateRef, TypeOK
<1>10. ASSUME NEW r \in Runs, Return(r) PROVE TypeOK'
  <2> DEFINE e == [exec[r] EXCEPT !.pc = "done"]
  <2>1. e \in Execution
    BY <1>j, ExecutionFields DEF Points
  <2>2. e.pc = "done" /\ exec' = [exec EXCEPT ![r] = e]
    BY <1>1, <1>10, <1>j DEF Return, TypeOK, Execution
  <2> HIDE DEF e
  <2>3. ExecTyped
    BY <1>1, <1>10, <2>1, <2>2, ExecType DEF Return
  <2>4. QED
    BY <1>1, <1>10, <1>u, <2>3 DEF Return, TypeOK
<1>11. ASSUME NEW r \in Runs, Repeat(r) PROVE TypeOK'
  <2> DEFINE e == Start(r, exec[r].attempt + 1)
  <2>1. exec[r].attempt + 1 \in Nat
    BY <1>j DEF Execution
  <2>2. e \in Execution /\ e.pc = "next"
    BY <1>1, <2>1, StartType DEF TypeOK
  <2> HIDE DEF e
  <2>3. ExecTyped
    BY <1>1, <1>11, <2>2, ExecType DEF Repeat, e
  <2>4. QED
    BY <1>1, <1>11, <1>u, <2>3 DEF Repeat, TypeOK
<1>12. ASSUME NEW p \in People, NEW b \in Branches, Push(p, b) PROVE TypeOK'
  <2>1. [by |-> p, step |-> pushed + 1, attempt |-> 0] \in Commit
    BY <1>1 DEF Commit, TypeOK
  <2>2. Append(branches[b], [by |-> p, step |-> pushed + 1, attempt |-> 0]) \in History
    BY <1>1, <1>12, <2>1 DEF Push, Exists, TypeOK, History
  <2>3. BranchesTyped
    BY <1>1, <1>12, <2>2, SetBranchType DEF Push
  <2>4. QED
    BY <1>1, <1>12, <2>3 DEF Push, TypeOK
<1>13. ASSUME NEW b \in Branches, DeleteBranch(b) PROVE TypeOK'
  <2>1. BranchesTyped
    BY <1>1, <1>13 DEF DeleteBranch, TypeOK
  <2>2. QED
    BY <1>1, <1>13, <2>1 DEF DeleteBranch, TypeOK
<1>14. CASE UNCHANGED vars
  BY <1>1, <1>14 DEF vars, TypeOK
<1>15. QED
  BY <1>1, <1>2, <1>3, <1>4, <1>5, <1>6, <1>7, <1>8, <1>9, <1>10, <1>11, <1>12, <1>13, <1>14
     DEF Next, Execute

\* Every reachable state is well typed; in particular an execution that is in
\* the middle of an action has one (executor.go:33).
THEOREM ExecutorTypeCorrect == Spec => []TypeOK
<1>1. Init => TypeOK
  BY InitType
<1>2. TypeOK /\ [Next]_vars => TypeOK'
  BY NextType
<1>3. QED
  BY <1>1, <1>2, PTL DEF Spec

-----------------------------------------------------------------------------
\* What a step does

\* Everything that is on a branch stays where it is.
Growing == \A b \in DOMAIN branches : b \in DOMAIN branches' /\ IsPrefix(branches[b], branches'[b])

\* The executions other than r's stand still.
OthersStand(r) == \A q \in Runs \ {r} : exec'[q] = exec[q]

LEMMA PrefixReflexive ==
    ASSUME NEW h \in History
    PROVE  IsPrefix(h, h)
BY DEF IsPrefix, History

LEMMA PrefixTransitive ==
    ASSUME NEW h \in History, NEW i \in History, NEW j \in History, IsPrefix(h, i), IsPrefix(i, j)
    PROVE  IsPrefix(h, j)
BY DEF IsPrefix, History

LEMMA PrefixOfAppend ==
    ASSUME NEW h \in History, NEW c \in Commit
    PROVE  IsPrefix(h, Append(h, c))
BY DEF IsPrefix, History

LEMMA ErrEffect ==
    ASSUME TypeOK, NEW r \in Runs, Err(r)
    PROVE  /\ OthersStand(r)
           /\ exec'[r].pc = "next" /\ exec'[r].base = <<>> /\ exec'[r].failed
           /\ exec'[r].evt = exec[r].evt /\ exec'[r].commits = exec[r].commits
           /\ exec'[r].attempt = exec[r].attempt
BY DEF OthersStand, Err, TypeOK, Execution

LEMMA AuditEffect ==
    ASSUME TypeOK, NEW r \in Runs, NEW C, Audit(r, C)
    PROVE  /\ OthersStand(r)
           /\ exec'[r].pc = "next" /\ exec'[r].base = <<>> /\ exec'[r].failed = exec[r].failed
           /\ exec'[r].evt = exec[r].evt /\ exec'[r].commits = exec[r].commits \cup C
           /\ exec'[r].attempt = exec[r].attempt
BY DEF OthersStand, Audit, TypeOK, Execution

\* An execution that moves to another point, with another base.
Move(r, pc, h) ==
    \/ exec' = [exec EXCEPT ![r].pc = pc, ![r].base = h]
    \/ exec' = [exec EXCEPT ![r].pc = pc] /\ h = exec[r].base

LEMMA Moves ==
    ASSUME NEW r
    PROVE  /\ ReadDefault(r) => Move(r, "create-ref", branches[DefaultBranch])
           /\ ReadRef(r) => Move(r, "update-ref", branches[exec[r].evt.head])
           /\ BeginCommit(r) =>
                Move(r, IF exec[r].evt.head # NoBranch THEN "ref" ELSE "default", exec[r].base)
           /\ Return(r) => Move(r, "done", exec[r].base)
BY DEF Move, ReadDefault, ReadRef, BeginCommit, Return

LEMMA MoveEffect ==
    ASSUME TypeOK, NEW r \in Runs, NEW pc, NEW h, Move(r, pc, h)
    PROVE  /\ OthersStand(r)
           /\ exec'[r].pc = pc /\ exec'[r].base = h /\ exec'[r].failed = exec[r].failed
           /\ exec'[r].evt = exec[r].evt /\ exec'[r].commits = exec[r].commits
           /\ exec'[r].attempt = exec[r].attempt
<1>1. exec[r] \in Execution
  BY DEF TypeOK
<1>2. CASE exec' = [exec EXCEPT ![r].pc = pc, ![r].base = h]
  BY <1>1, <1>2 DEF OthersStand, TypeOK, Execution
<1>3. CASE exec' = [exec EXCEPT ![r].pc = pc] /\ h = exec[r].base
  BY <1>1, <1>3 DEF OthersStand, TypeOK, Execution
<1>4. QED
  BY <1>2, <1>3 DEF Move

LEMMA BranchedEffect ==
    ASSUME TypeOK, NEW r \in Runs, NEW b,
           exec' = [exec EXCEPT ![r].pc = "ref", ![r].base = <<>>, ![r].evt.head = b,
                                ![r].evt.default = DefaultBranch]
    PROVE  /\ OthersStand(r)
           /\ exec'[r].pc = "ref" /\ exec'[r].base = <<>> /\ exec'[r].failed = exec[r].failed
           /\ exec'[r].evt.head = b /\ exec'[r].commits = exec[r].commits
           /\ exec'[r].attempt = exec[r].attempt
BY DEF OthersStand, TypeOK, Execution, Events

LEMMA RepeatEffect ==
    ASSUME TypeOK, NEW r \in Runs, Repeat(r)
    PROVE  /\ OthersStand(r)
           /\ exec'[r].pc = "next" /\ exec'[r].base = <<>> /\ ~ exec'[r].failed
           /\ exec'[r].commits = {} /\ exec'[r].attempt = exec[r].attempt + 1
BY DEF OthersStand, Repeat, Start, TypeOK

\* Only a deletion takes something from a branch, and never from the default
\* branch: an update is accepted if it is a fast-forward.
LEMMA BranchesGrow ==
    ASSUME TypeOK, [Next]_vars
    PROVE  /\ Growing \/ (deleted' = deleted + 1 /\ \E b \in Branches : DeleteBranch(b))
           /\ DefaultBranch \in DOMAIN branches =>
                /\ DefaultBranch \in DOMAIN branches'
                /\ IsPrefix(branches[DefaultBranch], branches'[DefaultBranch])
           /\ deleted' = 0 => deleted = 0
<1>1. \A b \in DOMAIN branches : branches[b] \in History /\ IsPrefix(branches[b], branches[b])
  BY PrefixReflexive DEF TypeOK
<1>2. ASSUME branches' = branches PROVE Growing
  BY <1>1, <1>2 DEF Growing
<1>3. ASSUME NEW r \in Runs, CreateIssueBranch(r) PROVE Growing
  BY <1>1, <1>2, <1>3, SetBranchEffect DEF Growing, CreateIssueBranch, Exists
<1>4. ASSUME NEW r \in Runs, UpdateRef(r) PROVE Growing
  BY <1>1, <1>4, SetBranchEffect DEF Growing, UpdateRef
<1>5. ASSUME NEW p \in People, NEW b \in Branches, Push(p, b) PROVE Growing
  <2>1. [by |-> p, step |-> pushed + 1, attempt |-> 0] \in Commit
    BY DEF Commit, TypeOK
  <2>2. branches[b] \in History
    BY <1>1, <1>5 DEF Push, Exists
  <2>3. IsPrefix(branches[b], Append(branches[b], [by |-> p, step |-> pushed + 1, attempt |-> 0]))
    BY <2>1, <2>2, PrefixOfAppend
  <2>4. QED
    BY <1>1, <1>5, <2>3, SetBranchEffect DEF Growing, Push
<1>6. ASSUME NEW b \in Branches, DeleteBranch(b)
      PROVE  /\ deleted' = deleted + 1
             /\ DefaultBranch \in DOMAIN branches =>
                  /\ DefaultBranch \in DOMAIN branches'
                  /\ IsPrefix(branches[DefaultBranch], branches'[DefaultBranch])
  BY <1>1, <1>6 DEF DeleteBranch
<1>7. ASSUME NEW r \in Runs, Execute(r) \/ Repeat(r)
      PROVE  Growing /\ deleted' = deleted
  <2>1. deleted' = deleted
    BY <1>7 DEF Execute, Repeat, SimpleAction, ActionError, ExecuteCreatePR, BeginCommit,
       ReadDefault, CreateIssueBranch, ReadRef, UpdateRef, Return
  <2>2. CreateIssueBranch(r) \/ UpdateRef(r) \/ branches' = branches
    BY <1>7 DEF Execute, Repeat, SimpleAction, ActionError, ExecuteCreatePR, BeginCommit,
       ReadDefault, ReadRef, Return
  <2>3. QED
    BY <1>2, <1>3, <1>4, <2>1, <2>2
<1>8. ASSUME UNCHANGED vars PROVE Growing /\ deleted' = deleted
  BY <1>2, <1>8 DEF vars
<1>9. ASSUME NEW p \in People, NEW b \in Branches, Push(p, b) PROVE deleted' = deleted
  BY <1>9 DEF Push
<1>10. deleted \in Nat
  BY DEF TypeOK
<1>11. Growing => (DefaultBranch \in DOMAIN branches =>
                /\ DefaultBranch \in DOMAIN branches'
                /\ IsPrefix(branches[DefaultBranch], branches'[DefaultBranch]))
  BY DEF Growing
<1> SUFFICES (Growing /\ deleted' = deleted) \/ \E b \in Branches : DeleteBranch(b)
  BY <1>6, <1>10, <1>11
<1>12. QED
  BY <1>5, <1>7, <1>8, <1>9 DEF Next

\* c is on branch b after the step.
OnNext(c, b) == b \in DOMAIN branches' /\ \E i \in DOMAIN branches'[b] : branches'[b][i] = c

\* What is on a branch stays on it while nobody deletes branches.
LEMMA StaysOn ==
    ASSUME TypeOK, TypeOK', Growing, NEW c, NEW b, On(c, b)
    PROVE  OnNext(c, b)
<1>1. PICK i \in DOMAIN branches[b] : branches[b][i] = c
  BY DEF On
<1>2. /\ b \in DOMAIN branches /\ b \in DOMAIN branches'
      /\ branches[b] \in History /\ branches'[b] \in History
      /\ IsPrefix(branches[b], branches'[b])
  BY DEF On, Exists, Growing, TypeOK
<1>3. i \in DOMAIN branches'[b] /\ branches'[b][i] = c
  BY <1>1, <1>2 DEF IsPrefix, History
<1>4. QED
  BY <1>2, <1>3 DEF OnNext

-----------------------------------------------------------------------------
\* The branches are a BranchLog

\* Between its two calls createIssueBranch holds what the default branch held.
Forkable ==
    /\ DefaultBranch \in DOMAIN branches
    /\ \A r \in Runs :
         exec[r].pc = "create-ref" => IsPrefix(exec[r].base, branches[DefaultBranch])

LEMMA ForkableStep == TypeOK /\ Forkable /\ [Next]_vars => Forkable'
<1>1. SUFFICES ASSUME TypeOK, Forkable, [Next]_vars PROVE Forkable'
  OBVIOUS
<1>2. TypeOK'
  BY <1>1, NextType
<1>3. /\ DefaultBranch \in DOMAIN branches'
      /\ IsPrefix(branches[DefaultBranch], branches'[DefaultBranch])
      /\ branches[DefaultBranch] \in History /\ branches'[DefaultBranch] \in History
  BY <1>1, <1>2, BranchesGrow DEF Forkable, TypeOK
<1>4. SUFFICES ASSUME NEW r \in Runs, exec'[r].pc = "create-ref"
               PROVE  IsPrefix(exec'[r].base, branches'[DefaultBranch])
  BY <1>3 DEF Forkable
<1>5. ASSUME exec'[r] = exec[r] PROVE IsPrefix(exec'[r].base, branches'[DefaultBranch])
  <2>1. exec[r].base \in History
    BY <1>1 DEF TypeOK, Execution
  <2>2. QED
    BY <1>1, <1>3, <1>4, <1>5, <2>1, PrefixTransitive DEF Forkable
<1>6. ASSUME NEW q \in Runs, ReadDefault(q) PROVE IsPrefix(exec'[r].base, branches'[DefaultBranch])
  <2>1. OthersStand(q) /\ exec'[q].base = branches[DefaultBranch]
    BY <1>1, <1>6, Moves, MoveEffect
  <2>2. QED
    BY <1>3, <1>5, <2>1 DEF OthersStand
<1>7. ASSUME NEW q \in Runs, Execute(q) \/ Repeat(q), ~ ReadDefault(q)
      PROVE  exec'[r] = exec[r]
  <2>1. OthersStand(q) /\ exec'[q].pc # "create-ref"
    <3>1. CASE SimpleAction(q)
      BY <1>1, <3>1, AuditEffect DEF SimpleAction
    <3>2. CASE ActionError(q)
      BY <1>1, <3>2, ErrEffect DEF ActionError
    <3>3. CASE ExecuteCreatePR(q)
      BY <1>1, <3>3, AuditEffect DEF ExecuteCreatePR
    <3>4. CASE BeginCommit(q)
      BY <1>1, <3>4, Moves, MoveEffect
    <3>5. CASE CreateIssueBranch(q)
      BY <1>1, <3>5, ErrEffect, BranchedEffect DEF CreateIssueBranch
    <3>6. CASE ReadRef(q)
      BY <1>1, <3>6, Moves, MoveEffect
    <3>7. CASE UpdateRef(q)
      BY <1>1, <3>7, ErrEffect, AuditEffect DEF UpdateRef
    <3>8. CASE Return(q)
      BY <1>1, <3>8, Moves, MoveEffect
    <3>9. CASE Repeat(q)
      BY <1>1, <3>9, RepeatEffect
    <3>10. QED
      BY <1>7, <3>1, <3>2, <3>3, <3>4, <3>5, <3>6, <3>7, <3>8, <3>9 DEF Execute
  <2>2. QED
    BY <1>4, <2>1 DEF OthersStand
<1>8. ASSUME NEW b \in Branches, DeleteBranch(b) \/ \E p \in People : Push(p, b)
      PROVE  exec'[r] = exec[r]
  BY <1>8 DEF DeleteBranch, Push
<1>9. CASE UNCHANGED vars
  BY <1>5, <1>9 DEF vars
<1>10. QED
  BY <1>1, <1>5, <1>6, <1>7, <1>8, <1>9 DEF Next

\* Two histories, one of which begins with the other, are equal or one extends
\* the other.
LEMMA PrefixIsEqualOrExtended ==
    ASSUME NEW h \in History, NEW i \in History, IsPrefix(h, i)
    PROVE  h = i \/ Log!Extended(h, i)
BY DEF IsPrefix, History, Log!Extended

\* A branch that gets a longer history grows, one that gets its own stutters.
LEMMA SetBranchIsGrow ==
    ASSUME TypeOK, NEW b \in Branches, b \in DOMAIN branches, NEW h \in History,
           SetBranch(b, h), IsPrefix(branches[b], h)
    PROVE  Log!Grow(b) \/ branches' = branches
<1>1. branches[b] \in History
  BY DEF TypeOK
<1>2. CASE branches[b] = h
  BY <1>2 DEF SetBranch, TypeOK
<1>3. CASE Log!Extended(branches[b], h)
  BY <1>3, SetBranchEffect DEF Log!Grow, Log!Only
<1>4. QED
  BY <1>1, <1>2, <1>3, PrefixIsEqualOrExtended

LEMMA LogStep == TypeOK /\ Forkable /\ [Next]_vars => [Log!Next]_branches
<1>1. SUFFICES ASSUME TypeOK, Forkable, [Next]_vars, branches' # branches PROVE Log!Next
  OBVIOUS
<1>2. ASSUME NEW r \in Runs, CreateIssueBranch(r) PROVE Log!Next
  <2> DEFINE b == IssueBranch[exec[r].evt.issue]
  <2>1. /\ b \in Branches /\ exec[r].base \in History
        /\ DefaultBranch \in DOMAIN branches /\ branches[DefaultBranch] \in History
    BY <1>1, ExecutorAssumption DEF TypeOK, Execution, Events, Forkable
  <2>2. b \notin DOMAIN branches /\ SetBranch(b, exec[r].base)
    BY <1>1, <1>2 DEF CreateIssueBranch, Exists
  <2>3. IsPrefix(exec[r].base, branches[DefaultBranch])
    BY <1>1, <1>2 DEF Forkable, CreateIssueBranch
  <2>4. exec[r].base = branches[DefaultBranch] \/ Log!Extended(exec[r].base, branches[DefaultBranch])
    BY <2>1, <2>3, PrefixIsEqualOrExtended
  <2>5. Log!Fork(b)
    BY <2>1, <2>2, <2>4, SetBranchEffect DEF Log!Fork, Log!Only
  <2>6. QED
    BY <2>1, <2>5 DEF Log!Next
<1>3. ASSUME NEW r \in Runs, UpdateRef(r) PROVE Log!Next
  <2>1. Append(exec[r].base, NewCommit(r)) \in History
    BY <1>1, NewCommitType DEF TypeOK, Execution, History
  <2>2. exec[r].evt.head \in Branches
    BY <1>1, <1>3 DEF UpdateRef, Exists, TypeOK
  <2>3. QED
    BY <1>1, <1>3, <2>1, <2>2, SetBranchIsGrow DEF UpdateRef, Exists, Log!Next
<1>4. ASSUME NEW p \in People, NEW b \in Branches, Push(p, b) PROVE Log!Next
  <2>1. [by |-> p, step |-> pushed + 1, attempt |-> 0] \in Commit
    BY <1>1 DEF Commit, TypeOK
  <2>2. b \in DOMAIN branches /\ branches[b] \in History
    BY <1>1, <1>4 DEF Push, Exists, TypeOK
  <2>3. /\ Append(branches[b], [by |-> p, step |-> pushed + 1, attempt |-> 0]) \in History
        /\ IsPrefix(branches[b], Append(branches[b], [by |-> p, step |-> pushed + 1, attempt |-> 0]))
    BY <2>1, <2>2, PrefixOfAppend DEF History
  <2>4. QED
    BY <1>1, <1>4, <2>2, <2>3, SetBranchIsGrow DEF Push, Log!Next
<1>5. ASSUME NEW b \in Branches, DeleteBranch(b) PROVE Log!Next
  <2>1. Log!Delete(b)
    BY <1>5 DEF DeleteBranch, Exists, Log!Delete, Log!Only
  <2>2. QED
    BY <2>1 DEF Log!Next
<1>6. ASSUME NEW r \in Runs, Execute(r) \/ Repeat(r)
      PROVE  CreateIssueBranch(r) \/ UpdateRef(r)
  BY <1>1, <1>6 DEF Execute, Repeat, SimpleAction, ActionError, ExecuteCreatePR, BeginCommit,
     ReadDefault, ReadRef, Return
<1>7. QED
  BY <1>1, <1>2, <1>3, <1>4, <1>5, <1>6 DEF Next, vars

LEMMA InitForkable == Init => Forkable /\ Log!Init
<1>1. SUFFICES ASSUME Init PROVE Forkable /\ Log!Init
  OBVIOUS
<1>2. DefaultBranch \in DOMAIN branches
  BY <1>1 DEF Init
<1>3. \A r \in Runs : exec[r].pc = "next"
  BY <1>1 DEF Init, Start
<1>4. DOMAIN branches \subseteq Branches
  BY <1>1, InitType DEF TypeOK
<1>5. QED
  BY <1>2, <1>3, <1>4 DEF Forkable, Log!Init

\* Whatever the interleaving of agents and people, the branches behave as a
\* BranchLog: nobody's commit is replaced or taken back by somebody else's
\* (github.go:209-253), and an issue's branch starts from what the default branch
\* holds or held (github.go:268-276).
THEOREM BranchesAreLogs == Spec => ImplementsBranchLog
<1>1. Init => TypeOK /\ Forkable /\ Log!Init
  BY InitType, InitForkable
<1>2. TypeOK /\ Forkable /\ [Next]_vars => (TypeOK /\ Forkable)' /\ [Log!Next]_branches
  BY NextType, ForkableStep, LogStep
<1>3. QED
  BY <1>1, <1>2, PTL DEF Spec, ImplementsBranchLog, Log!Spec

-----------------------------------------------------------------------------
\* The audit is true of the branches

\* A run has a head branch from its first commit on, and looks for one only if
\* it has none: the commits of an execution are all on one branch.
Placed ==
    \A r \in Runs :
        /\ exec[r].commits # {} => exec[r].evt.head # NoBranch
        /\ exec[r].pc \in {"default", "create-ref"} => exec[r].evt.head = NoBranch
        /\ exec[r].pc \in {"ref", "update-ref"} => exec[r].evt.head # NoBranch

AuditInv == Placed /\ AuditedCommitsAreThere /\ PullRequestsCarryCommits

\* The execution that AuditInv speaks of has what it had, and on a branch that
\* was not taken from it.
Holds(r, C) ==
    /\ exec'[r].commits \subseteq exec[r].commits \cup C
    /\ exec'[r].commits # {} => exec'[r].evt.head # NoBranch
    /\ exec[r].commits # {} => exec'[r].commits = {} \/ exec'[r].evt.head = exec[r].evt.head
    /\ exec'[r].pc \in {"default", "create-ref"} => exec'[r].evt.head = NoBranch
    /\ exec'[r].pc \in {"ref", "update-ref"} => exec'[r].evt.head # NoBranch

\* Only an accepted update adds to the audited commits.
LEMMA StepHolds ==
    ASSUME TypeOK, Placed, NEW r \in Runs, Execute(r) \/ Repeat(r)
    PROVE  /\ OthersStand(r)
           /\ \/ Holds(r, {})
              \/ /\ UpdateRef(r) /\ Holds(r, {NewCommit(r)})
                 /\ exec'[r].evt.head = exec[r].evt.head
<1>p. /\ exec[r].commits # {} => exec[r].evt.head # NoBranch
      /\ exec[r].pc \in {"default", "create-ref"} => exec[r].evt.head = NoBranch
      /\ exec[r].pc \in {"ref", "update-ref"} => exec[r].evt.head # NoBranch
  BY DEF Placed
<1>1. CASE SimpleAction(r)
  BY <1>p, <1>1, AuditEffect DEF SimpleAction, Holds
<1>2. CASE ActionError(r)
  BY <1>p, <1>2, ErrEffect DEF ActionError, Holds
<1>3. CASE ExecuteCreatePR(r)
  BY <1>p, <1>3, AuditEffect DEF ExecuteCreatePR, Holds
<1>4. CASE BeginCommit(r)
  BY <1>p, <1>4, Moves, MoveEffect DEF Holds
<1>5. CASE ReadDefault(r)
  <2>1. OthersStand(r) /\ exec'[r].pc = "create-ref" /\ exec'[r].evt = exec[r].evt
        /\ exec'[r].commits = exec[r].commits /\ exec[r].pc = "default"
    BY <1>5, Moves, MoveEffect DEF ReadDefault
  <2>2. QED
    BY <1>p, <2>1 DEF Holds
<1>6. CASE CreateIssueBranch(r)
  <2> DEFINE b == IssueBranch[exec[r].evt.issue]
  <2>1. b # NoBranch
    BY EventsAssumption, ExecutorAssumption DEF TypeOK, Execution, Events
  <2>2. exec[r].commits = {}
    BY <1>p, <1>6 DEF CreateIssueBranch
  <2>3. CASE Err(r)
    BY <1>p, <2>3, ErrEffect DEF Holds
  <2>4. CASE ~ Err(r)
    BY <1>6, <2>1, <2>2, <2>4, BranchedEffect DEF CreateIssueBranch, Holds
  <2>5. QED
    BY <2>3, <2>4
<1>7. CASE ReadRef(r)
  <2>1. OthersStand(r) /\ exec'[r].pc = "update-ref" /\ exec'[r].evt = exec[r].evt
        /\ exec'[r].commits = exec[r].commits /\ exec[r].pc = "ref"
    BY <1>7, Moves, MoveEffect DEF ReadRef
  <2>2. QED
    BY <1>p, <2>1 DEF Holds
<1>8. CASE UpdateRef(r)
  <2>1. exec[r].evt.head # NoBranch
    BY <1>p, <1>8 DEF UpdateRef
  <2>2. CASE Err(r)
    BY <1>p, <2>2, ErrEffect DEF Holds
  <2>3. CASE Audit(r, {NewCommit(r)})
    BY <1>8, <2>1, <2>3, AuditEffect DEF Holds
  <2>4. QED
    BY <1>8, <2>2, <2>3 DEF UpdateRef
<1>9. CASE Return(r)
  BY <1>p, <1>9, Moves, MoveEffect DEF Holds
<1>10. CASE Repeat(r)
  BY <1>10, RepeatEffect DEF Holds
<1>11. QED
  BY <1>1, <1>2, <1>3, <1>4, <1>5, <1>6, <1>7, <1>8, <1>9, <1>10 DEF Execute

\* After an accepted update the new commit is the last one of its branch.
LEMMA UpdateIsOn ==
    ASSUME TypeOK, NEW r \in Runs, UpdateRef(r)
    PROVE  OnNext(NewCommit(r), exec[r].evt.head)
<1> DEFINE b == exec[r].evt.head
           c == NewCommit(r)
<1>1. exec[r].base \in History /\ c \in Commit
  BY NewCommitType DEF TypeOK, Execution
<1>2. b \in DOMAIN branches' /\ branches'[b] = Append(exec[r].base, c)
  BY DEF UpdateRef, SetBranch
<1>3. /\ Len(exec[r].base) + 1 \in DOMAIN branches'[b]
      /\ branches'[b][Len(exec[r].base) + 1] = c
  BY <1>1, <1>2 DEF History
<1> HIDE DEF b, c
<1>4. \E i \in DOMAIN branches'[b] : branches'[b][i] = c
  BY <1>3
<1>5. QED
  BY <1>2, <1>4 DEF OnNext, b, c

LEMMA AuditStep == TypeOK /\ AuditInv /\ [Next]_vars => AuditInv'
<1>1. SUFFICES ASSUME TypeOK, AuditInv, [Next]_vars PROVE AuditInv'
  OBVIOUS
<1>2. TypeOK'
  BY <1>1, NextType
<1>3. ASSUME NEW r \in Runs
      PROVE  \/ exec'[r] = exec[r]
             \/ Holds(r, {})
             \/ /\ UpdateRef(r) /\ Holds(r, {NewCommit(r)})
                /\ exec'[r].evt.head = exec[r].evt.head
  <2>1. ASSUME NEW q \in Runs, Execute(q) \/ Repeat(q), q # r PROVE exec'[r] = exec[r]
    BY <1>1, <2>1, StepHolds DEF AuditInv, OthersStand
  <2>2. CASE Execute(r) \/ Repeat(r)
    BY <1>1, <2>2, StepHolds DEF AuditInv
  <2>3. ASSUME NEW b \in Branches, DeleteBranch(b) \/ \E p \in People : Push(p, b)
        PROVE  exec'[r] = exec[r]
    BY <2>3 DEF DeleteBranch, Push
  <2>4. QED
    BY <1>1, <2>1, <2>2, <2>3 DEF Next, vars
<1>4. Placed'
  BY <1>1, <1>3 DEF AuditInv, Placed, Holds
<1>5. ASSUME deleted' = 0 PROVE Growing /\ deleted = 0
  <2>1. deleted \in Nat
    BY <1>1 DEF TypeOK
  <2>2. QED
    BY <1>1, <1>5, <2>1, BranchesGrow
<1>6. AuditedCommitsAreThere'
  <2>1. SUFFICES ASSUME deleted' = 0, NEW r \in Runs, NEW c \in exec'[r].commits
                 PROVE  OnNext(c, exec'[r].evt.head)
    BY DEF AuditedCommitsAreThere, On, OnNext, Exists
  <2>2. ASSUME c \in exec[r].commits, exec'[r].evt.head = exec[r].evt.head
        PROVE  OnNext(c, exec'[r].evt.head)
    <3>1. On(c, exec[r].evt.head)
      BY <1>1, <1>5, <2>1, <2>2 DEF AuditInv, AuditedCommitsAreThere
    <3>2. OnNext(c, exec[r].evt.head)
      BY <1>1, <1>2, <1>5, <2>1, <3>1, StaysOn
    <3>3. QED
      BY <2>2, <3>2
  <2>3. CASE exec'[r] = exec[r] \/ Holds(r, {})
    BY <2>1, <2>2, <2>3 DEF Holds
  <2>4. CASE /\ UpdateRef(r) /\ Holds(r, {NewCommit(r)})
             /\ exec'[r].evt.head = exec[r].evt.head
    <3>1. OnNext(NewCommit(r), exec'[r].evt.head)
      BY <1>1, <2>4, UpdateIsOn
    <3>2. c \in exec[r].commits \/ c = NewCommit(r)
      BY <2>1, <2>4 DEF Holds
    <3>3. QED
      BY <2>2, <2>4, <3>1, <3>2
  <2>5. QED
    BY <1>3, <2>3, <2>4
<1>7. PullRequestsCarryCommits'
  <2>1. SUFFICES ASSUME deleted' = 0, NEW p \in pulls', NEW c \in p.commits
                 PROVE  OnNext(c, p.head)
    BY DEF PullRequestsCarryCommits, On, OnNext, Exists
  <2>2. SUFFICES On(c, p.head)
    BY <1>1, <1>2, <1>5, <2>1, StaysOn
  <2>3. CASE p \in pulls
    BY <1>1, <1>5, <2>1, <2>3 DEF AuditInv, PullRequestsCarryCommits
  <2>4. ASSUME NEW r \in Runs, ExecuteCreatePR(r), p \notin pulls
        PROVE  On(c, p.head)
    <3>1. p.commits = exec[r].commits
          /\ (exec[r].evt.head # NoBranch => p.head = exec[r].evt.head)
      BY <2>1, <2>4 DEF ExecuteCreatePR
    <3>2. exec[r].commits # {} /\ p.head = exec[r].evt.head
      BY <1>1, <2>1, <3>1 DEF AuditInv, Placed
    <3>3. QED
      BY <1>1, <1>5, <2>1, <3>1, <3>2 DEF AuditInv, AuditedCommitsAreThere
  <2>5. ASSUME p \notin pulls PROVE \E r \in Runs : ExecuteCreatePR(r)
    BY <1>1, <2>1, <2>5 DEF Next, vars, Execute, Repeat, SimpleAction, ActionError, BeginCommit,
       ReadDefault, CreateIssueBranch, ReadRef, UpdateRef, Return, Push, DeleteBranch
  <2>6. QED
    BY <2>3, <2>4, <2>5
<1>8. QED
  BY <1>4, <1>6, <1>7 DEF AuditInv

LEMMA InitAudit == Init => AuditInv
<1>1. SUFFICES ASSUME Init PROVE AuditInv
  OBVIOUS
<1>2. \A r \in Runs : exec[r].commits = {} /\ exec[r].pc = "next"
  BY <1>1 DEF Init, Start
<1>3. pulls = {}
  BY <1>1 DEF Init
<1>4. QED
  BY <1>2, <1>3 DEF AuditInv, Placed, AuditedCommitsAreThere, PullRequestsCarryCommits

LEMMA AuditInvariant == Spec => []AuditInv
<1>1. Init => TypeOK /\ AuditInv
  BY InitType, InitAudit
<1>2. TypeOK /\ AuditInv /\ [Next]_vars => (TypeOK /\ AuditInv)'
  BY NextType, AuditStep
<1>3. QED
  BY <1>1, <1>2, PTL DEF Spec

\* As long as no branch is deleted, every commit a run has audited is on the
\* branch of its event, with any number of other writers (github.go:252-253).
THEOREM AuditedCommits == Spec => []AuditedCommitsAreThere
<1>1. AuditInv => AuditedCommitsAreThere
  BY DEF AuditInv
<1>2. QED
  BY <1>1, AuditInvariant, PTL

\* Every pull request that a run opens carries what the run had committed by
\* then (executor.go:112-115).
THEOREM PullsCarryCommits == Spec => []PullRequestsCarryCommits
<1>1. AuditInv => PullRequestsCarryCommits
  BY DEF AuditInv
<1>2. QED
  BY <1>1, AuditInvariant, PTL

-----------------------------------------------------------------------------
\* The audit is complete

\* c is known: on a branch, or in a history that an execution has read.  What was
\* read may come back to a branch that was deleted in between.
Listed(c, h) == \E i \in DOMAIN h : h[i] = c

Known(c) ==
    \/ \E b \in DOMAIN branches : Listed(c, branches[b])
    \/ \E r \in Runs : Listed(c, exec[r].base)

\* r has no commits of later attempts, and has audited those of this one.
Attributed(c, e) ==
    /\ c.attempt <= e.attempt
    /\ c.attempt = e.attempt /\ ~e.failed => c \in e.commits

CompleteInv == \A c : Known(c) => \A r \in Runs : c.by = r => Attributed(c, exec[r])

\* c is known after the step.
KnownNext(c) ==
    \/ \E b \in DOMAIN branches' : Listed(c, branches'[b])
    \/ \E r \in Runs : Listed(c, exec'[r].base)

LEMMA ListedInAppend ==
    ASSUME NEW h \in History, NEW d, NEW c, Listed(c, Append(h, d))
    PROVE  Listed(c, h) \/ c = d
BY DEF Listed, History

LEMMA NothingListed == \A c : ~ Listed(c, <<>>)
BY DEF Listed

\* Only updates and pushes make commits.
LEMMA WhatIsKnown ==
    ASSUME TypeOK, [Next]_vars, NEW c, KnownNext(c)
    PROVE  \/ Known(c)
           \/ \E r \in Runs : UpdateRef(r) /\ c = NewCommit(r)
           \/ c.by \in People
<1>h. \A b \in DOMAIN branches : branches[b] \in History
  BY DEF TypeOK
<1>e. \A r \in Runs : exec[r].base \in History
  BY DEF TypeOK, Execution
<1>1. ASSUME NEW r \in Runs, Execute(r) \/ Repeat(r)
      PROVE  /\ OthersStand(r)
             /\ \/ exec'[r].base = <<>> \/ exec'[r].base = exec[r].base
                \/ \E b \in DOMAIN branches : exec'[r].base = branches[b]
  <2>1. CASE SimpleAction(r)
    BY <2>1, AuditEffect DEF SimpleAction
  <2>2. CASE ActionError(r)
    BY <2>2, ErrEffect DEF ActionError
  <2>3. CASE ExecuteCreatePR(r)
    BY <2>3, AuditEffect DEF ExecuteCreatePR
  <2>4. CASE BeginCommit(r)
    BY <2>4, Moves, MoveEffect
  <2>5. CASE ReadDefault(r)
    <3>1. DefaultBranch \in DOMAIN branches
      BY <2>5 DEF ReadDefault, Exists
    <3>2. OthersStand(r) /\ exec'[r].base = branches[DefaultBranch]
      BY <2>5, Moves, MoveEffect
    <3>3. QED
      BY <3>1, <3>2
  <2>6. CASE CreateIssueBranch(r)
    BY <2>6, ErrEffect, BranchedEffect DEF CreateIssueBranch
  <2>7. CASE ReadRef(r)
    <3>1. exec[r].evt.head \in DOMAIN branches
      BY <2>7 DEF ReadRef, Exists
    <3>2. OthersStand(r) /\ exec'[r].base = branches[exec[r].evt.head]
      BY <2>7, Moves, MoveEffect
    <3>3. QED
      BY <3>1, <3>2
  <2>8. CASE UpdateRef(r)
    BY <2>8, ErrEffect, AuditEffect DEF UpdateRef
  <2>9. CASE Return(r)
    BY <2>9, Moves, MoveEffect
  <2>10. CASE Repeat(r)
    BY <2>10, RepeatEffect
  <2>11. QED
    BY <1>1, <2>1, <2>2, <2>3, <2>4, <2>5, <2>6, <2>7, <2>8, <2>9, <2>10 DEF Execute
<1>2. ASSUME NEW q \in Runs, Listed(c, exec'[q].base) PROVE Known(c)
  <2>1. ASSUME NEW r \in Runs, Execute(r) \/ Repeat(r) PROVE Known(c)
    <3>1. CASE q # r
      BY <1>1, <1>2, <2>1, <3>1 DEF OthersStand, Known
    <3>2. CASE q = r
      BY <1>1, <1>2, <2>1, <3>2, NothingListed DEF Known
    <3>3. QED
      BY <3>1, <3>2
  <2>2. CASE exec' = exec
    BY <1>2, <2>2 DEF Known
  <2>3. QED
    BY <2>1, <2>2 DEF Next, vars, Push, DeleteBranch
<1>3. ASSUME NEW b \in DOMAIN branches', Listed(c, branches'[b])
      PROVE  \/ Known(c)
             \/ \E r \in Runs : UpdateRef(r) /\ c = NewCommit(r)
             \/ c.by \in People
  <2>1. ASSUME NEW r \in Runs, CreateIssueBranch(r) PROVE Known(c)
    BY <1>3, <2>1 DEF CreateIssueBranch, SetBranch, Known
  <2>2. ASSUME NEW r \in Runs, UpdateRef(r) PROVE Known(c) \/ c = NewCommit(r)
    <3>1. \/ b \in DOMAIN branches /\ branches'[b] = branches[b]
          \/ branches'[b] = Append(exec[r].base, NewCommit(r))
      BY <1>3, <2>2 DEF UpdateRef, SetBranch
    <3>2. CASE branches'[b] = Append(exec[r].base, NewCommit(r))
      BY <1>3, <1>e, <3>2, ListedInAppend DEF Known
    <3>3. QED
      BY <1>3, <3>1, <3>2 DEF Known
  <2>3. ASSUME NEW p \in People, NEW x \in Branches, Push(p, x)
        PROVE  Known(c) \/ c.by \in People
    <3> DEFINE d == [by |-> p, step |-> pushed + 1, attempt |-> 0]
    <3>1. /\ x \in DOMAIN branches
          /\ \/ b \in DOMAIN branches /\ branches'[b] = branches[b]
             \/ branches'[b] = Append(branches[x], d)
      BY <1>3, <2>3 DEF Push, SetBranch, Exists
    <3>2. d.by \in People
      OBVIOUS
    <3> HIDE DEF d
    <3>3. CASE branches'[b] = Append(branches[x], d)
      BY <1>3, <1>h, <3>1, <3>2, <3>3, ListedInAppend DEF Known
    <3>4. QED
      BY <1>3, <3>1, <3>3 DEF Known
  <2>4. ASSUME NEW x \in Branches, DeleteBranch(x) PROVE Known(c)
    BY <1>3, <2>4 DEF DeleteBranch, Known
  <2>5. CASE branches' = branches
    BY <1>3, <2>5 DEF Known
  <2>6. QED
    BY <2>1, <2>2, <2>3, <2>4, <2>5 DEF Next, vars, Execute, Repeat, SimpleAction, ActionError,
       ExecuteCreatePR, BeginCommit, ReadDefault, ReadRef, Return
<1>4. QED
  BY <1>2, <1>3 DEF KnownNext

\* What an execution knows of its commits it keeps, or starts a new attempt.
LEMMA KeepsItsAudit ==
    ASSUME TypeOK, NEW r \in Runs, Execute(r) \/ Repeat(r)
    PROVE  /\ OthersStand(r)
           /\ \/ /\ exec'[r].attempt = exec[r].attempt
                 /\ exec[r].failed => exec'[r].failed
                 /\ exec[r].commits \subseteq exec'[r].commits
              \/ exec'[r].attempt = exec[r].attempt + 1
<1>1. CASE SimpleAction(r)
  BY <1>1, AuditEffect DEF SimpleAction
<1>2. CASE ActionError(r)
  BY <1>2, ErrEffect DEF ActionError
<1>3. CASE ExecuteCreatePR(r)
  BY <1>3, AuditEffect DEF ExecuteCreatePR
<1>4. CASE BeginCommit(r) \/ ReadDefault(r) \/ ReadRef(r) \/ Return(r)
  BY <1>4, Moves, MoveEffect
<1>5. CASE CreateIssueBranch(r)
  <2>1. CASE Err(r)
    BY <2>1, ErrEffect
  <2>2. CASE ~ Err(r)
    BY <1>5, <2>2, BranchedEffect DEF CreateIssueBranch
  <2>3. QED
    BY <2>1, <2>2
<1>6. CASE UpdateRef(r)
  BY <1>6, ErrEffect, AuditEffect DEF UpdateRef
<1>7. CASE Repeat(r)
  BY <1>7, RepeatEffect
<1>8. QED
  BY <1>1, <1>2, <1>3, <1>4, <1>5, <1>6, <1>7 DEF Execute

LEMMA KnownType ==
    ASSUME TypeOK, NEW c, Known(c)
    PROVE  c \in Commit
<1>1. \A h \in History : Listed(c, h) => c \in Commit
  BY DEF Listed, History
<1>2. /\ \A b \in DOMAIN branches : branches[b] \in History
      /\ \A r \in Runs : exec[r].base \in History
  BY DEF TypeOK, Execution
<1>3. QED
  BY <1>1, <1>2 DEF Known

LEMMA CompleteStep == TypeOK /\ CompleteInv /\ [Next]_vars => CompleteInv'
<1>1. SUFFICES ASSUME TypeOK, CompleteInv, [Next]_vars,
                      NEW c, KnownNext(c), NEW r \in Runs, c.by = r
               PROVE  Attributed(c, exec'[r])
  BY DEF CompleteInv, Known, KnownNext, Attributed, Listed
<1>2. exec[r] \in Execution /\ exec[r].attempt \in Nat
  BY <1>1 DEF TypeOK, Execution
<1>3. CASE Known(c)
  <2>1. Attributed(c, exec[r]) /\ c.attempt \in Nat
    BY <1>1, <1>3, KnownType DEF CompleteInv, Commit
  <2>2. ASSUME NEW q \in Runs, Execute(q) \/ Repeat(q), q # r PROVE exec'[r] = exec[r]
    BY <1>1, <2>2, KeepsItsAudit DEF OthersStand
  <2>3. CASE Execute(r) \/ Repeat(r)
    BY <1>1, <1>2, <2>1, <2>3, KeepsItsAudit DEF Attributed
  <2>4. CASE exec'[r] = exec[r]
    BY <2>1, <2>4
  <2>5. QED
    BY <1>1, <2>2, <2>3, <2>4 DEF Next, vars, Push, DeleteBranch
<1>4. ASSUME NEW q \in Runs, UpdateRef(q), c = NewCommit(q) PROVE Attributed(c, exec'[r])
  <2>1. q = r /\ c.attempt = exec[r].attempt
    BY <1>1, <1>4 DEF NewCommit
  <2>2. CASE Audit(r, {c})
    BY <1>1, <1>2, <2>1, <2>2, AuditEffect DEF Attributed
  <2>3. CASE Err(r)
    BY <1>1, <1>2, <2>1, <2>3, ErrEffect DEF Attributed
  <2>4. QED
    BY <1>4, <2>1, <2>2, <2>3 DEF UpdateRef
<1>5. c.by \notin People
  BY <1>1, ExecutorAssumption
<1>6. QED
  BY <1>1, <1>3, <1>4, <1>5, WhatIsKnown

LEMMA InitComplete == Init => CompleteInv
<1>1. SUFFICES ASSUME Init, NEW c, Known(c), NEW r \in Runs, c.by = r PROVE FALSE
  BY DEF CompleteInv
<1>2. \A q \in Runs : exec[q].base = <<>>
  BY <1>1 DEF Init, Start
<1>3. PICK p \in People :
        branches = [b \in {DefaultBranch} \cup {PullHead[n] : n \in PullRequests} |->
                      <<[by |-> p, step |-> 0, attempt |-> 0]>>]
  BY <1>1 DEF Init
<1>4. c = [by |-> p, step |-> 0, attempt |-> 0]
  BY <1>1, <1>2, <1>3 DEF Known, Listed
<1>5. QED
  BY <1>1, <1>4, ExecutorAssumption

\* Unless its execution fails, every commit that a run has put on a branch in
\* this attempt is audited, also one that came back to a deleted branch.
THEOREM NothingIsUnaudited == Spec => []NothingUnaudited
<1>1. Init => TypeOK /\ CompleteInv
  BY InitType, InitComplete
<1>2. TypeOK /\ CompleteInv /\ [Next]_vars => (TypeOK /\ CompleteInv)'
  BY NextType, CompleteStep
<1>3. CompleteInv => NothingUnaudited
  BY DEF CompleteInv, NothingUnaudited, Known, Listed, Attributed
<1>4. QED
  BY <1>1, <1>2, <1>3, PTL DEF Spec

-----------------------------------------------------------------------------
\* Every action is accounted for

\* Of the actions behind it an execution has audited all, or it has failed.
Accounted(e, n) ==
    /\ e.step <= n + 1
    /\ Len(e.audit) <= e.step - 1
    /\ e.failed = TRUE <=> Len(e.audit) < e.step - 1
    /\ e.pc = "done" => e.step > n

AccountInv == \A r \in Runs : Accounted(exec[r], Len(job[r].plan))

\* An execution that is moved on, by Err, Audit or within an action.
LEMMA AccountedOn ==
    ASSUME NEW e \in Execution, NEW f \in Execution, NEW n \in Nat, Accounted(e, n),
           \/ f.step = e.step /\ f.audit = e.audit /\ f.failed = e.failed
              /\ (f.pc = "done" => e.step > n)
           \/ f.step = e.step + 1 /\ e.step <= n /\ f.pc = "next"
              /\ \/ f.audit = e.audit /\ f.failed = TRUE
                 \/ Len(f.audit) = Len(e.audit) + 1 /\ f.failed = e.failed
    PROVE  Accounted(f, n)
<1>1. /\ e.step \in Nat \ {0} /\ f.step \in Nat \ {0}
      /\ Len(e.audit) \in Nat /\ Len(f.audit) \in Nat
  BY DEF Execution
<1>2. CASE /\ f.step = e.step /\ f.audit = e.audit /\ f.failed = e.failed
           /\ f.pc = "done" => e.step > n
  BY <1>1, <1>2 DEF Accounted
<1>3. CASE f.step = e.step + 1 /\ e.step <= n /\ f.pc = "next" /\ f.audit = e.audit /\ f.failed = TRUE
  BY <1>1, <1>3 DEF Accounted
<1>4. CASE /\ f.step = e.step + 1 /\ e.step <= n /\ f.pc = "next"
           /\ Len(f.audit) = Len(e.audit) + 1 /\ f.failed = e.failed
  BY <1>1, <1>4 DEF Accounted
<1>5. QED
  BY <1>2, <1>3, <1>4

LEMMA AccountStep == TypeOK /\ AccountInv /\ [Next]_vars => AccountInv'
<1>1. SUFFICES ASSUME TypeOK, AccountInv, [Next]_vars, NEW r \in Runs
               PROVE  Accounted(exec'[r], Len(job'[r].plan))
  BY DEF AccountInv, Accounted
<1>2. TypeOK'
  BY <1>1, NextType
<1> DEFINE n == Len(job[r].plan)
           e == exec[r]
           f == exec'[r]
<1>3. e \in Execution /\ f \in Execution /\ n \in Nat /\ Accounted(e, n)
  <2>1. job[r].plan \in Seq(Action)
    BY <1>1, ExecutorAssumption DEF TypeOK
  <2>2. QED
    BY <1>1, <1>2, <2>1 DEF TypeOK, AccountInv
<1>4. job' = job
  BY <1>1 DEF Next, vars, Execute, SimpleAction, ActionError, ExecuteCreatePR, BeginCommit,
     ReadDefault, CreateIssueBranch, ReadRef, UpdateRef, Return, Repeat, Push, DeleteBranch
<1> SUFFICES Accounted(f, n)
  BY <1>4
<1>5. ASSUME f.step = e.step, f.audit = e.audit, f.failed = e.failed,
             f.pc = "done" => e.step > n
      PROVE  Accounted(f, n)
  BY <1>3, <1>5, AccountedOn
<1>6. ASSUME e.step <= n, Err(r) PROVE Accounted(f, n)
  <2>1. f.step = e.step + 1 /\ f.pc = "next" /\ f.audit = e.audit /\ f.failed = TRUE
    BY <1>1, <1>6 DEF Err, TypeOK, Execution
  <2>2. QED
    BY <1>3, <1>6, <2>1, AccountedOn
<1>7. ASSUME e.step <= n, NEW C, Audit(r, C) PROVE Accounted(f, n)
  <2>1. f.step = e.step + 1 /\ f.pc = "next" /\ f.failed = e.failed
        /\ f.audit = Append(e.audit, Current(r).type)
    BY <1>1, <1>7 DEF Audit, TypeOK, Execution
  <2>2. Len(f.audit) = Len(e.audit) + 1
    BY <1>3, <2>1 DEF Execution
  <2>3. QED
    BY <1>3, <1>7, <2>1, <2>2, AccountedOn
<1>8. ASSUME NEW q \in Runs, Execute(q) \/ Repeat(q), q # r PROVE f = e
  BY <1>1, <1>8, KeepsItsAudit DEF OthersStand
<1>9. e.pc \notin {"next", "done"} => e.step <= n
  BY <1>1 DEF TypeOK
<1>10. CASE SimpleAction(r)
  BY <1>7, <1>10 DEF SimpleAction, At
<1>11. CASE ActionError(r)
  BY <1>6, <1>11 DEF ActionError
<1>12. CASE ExecuteCreatePR(r)
  BY <1>7, <1>12 DEF ExecuteCreatePR, At
<1>13. CASE BeginCommit(r)
  BY <1>1, <1>3, <1>5, <1>13 DEF BeginCommit, TypeOK, Execution
<1>14. CASE ReadDefault(r)
  BY <1>1, <1>3, <1>5, <1>14 DEF ReadDefault, TypeOK, Execution
<1>15. CASE CreateIssueBranch(r)
  <2>1. CASE Err(r)
    BY <1>6, <1>9, <1>15, <2>1 DEF CreateIssueBranch
  <2>2. CASE ~ Err(r)
    BY <1>1, <1>3, <1>5, <1>15, <2>2 DEF CreateIssueBranch, TypeOK, Execution
  <2>3. QED
    BY <2>1, <2>2
<1>16. CASE ReadRef(r)
  BY <1>1, <1>3, <1>5, <1>16 DEF ReadRef, TypeOK, Execution
<1>17. CASE UpdateRef(r)
  BY <1>6, <1>7, <1>9, <1>17 DEF UpdateRef
<1>18. CASE Return(r)
  <2>1. f.step = e.step /\ f.audit = e.audit /\ f.failed = e.failed /\ e.step > n
    BY <1>1, <1>3, <1>18 DEF Return, TypeOK, Execution
  <2>2. QED
    BY <1>5, <2>1
<1>19. CASE Repeat(r)
  <2>1. f = Start(r, exec[r].attempt + 1)
    BY <1>1, <1>19 DEF Repeat, TypeOK
  <2>2. f.step = 1 /\ f.audit = <<>> /\ f.failed = FALSE /\ f.pc = "next"
    BY <2>1 DEF Start
  <2>3. QED
    BY <1>3, <2>2 DEF Accounted
<1>20. CASE f = e
  BY <1>3, <1>20
<1>21. Execute(r) \/ Repeat(r) \/ f = e
  BY <1>1, <1>8 DEF Next, vars, Push, DeleteBranch
<1>22. QED
  BY <1>10, <1>11, <1>12, <1>13, <1>14, <1>15, <1>16, <1>17, <1>18, <1>19, <1>20, <1>21
     DEF Execute

LEMMA InitAccount == Init => AccountInv
<1>1. SUFFICES ASSUME Init, NEW r \in Runs PROVE Accounted(exec[r], Len(job[r].plan))
  BY DEF AccountInv
<1>2. exec[r].step = 1 /\ exec[r].audit = <<>> /\ exec[r].failed = FALSE /\ exec[r].pc = "next"
  BY <1>1 DEF Init, Start
<1>3. job[r].plan \in Seq(Action)
  BY <1>1, ExecutorAssumption DEF Init
<1>4. QED
  BY <1>2, <1>3 DEF Accounted

\* Partial success: when Execute returns, it has gone through the whole list, and
\* it reports an error exactly if its audit is shorter (executor.go:29-50).
THEOREM EveryActionIsAccountedFor == Spec => []AccountsForEveryAction
<1>1. Init => TypeOK /\ AccountInv
  BY InitType, InitAccount
<1>2. TypeOK /\ AccountInv /\ [Next]_vars => (TypeOK /\ AccountInv)'
  BY NextType, AccountStep
<1>3. TypeOK /\ AccountInv => AccountsForEveryAction
  <2>1. SUFFICES ASSUME TypeOK, AccountInv, NEW r \in Runs, exec[r].pc = "done"
                 PROVE  exec[r].failed <=> Len(exec[r].audit) < Len(job[r].plan)
    BY DEF AccountsForEveryAction
  <2>2. Accounted(exec[r], Len(job[r].plan))
    BY <2>1 DEF AccountInv
  <2>3. /\ job[r].plan \in Seq(Action) /\ exec[r].step \in Nat /\ exec[r].audit \in Seq(ActionTypes)
        /\ exec[r].failed \in BOOLEAN
    BY <2>1, ExecutorAssumption DEF TypeOK, Execution
  <2>4. exec[r].step = Len(job[r].plan) + 1
    BY <2>1, <2>2, <2>3 DEF Accounted
  <2>5. QED
    BY <2>2, <2>3, <2>4 DEF Accounted
<1>4. QED
  BY <1>1, <1>2, <1>3, PTL DEF Spec

=============================================================================
