------------------------- MODULE WebhookRuns_proofs -------------------------
(***************************************************************************)
(* Proofs about what the webhook makes of a delivery, for any requests,    *)
(* deliveries, repositories and agents, and any number of errors and       *)
(* crashes: no AgentRun that nobody asked for, and none missing that       *)
(* nothing went wrong with.                                                *)
(*                                                                         *)
(* Both are about the end of a job that reads one document after the other *)
(* and then goes through the agents that match.  The invariant accounts at *)
(* each point for every document of the directory: before the match, the   *)
(* positions passed are those read and those lost; after it, what is       *)
(* neither lost, nor left to do, nor made does not match.                  *)
(***************************************************************************)
EXTENDS WebhookAdapter_proofs

-----------------------------------------------------------------------------
\* What a job has done with the documents of its delivery

DocsOf(d) == AgentDir[d.repo]

\* The changed files of a delivery, and the documents that they match.
FilesOf(d) == If(EventOf(d).pull, d.files)

MatchesOf(d, a) == a.kind = "Agent" /\ Matches(a.annots, EventOf(d), FilesOf(d))

Allowed(d) == d.event = "issue_comment" => d.writer

\* A run may be made for the i-th document.
Selected(d, i) ==
    LET a == DocsOf(d)[i] IN MatchesOf(d, a) /\ validateAgent(a) /\ Allowed(d)

\* No run is missing for the i-th document.
Left(d, blind, i) ==
    LET a == DocsOf(d)[i] IN MatchesOf(d, a) => blind /\ Has(a.annots, "on-path-change")

Made(R) == {R[i].agent : i \in DOMAIN R}

WithAgent == {"resolve", "instruction"}

\* A comment gets past the first step only if its author may write.
PermissionFirst(d, j) ==
    /\ j.pc = "permission" => d.event = "issue_comment"
    /\ j.pc \in {"tree", "blob"} => Allowed(d)

\* The documents are read one by one, and each is read or lost.
InSequence(d, j) ==
    /\ j.pc \in {"none", "permission", "tree", "blob"} => ~ j.blind
    /\ j.pc \in {"none", "permission", "tree"} => j.next = 1 /\ j.fetched = {} /\ j.lost = {}
    /\ j.pc = "blob" =>
         /\ j.fetched \cup j.lost = 1..(j.next - 1)
         /\ j.fetched \cap j.lost = {}

\* Whatever is made, under way or still to be made was selected.
InProgress(j) == j.todo \cup (IF j.pc \in WithAgent THEN {j.agent} ELSE {})

AllSelected(d, j, R) == \A i \in InProgress(j) \cup Made(R) : Selected(d, i)

\* What is neither lost, nor made, nor in progress is left out rightly.
AllAccounted(d, j, R) ==
    LET rest == DOMAIN DocsOf(d) \ (j.lost \cup Made(R))
    IN  /\ j.pc \in WithAgent => \A i \in rest \ InProgress(j) : Left(d, j.blind, i)
        /\ j.pc = "done" /\ ~ j.failed /\ Allowed(d)
             /\ (\A i \in DOMAIN DocsOf(d) \ j.lost : ~ Rejected(DocsOf(d)[i]))
           => \A i \in rest : Left(d, j.blind, i)

Accounts(d, j, R) ==
    /\ PermissionFirst(d, j) /\ InSequence(d, j)
    /\ AllSelected(d, j, R) /\ AllAccounted(d, j, R)

RunInv == \A q \in Requests : Accounts(handler[q].delivery, job[q], runs[q])

-----------------------------------------------------------------------------
\* The trigger of a delivery

\* A delivery that is admitted has one trigger, and its kind is that of the
\* event header.
LEMMA TriggerIs ==
    ASSUME NEW d, Detect(d)
    PROVE  /\ TriggerType(d) \in TriggerTypes
           /\ <<d.event, d.action, TriggerType(d)>> \in TriggerTable
BY DEF Detect, TriggerType

LEMMA CommentsAreComments ==
    ASSUME NEW d, Detect(d)
    PROVE  /\ EventOf(d).trigger = TriggerType(d)
           /\ TriggerType(d) = "issue_comment" <=> d.event = "issue_comment"
           /\ TriggerType(d) \in LabelTriggers => d.action = "labeled"
<1>1. <<d.event, d.action, TriggerType(d)>> \in TriggerTable
  BY TriggerIs
<1>2. PICK e, a, t : e = d.event /\ a = d.action /\ t = TriggerType(d)
  OBVIOUS
<1>3. <<e, a, t>> \in TriggerTable
  BY <1>1, <1>2
<1>4. t = "issue_comment" <=> e = "issue_comment"
  BY <1>3 DEF TriggerTable, supportedPRActions
<1>5. t \in LabelTriggers => a = "labeled"
  BY <1>3 DEF TriggerTable, supportedPRActions, LabelTriggers
<1>6. QED
  BY <1>2, <1>4, <1>5 DEF EventOf

-----------------------------------------------------------------------------
\* Steps that keep the account

\* A job that is given up accounts for nothing but what it has made.
LEMMA GivenUpAccounts ==
    ASSUME NEW d, NEW j, NEW J, NEW R, Accounts(d, j, R),
           J.pc = "done", J.failed, J.todo = j.todo
    PROVE  Accounts(d, J, R)
<1>1. InProgress(J) \subseteq InProgress(j)
  BY DEF InProgress, WithAgent
<1>2. QED
  BY <1>1 DEF Accounts, PermissionFirst, InSequence, AllSelected, AllAccounted, WithAgent

\* A job that has chosen its next agent, or is done.
LEMMA ChosenAccounts ==
    ASSUME NEW d, NEW J, NEW R, J.pc \in {"resolve", "done"}, J.pc = "done" => InProgress(J) = {},
           \A i \in InProgress(J) \cup Made(R) : Selected(d, i),
           \A i \in DOMAIN DocsOf(d) \ (J.lost \cup Made(R) \cup InProgress(J)) : Left(d, J.blind, i)
    PROVE  Accounts(d, J, R)
BY DEF Accounts, PermissionFirst, InSequence, AllSelected, AllAccounted

\* What NextAgent makes of the job: todo is what is in progress.
LEMMA NextInProgress ==
    ASSUME TypeInv, NEW q \in Requests, NEW todo \in SUBSET Nat, NEW N, N = NextAgent(q, todo)
    PROVE  /\ N.pc \in {"resolve", "done"} /\ InProgress(N) = todo
           /\ N.pc = "done" => todo = {}
           /\ N.lost = job[q].lost /\ N.blind = job[q].blind
<1>1. PICK j \in JobType : j = job[q]
  BY DEF TypeInv
<1>2. CASE todo = {} /\ N = [j EXCEPT !.pc = "done", !.todo = {}]
  BY <1>1, <1>2 DEF JobType, InProgress, WithAgent
<1>3. ASSUME NEW i \in todo, N = Begin(j, i, todo, Dir(q)[i])
      PROVE  /\ N.pc \in {"resolve", "done"} /\ InProgress(N) = todo
             /\ N.pc = "done" => todo = {}
             /\ N.lost = job[q].lost /\ N.blind = job[q].blind
  <2>1. /\ N.pc = "resolve" /\ N.agent = i /\ N.todo = todo \ {i}
        /\ N.lost = j.lost /\ N.blind = j.blind
    BY <1>3 DEF Begin, JobType
  <2>2. QED
    BY <1>1, <1>3, <2>1 DEF InProgress, WithAgent
<1>4. QED
  BY <1>1, <1>2, <1>3, NextAgentCases

MovedTo(j, pc) == [j EXCEPT !.pc = pc]
Blinded(j) == [j EXCEPT !.blind = TRUE]

\* A job with the changes that it makes to itself, and the delivery it is for.
LEMMA JobIs ==
    ASSUME TypeInv, RunInv, NEW q \in Requests, job[q].pc # "none"
    PROVE  /\ job[q] \in JobType /\ runs[q] \in Seq(RunType) /\ handler[q].delivery \in Admitted
           /\ Accounts(handler[q].delivery, job[q], runs[q])
           /\ Agrees(handler[q], job[q], runs[q])
           /\ Docs(handler[q]) = DocsOf(handler[q].delivery) /\ Dir(q) = DocsOf(handler[q].delivery)
           /\ DocsOf(handler[q].delivery) \in Seq(Documents)
           /\ job[q].fetched \subseteq DOMAIN DocsOf(handler[q].delivery)
<1>1. /\ job[q] \in JobType /\ runs[q] \in Seq(RunType) /\ handler[q].delivery \in Admitted
      /\ Accounts(handler[q].delivery, job[q], runs[q]) /\ Agrees(handler[q], job[q], runs[q])
  BY DEF TypeInv, RunInv, Agrees
<1>2. /\ Docs(handler[q]) = DocsOf(handler[q].delivery) /\ Dir(q) = DocsOf(handler[q].delivery)
  BY DEF Docs, DocsOf, Dir, RepoOf
<1>3. QED
  BY <1>1, <1>2, DocsAreDocuments DEF Agrees

LEMMA PermissionAccounts ==
    ASSUME TypeInv, RunInv, NEW q \in Requests, CheckPermission(q) \/ GetTree(q) \/ Panic(q)
    PROVE  Accounts(handler'[q].delivery, job'[q], runs'[q])
<1>1. /\ handler' = handler /\ runs' = runs /\ job[q].pc # "none"
  BY DEF CheckPermission, GetTree, Panic
<1>2. PICK j, d, R :
        /\ j \in JobType /\ j = job[q] /\ d = handler[q].delivery /\ R = runs[q]
        /\ Accounts(d, j, R) /\ Dir(q) = DocsOf(d) /\ Agrees(handler[q], j, R)
  BY <1>1, JobIs
<1>3. PICK J : J = job'[q]
  OBVIOUS
<1>4. CASE GiveUp(q)
  <2>1. J = [j EXCEPT !.pc = "done", !.failed = TRUE]
    BY <1>2, <1>3, <1>4 DEF GiveUp, TypeInv
  <2>2. J.pc = "done" /\ J.failed /\ J.todo = j.todo
    BY <2>1 DEF JobType
  <2>3. QED
    BY <1>1, <1>2, <1>3, <2>2, GivenUpAccounts
<1>5. ASSUME NEW pc, job' = [job EXCEPT ![q] = MovedTo(j, pc)],
             \/ j.pc = "permission" /\ ((pc = "tree" /\ d.writer) \/ (pc = "done" /\ ~ d.writer))
             \/ j.pc = "tree" /\ (pc = "blob" \/ (pc = "done" /\ DocsOf(d) = <<>>))
      PROVE  Accounts(handler'[q].delivery, job'[q], runs'[q])
  <2>1. J = [j EXCEPT !.pc = pc]
    BY <1>2, <1>3, <1>5 DEF TypeInv, MovedTo
  <2>2. /\ J.pc = pc /\ J.next = j.next /\ J.fetched = j.fetched /\ J.todo = j.todo
        /\ J.lost = j.lost /\ J.blind = j.blind
    BY <2>1 DEF JobType
  <2>3. /\ J.next = 1 /\ J.fetched = {} /\ J.lost = {} /\ ~ J.blind
        /\ 1..(J.next - 1) = {}
    BY <1>2, <1>5, <2>2 DEF Accounts, InSequence
  <2>4. PermissionFirst(d, J) /\ InSequence(d, J)
    BY <1>2, <1>5, <2>2, <2>3 DEF Accounts, PermissionFirst, InSequence, Allowed
  <2>5. J.todo = {} /\ R = <<>> /\ Made(R) = {}
    BY <1>2, <1>5, <2>2 DEF Agrees, Made
  <2>6. AllSelected(d, J, R)
    BY <1>5, <2>2, <2>5 DEF AllSelected, InProgress, WithAgent
  <2>7. pc = "done" /\ Allowed(d) => DOMAIN DocsOf(d) = {}
    BY <1>2, <1>5 DEF Accounts, PermissionFirst, Allowed
  <2>8. AllAccounted(d, J, R)
    BY <1>5, <2>2, <2>7 DEF AllAccounted, WithAgent
  <2>9. QED
    BY <1>1, <1>2, <1>3, <2>4, <2>6, <2>8 DEF Accounts
<1>6. CASE CheckPermission(q)
  <2>1. PICK pc : pc = IF d.writer THEN "tree" ELSE "done"
    OBVIOUS
  <2>2. /\ j.pc = "permission"
        /\ job' = [job EXCEPT ![q] = MovedTo(j, pc)] \/ GiveUp(q)
    BY <1>2, <1>6, <2>1 DEF CheckPermission, MovedTo
  <2>3. \/ pc = "tree" /\ d.writer
        \/ pc = "done" /\ ~ d.writer
    BY <2>1
  <2>4. CASE job' = [job EXCEPT ![q] = MovedTo(j, pc)]
    BY <1>5, <2>2, <2>3, <2>4
  <2>5. QED
    BY <1>4, <2>2, <2>4
<1>7. CASE GetTree(q)
  <2>1. PICK pc : pc = IF DocsOf(d) = <<>> THEN "done" ELSE "blob"
    OBVIOUS
  <2>2. /\ j.pc = "tree"
        /\ job' = [job EXCEPT ![q] = MovedTo(j, pc)] \/ GiveUp(q)
    BY <1>2, <1>7, <2>1 DEF GetTree, MovedTo
  <2>3. pc = "blob" \/ (pc = "done" /\ DocsOf(d) = <<>>)
    BY <2>1
  <2>4. CASE job' = [job EXCEPT ![q] = MovedTo(j, pc)]
    BY <1>5, <2>2, <2>3, <2>4
  <2>5. QED
    BY <1>4, <2>2, <2>4
<1>8. QED
  BY <1>4, <1>6, <1>7 DEF Panic

\* One document more is read or lost, or one of those read is rejected.
LEMMA BlobAccounts ==
    ASSUME TypeInv, RunInv, NEW q \in Requests, GetBlob(q) \/ RejectDocuments(q)
    PROVE  Accounts(handler'[q].delivery, job'[q], runs'[q])
<1>1. /\ handler' = handler /\ runs' = runs /\ job[q].pc = "blob"
  BY DEF GetBlob, RejectDocuments
<1>2. PICK j, d, R :
        /\ j \in JobType /\ j = job[q] /\ d = handler[q].delivery /\ R = runs[q] /\ j.pc = "blob"
        /\ Accounts(d, j, R) /\ Dir(q) = DocsOf(d) /\ Agrees(handler[q], j, R)
        /\ DocsOf(d) \in Seq(Documents) /\ j.fetched \subseteq DOMAIN DocsOf(d)
  BY <1>1, JobIs
<1>3. PICK J : J = job'[q]
  OBVIOUS
<1>4. PICK n \in Nat \ {0} : n = j.next
  BY <1>2 DEF JobType
<1>5. /\ Allowed(d) /\ ~ j.blind
      /\ j.fetched \cup j.lost = 1..(n - 1) /\ j.fetched \cap j.lost = {}
  BY <1>2, <1>4 DEF Accounts, PermissionFirst, InSequence
<1>6. j.todo = {} /\ R = <<>> /\ Made(R) = {}
  BY <1>2 DEF Agrees, Made
<1>7. CASE GetBlob(q)
  <2>1. PICK F, L :
          /\ J = [[[j EXCEPT !.next = n + 1] EXCEPT !.fetched = F] EXCEPT !.lost = L]
          /\ \/ F = j.fetched \cup {n} /\ L = j.lost
             \/ F = j.fetched /\ L = j.lost \cup {n}
    <3>1. CASE job' = [job EXCEPT ![q].next = @ + 1, ![q].fetched = @ \cup {job[q].next}]
      <4>1. J = [[j EXCEPT !.next = n + 1] EXCEPT !.fetched = j.fetched \cup {n}]
        BY <1>2, <1>3, <1>4, <3>1 DEF TypeInv
      <4>2. J = [[[j EXCEPT !.next = n + 1] EXCEPT !.fetched = j.fetched \cup {n}] EXCEPT !.lost = j.lost]
        BY <4>1 DEF JobType
      <4>3. QED
        BY <4>2
    <3>2. CASE job' = [job EXCEPT ![q].next = @ + 1, ![q].lost = @ \cup {job[q].next}]
      <4>1. J = [[j EXCEPT !.next = n + 1] EXCEPT !.lost = j.lost \cup {n}]
        BY <1>2, <1>3, <1>4, <3>2 DEF TypeInv
      <4>2. J = [[[j EXCEPT !.next = n + 1] EXCEPT !.fetched = j.fetched] EXCEPT !.lost = j.lost \cup {n}]
        BY <4>1 DEF JobType
      <4>3. QED
        BY <4>2
    <3>3. QED
      BY <1>7, <3>1, <3>2 DEF GetBlob
  <2>2. /\ J.pc = "blob" /\ J.next = n + 1 /\ J.fetched = F /\ J.lost = L
        /\ J.todo = j.todo /\ J.blind = j.blind
    BY <1>2, <2>1 DEF JobType
  <2>3. n \notin 1..(n - 1) /\ 1..(n + 1 - 1) = 1..(n - 1) \cup {n}
    OBVIOUS
  <2>4. F \cup L = 1..(n + 1 - 1) /\ F \cap L = {}
    BY <1>5, <2>1, <2>3
  <2>5. PermissionFirst(d, J) /\ InSequence(d, J)
    BY <1>5, <2>2, <2>4 DEF PermissionFirst, InSequence
  <2>6. AllSelected(d, J, R) /\ AllAccounted(d, J, R)
    BY <1>6, <2>2 DEF AllSelected, AllAccounted, InProgress, WithAgent
  <2>7. QED
    BY <1>1, <1>2, <1>3, <2>5, <2>6 DEF Accounts
<1>8. CASE RejectDocuments(q)
  <2>1. J = [j EXCEPT !.pc = "done"]
    BY <1>2, <1>3, <1>8 DEF RejectDocuments, TypeInv
  <2>2. J.pc = "done" /\ J.lost = j.lost /\ J.todo = j.todo /\ J.blind = j.blind
    BY <2>1 DEF JobType
  <2>3. PICK i \in j.fetched : Rejected(DocsOf(d)[i])
    BY <1>2, <1>8 DEF RejectDocuments, ParsesAll
  <2>4. i \in DOMAIN DocsOf(d) \ j.lost
    BY <1>2, <1>5, <2>3
  <2>5. QED
    BY <1>1, <1>2, <1>3, <1>6, <2>2, <2>3, <2>4
       DEF Accounts, PermissionFirst, InSequence, AllSelected, AllAccounted, InProgress, WithAgent
<1>9. QED
  BY <1>7, <1>8

\* Without the changed files fewer agents match, and only for their paths.
LEMMA BlindMatches ==
    ASSUME NEW annots, NEW evt, NEW files
    PROVE  /\ Matches(annots, evt, {}) => Matches(annots, evt, files)
           /\ Matches(annots, evt, files) =>
                Matches(annots, evt, {}) \/ Has(annots, "on-path-change")
BY DEF Matches, matchPathChange

\* The match: those in progress match and are well-formed, the others do not match.
LEMMA MatchAccounts ==
    ASSUME TypeInv, RunInv, NEW q \in Requests, MatchAgents(q)
    PROVE  Accounts(handler'[q].delivery, job'[q], runs'[q])
<1>1. /\ handler' = handler /\ runs' = runs /\ job[q].pc = "blob"
  BY DEF MatchAgents
<1>2. PICK j, d, R :
        /\ j \in JobType /\ j = job[q] /\ d = handler[q].delivery /\ R = runs[q] /\ j.pc = "blob"
        /\ Accounts(d, j, R) /\ Dir(q) = DocsOf(d) /\ Agrees(handler[q], j, R)
        /\ DocsOf(d) \in Seq(Documents) /\ j.fetched \subseteq DOMAIN DocsOf(d)
  BY <1>1, JobIs
<1>3. PICK n \in Nat \ {0} : n = j.next
  BY <1>2 DEF JobType
<1>4. /\ Allowed(d) /\ ~ j.blind /\ j.fetched \cup j.lost = 1..(n - 1)
  BY <1>2, <1>3 DEF Accounts, PermissionFirst, InSequence
<1>0. j.blind = FALSE
  BY <1>4 DEF JobType
<1>5. Made(R) = {}
  BY <1>2 DEF Agrees, Made
<1>6. n > Len(DocsOf(d)) /\ \A i \in j.fetched : ~ Rejected(DocsOf(d)[i])
  BY <1>2, <1>3 DEF MatchAgents, ParsesAll
<1>7. DOMAIN DocsOf(d) \subseteq j.fetched \cup j.lost
  BY <1>2, <1>4, <1>6
<1>8. PICK J : J = job'[q]
  OBVIOUS
<1>9. PICK files, blind : blind \in BOOLEAN /\
        LET N == NextAgent(q, Matching(q, files))
        IN  \/ files = FilesOf(d) /\ ~ blind /\ J = N
            \/ files = {} /\ blind /\ J = Blinded(N)
  <2>1. /\ Event(q) = EventOf(d) /\ If(Event(q).pull, handler[q].delivery.files) = FilesOf(d)
        /\ \A K : job' = [job EXCEPT ![q] = K] => J = K
    BY <1>2, <1>8 DEF FilesOf, Event, TypeInv
  <2>2. \/ J = NextAgent(q, Matching(q, FilesOf(d)))
        \/ J = Blinded(NextAgent(q, Matching(q, {})))
    BY <2>1 DEF MatchAgents, Blinded
  <2>3. QED
    BY <2>2
<1>10. PICK todo : todo = Matching(q, files)
  OBVIOUS
<1>11. todo = {i \in j.fetched : DocsOf(d)[i].kind = "Agent"
                                   /\ Matches(DocsOf(d)[i].annots, EventOf(d), files)}
  BY <1>2, <1>10 DEF Matching, Event
<1>12. todo \in SUBSET Nat /\ todo \subseteq j.fetched
  BY <1>2, <1>11 DEF JobType
<1>13. PICK N : N = NextAgent(q, todo)
  OBVIOUS
<1>14. /\ N \in JobType /\ N.pc \in {"resolve", "done"} /\ InProgress(N) = todo
       /\ N.pc = "done" => todo = {}
       /\ N.lost = j.lost /\ N.blind = j.blind
  <2>1. N \in JobType
    BY <1>1, <1>2, <1>12, <1>13, NextAgentType
  <2>2. QED
    BY <1>2, <1>12, <1>13, <2>1, NextInProgress
<1>15. /\ J.pc \in {"resolve", "done"} /\ InProgress(J) = todo
       /\ J.pc = "done" => todo = {}
       /\ J.lost = j.lost /\ J.blind = blind
  <2>1. CASE J = N /\ ~ blind
    <3>1. blind = FALSE
      BY <1>9, <2>1
    <3>2. QED
      BY <1>0, <1>14, <2>1, <3>1
  <2>2. CASE J = Blinded(N) /\ blind
    <3>1. /\ J.pc = N.pc /\ J.todo = N.todo /\ J.agent = N.agent /\ J.lost = N.lost /\ J.blind = TRUE
      BY <1>14, <2>2 DEF JobType, Blinded
    <3>2. InProgress(J) = InProgress(N)
      BY <3>1 DEF InProgress
    <3>3. QED
      BY <1>14, <2>2, <3>1, <3>2
  <2>3. QED
    BY <1>9, <1>10, <1>13, <2>1, <2>2
<1>16. ASSUME NEW i \in todo PROVE Selected(d, i)
  <2>1. /\ DocsOf(d)[i].kind = "Agent" /\ ~ Rejected(DocsOf(d)[i])
        /\ Matches(DocsOf(d)[i].annots, EventOf(d), files)
    BY <1>6, <1>11
  <2>2. Matches(DocsOf(d)[i].annots, EventOf(d), FilesOf(d))
    BY <1>9, <2>1, BlindMatches
  <2>3. QED
    BY <1>4, <2>1, <2>2 DEF Selected, MatchesOf, Rejected
<1>17. ASSUME NEW i \in DOMAIN DocsOf(d) \ (J.lost \cup todo) PROVE Left(d, blind, i)
  <2>1. i \in j.fetched
    BY <1>7, <1>15
  <2>2. SUFFICES ASSUME MatchesOf(d, DocsOf(d)[i])
                 PROVE  blind /\ Has(DocsOf(d)[i].annots, "on-path-change")
    BY DEF Left
  <2>3. ~ Matches(DocsOf(d)[i].annots, EventOf(d), files)
    BY <1>11, <2>1, <2>2 DEF MatchesOf
  <2>4. QED
    BY <1>9, <2>2, <2>3, BlindMatches DEF MatchesOf
<1>18. Accounts(d, J, R)
  BY <1>5, <1>15, <1>16, <1>17, ChosenAccounts
<1>19. QED
  BY <1>1, <1>2, <1>8, <1>18

\* The steps that put an AgentRun together change nothing that is accounted for.
LEMMA TextAccounts ==
    ASSUME TypeInv, RunInv, NEW q \in Requests,
           ResolveText(q) \/ FetchInstruction(q) \/ \E v \in providerVariables : FetchVariable(q, v)
    PROVE  Accounts(handler'[q].delivery, job'[q], runs'[q])
<1>1. /\ handler' = handler /\ runs' = runs /\ job[q].pc \in WithAgent
  BY DEF ResolveText, FetchInstruction, FetchVariable, WithAgent
<1>2. PICK j, d, R :
        /\ j \in JobType /\ j = job[q] /\ d = handler[q].delivery /\ R = runs[q]
        /\ j.pc \in WithAgent /\ Accounts(d, j, R)
  BY <1>1, JobIs DEF WithAgent
<1>3. PICK J : J = job'[q]
  OBVIOUS
<1>4. /\ J.pc \in WithAgent /\ J.todo = j.todo /\ J.agent = j.agent
      /\ J.lost = j.lost /\ J.blind = j.blind
  <2>1. ASSUME NEW v, FetchVariable(q, v)
        PROVE  /\ J.pc \in WithAgent /\ J.todo = j.todo /\ J.agent = j.agent
               /\ J.lost = j.lost /\ J.blind = j.blind
    <3>1. PICK c : J = [j EXCEPT !.cache = c]
      <4>1. PICK value \in Fetched :
              job' = [job EXCEPT ![q].cache = [x \in DOMAIN @ \cup {v} |->
                                                 IF x = v THEN value ELSE job[q].cache[x]]]
        BY <2>1 DEF FetchVariable
      <4>2. PICK c : c = [x \in DOMAIN j.cache \cup {v} |-> IF x = v THEN value ELSE j.cache[x]]
        OBVIOUS
      <4>3. QED
        BY <1>2, <1>3, <4>1, <4>2 DEF TypeInv
    <3>2. QED
      BY <1>2, <3>1 DEF JobType
  <2>2. CASE ResolveText(q)
    <3>1. PICK T : T = Append(j.texts, [position |-> j.text,
                                       values |-> ResolveVariables(Words(q), Known(q), j.cache)])
      OBVIOUS
    <3>2. J = [j EXCEPT !.pc = "instruction", !.texts = T]
      BY <1>2, <1>3, <2>2, <3>1 DEF ResolveText, TypeInv
    <3>3. QED
      BY <1>2, <3>2 DEF JobType, WithAgent
  <2>3. CASE FetchInstruction(q)
    <3>1. PICK k : \/ job' = [job EXCEPT ![q].pc = "resolve", ![q].refs = @ \ {k}, ![q].text = k]
                   \/ job' = [job EXCEPT ![q].refs = @ \ {k}]
      BY <2>3 DEF FetchInstruction
    <3>2. \/ J = [j EXCEPT !.pc = "resolve", !.refs = @ \ {k}, !.text = k]
          \/ J = [j EXCEPT !.refs = @ \ {k}]
      BY <1>2, <1>3, <3>1 DEF TypeInv
    <3>3. QED
      BY <1>2, <3>2 DEF JobType, WithAgent
  <2>4. QED
    BY <2>1, <2>2, <2>3
<1>5. InProgress(J) = InProgress(j)
  BY <1>2, <1>4 DEF InProgress
<1>6. Accounts(d, J, R)
  BY <1>2, <1>4, <1>5 DEF Accounts, PermissionFirst, InSequence, AllSelected, AllAccounted, WithAgent
<1>7. QED
  BY <1>1, <1>2, <1>3, <1>6

\* An AgentRun is made for the agent in progress, or its document is lost.
LEMMA CreateAccounts ==
    ASSUME TypeInv, RunInv, NEW q \in Requests, CreateAgentRun(q)
    PROVE  Accounts(handler'[q].delivery, job'[q], runs'[q])
<1>1. handler' = handler /\ job[q].pc = "instruction"
  BY DEF CreateAgentRun
<1>2. PICK j, d, R :
        /\ j \in JobType /\ j = job[q] /\ d = handler[q].delivery /\ R = runs[q]
        /\ j.pc = "instruction" /\ Accounts(d, j, R) /\ R \in Seq(RunType)
  BY <1>1, JobIs
<1>3. InProgress(j) = j.todo \cup {j.agent}
  BY <1>2 DEF InProgress, WithAgent
<1>4. /\ \A i \in InProgress(j) \cup Made(R) : Selected(d, i)
      /\ \A i \in DOMAIN DocsOf(d) \ (j.lost \cup Made(R) \cup InProgress(j)) : Left(d, j.blind, i)
  BY <1>2 DEF Accounts, AllSelected, AllAccounted, WithAgent
<1>5. PICK N : N = NextAgent(q, j.todo)
  OBVIOUS
<1>6. /\ N \in JobType /\ N.pc \in {"resolve", "done"} /\ InProgress(N) = j.todo
      /\ N.pc = "done" => j.todo = {}
      /\ N.lost = j.lost /\ N.blind = j.blind
  <2>1. j.todo \in SUBSET Nat /\ j.todo \subseteq j.fetched
    BY <1>1, <1>2, AgentRunType DEF JobType
  <2>2. N \in JobType
    BY <1>1, <1>2, <1>5, <2>1, NextAgentType
  <2>3. QED
    BY <1>2, <1>5, <2>1, <2>2, NextInProgress
<1>7. PICK lost : lost = j.lost \cup {j.agent}
  OBVIOUS
<1>8. PICK L : L = [N EXCEPT !.lost = lost]
  OBVIOUS
<1>9. /\ L.pc = N.pc /\ InProgress(L) = InProgress(N) /\ L.lost = lost /\ L.blind = N.blind
  BY <1>6, <1>8 DEF JobType, InProgress
<1>10. PICK x : x = AgentRun(q)
  OBVIOUS
<1>11. PICK S : S = Append(R, x)
  OBVIOUS
<1>12. Made(S) = Made(R) \cup {j.agent}
  <2>1. x \in RunType /\ x.agent = j.agent
    BY <1>1, <1>2, <1>10, AgentRunType
  <2>2. /\ DOMAIN S = DOMAIN R \cup {Len(R) + 1} /\ S[Len(R) + 1] = x
        /\ \A i \in DOMAIN R : S[i] = R[i]
    BY <1>2, <1>11, <2>1
  <2>3. QED
    BY <2>1, <2>2 DEF Made
<1>13. \/ job'[q] = N /\ runs'[q] = S
       \/ job'[q] = L /\ runs'[q] = R
  BY <1>2, <1>5, <1>6, <1>7, <1>8, <1>10, <1>11 DEF CreateAgentRun, TypeInv
<1>14. Accounts(d, N, S)
  BY <1>3, <1>4, <1>6, <1>12, ChosenAccounts
<1>15. Accounts(d, L, R)
  BY <1>3, <1>4, <1>6, <1>7, <1>9, ChosenAccounts
<1>16. QED
  BY <1>1, <1>2, <1>13, <1>14, <1>15

LEMMA RunsByProcess ==
    ASSUME TypeInv, RunInv, NEW q \in Requests, Process(q) \/ Panic(q)
    PROVE  RunInv'
<1>1. Accounts(handler'[q].delivery, job'[q], runs'[q])
  BY PermissionAccounts, BlobAccounts, MatchAccounts, TextAccounts, CreateAccounts DEF Process
<1>2. PICK J, R : Updates(q, J, R)
  BY ProcessUpdates
<1>3. \A r \in Requests \ {q} : handler'[r] = handler[r] /\ job'[r] = job[r] /\ runs'[r] = runs[r]
  BY <1>2 DEF Updates, TypeInv
<1>4. QED
  BY <1>1, <1>3 DEF RunInv

\* A job that is not started accounts for nothing, whatever the delivery is.
LEMMA NothingToAccount ==
    ASSUME NEW d, NEW e, NEW j, NEW R, Accounts(d, j, R),
           j.pc = "none", j.todo = {}, R = <<>>
    PROVE  Accounts(e, j, R)
BY DEF Accounts, PermissionFirst, InSequence, AllSelected, AllAccounted, InProgress, WithAgent, Made

\* A job that starts: with the permission if it is a comment.
LEMMA StartAccounts ==
    ASSUME TypeInv, RunInv, NEW q \in Requests, NEW secret, Validate(q, secret)
    PROVE  Accounts(handler'[q].delivery, job'[q], runs'[q])
<1>1. /\ job[q].pc = "none" /\ handler[q].delivery \in Admitted
      /\ handler'[q].delivery = handler[q].delivery /\ runs' = runs
  BY ValidateCases DEF TypeInv, Agrees
<1>2. PICK j, d, R :
        /\ j \in JobType /\ j = job[q] /\ d = handler[q].delivery /\ R = runs[q]
        /\ Accounts(d, j, R) /\ j.todo = {} /\ R = <<>> /\ j.pc = "none" /\ d \in Admitted
  BY <1>1 DEF TypeInv, RunInv, Agrees
<1>3. CASE job'[q] = job[q]
  BY <1>1, <1>2, <1>3
<1>4. ASSUME job'[q] # job[q] PROVE Accounts(d, job'[q], R)
  <2>1. PICK pc : /\ pc = IF Event(q).trigger = "issue_comment" THEN "permission" ELSE "tree"
                  /\ job' = [job EXCEPT ![q].pc = pc]
    BY <1>4 DEF Validate
  <2>2. PICK J : J = job'[q] /\ J = [j EXCEPT !.pc = pc]
    BY <1>2, <2>1 DEF TypeInv
  <2>3. /\ J.pc = pc /\ J.next = j.next /\ J.fetched = j.fetched /\ J.lost = j.lost
        /\ J.todo = j.todo /\ J.blind = j.blind
    BY <1>2, <2>2 DEF JobType
  <2>4. Event(q).trigger = "issue_comment" <=> d.event = "issue_comment"
    BY <1>2, CommentsAreComments DEF Event, Admitted
  <2>5. pc = "permission" <=> d.event = "issue_comment"
    BY <2>1, <2>4
  <2>6. QED
    BY <1>2, <2>1, <2>2, <2>3, <2>5
       DEF Accounts, PermissionFirst, InSequence, AllSelected, AllAccounted, InProgress, WithAgent,
           Made, Allowed
<1>5. QED
  BY <1>1, <1>2, <1>3, <1>4

\* Only jobs and deliveries count, and a delivery does not change under its job.
LEMMA RunsByOthers ==
    ASSUME TypeInv, RunInv, Crash \/ \E q \in Requests : Arrive(q) \/ Handle(q)
    PROVE  RunInv'
<1>1. \A r \in Requests : /\ Accounts(handler[r].delivery, job[r], runs[r])
                          /\ handler[r] \in Handler /\ job[r] \in JobType
                          /\ Agrees(handler[r], job[r], runs[r])
  BY DEF TypeInv, RunInv
<1>2. CASE Crash
  <2>1. ASSUME NEW r \in Requests PROVE Accounts(handler'[r].delivery, job'[r], runs'[r])
    <3>1. PICK h, j, R : /\ h \in Handler /\ h = handler[r] /\ j \in JobType /\ j = job[r] /\ R = runs[r]
                         /\ Accounts(h.delivery, j, R)
      BY <1>1
    <3>2. handler'[r] = h \/ handler'[r] = [h EXCEPT !.pc = "over"]
      BY <1>2, <3>1, CrashCases
    <3>3. handler'[r].delivery = h.delivery
      <4>1. PICK g : g = handler'[r]
        OBVIOUS
      <4>2. g = h \/ g = [h EXCEPT !.pc = "over"]
        BY <3>2, <4>1
      <4>3. g.delivery = h.delivery
        BY <3>1, <4>2 DEF Handler
      <4>4. QED
        BY <4>1, <4>3
    <3>9. runs'[r] = R
      BY <1>2, <3>1, CrashCases
    <3>4. PICK J : J = job'[r]
      OBVIOUS
    <3>5. J = j \/ J = [j EXCEPT !.pc = "done", !.failed = TRUE]
      BY <1>2, <3>1, <3>4, CrashCases
    <3>6. J = j \/ (J.pc = "done" /\ J.failed /\ J.todo = j.todo)
      BY <3>1, <3>5 DEF JobType
    <3>7. Accounts(h.delivery, J, R)
      BY <3>1, <3>6, GivenUpAccounts
    <3>8. QED
      BY <3>3, <3>4, <3>7, <3>9
  <2>2. QED
    BY <2>1 DEF RunInv
<1>3. ASSUME NEW q \in Requests, Arrive(q) PROVE RunInv'
  <2>1. /\ UNCHANGED <<job, runs>> /\ handler[q].pc = "idle"
        /\ \A r \in Requests \ {q} : handler'[r] = handler[r]
    BY <1>3, ArriveCases
  <2>2. job[q].pc = "none" /\ job[q].todo = {} /\ runs[q] = <<>>
    BY <1>1, <2>1 DEF Agrees
  <2>3. Accounts(handler'[q].delivery, job[q], runs[q])
    BY <1>1, <2>2, NothingToAccount
  <2>4. QED
    BY <1>1, <2>1, <2>3 DEF RunInv
<1>4. ASSUME NEW q \in Requests, StoreLength(q) \/ StorePointer(q) \/ StoreClient(q) PROVE RunInv'
  <2>1. UNCHANGED <<job, runs>> /\ \A r \in Requests : handler'[r].delivery = handler[r].delivery
    BY <1>4, HandlerStepType DEF Same
  <2>2. QED
    BY <1>1, <2>1 DEF RunInv
<1>5. ASSUME NEW q \in Requests, NEW secret, Validate(q, secret) PROVE RunInv'
  <2>1. /\ runs' = runs
        /\ \A r \in Requests \ {q} : handler'[r] = handler[r] /\ job'[r] = job[r]
    BY <1>5, ValidateCases
  <2>2. Accounts(handler'[q].delivery, job'[q], runs'[q])
    BY <1>5, StartAccounts
  <2>3. QED
    BY <1>1, <2>1, <2>2 DEF RunInv
<1>6. QED
  BY <1>2, <1>3, <1>4, <1>5 DEF Handle

LEMMA RunsInit == Init => RunInv
<1> SUFFICES ASSUME Init PROVE RunInv
  OBVIOUS
<1>1. /\ Idle.pc = "none" /\ Idle.next = 1 /\ Idle.fetched = {} /\ Idle.lost = {}
      /\ Idle.todo = {} /\ Idle.blind = FALSE
  BY DEF Idle
<1>2. Made(<<>>) = {}
  BY DEF Made
<1>3. \A d : Accounts(d, Idle, <<>>)
  BY <1>1, <1>2
     DEF Accounts, PermissionFirst, InSequence, AllSelected, AllAccounted, InProgress, WithAgent
<1>4. QED
  BY <1>3 DEF Init, RunInv

LEMMA RunsStep ==
    ASSUME TypeInv, RunInv, [Next]_vars
    PROVE  RunInv'
<1>1. CASE UNCHANGED vars
  BY <1>1 DEF vars, RunInv
<1>2. CASE Next
  BY <1>2, RunsByProcess, RunsByOthers DEF Next
<1>3. QED
  BY <1>1, <1>2

-----------------------------------------------------------------------------
\* Nothing is missing

\* Whatever fails, a job that is done has made a run for each agent that
\* matches, but for those that it could not read or create and for the agents
\* beside a document that is rejected (GetAgentDir of github.go and
\* processWebhook of adapter.go go on after an error).
THEOREM NothingIsLost == Spec => []NothingIsLostSilently
<1>1. ASSUME TypeInv, RunInv PROVE NothingIsLostSilently
  <2>1. SUFFICES
          ASSUME NEW q \in Requests, job[q].pc = "done", ~ job[q].failed,
                 handler[q].delivery.event = "issue_comment" => handler[q].delivery.writer,
                 \A i \in DOMAIN Dir(q) \ job[q].lost : ~ Rejected(Dir(q)[i]),
                 NEW i \in DOMAIN Dir(q) \ (job[q].lost \cup MadeFor(q))
          PROVE  \/ Dir(q)[i].kind # "Agent"
                 \/ ~ Matches(Dir(q)[i].annots, Event(q), If(Event(q).pull, handler[q].delivery.files))
                 \/ job[q].blind /\ Has(Dir(q)[i].annots, "on-path-change")
    BY DEF NothingIsLostSilently
  <2>2. PICK d : d = handler[q].delivery
    OBVIOUS
  <2>3. /\ Dir(q) = DocsOf(d) /\ MadeFor(q) = Made(runs[q])
        /\ Event(q) = EventOf(d) /\ If(Event(q).pull, handler[q].delivery.files) = FilesOf(d)
    BY <2>2 DEF Dir, RepoOf, DocsOf, MadeFor, Made, Event, FilesOf
  <2>4. AllAccounted(d, job[q], runs[q])
    BY <1>1, <2>2 DEF RunInv, Accounts
  <2>5. Left(d, job[q].blind, i)
    BY <2>1, <2>2, <2>3, <2>4 DEF AllAccounted, Allowed
  <2>6. QED
    BY <2>3, <2>5 DEF Left, MatchesOf
<1>2. QED
  BY <1>1, RunsInit, RunsStep, TypeInvariant, PTL DEF Spec

-----------------------------------------------------------------------------
\* Nothing is made unasked

\* What the agent of each run is to its delivery.
RunsAreSelected ==
    \A q \in Requests : \A i \in DOMAIN runs[q] :
        LET a == Dir(q)[runs[q][i].agent]
            d == handler[q].delivery
        IN  /\ a.kind = "Agent" /\ validateAgent(a)
            /\ Matches(a.annots, EventOf(d), FilesOf(d))
            /\ d.event = "issue_comment" => d.writer

LEMMA MadeIsSelected ==
    ASSUME RunInv, NEW q \in Requests, NEW i \in DOMAIN runs[q]
    PROVE  Selected(handler[q].delivery, runs[q][i].agent)
BY DEF RunInv, Accounts, AllSelected, Made

\* Whatever fails or happens at the same time, an AgentRun is made only for a
\* well-formed agent of the delivery's repository that matches the event which
\* the delivery was parsed into, with all the files it changes, and for a
\* comment only if its author may write (MatchAgentsToEvent, CheckPermission).
THEOREM OnlyWhatMatches == Spec => []RunsAreSelected
<1>1. RunInv => RunsAreSelected
  BY MadeIsSelected DEF RunsAreSelected, Selected, MatchesOf, Allowed, DocsOf, Dir, RepoOf
<1>2. QED
  BY <1>1, RunsInit, RunsStep, TypeInvariant, PTL DEF Spec

\* Comments and issues have no branch in the event, and the code compares the
\* patterns for branches with the empty text.  This is what the table promises
\* only for a repository whose patterns accept the branch if they accept that.
BlankStandsForBranch ==
    \A d \in Deliveries : d.event \in {"issue_comment", "issues"} =>
        \A p \in DOMAIN Denotes : MatchesText(p, NoText) => MatchesText(p, d.base)

\* What matches was selected by the documented triggers.
LEMMA MatchesAreDocumented ==
    ASSUME BlankStandsForBranch, NEW d \in Deliveries, Detect(d), NEW a,
           Matches(a.annots, EventOf(d), FilesOf(d))
    PROVE  Documented(a, d)
<1> DEFINE annots == a.annots
           evt == EventOf(d)
<1>1. /\ evt.trigger = TriggerType(d)
      /\ TriggerType(d) = "issue_comment" <=> d.event = "issue_comment"
      /\ TriggerType(d) \in LabelTriggers => d.action = "labeled"
  BY CommentsAreComments
<1>2. /\ evt.base \in {d.base, NoText}
      /\ evt.base # d.base => d.event \in {"issue_comment", "issues"}
      /\ d.event = "issue_comment" => evt.comment = d.text
      /\ d.action = "labeled" => evt.label = d.text
  <2>1. d.event \in {"push", "pull_request", "pull_request_review", "issue_comment", "issues"}
    <3>1. PICK e, t, k : e = d.event /\ t = d.action /\ k = TriggerType(d)
      OBVIOUS
    <3>2. <<e, t, k>> \in TriggerTable
      BY <3>1, TriggerIs
    <3>3. QED
      BY <3>1, <3>2 DEF TriggerTable
  <2>2. QED
    BY <2>1 DEF EventOf
<1>3. FilesOf(d) \subseteq d.files
  BY DEF FilesOf, If
<1>4. CASE matchComment(annots, evt) = "matched"
  <2>1. /\ Has(annots, "on-comment") /\ evt.trigger = "issue_comment"
        /\ \E p \in Values(annots, "on-comment") : MatchesText(p, evt.comment)
    BY <1>4 DEF matchComment
  <2>2. QED
    BY <1>1, <1>2, <2>1 DEF Documented
<1>5. CASE /\ matchComment(annots, evt) = "notApplicable" /\ matchEvent(annots, evt)
           /\ matchTargetBranch(annots, evt) /\ matchLabel(annots, evt)
           /\ matchPathChange(annots, FilesOf(d))
  <2>1. ~ Has(annots, "on-comment") /\ TriggerType(d) \in Values(annots, "on-event")
    BY <1>1, <1>5 DEF matchComment, matchEvent
  <2>2. ASSUME Has(annots, "on-target-branch")
        PROVE  \E p \in Values(annots, "on-target-branch") : MatchesText(p, d.base)
    <3>1. PICK p \in Values(annots, "on-target-branch") : MatchesText(p, evt.base)
      BY <1>5, <2>2 DEF matchTargetBranch
    <3>2. p \in DOMAIN Denotes
      BY <3>1 DEF MatchesText
    <3>3. MatchesText(p, d.base)
      BY <1>2, <3>1, <3>2 DEF BlankStandsForBranch
    <3>4. QED
      BY <3>3
  <2>3. ASSUME Has(annots, "on-path-change")
        PROVE  \E p \in Values(annots, "on-path-change") : \E f \in d.files : MatchesText(p, f)
    BY <1>3, <1>5, <2>3 DEF matchPathChange
  <2>4. TriggerType(d) \in LabelTriggers => Has(annots, "on-label")
    BY <1>1, <1>5 DEF matchLabel
  <2>5. Has(annots, "on-label") => d.text \in Values(annots, "on-label")
    BY <1>1, <1>2, <1>5 DEF matchLabel
  <2>6. QED
    BY <2>1, <2>2, <2>3, <2>4, <2>5 DEF Documented
<1>6. QED
  BY <1>4, <1>5 DEF Matches

\* The agents that runs are made for are those that the documented triggers
\* select (the table of docs/guides/writing-agents.md:42-60).
THEOREM OnlyWhatIsAsked ==
    ASSUME BlankStandsForBranch
    PROVE  Spec => []RunsAreAsked
<1>1. ASSUME TypeInv, RunInv PROVE RunsAreAsked
  <2>1. SUFFICES ASSUME NEW q \in Requests, NEW i \in DOMAIN runs[q]
                 PROVE  LET a == Dir(q)[runs[q][i].agent]
                            d == handler[q].delivery
                        IN  /\ a.kind = "Agent" /\ validateAgent(a)
                            /\ Documented(a, d)
                            /\ d.event = "issue_comment" => d.writer
    BY DEF RunsAreAsked
  <2>2. PICK d, a : d = handler[q].delivery /\ a = Dir(q)[runs[q][i].agent]
    OBVIOUS
  <2>3. runs[q] # <<>>
    BY <2>1
  <2>4. job[q].pc # "none"
    BY <1>1, <2>3 DEF TypeInv, Agrees
  <2>5. d \in Deliveries /\ Detect(d)
    BY <1>1, <2>2, <2>4 DEF TypeInv, Agrees, Admitted
  <2>6. Selected(d, runs[q][i].agent) /\ DocsOf(d)[runs[q][i].agent] = a
    BY <1>1, <2>2, MadeIsSelected DEF Dir, RepoOf, DocsOf
  <2>7. /\ a.kind = "Agent" /\ validateAgent(a) /\ Matches(a.annots, EventOf(d), FilesOf(d))
        /\ d.event = "issue_comment" => d.writer
    BY <2>6 DEF Selected, MatchesOf, Allowed
  <2>8. Documented(a, d)
    BY <1>1, <2>5, <2>7, MatchesAreDocumented
  <2>9. QED
    BY <2>2, <2>7, <2>8
<1>2. QED
  BY <1>1, RunsInit, RunsStep, TypeInvariant, PTL DEF Spec

=============================================================================
