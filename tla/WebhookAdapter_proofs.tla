----------------------- MODULE WebhookAdapter_proofs -----------------------
(***************************************************************************)
(* Proofs about WebhookAdapter, for any requests, deliveries, repositories *)
(* and agents, and any number of errors and crashes.                       *)
(***************************************************************************)
EXTENDS WebhookProperties, WellFoundedInduction, TLAPS

-----------------------------------------------------------------------------
\* Types

Admitted == {d \in Deliveries : Detect(d) /\ d.repo \in Configured}

\* The documents of the repository that handler h was sent a delivery for.
Docs(h) == AgentDir[h.delivery.repo]

Positions == {PromptText} \cup UNION {ParseAnnotations(a) : a \in Documents}

\* The words of what document a may refer to, and of any text.
InstructionWords(a) == UNION {Contents[a.refs[k]] : k \in Positions}
AllWords == (UNION {a.prompt : a \in Documents}) \cup (UNION {InstructionWords(a) : a \in Documents})

Caches == UNION {[S -> Fetched] : S \in SUBSET providerVariables}
Valuations == UNION {[S -> Fetched \cup {FromEvent}] : S \in SUBSET AllWords}
Texts == [position : Positions, values : Valuations]

JobType == [pc : JobPoints, next : Nat \ {0}, fetched : SUBSET Nat, todo : SUBSET Nat, agent : Nat,
            text : Positions, refs : SUBSET Positions, cache : Caches, texts : Seq(Texts),
            failed : BOOLEAN, blind : BOOLEAN, lost : SUBSET Nat]

RunType == [agent : Nat, texts : Seq(Texts)]

\* How the handler h, the job j and the runs R of one request go together.
Agrees(h, j, R) ==
    /\ h.pc = "idle" => h.answer = 0
    /\ h.pc \notin {"idle", "over"} => h.delivery \in Admitted /\ h.answer = 0
    /\ h.pc # "over" => j.pc = "none"
    /\ j.pc # "none" => /\ h.delivery \in Admitted /\ h.answer = 202
                        /\ j.fetched \subseteq DOMAIN Docs(h)
    /\ j.pc = "none" => h.answer # 202 /\ j.fetched = {}
    /\ j.pc \in {"none", "permission", "tree", "blob"} => R = <<>> /\ j.todo = {}
    /\ j.todo \subseteq j.fetched
    /\ j.pc \in {"resolve", "instruction"} => j.agent \in j.fetched \ j.todo
    /\ \A i \in DOMAIN R : /\ R[i].agent \notin j.todo
                           /\ j.pc \in {"resolve", "instruction"} => R[i].agent # j.agent

TypeInv ==
    /\ provider \in [length : Secrets \cup {NoSecret}, pointer : Secrets \cup {NoSecret},
                     client : Repositories \cup {NoClient}]
    /\ handler \in [Requests -> Handler]
    /\ job \in [Requests -> JobType]
    /\ runs \in [Requests -> Seq(RunType)]
    /\ errors \in Nat /\ crashes \in Nat
    /\ \A q \in Requests : Agrees(handler[q], job[q], runs[q])

-----------------------------------------------------------------------------
\* The choice of the next agent

\* A set of numbers has a least element.
LEMMA LeastElement ==
    ASSUME NEW S \in SUBSET Nat, S # {}
    PROVE  \E i \in S : \A k \in S : i <= k
<1> DEFINE Less == {ss \in Nat \X Nat : ss[1] < ss[2]}
<1>1. IsWellFoundedOn(Less, Nat)
  BY NatLessThanWellFounded DEF OpToRel
<1>2. PICK i \in S : \A k \in S : ~(<<k, i>> \in Less)
  <2> HIDE DEF Less
  <2>1. QED
    BY <1>1, WFMin
<1>3. ASSUME NEW k \in S
      PROVE  i <= k
  <2>1. ~(k < i)
    BY <1>2
  <2>2. QED
    BY <2>1
<1>4. QED
  BY <1>3

\* The job j with the agent i of the documents, of which todo are left.
Begin(j, i, todo, a) ==
    [j EXCEPT !.pc = "resolve", !.todo = todo \ {i}, !.agent = i,
              !.text = PromptText, !.texts = <<>>, !.cache = NoCache,
              !.refs = ParseAnnotations(a)]

\* The job goes on with an agent of todo, or there is none.
LEMMA NextAgentCases ==
    ASSUME NEW q \in Requests, NEW todo \in SUBSET Nat
    PROVE  \/ todo = {} /\ NextAgent(q, todo) = [job[q] EXCEPT !.pc = "done", !.todo = {}]
           \/ \E i \in todo : NextAgent(q, todo) = Begin(job[q], i, todo, Dir(q)[i])
<1>1. CASE todo = {}
  BY <1>1 DEF NextAgent
<1>2. CASE todo # {}
  <2> DEFINE i == CHOOSE i \in todo : \A k \in todo : i <= k
  <2>1. i \in todo
    BY <1>2, LeastElement
  <2>2. NextAgent(q, todo) = Begin(job[q], i, todo, Dir(q)[i])
    BY <1>2 DEF NextAgent, Begin
  <2>3. QED
    BY <2>1, <2>2
<1>3. QED
  BY <1>1, <1>2

\* The documents of an admitted delivery.
LEMMA DocsAreDocuments ==
    ASSUME NEW h, h.delivery \in Admitted
    PROVE  /\ Docs(h) \in Seq(Documents)
           /\ DOMAIN Docs(h) \in SUBSET Nat
           /\ \A i \in DOMAIN Docs(h) : Docs(h)[i] \in Documents
<1>1. Docs(h) \in Seq(Documents)
  BY AdapterAssumption DEF Admitted, Docs
<1>2. QED
  BY <1>1

LEMMA NoCacheType == NoCache \in Caches
BY DEF NoCache, Caches

LEMMA PositionsType ==
    /\ PromptText \in Positions
    /\ \A a \in Documents : ParseAnnotations(a) \subseteq Positions
BY DEF Positions

LEMMA BeginType ==
    ASSUME NEW j \in JobType, NEW i \in Nat, NEW todo \in SUBSET Nat, NEW a,
           ParseAnnotations(a) \subseteq Positions
    PROVE  /\ Begin(j, i, todo, a) \in JobType
           /\ Begin(j, i, todo, a).pc = "resolve" /\ Begin(j, i, todo, a).agent = i
           /\ Begin(j, i, todo, a).fetched = j.fetched /\ Begin(j, i, todo, a).todo = todo \ {i}
<1>1. PromptText \in Positions /\ NoCache \in Caches /\ <<>> \in Seq(Texts)
  BY PositionsType, NoCacheType
<1>2. todo \ {i} \in SUBSET Nat /\ ParseAnnotations(a) \in SUBSET Positions
  OBVIOUS
<1>3. QED
  BY <1>1, <1>2 DEF Begin, JobType, JobPoints

\* What NextAgent makes of a job, when todo is part of what was read.
LEMMA NextAgentType ==
    ASSUME TypeInv, NEW q \in Requests, job[q].pc # "none", NEW todo, todo \subseteq job[q].fetched
    PROVE  /\ NextAgent(q, todo) \in JobType
           /\ NextAgent(q, todo).pc \in {"resolve", "done"}
           /\ NextAgent(q, todo).fetched = job[q].fetched
           /\ NextAgent(q, todo).todo \subseteq todo
           /\ NextAgent(q, todo).pc = "resolve" =>
                NextAgent(q, todo).agent \in todo \ NextAgent(q, todo).todo
<1>1. job[q] \in JobType /\ handler[q].delivery \in Admitted /\ job[q].fetched \subseteq DOMAIN Docs(handler[q])
  BY DEF TypeInv, Agrees
<1>2. todo \in SUBSET Nat /\ Docs(handler[q]) = Dir(q)
  BY <1>1 DEF JobType, Docs, Dir, RepoOf
<1>3. CASE NextAgent(q, todo) = [job[q] EXCEPT !.pc = "done", !.todo = {}]
  BY <1>1, <1>3 DEF JobType, JobPoints
<1>4. CASE \E i \in todo : NextAgent(q, todo) = Begin(job[q], i, todo, Dir(q)[i])
  <2>1. PICK i \in todo : NextAgent(q, todo) = Begin(job[q], i, todo, Dir(q)[i])
    BY <1>4
  <2>2. ParseAnnotations(Dir(q)[i]) \subseteq Positions /\ i \in Nat
    BY <1>1, <1>2, DocsAreDocuments, PositionsType
  <2>3. QED
    BY <1>1, <1>2, <2>1, <2>2, BeginType
<1>5. QED
  BY <1>2, <1>3, <1>4, NextAgentCases

-----------------------------------------------------------------------------
\* What a job does

\* A job that goes on as J, with the runs R.
Updates(q, J, R) ==
    /\ J \in JobType /\ R \in Seq(RunType)
    /\ job' = [job EXCEPT ![q] = J]
    /\ runs' = [runs EXCEPT ![q] = R]
    /\ Agrees(handler[q], J, R)
    /\ UNCHANGED <<provider, handler>>
    /\ errors' \in Nat /\ crashes' = crashes

LEMMA UpdateKeepsType ==
    ASSUME TypeInv, NEW q \in Requests, NEW J, NEW R, Updates(q, J, R)
    PROVE  TypeInv'
<1>1. job' \in [Requests -> JobType] /\ runs' \in [Requests -> Seq(RunType)]
  BY DEF Updates, TypeInv
<1>2. ASSUME NEW r \in Requests
      PROVE  Agrees(handler'[r], job'[r], runs'[r])
  <2>1. handler' = handler
    BY DEF Updates
  <2>2. CASE r = q
    <3>1. job'[r] = J /\ runs'[r] = R
      BY <2>2 DEF Updates, TypeInv
    <3>2. QED
      BY <2>1, <2>2, <3>1 DEF Updates
  <2>3. CASE r # q
    <3>1. job'[r] = job[r] /\ runs'[r] = runs[r]
      BY <2>3 DEF Updates, TypeInv
    <3>2. QED
      BY <2>1, <3>1 DEF TypeInv
  <2>4. QED
    BY <2>2, <2>3
<1>3. /\ provider' \in [length : Secrets \cup {NoSecret}, pointer : Secrets \cup {NoSecret},
                        client : Repositories \cup {NoClient}]
      /\ handler' \in [Requests -> Handler]
      /\ errors' \in Nat /\ crashes' \in Nat
  BY DEF Updates, TypeInv
<1>4. QED
  BY <1>1, <1>2, <1>3 DEF TypeInv

\* A call that fails or not is counted.
LEMMA CallIsCounted ==
    ASSUME TypeInv, NEW q \in Requests, Succeeds(q) \/ Fails(q) \/ Error \/ UNCHANGED errors
    PROVE  errors' \in Nat
BY DEF Succeeds, Fails, Error, TypeInv

\* While nothing but the position and the records of failures change.
LEMMA MoveUpdates ==
    ASSUME TypeInv, NEW q \in Requests, NEW J \in JobType,
           job[q].pc # "none",
           \/ J.pc \in {job[q].pc, "done"}
           \/ job[q].pc \in {"permission", "tree"} /\ J.pc \in {"tree", "blob"}
           \/ job[q].pc \in {"resolve", "instruction"} /\ J.pc \in {"resolve", "instruction"},
           J.fetched \subseteq DOMAIN Docs(handler[q]), job[q].fetched \subseteq J.fetched,
           J.todo = job[q].todo, J.agent = job[q].agent,
           job' = [job EXCEPT ![q] = J],
           UNCHANGED <<provider, handler, runs, crashes>>, errors' \in Nat
    PROVE  Updates(q, J, runs[q])
<1>1. Agrees(handler[q], job[q], runs[q]) /\ runs[q] \in Seq(RunType) /\ runs' = [runs EXCEPT ![q] = runs[q]]
  BY DEF TypeInv
<1>2. Agrees(handler[q], J, runs[q])
  BY <1>1 DEF Agrees
<1>3. QED
  BY <1>1, <1>2 DEF Updates

LEMMA ReadingUpdates ==
    ASSUME TypeInv, NEW q \in Requests, CheckPermission(q) \/ GetTree(q) \/ Panic(q)
    PROVE  \E J : Updates(q, J, runs[q])
<1>1. /\ job[q] \in JobType /\ handler[q].delivery \in Admitted
      /\ job[q].pc # "none" /\ job[q].fetched \subseteq DOMAIN Docs(handler[q])
  BY DEF TypeInv, Agrees, CheckPermission, GetTree, Panic
<1>2. errors' \in Nat
  BY CallIsCounted DEF CheckPermission, GetTree, Panic
<1>3. UNCHANGED <<provider, handler, runs, crashes>>
  BY DEF CheckPermission, GetTree, Panic
<1>4. CASE GiveUp(q)
  <2> DEFINE J == [job[q] EXCEPT !.pc = "done", !.failed = TRUE]
  <2>1. job' = [job EXCEPT ![q] = J]
    BY <1>4 DEF GiveUp, TypeInv
  <2>2. /\ J \in JobType /\ J.pc = "done" /\ J.fetched = job[q].fetched
        /\ J.todo = job[q].todo /\ J.agent = job[q].agent
    BY <1>1 DEF JobType, JobPoints
  <2> HIDE DEF J
  <2>3. Updates(q, J, runs[q])
    BY <1>1, <1>2, <1>3, <2>1, <2>2, MoveUpdates
  <2>4. QED
    BY <2>3
<1>5. ASSUME NEW pc \in {"tree", "blob", "done"}, job' = [job EXCEPT ![q].pc = pc],
             job[q].pc \in {"permission", "tree"}
      PROVE  \E J : Updates(q, J, runs[q])
  <2> DEFINE J == [job[q] EXCEPT !.pc = pc]
  <2>1. job' = [job EXCEPT ![q] = J]
    BY <1>5
  <2>2. /\ J \in JobType /\ J.pc = pc /\ J.fetched = job[q].fetched
        /\ J.todo = job[q].todo /\ J.agent = job[q].agent
    BY <1>1, <1>5 DEF JobType, JobPoints
  <2> HIDE DEF J
  <2>3. Updates(q, J, runs[q])
    BY <1>1, <1>2, <1>3, <1>5, <2>1, <2>2, MoveUpdates
  <2>4. QED
    BY <2>3
<1>6. QED
  BY <1>4, <1>5 DEF CheckPermission, GetTree, Panic

LEMMA BlobUpdates ==
    ASSUME TypeInv, NEW q \in Requests, GetBlob(q) \/ RejectDocuments(q)
    PROVE  \E J : Updates(q, J, runs[q])
<1>1. /\ job[q] \in JobType /\ handler[q].delivery \in Admitted /\ Docs(handler[q]) = Dir(q)
      /\ job[q].pc = "blob" /\ job[q].fetched \subseteq DOMAIN Docs(handler[q])
  BY DEF TypeInv, Agrees, GetBlob, RejectDocuments, Docs, Dir, RepoOf
<1>2. errors' \in Nat
  BY CallIsCounted DEF GetBlob, RejectDocuments
<1>3. UNCHANGED <<provider, handler, runs, crashes>>
  BY DEF GetBlob, RejectDocuments
<1>4. ASSUME NEW J \in JobType, job' = [job EXCEPT ![q] = J], J.pc \in {"blob", "done"},
             J.fetched \in {job[q].fetched, job[q].fetched \cup {job[q].next}},
             J.fetched # job[q].fetched => job[q].next <= Len(Dir(q)),
             J.todo = job[q].todo, J.agent = job[q].agent
      PROVE  \E K : Updates(q, K, runs[q])
  <2>1. job[q].next \in Nat \ {0} /\ Dir(q) \in Seq(Documents)
    BY <1>1, DocsAreDocuments DEF JobType
  <2>2. job[q].next <= Len(Dir(q)) => job[q].next \in DOMAIN Dir(q)
    BY <2>1
  <2>3. J.fetched \subseteq DOMAIN Docs(handler[q]) /\ job[q].fetched \subseteq J.fetched
    BY <1>1, <1>4, <2>2
  <2>4. Updates(q, J, runs[q])
    BY <1>1, <1>2, <1>3, <1>4, <2>3, MoveUpdates
  <2>5. QED
    BY <2>4
<1>5. CASE RejectDocuments(q)
  <2> DEFINE J == [job[q] EXCEPT !.pc = "done"]
  <2>1. job' = [job EXCEPT ![q] = J]
    BY <1>5 DEF RejectDocuments
  <2>2. J \in JobType /\ J.pc = "done" /\ J.fetched = job[q].fetched /\ J.todo = job[q].todo /\ J.agent = job[q].agent
    BY <1>1 DEF JobType, JobPoints
  <2> HIDE DEF J
  <2>3. QED
    BY <1>4, <2>1, <2>2
<1>6. CASE GetBlob(q)
  <2>1. job[q].next \in Nat \ {0} /\ job[q].next + 1 \in Nat \ {0} /\ job[q].next <= Len(Dir(q))
    BY <1>1, <1>6 DEF GetBlob, JobType
  <2>2. CASE job' = [job EXCEPT ![q].next = @ + 1, ![q].fetched = @ \cup {job[q].next}]
    <3> DEFINE J == [job[q] EXCEPT !.next = job[q].next + 1, !.fetched = job[q].fetched \cup {job[q].next}]
    <3>1. job' = [job EXCEPT ![q] = J]
      BY <1>1, <2>2 DEF TypeInv
    <3>2. J \in JobType /\ J.pc = "blob" /\ J.fetched = job[q].fetched \cup {job[q].next}
          /\ J.todo = job[q].todo /\ J.agent = job[q].agent
      BY <1>1, <2>1 DEF JobType, JobPoints
    <3> HIDE DEF J
    <3>3. QED
      BY <1>4, <2>1, <3>1, <3>2
  <2>3. CASE job' = [job EXCEPT ![q].next = @ + 1, ![q].lost = @ \cup {job[q].next}]
    <3> DEFINE J == [job[q] EXCEPT !.next = job[q].next + 1, !.lost = job[q].lost \cup {job[q].next}]
    <3>1. job' = [job EXCEPT ![q] = J]
      BY <1>1, <2>3 DEF TypeInv
    <3>2. J \in JobType /\ J.pc = "blob" /\ J.fetched = job[q].fetched
          /\ J.todo = job[q].todo /\ J.agent = job[q].agent
      BY <1>1, <2>1 DEF JobType, JobPoints
    <3> HIDE DEF J
    <3>3. QED
      BY <1>4, <3>1, <3>2
  <2>4. QED
    BY <1>6, <2>2, <2>3 DEF GetBlob
<1>7. QED
  BY <1>5, <1>6

\* A cache that one more variable is put into.
LEMMA CacheGrows ==
    ASSUME NEW cache \in Caches, NEW v \in providerVariables, NEW value \in Fetched
    PROVE  /\ [x \in DOMAIN cache \cup {v} |-> IF x = v THEN value ELSE cache[x]] \in Caches
           /\ DOMAIN cache \subseteq providerVariables
<1>1. PICK S \in SUBSET providerVariables : cache \in [S -> Fetched]
  BY DEF Caches
<1> DEFINE d == [x \in S \cup {v} |-> IF x = v THEN value ELSE cache[x]]
<1>2. d \in [S \cup {v} -> Fetched] /\ S \cup {v} \in SUBSET providerVariables /\ DOMAIN cache = S
  BY <1>1
<1>3. QED
  BY <1>2 DEF Caches

\* What a text is resolved to.
LEMMA ResolvedType ==
    ASSUME NEW cache \in Caches, NEW words \in SUBSET AllWords, NEW known
    PROVE  ResolveVariables(words, known, cache) \in Valuations
<1>1. PICK S \in SUBSET providerVariables : cache \in [S -> Fetched]
  BY DEF Caches
<1>2. ResolveVariables(words, known, cache) \in [words \ {Plain} -> Fetched \cup {FromEvent}]
  BY <1>1 DEF ResolveVariables, Fetched
<1>3. QED
  BY <1>2 DEF Valuations

LEMMA WordsAreWords ==
    ASSUME NEW q \in Requests, Agent(q) \in Documents, job[q].text \in Positions
    PROVE  Words(q) \in SUBSET AllWords
<1> DEFINE a == Agent(q)
           k == job[q].text
<1>1. a \in Documents /\ k \in Positions
  OBVIOUS
<1> HIDE DEF a, k
<1>2. a.prompt \subseteq AllWords
  BY <1>1 DEF AllWords
<1>3. Contents[a.refs[k]] \subseteq InstructionWords(a)
  BY <1>1 DEF InstructionWords
<1>4. InstructionWords(a) \subseteq AllWords
  <2>1. InstructionWords(a) \in {InstructionWords(b) : b \in Documents}
    BY <1>1
  <2>2. QED
    BY <2>1 DEF AllWords
<1>5. Words(q) = IF k = PromptText THEN a.prompt ELSE Contents[a.refs[k]]
  BY DEF Words, a, k
<1>6. QED
  BY <1>2, <1>3, <1>4, <1>5

LEMMA TextUpdates ==
    ASSUME TypeInv, NEW q \in Requests,
           ResolveText(q) \/ FetchInstruction(q) \/ \E v \in providerVariables : FetchVariable(q, v)
    PROVE  \E J : Updates(q, J, runs[q])
<1>1. /\ job[q] \in JobType /\ handler[q].delivery \in Admitted /\ Docs(handler[q]) = Dir(q)
      /\ job[q].pc \in {"resolve", "instruction"} /\ job[q].fetched \subseteq DOMAIN Docs(handler[q])
      /\ job[q].agent \in job[q].fetched
  BY DEF TypeInv, Agrees, ResolveText, FetchInstruction, FetchVariable, Docs, Dir, RepoOf
<1>2. errors' \in Nat
  BY CallIsCounted DEF ResolveText, FetchInstruction, FetchVariable
<1>3. UNCHANGED <<provider, handler, runs, crashes>>
  BY DEF ResolveText, FetchInstruction, FetchVariable
<1>4. Agent(q) \in Documents
  BY <1>1, DocsAreDocuments DEF Agent
<1>5. ASSUME NEW J \in JobType, job' = [job EXCEPT ![q] = J], J.pc \in {"resolve", "instruction"},
             J.fetched = job[q].fetched, J.todo = job[q].todo, J.agent = job[q].agent
      PROVE  \E K : Updates(q, K, runs[q])
  <2>1. Updates(q, J, runs[q])
    BY <1>1, <1>2, <1>3, <1>5, MoveUpdates
  <2>2. QED
    BY <2>1
<1>6. ASSUME NEW v \in providerVariables, FetchVariable(q, v)
      PROVE  \E J : Updates(q, J, runs[q])
  <2>1. PICK value \in Fetched :
          job' = [job EXCEPT ![q].cache = [x \in DOMAIN @ \cup {v} |->
                                             IF x = v THEN value ELSE job[q].cache[x]]]
    BY <1>6 DEF FetchVariable
  <2> DEFINE c == [x \in DOMAIN job[q].cache \cup {v} |-> IF x = v THEN value ELSE job[q].cache[x]]
             J == [job[q] EXCEPT !.cache = c]
  <2>2. c \in Caches
    BY <1>1, CacheGrows DEF JobType
  <2>3. job' = [job EXCEPT ![q] = J]
    BY <2>1 DEF TypeInv
  <2> HIDE DEF c
  <2>4. /\ J \in JobType /\ J.pc = job[q].pc /\ J.fetched = job[q].fetched
        /\ J.todo = job[q].todo /\ J.agent = job[q].agent
    BY <1>1, <2>2 DEF JobType, JobPoints
  <2> HIDE DEF J
  <2>5. QED
    BY <1>1, <1>5, <2>3, <2>4
<1>7. CASE ResolveText(q)
  <2> DEFINE t == [position |-> job[q].text,
                   values |-> ResolveVariables(Words(q), Known(q), job[q].cache)]
             J == [job[q] EXCEPT !.pc = "instruction", !.texts = Append(job[q].texts, t)]
  <2>1. t \in Texts
    BY <1>1, <1>4, ResolvedType, WordsAreWords DEF Texts, JobType
  <2>2. job' = [job EXCEPT ![q] = J]
    BY <1>7 DEF ResolveText, TypeInv
  <2> HIDE DEF t
  <2>3. Append(job[q].texts, t) \in Seq(Texts)
    BY <1>1, <2>1 DEF JobType
  <2>4. /\ J \in JobType /\ J.pc = "instruction" /\ J.fetched = job[q].fetched
        /\ J.todo = job[q].todo /\ J.agent = job[q].agent
    BY <1>1, <2>3 DEF JobType, JobPoints
  <2> HIDE DEF J
  <2>5. QED
    BY <1>5, <2>2, <2>4
<1>8. CASE FetchInstruction(q)
  <2>1. PICK k \in job[q].refs :
          \/ job' = [job EXCEPT ![q].pc = "resolve", ![q].refs = @ \ {k}, ![q].text = k]
          \/ job' = [job EXCEPT ![q].refs = @ \ {k}]
    BY <1>8 DEF FetchInstruction
  <2>2. k \in Positions /\ job[q].refs \ {k} \in SUBSET Positions
    BY <1>1 DEF JobType
  <2>3. CASE job' = [job EXCEPT ![q].pc = "resolve", ![q].refs = @ \ {k}, ![q].text = k]
    <3> DEFINE J == [job[q] EXCEPT !.pc = "resolve", !.refs = job[q].refs \ {k}, !.text = k]
    <3>1. job' = [job EXCEPT ![q] = J]
      BY <1>1, <2>3 DEF TypeInv
    <3>2. /\ J \in JobType /\ J.pc = "resolve" /\ J.fetched = job[q].fetched
          /\ J.todo = job[q].todo /\ J.agent = job[q].agent
      BY <1>1, <2>2 DEF JobType, JobPoints
    <3> HIDE DEF J
    <3>3. QED
      BY <1>5, <3>1, <3>2
  <2>4. CASE job' = [job EXCEPT ![q].refs = @ \ {k}]
    <3> DEFINE J == [job[q] EXCEPT !.refs = job[q].refs \ {k}]
    <3>1. job' = [job EXCEPT ![q] = J]
      BY <1>1, <2>4 DEF TypeInv
    <3>2. /\ J \in JobType /\ J.pc = job[q].pc /\ J.fetched = job[q].fetched
          /\ J.todo = job[q].todo /\ J.agent = job[q].agent
      BY <1>1, <2>2 DEF JobType, JobPoints
    <3> HIDE DEF J
    <3>3. QED
      BY <1>1, <1>5, <3>1, <3>2
  <2>5. QED
    BY <2>1, <2>3, <2>4
<1>9. QED
  BY <1>6, <1>7, <1>8

\* A job that goes on with an agent of todo, or with none.
LEMMA NextUpdates ==
    ASSUME TypeInv, NEW q \in Requests, job[q].pc # "none", NEW todo, todo \subseteq job[q].fetched,
           NEW J \in JobType, J.pc = NextAgent(q, todo).pc, J.todo = NextAgent(q, todo).todo,
           J.agent = NextAgent(q, todo).agent, J.fetched = NextAgent(q, todo).fetched,
           NEW R \in Seq(RunType), \A i \in DOMAIN R : R[i].agent \notin todo,
           job' = [job EXCEPT ![q] = J], runs' = [runs EXCEPT ![q] = R],
           UNCHANGED <<provider, handler, crashes>>, errors' \in Nat
    PROVE  Updates(q, J, R)
<1>1. Agrees(handler[q], job[q], runs[q])
  BY DEF TypeInv
<1>2. /\ J.pc \in {"resolve", "done"} /\ J.fetched = job[q].fetched /\ J.todo \subseteq todo
      /\ J.pc = "resolve" => J.agent \in todo \ J.todo
  BY NextAgentType
<1>3. Agrees(handler[q], J, R)
  BY <1>1, <1>2 DEF Agrees
<1>4. QED
  BY <1>3 DEF Updates

LEMMA MatchUpdates ==
    ASSUME TypeInv, NEW q \in Requests, MatchAgents(q)
    PROVE  \E J : Updates(q, J, runs[q])
<1>1. job[q].pc # "none" /\ runs[q] = <<>> /\ runs[q] \in Seq(RunType)
  BY DEF TypeInv, Agrees, MatchAgents
<1>2. errors' \in Nat
  BY CallIsCounted DEF MatchAgents
<1>3. UNCHANGED <<provider, handler, crashes>> /\ runs' = [runs EXCEPT ![q] = runs[q]]
  BY DEF MatchAgents, TypeInv
<1>4. PICK files : \/ job' = [job EXCEPT ![q] = NextAgent(q, Matching(q, files))]
                   \/ job' = [job EXCEPT ![q] = [NextAgent(q, Matching(q, files)) EXCEPT !.blind = TRUE]]
  BY DEF MatchAgents
<1> DEFINE todo == Matching(q, files)
           N == NextAgent(q, todo)
           B == [N EXCEPT !.blind = TRUE]
<1>5. todo \subseteq job[q].fetched
  BY DEF Matching
<1> HIDE DEF todo
<1>6. \A i \in DOMAIN runs[q] : runs[q][i].agent \notin todo
  BY <1>1
<1>7. N \in JobType
  BY <1>1, <1>5, NextAgentType
<1>8. \/ job' = [job EXCEPT ![q] = N]
      \/ job' = [job EXCEPT ![q] = B]
  BY <1>4 DEF todo
<1>9. /\ B \in JobType /\ B.pc = N.pc /\ B.todo = N.todo /\ B.agent = N.agent /\ B.fetched = N.fetched
  <2> HIDE DEF N
  <2>1. QED
    BY <1>7 DEF JobType
<1> HIDE DEF B
<1>10. CASE job' = [job EXCEPT ![q] = N]
  <2>1. Updates(q, N, runs[q])
    BY <1>1, <1>2, <1>3, <1>5, <1>7, <1>10, <1>6, NextUpdates
  <2>2. QED
    BY <2>1
<1>11. CASE job' = [job EXCEPT ![q] = B]
  <2>1. Updates(q, B, runs[q])
    BY <1>1, <1>2, <1>3, <1>5, <1>9, <1>11, <1>6, NextUpdates
  <2>2. QED
    BY <2>1
<1>12. QED
  BY <1>8, <1>10, <1>11

\* The run that is made, and those that there are.
LEMMA AgentRunType ==
    ASSUME TypeInv, NEW q \in Requests, job[q].pc = "instruction"
    PROVE  /\ AgentRun(q) \in RunType /\ AgentRun(q).agent = job[q].agent
           /\ Append(runs[q], AgentRun(q)) \in Seq(RunType)
           /\ job[q].todo \subseteq job[q].fetched
           /\ \A i \in DOMAIN runs[q] : runs[q][i].agent \notin job[q].todo \cup {job[q].agent}
           /\ \A i \in DOMAIN Append(runs[q], AgentRun(q)) :
                Append(runs[q], AgentRun(q))[i].agent \notin job[q].todo
<1>1. job[q] \in JobType /\ runs[q] \in Seq(RunType) /\ Agrees(handler[q], job[q], runs[q])
  BY DEF TypeInv
<1>2. AgentRun(q) \in RunType /\ AgentRun(q).agent = job[q].agent
  BY <1>1 DEF AgentRun, RunType, JobType
<1>3. /\ job[q].todo \subseteq job[q].fetched /\ job[q].agent \notin job[q].todo
      /\ \A i \in DOMAIN runs[q] : runs[q][i].agent \notin job[q].todo \cup {job[q].agent}
  BY <1>1 DEF Agrees
<1> HIDE DEF AgentRun
<1>4. Append(runs[q], AgentRun(q)) \in Seq(RunType)
  BY <1>1, <1>2
<1>5. \A i \in DOMAIN Append(runs[q], AgentRun(q)) :
        Append(runs[q], AgentRun(q))[i] = IF i \in DOMAIN runs[q] THEN runs[q][i] ELSE AgentRun(q)
  BY <1>1, <1>2
<1>6. QED
  BY <1>2, <1>3, <1>4, <1>5

LEMMA CreateUpdates ==
    ASSUME TypeInv, NEW q \in Requests, CreateAgentRun(q)
    PROVE  \E J, R : Updates(q, J, R)
<1>1. job[q].pc # "none" /\ job[q].pc = "instruction" /\ runs[q] \in Seq(RunType)
  BY DEF TypeInv, CreateAgentRun
<1>2. errors' \in Nat
  BY CallIsCounted DEF CreateAgentRun
<1>3. UNCHANGED <<provider, handler, crashes>>
  BY DEF CreateAgentRun
<1> DEFINE N == NextAgent(q, job[q].todo)
           L == [N EXCEPT !.lost = @ \cup {job[q].agent}]
           R == Append(runs[q], AgentRun(q))
<1>4. N \in JobType /\ job[q].agent \in Nat
  <2>1. job[q].agent \in Nat
    BY DEF TypeInv, JobType
  <2>2. QED
    BY <1>1, <2>1, NextAgentType, AgentRunType
<1>5. L \in JobType /\ L.pc = N.pc /\ L.todo = N.todo /\ L.agent = N.agent /\ L.fetched = N.fetched
  <2> HIDE DEF N
  <2>1. QED
    BY <1>4 DEF JobType
<1>6. \/ job' = [job EXCEPT ![q] = N] /\ runs' = [runs EXCEPT ![q] = R]
      \/ job' = [job EXCEPT ![q] = L] /\ runs' = [runs EXCEPT ![q] = runs[q]]
  BY DEF CreateAgentRun, TypeInv
<1>7. CASE job' = [job EXCEPT ![q] = N] /\ runs' = [runs EXCEPT ![q] = R]
  <2>1. R \in Seq(RunType) /\ \A i \in DOMAIN R : R[i].agent \notin job[q].todo
    BY <1>1, AgentRunType
  <2> HIDE DEF R
  <2>2. job[q].todo \subseteq job[q].fetched
    BY <1>1, AgentRunType
  <2>3. Updates(q, N, R)
    BY <1>1, <1>2, <1>3, <1>4, <1>7, <2>1, <2>2, NextUpdates
  <2>4. QED
    BY <2>3
<1>8. CASE job' = [job EXCEPT ![q] = L] /\ runs' = [runs EXCEPT ![q] = runs[q]]
  <2>1. job[q].todo \subseteq job[q].fetched /\ \A i \in DOMAIN runs[q] : runs[q][i].agent \notin job[q].todo
    BY <1>1, AgentRunType
  <2> HIDE DEF L
  <2>2. Updates(q, L, runs[q])
    BY <1>1, <1>2, <1>3, <1>5, <1>8, <2>1, NextUpdates
  <2>3. QED
    BY <2>2
<1>9. QED
  BY <1>6, <1>7, <1>8

LEMMA ProcessUpdates ==
    ASSUME TypeInv, NEW q \in Requests, Process(q) \/ Panic(q)
    PROVE  \E J, R : Updates(q, J, R)
<1>1. CASE CheckPermission(q) \/ GetTree(q) \/ Panic(q)
  BY <1>1, ReadingUpdates
<1>2. CASE GetBlob(q) \/ RejectDocuments(q)
  BY <1>2, BlobUpdates
<1>3. CASE ResolveText(q) \/ FetchInstruction(q) \/ \E v \in providerVariables : FetchVariable(q, v)
  BY <1>3, TextUpdates
<1>4. CASE MatchAgents(q)
  BY <1>4, MatchUpdates
<1>5. CASE CreateAgentRun(q)
  BY <1>5, CreateUpdates
<1>6. QED
  BY <1>1, <1>2, <1>3, <1>4, <1>5 DEF Process

-----------------------------------------------------------------------------
\* What a handler does

\* The handlers that another handler's step may change: it records there that
\* it was overwritten or overtaken.
Same(h, g) == g.pc = h.pc /\ g.delivery = h.delivery /\ g.answer = h.answer

LEMMA AgreesStays ==
    ASSUME NEW h, NEW g, NEW j, NEW R, Same(h, g), Agrees(h, j, R)
    PROVE  Agrees(g, j, R)
BY DEF Same, Agrees, Docs

ProviderType == [length : Secrets \cup {NoSecret}, pointer : Secrets \cup {NoSecret},
                 client : Repositories \cup {NoClient}]

LEMMA HandlerUpdates ==
    ASSUME NEW h \in Handler
    PROVE  /\ [h EXCEPT !.overwritten = TRUE] \in Handler /\ Same(h, [h EXCEPT !.overwritten = TRUE])
           /\ [h EXCEPT !.overtaken = TRUE] \in Handler /\ Same(h, [h EXCEPT !.overtaken = TRUE])
           /\ Same(h, h)
BY DEF Handler, Same

LEMMA HandlerMoves ==
    ASSUME NEW h \in Handler, NEW pc \in HandlerPoints, NEW g, g = [h EXCEPT !.pc = pc]
    PROVE  /\ g \in Handler /\ g.pc = pc /\ g.delivery = h.delivery /\ g.answer = h.answer
           /\ g.overtaken = h.overtaken /\ g.overwritten = h.overwritten
BY DEF Handler

\* Handler q goes on to the point pc, or to its end; the others stay where they are.
LEMMA HandlerStepType ==
    ASSUME TypeInv, NEW q \in Requests,
           StoreLength(q) \/ StorePointer(q) \/ StoreClient(q)
    PROVE  /\ provider' \in ProviderType /\ handler' \in [Requests -> Handler]
           /\ UNCHANGED <<job, runs, errors, crashes>>
           /\ handler[q].pc \in {"length", "pointer", "client"}
           /\ handler'[q].pc \in {"pointer", "client", "validate"}
           /\ handler'[q].delivery = handler[q].delivery /\ handler'[q].answer = handler[q].answer
           /\ \A r \in Requests \ {q} : Same(handler[r], handler'[r])
<1>1. handler[q].delivery \in Admitted /\ handler \in [Requests -> Handler] /\ provider \in ProviderType
  BY DEF TypeInv, Agrees, StoreLength, StorePointer, StoreClient, ProviderType
<1>2. SecretOf(handler[q].delivery) \in Secrets /\ RepoOf(q) \in Repositories
  BY <1>1, AdapterAssumption DEF SecretOf, Secrets, Admitted, RepoOf
<1>3. provider' \in ProviderType
  BY <1>1, <1>2 DEF StoreLength, StorePointer, StoreClient, ProviderType
<1>4. ASSUME NEW pc \in HandlerPoints, handler'[q] = [handler[q] EXCEPT !.pc = pc],
             handler' = [r \in Requests |-> handler'[r]],
             \A r \in Requests \ {q} : handler'[r] \in {handler[r],
                 [handler[r] EXCEPT !.overwritten = TRUE], [handler[r] EXCEPT !.overtaken = TRUE]}
      PROVE  /\ handler' \in [Requests -> Handler]
             /\ handler'[q].pc = pc
             /\ handler'[q].delivery = handler[q].delivery /\ handler'[q].answer = handler[q].answer
             /\ \A r \in Requests \ {q} : Same(handler[r], handler'[r])
  <2>1. \A r \in Requests : handler[r] \in Handler
    BY <1>1
  <2>2. ASSUME NEW r \in Requests \ {q}
        PROVE  handler'[r] \in Handler /\ Same(handler[r], handler'[r])
    <3>1. PICK h \in Handler : h = handler[r]
      BY <2>1
    <3>2. handler'[r] \in {h, [h EXCEPT !.overwritten = TRUE], [h EXCEPT !.overtaken = TRUE]}
      BY <1>4, <3>1
    <3>3. QED
      BY <3>1, <3>2, HandlerUpdates
  <2>3. handler'[q] \in Handler /\ handler'[q].pc = pc
        /\ handler'[q].delivery = handler[q].delivery /\ handler'[q].answer = handler[q].answer
    <3>1. PICK h \in Handler : h = handler[q]
      BY <2>1
    <3>2. handler'[q] = [h EXCEPT !.pc = pc]
      BY <1>4, <3>1
    <3>3. QED
      BY <3>1, <3>2, HandlerMoves
  <2>4. handler' \in [Requests -> Handler]
    BY <1>4, <2>2, <2>3
  <2>5. QED
    BY <2>2, <2>3, <2>4
<1>5. ASSUME NEW pc \in HandlerPoints, NEW points, Overwrite(q, pc, points)
      PROVE  /\ handler'[q] = [handler[q] EXCEPT !.pc = pc]
             /\ handler' = [r \in Requests |-> handler'[r]]
             /\ \A r \in Requests \ {q} : handler'[r] \in {handler[r],
                  [handler[r] EXCEPT !.overwritten = TRUE], [handler[r] EXCEPT !.overtaken = TRUE]}
  BY <1>5 DEF Overwrite
<1>6. CASE StoreLength(q)
  BY <1>3, <1>4, <1>5, <1>6 DEF StoreLength, HandlerPoints
<1>7. CASE StorePointer(q)
  BY <1>3, <1>4, <1>5, <1>7 DEF StorePointer, HandlerPoints
<1>8. CASE StoreClient(q)
  <2>1. /\ handler'[q] = [handler[q] EXCEPT !.pc = "validate"]
        /\ handler' = [r \in Requests |-> handler'[r]]
        /\ \A r \in Requests \ {q} : handler'[r] \in {handler[r],
             [handler[r] EXCEPT !.overwritten = TRUE], [handler[r] EXCEPT !.overtaken = TRUE]}
    BY <1>8 DEF StoreClient
  <2>2. QED
    BY <1>3, <1>4, <1>8, <2>1 DEF StoreClient, HandlerPoints
<1>9. QED
  BY <1>6, <1>7, <1>8

LEMMA StoreKeepsType ==
    ASSUME TypeInv, NEW q \in Requests, StoreLength(q) \/ StorePointer(q) \/ StoreClient(q)
    PROVE  TypeInv'
<1>1. ASSUME NEW r \in Requests
      PROVE  Agrees(handler'[r], job'[r], runs'[r])
  <2>1. Agrees(handler[r], job[r], runs[r])
    BY DEF TypeInv
  <2>2. job' = job /\ runs' = runs
    BY HandlerStepType
  <2>3. CASE r = q
    <3>1. Agrees(handler'[q], job[q], runs[q])
      BY <2>1, <2>3, HandlerStepType DEF Agrees, Docs
    <3>2. QED
      BY <2>2, <2>3, <3>1
  <2>4. CASE r # q
    BY <2>1, <2>2, <2>4, HandlerStepType, AgreesStays
  <2>5. QED
    BY <2>3, <2>4
<1>2. QED
  BY <1>1, HandlerStepType DEF TypeInv, ProviderType

Answers == {0, 200, 202, 401, 500}

LEMMA AnswerMoves ==
    ASSUME NEW h \in Handler, NEW code \in Answers, NEW g, g = [h EXCEPT !.answer = code]
    PROVE  /\ g \in Handler /\ g.pc = h.pc /\ g.answer = code /\ g.delivery = h.delivery
           /\ g.overtaken = h.overtaken /\ g.overwritten = h.overwritten
BY DEF Handler, Answers

LEMMA AdmitMoves ==
    ASSUME NEW h \in Handler, NEW d \in Deliveries, NEW g, g = [h EXCEPT !.delivery = d]
    PROVE  g \in Handler /\ g.pc = h.pc /\ g.answer = h.answer /\ g.delivery = d
BY DEF Handler

\* A handler's last step, and its first.
Ends(q, code) == handler' = [handler EXCEPT ![q].pc = "over", ![q].answer = code]
Begins(q, d) == handler' = [handler EXCEPT ![q].pc = "length", ![q].delivery = d]

LEMMA HandlerAnswers ==
    ASSUME handler \in [Requests -> Handler], NEW q \in Requests, NEW code \in Answers, Ends(q, code)
    PROVE  /\ handler' \in [Requests -> Handler]
           /\ \A r \in Requests \ {q} : handler'[r] = handler[r]
           /\ handler'[q].pc = "over" /\ handler'[q].answer = code
           /\ handler'[q].delivery = handler[q].delivery
           /\ handler'[q].overtaken = handler[q].overtaken /\ handler'[q].overwritten = handler[q].overwritten
<1>1. PICK h \in Handler : h = handler[q]
  OBVIOUS
<1>2. handler'[q] = [[handler[q] EXCEPT !.pc = "over"] EXCEPT !.answer = code]
  BY DEF Ends
<1>3. PICK n : n = [h EXCEPT !.pc = "over"]
  OBVIOUS
<1>4. handler'[q] = [n EXCEPT !.answer = code]
  BY <1>1, <1>2, <1>3
<1>5. DOMAIN handler' = Requests /\ \A r \in Requests \ {q} : handler'[r] = handler[r]
  BY DEF Ends
<1>6. /\ n \in Handler /\ n.pc = "over" /\ n.delivery = h.delivery /\ n.answer = h.answer
      /\ n.overtaken = h.overtaken /\ n.overwritten = h.overwritten
  BY <1>1, <1>3, HandlerMoves DEF HandlerPoints
<1>7. /\ handler'[q] \in Handler /\ handler'[q].pc = n.pc /\ handler'[q].answer = code
      /\ handler'[q].delivery = n.delivery
      /\ handler'[q].overtaken = n.overtaken /\ handler'[q].overwritten = n.overwritten
  BY <1>4, <1>6, AnswerMoves
<1>8. \A r \in Requests : handler'[r] \in Handler
  BY <1>5, <1>7
<1>9. handler' \in [Requests -> Handler]
  BY <1>5, <1>8 DEF Ends
<1>10. QED
  BY <1>1, <1>5, <1>6, <1>7, <1>9

LEMMA HandlerAdmits ==
    ASSUME handler \in [Requests -> Handler], NEW q \in Requests, NEW d \in Deliveries, Begins(q, d)
    PROVE  /\ handler' \in [Requests -> Handler]
           /\ \A r \in Requests \ {q} : handler'[r] = handler[r]
           /\ handler'[q].pc = "length" /\ handler'[q].answer = handler[q].answer
           /\ handler'[q].delivery = d
<1>1. PICK h \in Handler : h = handler[q]
  OBVIOUS
<1>2. handler'[q] = [[handler[q] EXCEPT !.pc = "length"] EXCEPT !.delivery = d]
  BY DEF Begins
<1>3. PICK n : n = [h EXCEPT !.pc = "length"]
  OBVIOUS
<1>4. handler'[q] = [n EXCEPT !.delivery = d]
  BY <1>1, <1>2, <1>3
<1>5. DOMAIN handler' = Requests /\ \A r \in Requests \ {q} : handler'[r] = handler[r]
  BY DEF Begins
<1>6. /\ n \in Handler /\ n.pc = "length" /\ n.delivery = h.delivery /\ n.answer = h.answer
      /\ n.overtaken = h.overtaken /\ n.overwritten = h.overwritten
  BY <1>1, <1>3, HandlerMoves DEF HandlerPoints
<1>7. /\ handler'[q] \in Handler /\ handler'[q].pc = n.pc
      /\ handler'[q].answer = n.answer /\ handler'[q].delivery = d
  BY <1>4, <1>6, AdmitMoves
<1>8. \A r \in Requests : handler'[r] \in Handler
  BY <1>5, <1>7
<1>9. handler' \in [Requests -> Handler]
  BY <1>5, <1>8 DEF Begins
<1>10. QED
  BY <1>1, <1>5, <1>6, <1>7, <1>9

LEMMA ArriveCases ==
    ASSUME TypeInv, NEW q \in Requests, Arrive(q)
    PROVE  /\ handler[q].pc = "idle" /\ handler[q].answer = 0
           /\ UNCHANGED <<provider, job, runs, errors, crashes>>
           /\ handler' \in [Requests -> Handler]
           /\ \A r \in Requests \ {q} : handler'[r] = handler[r]
           /\ \/ handler'[q].pc = "over" /\ handler'[q].answer \in {200, 500}
              \/ handler'[q].pc = "length" /\ handler'[q].answer = 0 /\ handler'[q].delivery \in Admitted
<1>1. /\ handler \in [Requests -> Handler] /\ handler[q].pc = "idle" /\ handler[q].answer = 0
      /\ UNCHANGED <<provider, job, runs, errors, crashes>>
  BY DEF TypeInv, Agrees, Arrive, Admit, Refuse
<1>2. ASSUME NEW code \in {200, 500}, Refuse(q, code)
      PROVE  /\ handler' \in [Requests -> Handler]
             /\ \A r \in Requests \ {q} : handler'[r] = handler[r]
             /\ handler'[q].pc = "over" /\ handler'[q].answer \in {200, 500}
  <2>1. code \in Answers /\ Ends(q, code)
    BY <1>2 DEF Refuse, Answers, Ends
  <2>2. QED
    BY <1>1, <1>2, <2>1, HandlerAnswers
<1>3. ASSUME NEW d \in Deliveries, Admit(q, d)
      PROVE  /\ handler' \in [Requests -> Handler]
             /\ \A r \in Requests \ {q} : handler'[r] = handler[r]
             /\ handler'[q].pc = "length" /\ handler'[q].answer = 0 /\ handler'[q].delivery \in Admitted
  BY <1>1, <1>3, HandlerAdmits DEF Admit, Admitted, Begins
<1>4. QED
  BY <1>1, <1>2, <1>3 DEF Arrive

LEMMA ArriveKeepsType ==
    ASSUME TypeInv, NEW q \in Requests, Arrive(q)
    PROVE  TypeInv'
<1>1. ASSUME NEW r \in Requests
      PROVE  Agrees(handler'[r], job'[r], runs'[r])
  <2>1. Agrees(handler[r], job[r], runs[r]) /\ runs' = runs /\ job' = job
    BY ArriveCases DEF TypeInv
  <2>2. CASE r # q
    BY <2>1, <2>2, ArriveCases
  <2>3. CASE r = q
    <3>1. Agrees(handler'[q], job[q], runs[q])
      BY <2>1, <2>3, ArriveCases DEF Agrees
    <3>2. QED
      BY <2>1, <2>3, <3>1
  <2>4. QED
    BY <2>2, <2>3
<1>2. QED
  BY <1>1, ArriveCases DEF TypeInv

\* The end of a handler: accepted or not.
LEMMA ValidateCases ==
    ASSUME TypeInv, NEW q \in Requests, NEW secret, Validate(q, secret)
    PROVE  /\ handler[q].pc = "validate" /\ handler[q].delivery \in Admitted /\ handler[q].answer = 0
           /\ UNCHANGED <<provider, runs, errors, crashes>>
           /\ handler' \in [Requests -> Handler] /\ job' \in [Requests -> JobType]
           /\ \A r \in Requests \ {q} : handler'[r] = handler[r] /\ job'[r] = job[r]
           /\ handler'[q].pc = "over" /\ handler'[q].delivery = handler[q].delivery
           /\ handler'[q].overtaken = handler[q].overtaken /\ handler'[q].overwritten = handler[q].overwritten
           /\ \/ /\ secret = handler[q].delivery.signed /\ handler'[q].answer = 202
                 /\ job'[q].pc \in {"permission", "tree"}
                 /\ \E pc : job'[q] = [job[q] EXCEPT !.pc = pc]
              \/ /\ secret # handler[q].delivery.signed /\ handler'[q].answer = 401
                 /\ job'[q] = job[q]
<1>1. /\ handler[q].pc = "validate" /\ handler[q].delivery \in Admitted /\ handler[q].answer = 0
      /\ handler[q] \in Handler /\ job[q] \in JobType /\ UNCHANGED <<provider, runs, errors, crashes>>
  BY DEF TypeInv, Agrees, Validate
<1>2. ASSUME NEW code \in {202, 401}, Ends(q, code)
      PROVE  /\ handler' \in [Requests -> Handler]
             /\ \A r \in Requests \ {q} : handler'[r] = handler[r]
             /\ handler'[q].pc = "over" /\ handler'[q].delivery = handler[q].delivery /\ handler'[q].answer = code
             /\ handler'[q].overtaken = handler[q].overtaken /\ handler'[q].overwritten = handler[q].overwritten
  BY <1>2, HandlerAnswers DEF TypeInv, Answers
<1>3. CASE secret = handler[q].delivery.signed
  <2>1. PICK pc \in {"permission", "tree"} : job' = [job EXCEPT ![q] = [job[q] EXCEPT !.pc = pc]]
    BY <1>3 DEF Validate, TypeInv
  <2> DEFINE J == [job[q] EXCEPT !.pc = pc]
  <2>2. J \in JobType /\ J.pc = pc /\ job' = [job EXCEPT ![q] = J]
    BY <1>1, <2>1 DEF JobType, JobPoints
  <2>3. job'[q] = J
    BY <2>2 DEF TypeInv
  <2> HIDE DEF J
  <2>4. /\ job' \in [Requests -> JobType]
        /\ \A r \in Requests \ {q} : job'[r] = job[r]
        /\ job'[q].pc \in {"permission", "tree"}
    BY <2>2 DEF TypeInv
  <2>5. \E x : job'[q] = [job[q] EXCEPT !.pc = x]
    BY <2>3 DEF J
  <2>6. Ends(q, 202)
    BY <1>3 DEF Validate, Ends
  <2>7. QED
    BY <1>1, <1>2, <1>3, <2>4, <2>5, <2>6
<1>4. CASE secret # handler[q].delivery.signed
  <2>1. job' = job /\ Ends(q, 401)
    BY <1>4 DEF Validate, Ends
  <2>2. job' \in [Requests -> JobType]
    BY <2>1 DEF TypeInv
  <2>3. QED
    BY <1>1, <1>2, <1>4, <2>1, <2>2
<1>5. QED
  BY <1>3, <1>4

LEMMA ValidateKeepsType ==
    ASSUME TypeInv, NEW q \in Requests, NEW secret, Validate(q, secret)
    PROVE  TypeInv'
<1>1. ASSUME NEW r \in Requests
      PROVE  Agrees(handler'[r], job'[r], runs'[r])
  <2>1. Agrees(handler[r], job[r], runs[r]) /\ runs' = runs
    BY ValidateCases DEF TypeInv
  <2>2. CASE r # q
    BY <2>1, <2>2, ValidateCases
  <2>3. CASE r = q
    <3>1. job[q] \in JobType /\ job[q].pc = "none"
      BY <2>1, <2>3, ValidateCases DEF TypeInv, Agrees
    <3>2. job[q].fetched = {} /\ job[q].todo = {} /\ runs[q] = <<>>
      BY <2>1, <2>3, <3>1 DEF Agrees
    <3>3. job'[q].fetched = job[q].fetched /\ job'[q].todo = job[q].todo
      <4>1. CASE \E pc : job'[q] = [job[q] EXCEPT !.pc = pc]
        BY <3>1, <4>1 DEF JobType
      <4>2. QED
        BY <4>1, ValidateCases
    <3>4. DOMAIN runs[q] = {}
      BY <3>2
    <3>5. QED
      BY <2>1, <2>3, <3>1, <3>2, <3>3, <3>4, ValidateCases DEF Agrees
  <2>4. QED
    BY <2>2, <2>3
<1>2. QED
  BY <1>1, ValidateCases DEF TypeInv

-----------------------------------------------------------------------------
\* A crash, and the type invariant

\* After a crash every handler that has begun is over, every job done.
LEMMA CrashCases ==
    ASSUME TypeInv, Crash
    PROVE  /\ provider' = NewProvider /\ UNCHANGED <<runs, errors>> /\ crashes' = crashes + 1
           /\ handler' \in [Requests -> Handler] /\ job' \in [Requests -> JobType]
           /\ \A r \in Requests :
                /\ \/ handler'[r] = handler[r]
                   \/ handler[r].pc # "idle" /\ handler'[r] = [handler[r] EXCEPT !.pc = "over"]
                /\ handler'[r].pc \in {"idle", "over"}
                /\ \/ job'[r] = job[r] /\ job[r].pc \in {"none", "done"}
                   \/ /\ job[r].pc \notin {"none", "done"} /\ job'[r].pc = "done"
                      /\ job'[r] = [job[r] EXCEPT !.pc = "done", !.failed = TRUE]
<1>1. /\ provider' = NewProvider /\ UNCHANGED <<runs, errors>> /\ crashes' = crashes + 1
      /\ handler' = [q \in Requests |-> handler'[q]] /\ job' = [q \in Requests |-> job'[q]]
  BY DEF Crash
<1>2. ASSUME NEW r \in Requests
      PROVE  /\ handler'[r] \in Handler /\ handler'[r].pc \in {"idle", "over"}
             /\ \/ handler'[r] = handler[r]
                \/ handler[r].pc # "idle" /\ handler'[r] = [handler[r] EXCEPT !.pc = "over"]
  <2>1. PICK h \in Handler : h = handler[r]
    BY DEF TypeInv
  <2>2. handler'[r] = IF h.pc = "idle" THEN h ELSE [h EXCEPT !.pc = "over"]
    BY <2>1 DEF Crash
  <2>3. QED
    BY <2>1, <2>2, HandlerMoves DEF HandlerPoints
<1>3. ASSUME NEW r \in Requests
      PROVE  /\ job'[r] \in JobType
             /\ \/ job'[r] = job[r] /\ job[r].pc \in {"none", "done"}
                \/ /\ job[r].pc \notin {"none", "done"} /\ job'[r].pc = "done"
                   /\ job'[r] = [job[r] EXCEPT !.pc = "done", !.failed = TRUE]
  <2>1. PICK j \in JobType : j = job[r]
    BY DEF TypeInv
  <2>2. job'[r] = IF j.pc \in {"none", "done"} THEN j ELSE [j EXCEPT !.pc = "done", !.failed = TRUE]
    BY <2>1 DEF Crash
  <2>3. PICK k : k = [j EXCEPT !.pc = "done", !.failed = TRUE]
    OBVIOUS
  <2>4. k \in JobType /\ k.pc = "done"
    BY <2>1, <2>3 DEF JobType, JobPoints
  <2>5. QED
    BY <2>1, <2>2, <2>3, <2>4
<1>4. handler' \in [Requests -> Handler]
  BY <1>1, <1>2
<1>5. job' \in [Requests -> JobType]
  BY <1>1, <1>3
<1>6. QED
  BY <1>1, <1>2, <1>3, <1>4, <1>5

LEMMA CrashKeepsType ==
    ASSUME TypeInv, Crash
    PROVE  TypeInv'
<1>1. ASSUME NEW r \in Requests
      PROVE  Agrees(handler'[r], job'[r], runs'[r])
  <2>1. /\ Agrees(handler[r], job[r], runs[r]) /\ runs' = runs
        /\ handler[r] \in Handler /\ job[r] \in JobType
    BY CrashCases DEF TypeInv
  <2>2. /\ handler'[r].delivery = handler[r].delivery /\ handler'[r].answer = handler[r].answer
        /\ handler'[r].pc \in {"idle", "over"}
        /\ handler'[r].pc = "idle" => handler[r].pc = "idle"
    <3>1. PICK h \in Handler : h = handler[r]
      BY <2>1
    <3>2. CASE handler'[r] = [h EXCEPT !.pc = "over"]
      <4>1. handler'[r].delivery = h.delivery /\ handler'[r].answer = h.answer /\ handler'[r].pc = "over"
        BY <3>1, <3>2, HandlerMoves DEF HandlerPoints
      <4>2. QED
        BY <3>1, <4>1
    <3>3. CASE handler'[r] = h
      BY <3>1, <3>3, CrashCases
    <3>4. QED
      BY <3>1, <3>2, <3>3, CrashCases
  <2>3. /\ job'[r].fetched = job[r].fetched /\ job'[r].todo = job[r].todo
        /\ job'[r].pc \in {"none", "done"} /\ (job'[r].pc = "none" <=> job[r].pc = "none")
    BY <2>1, CrashCases DEF JobType
  <2>4. QED
    BY <2>1, <2>2, <2>3 DEF Agrees, Docs
<1>2. NewProvider \in ProviderType
  BY DEF NewProvider, ProviderType
<1>3. provider' \in ProviderType /\ runs' \in [Requests -> Seq(RunType)] /\ errors' \in Nat /\ crashes' \in Nat
  <2>1. /\ provider' = NewProvider /\ runs' = runs /\ errors' = errors /\ crashes' = crashes + 1
        /\ runs \in [Requests -> Seq(RunType)] /\ errors \in Nat /\ crashes \in Nat
    BY CrashCases DEF TypeInv
  <2>2. QED
    BY <1>2, <2>1
<1>4. QED
  BY <1>1, <1>3, CrashCases DEF TypeInv, ProviderType

LEMMA TypeInit ==
    ASSUME Init
    PROVE  TypeInv
<1>1. NewProvider \in ProviderType
  BY DEF NewProvider, ProviderType
<1>2. Idle \in JobType /\ Idle.pc = "none" /\ Idle.fetched = {} /\ Idle.todo = {}
  <2>1. <<>> \in Seq(Texts)
    OBVIOUS
  <2>2. QED
    BY <2>1, NoCacheType, PositionsType DEF Idle, JobType, JobPoints
<1> DEFINE h == [pc |-> "idle", delivery |-> NoDelivery, answer |-> 0, overwritten |-> FALSE, overtaken |-> FALSE]
<1>3. h \in Handler /\ h.pc = "idle" /\ h.answer = 0
  BY DEF Handler, HandlerPoints
<1>4. handler = [q \in Requests |-> h] /\ job = [q \in Requests |-> Idle] /\ runs = [q \in Requests |-> <<>>]
      /\ provider = NewProvider /\ errors = 0 /\ crashes = 0
  BY DEF Init
<1> HIDE DEF h
<1>5. Agrees(h, Idle, <<>>)
  BY <1>2, <1>3 DEF Agrees
<1>6. <<>> \in Seq(RunType)
  OBVIOUS
<1>7. QED
  BY <1>1, <1>2, <1>3, <1>4, <1>5, <1>6 DEF TypeInv, ProviderType

LEMMA TypeStep ==
    ASSUME TypeInv, [Next]_vars
    PROVE  TypeInv'
<1>1. CASE UNCHANGED vars
  BY <1>1 DEF vars, TypeInv
<1>2. ASSUME NEW q \in Requests, Handle(q)
      PROVE  TypeInv'
  BY <1>2, StoreKeepsType, ValidateKeepsType DEF Handle
<1>3. ASSUME NEW q \in Requests, Process(q) \/ Panic(q)
      PROVE  TypeInv'
  BY <1>3, ProcessUpdates, UpdateKeepsType
<1>4. QED
  BY <1>1, <1>2, <1>3, ArriveKeepsType, CrashKeepsType DEF Next

LEMMA TypeInvariant == Spec => []TypeInv
BY TypeInit, TypeStep, PTL DEF Spec

\* Every handler and every job is what the code makes of it, whatever arrives
\* and fails (adapter.go:36-113, 160-241).
THEOREM WebhookTypeCorrect == Spec => []TypeOK
<1>1. ASSUME TypeInv
      PROVE  TypeOK
  <2>1. ASSUME NEW q \in Requests
        PROVE  IsJob(job[q])
    <3>1. PICK j \in JobType : j = job[q]
      BY <1>1 DEF TypeInv
    <3>2. /\ DOMAIN j = DOMAIN Idle /\ j.pc \in JobPoints /\ j.next \in Nat /\ j.agent \in Nat
          /\ j.fetched \subseteq Nat /\ j.todo \subseteq Nat /\ j.lost \subseteq Nat
          /\ j.failed \in BOOLEAN /\ j.blind \in BOOLEAN
      BY <3>1 DEF JobType, Idle
    <3>3. j.cache \in [DOMAIN j.cache -> Fetched]
      <4>1. PICK S \in SUBSET providerVariables : j.cache \in [S -> Fetched]
        BY <3>1 DEF JobType, Caches
      <4>2. QED
        BY <4>1
    <3>4. ASSUME NEW i \in DOMAIN j.texts
          PROVE  IsText(j.texts[i])
      <4>1. j.texts[i] \in Texts
        BY <3>1 DEF JobType
      <4>2. PICK S : j.texts[i].values \in [S -> Fetched \cup {FromEvent}]
        BY <4>1 DEF Texts, Valuations
      <4>3. QED
        BY <4>2 DEF IsText
    <3>5. QED
      BY <3>1, <3>2, <3>3, <3>4 DEF IsJob
  <2>2. \A q \in Requests : handler[q].pc \notin {"idle", "over"} => handler[q].delivery # NoDelivery
    BY <1>1, AdapterAssumption DEF TypeInv, Agrees, Admitted
  <2>3. QED
    BY <1>1, <2>1, <2>2 DEF TypeInv, TypeOK
<1>2. QED
  BY <1>1, TypeInvariant, PTL

-----------------------------------------------------------------------------
\* The shared secret

\* What handler h, which is over or on its way, knows of the provider p.
Secures(h, p) ==
    /\ h.answer = 202 => h.delivery.signed \in Secrets
    /\ h.answer = 401 => h.delivery.signed # SecretOf(h.delivery) \/ h.overwritten = TRUE
    /\ h.pc = "pointer" => h.overwritten = TRUE \/ p.length = SecretOf(h.delivery)
    /\ h.pc \in {"client", "validate"} =>
         \/ h.overwritten = TRUE
         \/ p.length = SecretOf(h.delivery) /\ p.pointer = SecretOf(h.delivery)

SecretInv == \A q \in Requests : Secures(handler[q], provider)

\* Another handler has written its secret: this one has lost its own, or it is
\* the same secret, or it is not there yet.
LEMMA SecuresAfterWrite ==
    ASSUME NEW h \in Handler, NEW g, NEW p, NEW o, Secures(h, p),
           \/ g = [h EXCEPT !.overwritten = TRUE]
           \/ /\ g = h
              /\ h.pc \in {"pointer", "client", "validate"} => o.length \in {p.length, SecretOf(h.delivery)}
              /\ h.pc \in {"client", "validate"} => o.pointer \in {p.pointer, SecretOf(h.delivery)}
    PROVE  Secures(g, o)
<1>1. CASE g = h
  BY <1>1 DEF Secures, Handler
<1>2. CASE g = [h EXCEPT !.overwritten = TRUE]
  <2>1. g.overwritten = TRUE /\ g.answer = h.answer /\ g.delivery = h.delivery
    BY <1>2 DEF Handler
  <2>2. QED
    BY <2>1 DEF Secures
<1>3. QED
  BY <1>1, <1>2 DEF Secures

\* What writing the secret does to the handlers.
LEMMA OverwriteCases ==
    ASSUME TypeInv, NEW q \in Requests, NEW pc, NEW points, Overwrite(q, pc, points)
    PROVE  /\ handler'[q] = [handler[q] EXCEPT !.pc = pc]
           /\ \A r \in Requests \ {q} :
                \/ handler'[r] = [handler[r] EXCEPT !.overwritten = TRUE]
                \/ /\ handler'[r] = handler[r]
                   /\ handler[r].pc \in points =>
                        SecretOf(handler[r].delivery) = SecretOf(handler[q].delivery)
BY DEF Overwrite

LEMMA SecretByStore ==
    ASSUME TypeInv, SecretInv, NEW q \in Requests, StoreLength(q) \/ StorePointer(q)
    PROVE  SecretInv'
<1> DEFINE s == SecretOf(handler[q].delivery)
<1>1. provider \in ProviderType
  BY DEF TypeInv, ProviderType
<1>2. CASE StoreLength(q)
  <2>1. provider'.length = s /\ provider'.pointer = provider.pointer
    BY <1>1, <1>2 DEF StoreLength, ProviderType
  <2>2. Overwrite(q, "pointer", {"pointer", "client", "validate"}) /\ handler[q].pc = "length"
    BY <1>2 DEF StoreLength
  <2>3. ASSUME NEW r \in Requests \ {q}
        PROVE  Secures(handler'[r], provider')
    <3>1. PICK h \in Handler : h = handler[r] /\ Secures(h, provider)
      BY DEF TypeInv, SecretInv
    <3>2. \/ handler'[r] = [h EXCEPT !.overwritten = TRUE]
          \/ handler'[r] = h /\ (h.pc \in {"pointer", "client", "validate"} => SecretOf(h.delivery) = s)
      BY <2>2, <3>1 DEF Overwrite
    <3>3. PICK g, o, p : g = handler'[r] /\ o = provider' /\ p = provider
      OBVIOUS
    <3>4. Secures(g, o)
      BY <2>1, <3>1, <3>2, <3>3, SecuresAfterWrite
    <3>5. QED
      BY <3>3, <3>4
  <2>4. Secures(handler'[q], provider')
    <3>1. PICK h \in Handler : h = handler[q] /\ Secures(h, provider)
      BY DEF TypeInv, SecretInv
    <3>2. PICK g : g = [h EXCEPT !.pc = "pointer"]
      OBVIOUS
    <3>3. g = handler'[q]
      BY <2>2, <3>1, <3>2, OverwriteCases
    <3>4. g.pc = "pointer" /\ g.delivery = h.delivery /\ g.answer = h.answer /\ g.overwritten = h.overwritten
      BY <3>1, <3>2, HandlerMoves DEF HandlerPoints
    <3>5. QED
      BY <2>1, <3>1, <3>3, <3>4 DEF Secures
  <2>5. QED
    BY <2>3, <2>4 DEF SecretInv
<1>3. CASE StorePointer(q)
  <2>1. provider'.length = provider.length /\ provider'.pointer = s
    BY <1>1, <1>3 DEF StorePointer, ProviderType
  <2>2. Overwrite(q, "client", {"client", "validate"}) /\ handler[q].pc = "pointer"
    BY <1>3 DEF StorePointer
  <2>3. ASSUME NEW r \in Requests \ {q}
        PROVE  Secures(handler'[r], provider')
    <3>1. PICK h \in Handler : h = handler[r] /\ Secures(h, provider)
      BY DEF TypeInv, SecretInv
    <3>2. \/ handler'[r] = [h EXCEPT !.overwritten = TRUE]
          \/ handler'[r] = h /\ (h.pc \in {"client", "validate"} => SecretOf(h.delivery) = s)
      BY <2>2, <3>1 DEF Overwrite
    <3>3. PICK g, o, p : g = handler'[r] /\ o = provider' /\ p = provider
      OBVIOUS
    <3>4. Secures(g, o)
      BY <2>1, <3>1, <3>2, <3>3, SecuresAfterWrite
    <3>5. QED
      BY <3>3, <3>4
  <2>4. Secures(handler'[q], provider')
    <3>1. PICK h \in Handler : h = handler[q] /\ Secures(h, provider)
      BY DEF TypeInv, SecretInv
    <3>2. PICK g : g = [h EXCEPT !.pc = "client"]
      OBVIOUS
    <3>3. g = handler'[q]
      BY <2>2, <3>1, <3>2, OverwriteCases
    <3>4. g.pc = "client" /\ g.delivery = h.delivery /\ g.answer = h.answer /\ g.overwritten = h.overwritten
      BY <3>1, <3>2, HandlerMoves DEF HandlerPoints
    <3>5. QED
      BY <2>1, <2>2, <3>1, <3>3, <3>4 DEF Secures
  <2>5. QED
    BY <2>3, <2>4 DEF SecretInv
<1>4. QED
  BY <1>2, <1>3

\* What storing the client does to the handlers.
LEMMA ClientCases ==
    ASSUME TypeInv, NEW q \in Requests, StoreClient(q)
    PROVE  /\ provider'.client = RepoOf(q)
           /\ provider'.length = provider.length /\ provider'.pointer = provider.pointer
           /\ handler[q].pc = "client" /\ handler'[q] = [handler[q] EXCEPT !.pc = "validate"]
           /\ \A r \in Requests \ {q} :
                \/ handler'[r] = [handler[r] EXCEPT !.overtaken = TRUE]
                \/ handler'[r] = handler[r] /\ (UsesClient(r) => RepoOf(r) = RepoOf(q))
           /\ UNCHANGED <<job, runs, errors, crashes>>
BY DEF StoreClient, TypeInv

LEMMA SecretByClient ==
    ASSUME TypeInv, SecretInv, NEW q \in Requests, StoreClient(q)
    PROVE  SecretInv'
<1>1. ASSUME NEW r \in Requests
      PROVE  Secures(handler'[r], provider')
  <2>1. PICK h \in Handler : h = handler[r] /\ Secures(h, provider)
    BY DEF TypeInv, SecretInv
  <2>2. CASE r = q
    <3>1. PICK g : g = [h EXCEPT !.pc = "validate"]
      OBVIOUS
    <3>2. g = handler'[r] /\ h.pc = "client"
      BY <2>1, <2>2, <3>1, ClientCases
    <3>3. g.pc = "validate" /\ g.delivery = h.delivery /\ g.answer = h.answer /\ g.overwritten = h.overwritten
      BY <2>1, <3>1, HandlerMoves DEF HandlerPoints
    <3>4. QED
      BY <2>1, <3>2, <3>3, ClientCases DEF Secures
  <2>3. CASE r # q
    <3>1. PICK g : g = handler'[r]
      OBVIOUS
    <3>2. g = h \/ g = [h EXCEPT !.overtaken = TRUE]
      BY <2>1, <2>3, <3>1, ClientCases
    <3>3. g.pc = h.pc /\ g.delivery = h.delivery /\ g.answer = h.answer /\ g.overwritten = h.overwritten
      BY <2>1, <3>2 DEF Handler
    <3>4. QED
      BY <2>1, <3>1, <3>3, ClientCases DEF Secures
  <2>4. QED
    BY <2>2, <2>3
<1>2. QED
  BY <1>1 DEF SecretInv

LEMMA SecretByValidate ==
    ASSUME TypeInv, SecretInv, NEW q \in Requests, NEW secret, Validate(q, secret)
    PROVE  SecretInv'
<1>1. provider' = provider /\ provider \in ProviderType
  BY ValidateCases DEF TypeInv, ProviderType
<1>2. ASSUME NEW r \in Requests \ {q}
      PROVE  Secures(handler'[r], provider')
  BY <1>1, <1>2, ValidateCases DEF SecretInv
<1>3. Secures(handler'[q], provider')
  <2>1. /\ Secures(handler[q], provider) /\ handler[q].pc = "validate"
        /\ handler[q].delivery \in Deliveries
        /\ handler'[q].pc = "over" /\ handler'[q].delivery = handler[q].delivery
        /\ handler'[q].overwritten = handler[q].overwritten
    BY ValidateCases DEF SecretInv, Admitted
  <2>2. secret \in ReadSecret
    BY DEF Validate
  <2>3. ASSUME secret = handler[q].delivery.signed
        PROVE  handler[q].delivery.signed \in Secrets
    <3>1. secret \notin {NoSecret, Torn}
      BY <2>1, <2>3, AdapterAssumption
    <3>2. secret \in Secrets \cup {NoSecret}
      BY <1>1, <2>2, <3>1 DEF ReadSecret, If, ProviderType
    <3>3. QED
      BY <2>3, <3>1, <3>2
  <2>4. ASSUME secret # handler[q].delivery.signed
        PROVE  handler[q].delivery.signed # SecretOf(handler[q].delivery) \/ handler[q].overwritten = TRUE
    <3>1. CASE provider.length = provider.pointer
      BY <2>1, <2>2, <2>4, <3>1 DEF ReadSecret, If, Secures
    <3>2. CASE provider.length # provider.pointer
      BY <2>1, <3>2 DEF Secures
    <3>3. QED
      BY <3>1, <3>2
  <2>5. \/ secret = handler[q].delivery.signed /\ handler'[q].answer = 202
        \/ secret # handler[q].delivery.signed /\ handler'[q].answer = 401
    BY ValidateCases
  <2>6. CASE secret = handler[q].delivery.signed /\ handler'[q].answer = 202
    BY <2>1, <2>3, <2>6 DEF Secures
  <2>7. CASE secret # handler[q].delivery.signed /\ handler'[q].answer = 401
    <3>1. PICK g : g = handler'[q]
      OBVIOUS
    <3>2. PICK h : h = handler[q]
      OBVIOUS
    <3>3. /\ g.pc = "over" /\ g.delivery = h.delivery /\ g.overwritten = h.overwritten /\ g.answer = 401
          /\ h.delivery.signed # SecretOf(h.delivery) \/ h.overwritten = TRUE
      BY <2>1, <2>4, <2>7, <3>1, <3>2
    <3>4. Secures(g, provider')
      BY <3>3 DEF Secures
    <3>5. QED
      BY <3>1, <3>4
  <2>8. QED
    BY <2>5, <2>6, <2>7
<1>4. QED
  BY <1>2, <1>3 DEF SecretInv

LEMMA SecretByArrive ==
    ASSUME TypeInv, SecretInv, NEW q \in Requests, Arrive(q)
    PROVE  SecretInv'
<1>1. ASSUME NEW r \in Requests
      PROVE  Secures(handler'[r], provider')
  BY ArriveCases DEF SecretInv, Secures
<1>2. QED
  BY <1>1 DEF SecretInv

LEMMA SecretByCrash ==
    ASSUME TypeInv, SecretInv, Crash
    PROVE  SecretInv'
<1>1. ASSUME NEW r \in Requests
      PROVE  Secures(handler'[r], provider')
  <2>1. PICK h \in Handler : h = handler[r] /\ Secures(h, provider)
    BY DEF TypeInv, SecretInv
  <2>2. PICK g : g = handler'[r]
    OBVIOUS
  <2>3. g.pc \in {"idle", "over"} /\ (g = h \/ g = [h EXCEPT !.pc = "over"])
    BY <2>1, <2>2, CrashCases
  <2>4. g.delivery = h.delivery /\ g.answer = h.answer /\ g.overwritten = h.overwritten
    BY <2>1, <2>3, HandlerMoves DEF HandlerPoints
  <2>5. QED
    BY <2>1, <2>2, <2>3, <2>4 DEF Secures
<1>2. QED
  BY <1>1 DEF SecretInv

LEMMA SecretStep ==
    ASSUME TypeInv, SecretInv, [Next]_vars
    PROVE  SecretInv'
<1>1. CASE UNCHANGED vars
  BY <1>1 DEF vars, SecretInv
<1>2. ASSUME NEW q \in Requests, Handle(q)
      PROVE  SecretInv'
  BY <1>2, SecretByStore, SecretByClient, SecretByValidate DEF Handle
<1>3. ASSUME NEW q \in Requests, Process(q) \/ Panic(q)
      PROVE  SecretInv'
  <2>1. handler' = handler /\ provider' = provider
    BY <1>3, ProcessUpdates DEF Updates
  <2>2. QED
    BY <2>1 DEF SecretInv
<1>4. QED
  BY <1>1, <1>2, <1>3, SecretByArrive, SecretByCrash DEF Next

\* A delivery is accepted only if it is signed with a configured secret, and
\* refused with 401 although it is signed correctly only if another delivery's
\* secret was written over its own, however the handlers interleave in SetClient
\* and Validate (github.go:30, 148-160, 166-190).
THEOREM SharedSecretIsChecked == Spec => []AnswersAreJust
<1>1. ASSUME Init
      PROVE  SecretInv
  BY <1>1 DEF Init, SecretInv, Secures
<1>2. ASSUME TypeInv, SecretInv
      PROVE  AnswersAreJust
  BY <1>2 DEF SecretInv, Secures, AnswersAreJust
<1>3. QED
  BY <1>1, <1>2, TypeInvariant, SecretStep, PTL DEF Spec

-----------------------------------------------------------------------------
\* The shared client, and what a job fails for

\* Whoever is going to use the client has it, or was overtaken.
Reaches(h, j, p) ==
    h.pc = "validate" \/ j.pc \notin {"none", "done"}
        => h.overtaken = TRUE \/ p.client = h.delivery.repo

\* A job that has failed for something has a cause.
Caused(h, j, e, c) ==
    j.failed = TRUE \/ j.blind = TRUE \/ j.lost # {} =>
        j.pc # "none" /\ (e > 0 \/ c > 0 \/ h.overtaken = TRUE)

ClientInv == \A q \in Requests : /\ Reaches(handler[q], job[q], provider)
                                 /\ Caused(handler[q], job[q], errors, crashes)

\* The records of failures.
Unharmed(j, k) == k.failed = j.failed /\ k.blind = j.blind /\ k.lost = j.lost

LEMMA NextAgentUnharmed ==
    ASSUME TypeInv, NEW q \in Requests, NEW todo \in SUBSET Nat
    PROVE  Unharmed(job[q], NextAgent(q, todo))
<1>1. PICK j \in JobType : j = job[q]
  BY DEF TypeInv
<1>2. \/ NextAgent(q, todo) = [j EXCEPT !.pc = "done", !.todo = {}]
      \/ \E i \in todo : NextAgent(q, todo) = Begin(j, i, todo, Dir(q)[i])
  BY <1>1, NextAgentCases
<1>3. QED
  BY <1>1, <1>2 DEF Begin, Unharmed, JobType

\* A job is harmed only by a call that fails.
LEMMA HarmNeedsFailure ==
    ASSUME TypeInv, NEW q \in Requests, Process(q) \/ Panic(q)
    PROVE  Unharmed(job[q], job'[q]) \/ Fails(q) \/ Error
<1>1. PICK j \in JobType : j = job[q]
  BY DEF TypeInv
<1>2. job \in [Requests -> JobType]
  BY DEF TypeInv
<1>3. CASE CheckPermission(q) \/ GetTree(q)
  BY <1>1, <1>2, <1>3 DEF CheckPermission, GetTree, Unharmed, JobType
<1>4. CASE GetBlob(q) \/ RejectDocuments(q)
  BY <1>1, <1>2, <1>4 DEF GetBlob, RejectDocuments, Unharmed, JobType
<1>5. CASE MatchAgents(q)
  <2>1. ASSUME NEW files, job' = [job EXCEPT ![q] = NextAgent(q, Matching(q, files))]
        PROVE  Unharmed(job[q], job'[q])
    <3>1. Matching(q, files) \in SUBSET Nat
      BY <1>1 DEF Matching, JobType
    <3>2. job'[q] = NextAgent(q, Matching(q, files))
      BY <1>2, <2>1
    <3>3. QED
      BY <3>1, <3>2, NextAgentUnharmed
  <2>2. QED
    BY <1>5, <2>1 DEF MatchAgents
<1>6. CASE ResolveText(q) \/ FetchInstruction(q)
  <2>1. CASE ResolveText(q)
    <3>1. PICK x : job' = [job EXCEPT ![q].pc = "instruction", ![q].texts = x]
      BY <1>2, <2>1 DEF ResolveText
    <3>2. job'[q] = [j EXCEPT !.pc = "instruction", !.texts = x]
      BY <1>1, <1>2, <3>1
    <3>3. QED
      BY <1>1, <3>2 DEF Unharmed, JobType
  <2>2. CASE FetchInstruction(q)
    <3>1. PICK k : \/ job' = [job EXCEPT ![q].pc = "resolve", ![q].refs = @ \ {k}, ![q].text = k]
                  \/ job' = [job EXCEPT ![q].refs = @ \ {k}]
      BY <2>2 DEF FetchInstruction
    <3>2. \/ job'[q] = [j EXCEPT !.pc = "resolve", !.refs = @ \ {k}, !.text = k]
          \/ job'[q] = [j EXCEPT !.refs = @ \ {k}]
      BY <1>1, <1>2, <3>1
    <3>3. QED
      BY <1>1, <3>2 DEF Unharmed, JobType
  <2>3. QED
    BY <1>6, <2>1, <2>2
<1>7. ASSUME NEW v \in providerVariables, FetchVariable(q, v)
      PROVE  Unharmed(job[q], job'[q])
  <2>1. PICK c : job' = [job EXCEPT ![q].cache = c]
    BY <1>7, <1>2 DEF FetchVariable
  <2>2. QED
    BY <1>1, <1>2, <2>1 DEF Unharmed, JobType
<1>8. CASE CreateAgentRun(q)
  <2>1. ASSUME job' = [job EXCEPT ![q] = NextAgent(q, job[q].todo)]
        PROVE  Unharmed(job[q], job'[q])
    <3>1. job[q].todo \in SUBSET Nat
      BY <1>1 DEF JobType
    <3>2. job'[q] = NextAgent(q, job[q].todo)
      BY <1>2, <2>1
    <3>3. QED
      BY <3>1, <3>2, NextAgentUnharmed
  <2>2. QED
    BY <1>8, <2>1 DEF CreateAgentRun
<1>9. CASE Panic(q)
  BY <1>9 DEF Panic
<1>10. QED
  BY <1>3, <1>4, <1>5, <1>6, <1>7, <1>8, <1>9 DEF Process

\* The steps that leave job and counters of r alone, and its handler at its place.
LEMMA ClientKept ==
    ASSUME TypeInv, ClientInv, NEW r \in Requests, NEW g, NEW o,
           o.client = provider.client \/ g.overtaken = TRUE \/ o.client = g.delivery.repo,
           g.delivery = handler[r].delivery, g.pc = handler[r].pc,
           g.overtaken = handler[r].overtaken \/ g.overtaken = TRUE
    PROVE  Reaches(g, job[r], o) /\ Caused(g, job[r], errors, crashes)
BY DEF ClientInv, Reaches, Caused

\* A handler that has not stored its client does not use it.
LEMMA ClientUnused ==
    ASSUME TypeInv, ClientInv, NEW r \in Requests, handler[r].pc # "over", NEW g, g.pc # "validate", NEW o
    PROVE  Reaches(g, job[r], o) /\ Caused(g, job[r], errors, crashes)
<1>1. job[r].pc = "none"
  BY DEF TypeInv, Agrees
<1>2. QED
  BY <1>1 DEF ClientInv, Reaches, Caused

LEMMA ClientByStore ==
    ASSUME TypeInv, ClientInv, NEW q \in Requests, StoreLength(q) \/ StorePointer(q)
    PROVE  ClientInv'
<1>1. provider'.client = provider.client /\ UNCHANGED <<job, errors, crashes>> /\ handler[q].pc # "over"
  BY DEF StoreLength, StorePointer, TypeInv
<1>2. handler'[q].pc \in {"pointer", "client"}
  BY HandlerStepType DEF StoreLength, StorePointer, Overwrite, TypeInv, Handler
<1>3. ASSUME NEW r \in Requests \ {q}
      PROVE  /\ handler'[r].delivery = handler[r].delivery /\ handler'[r].pc = handler[r].pc
             /\ handler'[r].overtaken = handler[r].overtaken
  <2>1. PICK h \in Handler : h = handler[r]
    BY DEF TypeInv
  <2>2. handler'[r] = h \/ handler'[r] = [h EXCEPT !.overwritten = TRUE]
    BY <2>1 DEF StoreLength, StorePointer, Overwrite
  <2>3. QED
    BY <2>1, <2>2 DEF Handler
<1>4. ASSUME NEW r \in Requests
      PROVE  Reaches(handler'[r], job'[r], provider') /\ Caused(handler'[r], job'[r], errors', crashes')
  <2>1. PICK g, o : g = handler'[r] /\ o = provider'
    OBVIOUS
  <2>2. CASE r = q
    BY <1>1, <1>2, <2>1, <2>2, ClientUnused
  <2>3. CASE r # q
    BY <1>1, <1>3, <2>1, <2>3, ClientKept
  <2>4. QED
    BY <2>2, <2>3
<1>5. QED
  BY <1>4 DEF ClientInv

LEMMA ClientByClient ==
    ASSUME TypeInv, ClientInv, NEW q \in Requests, StoreClient(q)
    PROVE  ClientInv'
<1>1. ASSUME NEW r \in Requests
      PROVE  Reaches(handler'[r], job'[r], provider') /\ Caused(handler'[r], job'[r], errors', crashes')
  <2>1. UNCHANGED <<job, errors, crashes>> /\ provider'.client = RepoOf(q)
    BY ClientCases
  <2>2. PICK g, o : g = handler'[r] /\ o = provider'
    OBVIOUS
  <2>3. PICK h \in Handler : h = handler[r]
    BY DEF TypeInv
  <2>4. CASE r = q
    <3>1. g = [h EXCEPT !.pc = "validate"] /\ h.pc = "client"
      BY <2>2, <2>3, <2>4, ClientCases
    <3>2. g.delivery = h.delivery /\ g.overtaken = h.overtaken /\ o.client = g.delivery.repo
      BY <2>1, <2>2, <2>3, <2>4, <3>1 DEF Handler, RepoOf
    <3>3. job[r].pc = "none"
      BY <2>3, <3>1 DEF TypeInv, Agrees
    <3>4. QED
      BY <2>1, <2>2, <3>2, <3>3 DEF ClientInv, Reaches, Caused
  <2>5. CASE r # q
    <3>1. CASE g = [h EXCEPT !.overtaken = TRUE]
      <4>1. g.pc = h.pc /\ g.delivery = h.delivery /\ g.overtaken = TRUE
        BY <2>3, <3>1 DEF Handler
      <4>2. QED
        BY <2>1, <2>2, <2>3, <4>1, ClientKept
    <3>2. CASE g = h /\ (UsesClient(r) => RepoOf(r) = RepoOf(q))
      <4>1. CASE UsesClient(r)
        BY <2>1, <2>2, <2>3, <3>2, <4>1, ClientKept DEF RepoOf
      <4>2. CASE ~UsesClient(r)
        BY <2>1, <2>2, <2>3, <3>2, <4>2 DEF UsesClient, ClientInv, Reaches, Caused
      <4>3. QED
        BY <4>1, <4>2
    <3>3. QED
      BY <2>2, <2>3, <2>5, <3>1, <3>2, ClientCases
  <2>6. QED
    BY <2>4, <2>5
<1>2. QED
  BY <1>1 DEF ClientInv

LEMMA ClientByValidate ==
    ASSUME TypeInv, ClientInv, NEW q \in Requests, NEW secret, Validate(q, secret)
    PROVE  ClientInv'
<1>1. UNCHANGED <<provider, errors, crashes>>
  BY ValidateCases
<1>2. ASSUME NEW r \in Requests
      PROVE  Reaches(handler'[r], job'[r], provider') /\ Caused(handler'[r], job'[r], errors', crashes')
  <2>1. CASE r # q
    BY <1>1, <2>1, ValidateCases DEF ClientInv
  <2>2. CASE r = q
    <3>1. PICK g, k : g = handler'[r] /\ k = job'[r]
      OBVIOUS
    <3>2. PICK h \in Handler, j \in JobType : h = handler[r] /\ j = job[r]
      BY DEF TypeInv
    <3>3. /\ g.pc = "over" /\ h.pc = "validate" /\ g.delivery = h.delivery /\ g.overtaken = h.overtaken
      BY <2>2, <3>1, <3>2, ValidateCases
    <3>4. k = j \/ \E pc : k = [j EXCEPT !.pc = pc]
      <4>1. job'[q] = job[q] \/ \E pc : job'[q] = [job[q] EXCEPT !.pc = pc]
        BY ValidateCases
      <4>2. QED
        BY <2>2, <3>1, <3>2, <4>1
    <3>5. j.pc = "none" /\ Unharmed(j, k)
      BY <3>2, <3>3, <3>4 DEF TypeInv, Agrees, Unharmed, JobType
    <3>6. /\ h.overtaken = TRUE \/ provider.client = h.delivery.repo
          /\ j.failed # TRUE /\ j.blind # TRUE /\ j.lost = {}
      BY <3>2, <3>3, <3>5 DEF ClientInv, Reaches, Caused
    <3>7. QED
      BY <1>1, <3>1, <3>3, <3>5, <3>6 DEF Reaches, Caused, Unharmed
  <2>3. QED
    BY <2>1, <2>2
<1>3. QED
  BY <1>2 DEF ClientInv

LEMMA ClientByProcess ==
    ASSUME TypeInv, ClientInv, NEW q \in Requests, Process(q) \/ Panic(q)
    PROVE  ClientInv'
<1>1. /\ UNCHANGED <<provider, handler>> /\ crashes' = crashes /\ errors' \in Nat
      /\ \A r \in Requests \ {q} : job'[r] = job[r]
  BY ProcessUpdates DEF Updates, TypeInv
<1>2. errors' \in {errors, errors + 1}
  BY DEF Process, Panic, CheckPermission, GetTree, GetBlob, RejectDocuments, MatchAgents, FetchVariable,
         ResolveText, FetchInstruction, CreateAgentRun, Fails, Succeeds, Error
<1>3. job[q].pc \notin {"none", "done"}
  BY DEF Process, Panic, CheckPermission, GetTree, GetBlob, RejectDocuments, MatchAgents, FetchVariable,
         ResolveText, FetchInstruction, CreateAgentRun
<1>4. errors \in Nat /\ crashes \in Nat
  BY DEF TypeInv
<1>5. job'[q].pc # "none"
  <2>1. PICK J, R : Updates(q, J, R)
    BY ProcessUpdates
  <2>2. job'[q] = J /\ handler[q].answer = 202
    BY <1>3, <2>1 DEF Updates, TypeInv, Agrees
  <2>3. QED
    BY <2>1, <2>2 DEF Updates, Agrees
<1>6. handler[q].overtaken = TRUE \/ provider.client = RepoOf(q)
  BY <1>3 DEF ClientInv, Reaches, RepoOf
<1>7. ASSUME Fails(q) \/ Error
      PROVE  errors' > 0 \/ handler[q].overtaken = TRUE
  BY <1>4, <1>6, <1>7 DEF Fails, Error, CanCall
<1>8. ASSUME NEW r \in Requests
      PROVE  Reaches(handler'[r], job'[r], provider') /\ Caused(handler'[r], job'[r], errors', crashes')
  <2>1. CASE r # q
    BY <1>1, <1>2, <1>4, <2>1 DEF ClientInv, Reaches, Caused
  <2>2. CASE r = q
    <3>1. CASE Unharmed(job[q], job'[q])
      BY <1>1, <1>2, <1>4, <1>5, <1>6, <2>2, <3>1 DEF ClientInv, Reaches, Caused, Unharmed, RepoOf
    <3>2. CASE Fails(q) \/ Error
      BY <1>1, <1>5, <1>6, <1>7, <2>2, <3>2 DEF Reaches, Caused, RepoOf
    <3>3. QED
      BY <3>1, <3>2, HarmNeedsFailure
  <2>3. QED
    BY <2>1, <2>2
<1>9. QED
  BY <1>8 DEF ClientInv

LEMMA ClientByArrive ==
    ASSUME TypeInv, ClientInv, NEW q \in Requests, Arrive(q)
    PROVE  ClientInv'
<1>1. ASSUME NEW r \in Requests
      PROVE  Reaches(handler'[r], job'[r], provider') /\ Caused(handler'[r], job'[r], errors', crashes')
  <2>1. UNCHANGED <<provider, job, errors, crashes>>
    BY ArriveCases
  <2>2. CASE r # q
    BY <2>1, <2>2, ArriveCases DEF ClientInv
  <2>3. CASE r = q
    <3>1. PICK g : g = handler'[r]
      OBVIOUS
    <3>2. handler[r].pc # "over" /\ g.pc # "validate"
      BY <2>3, <3>1, ArriveCases
    <3>3. QED
      BY <2>1, <3>1, <3>2, ClientUnused
  <2>4. QED
    BY <2>2, <2>3
<1>2. QED
  BY <1>1 DEF ClientInv

LEMMA ClientByCrash ==
    ASSUME TypeInv, ClientInv, Crash
    PROVE  ClientInv'
<1>1. crashes' > 0 /\ crashes' \in Nat
  <2>1. crashes \in Nat /\ crashes' = crashes + 1
    BY CrashCases DEF TypeInv
  <2>2. QED
    BY <2>1
<1>2. ASSUME NEW r \in Requests
      PROVE  Reaches(handler'[r], job'[r], provider') /\ Caused(handler'[r], job'[r], errors', crashes')
  <2>1. handler'[r].pc \in {"idle", "over"} /\ job'[r].pc \in {"none", "done"}
    BY CrashCases
  <2>2. CASE job'[r].pc = "none"
    <3>1. job'[r] = job[r]
      BY <2>2, CrashCases
    <3>2. QED
      BY <2>1, <2>2, <3>1 DEF ClientInv, Reaches, Caused
  <2>3. CASE job'[r].pc # "none"
    BY <1>1, <2>1, <2>3 DEF Reaches, Caused
  <2>4. QED
    BY <2>2, <2>3
<1>3. QED
  BY <1>2 DEF ClientInv

LEMMA ClientStep ==
    ASSUME TypeInv, ClientInv, [Next]_vars
    PROVE  ClientInv'
<1>1. CASE UNCHANGED vars
  BY <1>1 DEF vars, ClientInv
<1>2. ASSUME NEW q \in Requests, Handle(q)
      PROVE  ClientInv'
  BY <1>2, ClientByStore, ClientByClient, ClientByValidate DEF Handle
<1>3. ASSUME NEW q \in Requests, Process(q) \/ Panic(q)
      PROVE  ClientInv'
  BY <1>3, ClientByProcess
<1>4. QED
  BY <1>1, <1>2, <1>3, ClientByArrive, ClientByCrash DEF Next

\* Without an error and without a crash a job fails, misses the changed files or
\* loses a document only if another delivery's client replaced its own, in
\* whatever order SetClient and the calls of all jobs come (github.go:148-160).
THEOREM FailuresAreCaused == Spec => []FailureNeedsCause
<1>1. ASSUME Init
      PROVE  ClientInv
  BY <1>1 DEF Init, ClientInv, Reaches, Caused, Idle
<1>2. ASSUME TypeInv, ClientInv
      PROVE  FailureNeedsCause
  <2> SUFFICES ASSUME NEW q \in Requests, job[q].failed \/ job[q].blind \/ job[q].lost # {}
               PROVE  errors > 0 \/ crashes > 0 \/ handler[q].overtaken
    BY DEF FailureNeedsCause
  <2>1. PICK j \in JobType, h \in Handler : j = job[q] /\ h = handler[q]
    BY <1>2 DEF TypeInv
  <2>2. j.failed \in BOOLEAN /\ j.blind \in BOOLEAN /\ h.overtaken \in BOOLEAN
    BY <2>1 DEF JobType, Handler
  <2>3. Caused(h, j, errors, crashes)
    BY <1>2, <2>1 DEF ClientInv
  <2>4. QED
    BY <2>1, <2>2, <2>3 DEF Caused
<1>3. QED
  BY <1>1, <1>2, TypeInvariant, ClientStep, PTL DEF Spec

-----------------------------------------------------------------------------
\* The webhook implements DeliveryHandling

MadeBy(R) == [i \in DOMAIN R |-> R[i].agent]

LEMMA MadeByAppend ==
    ASSUME NEW R \in Seq(RunType), NEW x \in RunType
    PROVE  MadeBy(Append(R, x)) = Append(MadeBy(R), x.agent)
<1>1. DOMAIN R = 1..Len(R) /\ Len(R) \in Nat /\ Append(R, x) \in Seq(RunType)
      /\ DOMAIN Append(R, x) = 1..(Len(R) + 1)
  OBVIOUS
<1>2. MadeBy(R) \in Seq(Nat) /\ Len(MadeBy(R)) = Len(R)
  <2>1. \A i \in 1..Len(R) : R[i] \in RunType
    BY <1>1
  <2>2. \A i \in 1..Len(R) : R[i].agent \in Nat
    BY <2>1 DEF RunType
  <2>3. MadeBy(R) = [i \in 1..Len(R) |-> R[i].agent]
    BY <1>1 DEF MadeBy
  <2>4. QED
    BY <1>1, <2>2, <2>3
<1>3. MadeBy(Append(R, x)) = [i \in 1..(Len(R) + 1) |-> IF i = Len(R) + 1 THEN x.agent ELSE R[i].agent]
  BY <1>1 DEF MadeBy
<1>4. Append(MadeBy(R), x.agent) =
        [i \in 1..(Len(R) + 1) |-> IF i = Len(R) + 1 THEN x.agent ELSE MadeBy(R)[i]]
  BY <1>1, <1>2
<1>5. \A i \in 1..Len(R) : MadeBy(R)[i] = R[i].agent
  BY <1>1 DEF MadeBy
<1>6. QED
  BY <1>1, <1>3, <1>4, <1>5

\* The state of DeliveryHandling.
verdicts == [q \in Requests |-> Verdict(q)]
makes == [q \in Requests |-> [i \in DOMAIN runs[q] |-> runs[q][i].agent]]

LEMMA NoVerdict ==
    ASSUME \A r \in Requests : /\ handler'[r].answer = handler[r].answer
                               /\ job'[r].pc = "none" <=> job[r].pc = "none",
           runs' = runs
    PROVE  verdicts' = verdicts /\ makes' = makes
BY DEF verdicts, makes, Verdict

LEMMA OneVerdict ==
    ASSUME NEW q \in Requests, NEW v \in {"accepted", "refused"}, Verdict(q) = "pending",
           \A r \in Requests \ {q} : handler'[r] = handler[r] /\ job'[r] = job[r],
           runs' = runs,
           \/ v = "accepted" /\ job'[q].pc # "none"
           \/ v = "refused" /\ job'[q].pc = "none" /\ handler'[q].answer # 0
    PROVE  Handling!Decide(q, v)
<1>1. verdicts' = [verdicts EXCEPT ![q] = v]
  BY DEF verdicts, Verdict
<1>2. makes' = makes
  BY DEF makes
<1>3. QED
  BY <1>1, <1>2 DEF verdicts, makes, Handling!Decide

LEMMA HandlerImplements ==
    ASSUME TypeInv, NEW q \in Requests, Arrive(q) \/ Handle(q)
    PROVE  Handling!Next \/ (verdicts' = verdicts /\ makes' = makes)
<1>1. CASE StoreLength(q) \/ StorePointer(q) \/ StoreClient(q)
  <2>1. UNCHANGED <<job, runs>> /\ \A r \in Requests : handler'[r].answer = handler[r].answer
    BY <1>1, HandlerStepType DEF Same
  <2>2. QED
    BY <2>1, NoVerdict
<1>2. CASE Arrive(q)
  <2>1. job[q].pc = "none" /\ handler[q].answer = 0 /\ UNCHANGED <<job, runs>>
    BY <1>2, ArriveCases DEF TypeInv, Agrees
  <2>2. \A r \in Requests \ {q} : handler'[r] = handler[r] /\ job'[r] = job[r]
    BY <1>2, <2>1, ArriveCases
  <2>3. CASE handler'[q].answer = 0
    <3>1. \A r \in Requests : handler'[r].answer = handler[r].answer
      BY <2>1, <2>2, <2>3
    <3>2. QED
      BY <2>1, <3>1, NoVerdict
  <2>4. CASE handler'[q].answer # 0
    <3>1. Verdict(q) = "pending"
      BY <2>1 DEF Verdict
    <3>2. Handling!Decide(q, "refused")
      BY <2>1, <2>2, <2>4, <3>1, OneVerdict
    <3>3. QED
      BY <3>2 DEF Handling!Next
  <2>5. QED
    BY <2>3, <2>4
<1>3. ASSUME NEW secret, Validate(q, secret)
      PROVE  Handling!Next
  <2>1. /\ job[q].pc = "none" /\ handler[q].answer = 0 /\ runs' = runs
        /\ \A r \in Requests \ {q} : handler'[r] = handler[r] /\ job'[r] = job[r]
    BY <1>3, ValidateCases DEF TypeInv, Agrees
  <2>2. \/ job'[q].pc # "none"
        \/ job'[q].pc = "none" /\ handler'[q].answer # 0
    BY <1>3, <2>1, ValidateCases
  <2>3. Verdict(q) = "pending"
    BY <2>1 DEF Verdict
  <2>4. Handling!Decide(q, "accepted") \/ Handling!Decide(q, "refused")
    BY <2>1, <2>2, <2>3, OneVerdict
  <2>5. QED
    BY <2>4 DEF Handling!Next
<1>4. QED
  BY <1>1, <1>2, <1>3 DEF Handle

LEMMA ProcessImplements ==
    ASSUME TypeInv, NEW q \in Requests, Process(q) \/ Panic(q)
    PROVE  Handling!Next \/ (verdicts' = verdicts /\ makes' = makes)
<1>1. job[q].pc \notin {"none", "done"}
  BY DEF Process, Panic, CheckPermission, GetTree, GetBlob, RejectDocuments, MatchAgents, FetchVariable,
         ResolveText, FetchInstruction, CreateAgentRun
<1>2. PICK J, R : Updates(q, J, R)
  BY ProcessUpdates
<1>3. /\ handler' = handler /\ job' = [job EXCEPT ![q] = J] /\ job'[q] = J
      /\ \A r \in Requests \ {q} : job'[r] = job[r]
  BY <1>2 DEF Updates, TypeInv
<1>4. job'[q].pc # "none"
  BY <1>1, <1>2, <1>3 DEF Updates, TypeInv, Agrees
<1>5. \A r \in Requests : /\ handler'[r].answer = handler[r].answer
                          /\ job'[r].pc = "none" <=> job[r].pc = "none"
  BY <1>1, <1>3, <1>4
<1>6. CASE runs' = runs
  BY <1>5, <1>6, NoVerdict
<1>7. CASE runs' # runs
  <2>1. /\ job[q].pc = "instruction"
        /\ runs' = [runs EXCEPT ![q] = Append(runs[q], AgentRun(q))]
    BY <1>7 DEF Process, Panic, CheckPermission, GetTree, GetBlob, RejectDocuments, MatchAgents,
       FetchVariable, ResolveText, FetchInstruction, CreateAgentRun
  <2>0. PICK a : a = job[q].agent
    OBVIOUS
  <2>2. /\ runs[q] \in Seq(RunType) /\ AgentRun(q) \in RunType /\ AgentRun(q).agent = a
        /\ \A i \in DOMAIN runs[q] : runs[q][i].agent # a
    BY <2>0, <2>1, AgentRunType DEF TypeInv
  <2>3. a \in UNION {DOMAIN AgentDir[r] : r \in Repositories}
    <3>1. /\ a \in DOMAIN AgentDir[handler[q].delivery.repo]
          /\ handler[q].delivery.repo \in Repositories
      BY <2>0, <2>1, AdapterAssumption DEF TypeInv, Agrees, Docs, Admitted
    <3>2. QED
      BY <3>1
  <2>4. makes[q] = MadeBy(runs[q]) /\ \A i \in DOMAIN makes[q] : makes[q][i] # a
    BY <2>2 DEF makes, MadeBy
  <2>5. makes' = [makes EXCEPT ![q] = Append(makes[q], a)]
    <3>1. makes' = [r \in Requests |-> MadeBy(runs'[r])] /\ makes = [r \in Requests |-> MadeBy(runs[r])]
      BY DEF makes, MadeBy
    <3>2. MadeBy(runs'[q]) = Append(makes[q], a)
      BY <2>1, <2>2, <2>4, MadeByAppend DEF TypeInv
    <3>3. \A r \in Requests \ {q} : runs'[r] = runs[r]
      BY <2>1 DEF TypeInv
    <3>4. QED
      BY <3>1, <3>2, <3>3
  <2>6. verdicts' = verdicts /\ Verdict(q) = "accepted"
    BY <1>1, <1>5 DEF verdicts, Verdict
  <2>7. Handling!Make(q, a)
    BY <2>4, <2>5, <2>6 DEF Handling!Make, verdicts, makes
  <2>8. QED
    BY <2>3, <2>7 DEF Handling!Next
<1>8. QED
  BY <1>6, <1>7

LEMMA HandlingStep ==
    ASSUME TypeInv, [Next]_vars
    PROVE  Handling!Next \/ (verdicts' = verdicts /\ makes' = makes)
<1>1. CASE UNCHANGED vars
  BY <1>1 DEF vars, verdicts, makes, Verdict
<1>2. CASE Crash
  <2>1. \A r \in Requests : /\ handler'[r].answer = handler[r].answer
                            /\ job'[r].pc = "none" <=> job[r].pc = "none"
    <3> SUFFICES ASSUME NEW r \in Requests
                 PROVE  /\ handler'[r].answer = handler[r].answer
                        /\ job'[r].pc = "none" <=> job[r].pc = "none"
      OBVIOUS
    <3>1. PICK h \in Handler : h = handler[r]
      BY DEF TypeInv
    <3>2. handler'[r] = h \/ handler'[r] = [h EXCEPT !.pc = "over"]
      BY <1>2, <3>1, CrashCases
    <3>3. handler'[r].answer = h.answer
      BY <3>1, <3>2, HandlerMoves DEF HandlerPoints
    <3>4. QED
      BY <1>2, <3>1, <3>3, CrashCases
  <2>2. runs' = runs
    BY <1>2, CrashCases
  <2>3. QED
    BY <2>1, <2>2, NoVerdict
<1>3. QED
  BY <1>1, <1>2, HandlerImplements, ProcessImplements DEF Next

\* A request is decided once and an accepted one makes at most one run for each
\* agent, also when Create fails after the fact or the process dies; one that is
\* refused or still undecided makes none (adapter.go:106-113, 262-316).
THEOREM WebhookImplementsHandling == Spec => ImplementsHandling
<1>1. ASSUME Init
      PROVE  Handling!Init
  <2>1. verdicts = [q \in Requests |-> "pending"]
    BY <1>1 DEF Init, verdicts, Verdict, Idle
  <2>2. makes = [q \in Requests |-> <<>>]
    <3>1. \A q \in Requests : runs[q] = <<>>
      BY <1>1 DEF Init
    <3>2. QED
      BY <3>1 DEF makes
  <2>3. QED
    BY <2>1, <2>2 DEF Handling!Init, verdicts, makes
<1>2. ASSUME TypeInv, [Next]_vars
      PROVE  [Handling!Next]_(Handling!handlingVars)
  BY <1>2, HandlingStep DEF Handling!handlingVars, verdicts, makes
<1>3. QED
  BY <1>1, <1>2, TypeInvariant, PTL DEF Spec, ImplementsHandling, Handling!Spec


-----------------------------------------------------------------------------
\* The values of variables

\* The variables that the agent of job j knows from the delivery d.
KnownBy(d, j) == metadataVars(AgentDir[d.repo][j.agent], EventOf(d))

ValueOf(cache, known, v) ==
    IF v \in known THEN FromEvent ELSE IF v \in DOMAIN cache THEN cache[v] ELSE Nothing

\* The texts show the values that are cached, and nothing that is still to be fetched.
Shows(texts, cache, known) ==
    \A i \in DOMAIN texts : \A v \in DOMAIN texts[i].values :
        /\ texts[i].values[v] = ValueOf(cache, known, v)
        /\ v \in providerVariables => v \in known \cup DOMAIN cache

Uniform(texts) ==
    \A i, k \in DOMAIN texts :
        \A v \in DOMAIN texts[i].values \cap DOMAIN texts[k].values :
            texts[i].values[v] = texts[k].values[v]

ShowsValues(h, j, R) ==
    /\ j.pc \in {"resolve", "instruction"} => Shows(j.texts, j.cache, KnownBy(h.delivery, j))
    /\ \A n \in DOMAIN R : Uniform(R[n].texts)

ValueInv == \A q \in Requests : ShowsValues(handler[q], job[q], runs[q])

LEMMA ShowsIsUniform ==
    ASSUME NEW texts, NEW cache, NEW known, Shows(texts, cache, known)
    PROVE  Uniform(texts)
BY DEF Shows, Uniform

\* A variable that is fetched is in no text yet.
LEMMA ShowsWithCache ==
    ASSUME NEW texts, NEW cache, NEW known, Shows(texts, cache, known),
           NEW v \in providerVariables, v \notin known, v \notin DOMAIN cache, NEW value, NEW c,
           c = [x \in DOMAIN cache \cup {v} |-> IF x = v THEN value ELSE cache[x]]
    PROVE  Shows(texts, c, known)
<1>1. DOMAIN c = DOMAIN cache \cup {v} /\ \A x \in DOMAIN cache : c[x] = cache[x]
  OBVIOUS
<1>2. SUFFICES ASSUME NEW i \in DOMAIN texts, NEW x \in DOMAIN texts[i].values
               PROVE  /\ texts[i].values[x] = ValueOf(c, known, x)
                      /\ x \in providerVariables => x \in known \cup DOMAIN c
  BY DEF Shows
<1>3. /\ texts[i].values[x] = ValueOf(cache, known, x)
      /\ x \in providerVariables => x \in known \cup DOMAIN cache
  BY DEF Shows
<1>4. x # v
  BY <1>3
<1>5. QED
  BY <1>1, <1>3, <1>4 DEF ValueOf

\* A text is resolved when there is nothing left to fetch for it.
LEMMA ShowsWithText ==
    ASSUME NEW texts \in Seq(Texts), NEW cache, NEW known, Shows(texts, cache, known),
           NEW words, ToFetch(words, known, cache) = {},
           NEW t \in Texts, t.values = ResolveVariables(words, known, cache)
    PROVE  Shows(Append(texts, t), cache, known)
<1>1. \A i \in DOMAIN Append(texts, t) :
        Append(texts, t)[i] = t \/ (i \in DOMAIN texts /\ Append(texts, t)[i] = texts[i])
  OBVIOUS
<1>2. ASSUME NEW v \in DOMAIN t.values
      PROVE  /\ t.values[v] = ValueOf(cache, known, v)
             /\ v \in providerVariables => v \in known \cup DOMAIN cache
  BY <1>2 DEF ResolveVariables, ToFetch, ValueOf
<1>3. SUFFICES ASSUME NEW i \in DOMAIN Append(texts, t), NEW v \in DOMAIN Append(texts, t)[i].values
               PROVE  /\ Append(texts, t)[i].values[v] = ValueOf(cache, known, v)
                      /\ v \in providerVariables => v \in known \cup DOMAIN cache
  BY DEF Shows
<1>4. CASE Append(texts, t)[i] = t
  BY <1>2, <1>4
<1>5. CASE i \in DOMAIN texts /\ Append(texts, t)[i] = texts[i]
  BY <1>5 DEF Shows
<1>6. QED
  BY <1>1, <1>4, <1>5


\* A job that is not with an agent, or has just begun with one, shows nothing.
LEMMA NextShows ==
    ASSUME TypeInv, NEW q \in Requests, NEW todo \in SUBSET Nat, NEW d
    PROVE  LET N == NextAgent(q, todo)
           IN  N.pc \in {"resolve", "instruction"} => Shows(N.texts, N.cache, KnownBy(d, N))
<1> DEFINE N == NextAgent(q, todo)
<1>1. PICK j \in JobType : j = job[q]
  BY DEF TypeInv
<1>2. \/ N = [j EXCEPT !.pc = "done", !.todo = {}]
      \/ \E i \in todo : N = Begin(j, i, todo, Dir(q)[i])
  BY <1>1, NextAgentCases
<1> HIDE DEF N
<1>3. N.pc = "done" \/ N.texts = <<>>
  BY <1>2 DEF Begin, JobType
<1>4. N.pc \in {"resolve", "instruction"} => Shows(N.texts, N.cache, KnownBy(d, N))
  BY <1>3 DEF Shows
<1>5. QED
  BY <1>4 DEF N

\* The steps before the first agent and the last one.
LEMMA ValuesBeforeAgents ==
    ASSUME TypeInv, ValueInv, NEW q \in Requests,
           \/ CheckPermission(q) \/ GetTree(q) \/ GetBlob(q) \/ RejectDocuments(q) \/ Panic(q)
    PROVE  ShowsValues(handler'[q], job'[q], runs'[q])
<1>1. PICK j \in JobType : j = job[q]
  BY DEF TypeInv
<1>2. job'[q].pc \notin {"resolve", "instruction"}
  <2>1. CASE CheckPermission(q) \/ GetTree(q) \/ RejectDocuments(q)
    BY <1>1, <2>1 DEF CheckPermission, GetTree, RejectDocuments, GiveUp, TypeInv, JobType
  <2>2. CASE Panic(q)
    BY <1>1, <2>2 DEF Panic, GiveUp, TypeInv, JobType
  <2>3. CASE GetBlob(q)
    <3>1. PICK n, F, L : \/ job' = [job EXCEPT ![q].next = n, ![q].fetched = F]
                        \/ job' = [job EXCEPT ![q].next = n, ![q].lost = L]
      BY <2>3 DEF GetBlob, TypeInv
    <3>2. \/ job'[q] = [j EXCEPT !.next = n, !.fetched = F]
          \/ job'[q] = [j EXCEPT !.next = n, !.lost = L]
      BY <1>1, <3>1 DEF TypeInv
    <3>3. job'[q].pc = j.pc
      BY <3>2 DEF JobType
    <3>4. QED
      BY <1>1, <2>3, <3>3 DEF GetBlob
  <2>4. QED
    BY <2>1, <2>2, <2>3
<1>3. runs' = runs
  BY DEF CheckPermission, GetTree, GetBlob, RejectDocuments, Panic
<1>4. QED
  BY <1>2, <1>3 DEF ValueInv, ShowsValues

LEMMA ValuesByMatch ==
    ASSUME TypeInv, ValueInv, NEW q \in Requests, MatchAgents(q)
    PROVE  ShowsValues(handler'[q], job'[q], runs'[q])
<1>1. runs' = runs /\ handler' = handler
  BY DEF MatchAgents
<1>2. PICK files : \/ job' = [job EXCEPT ![q] = NextAgent(q, Matching(q, files))]
                   \/ job' = [job EXCEPT ![q] = [NextAgent(q, Matching(q, files)) EXCEPT !.blind = TRUE]]
  BY DEF MatchAgents
<1>3. Matching(q, files) \in SUBSET Nat
  BY DEF Matching, TypeInv, JobType
<1>4. PICK N : N = NextAgent(q, Matching(q, files))
  OBVIOUS
<1>5. N.pc \in {"resolve", "instruction"} => Shows(N.texts, N.cache, KnownBy(handler[q].delivery, N))
  BY <1>3, <1>4, NextShows
<1>6. N \in JobType
  BY <1>3, <1>4, NextAgentType DEF MatchAgents, Matching, TypeInv
<1>7. PICK M : M = [N EXCEPT !.blind = TRUE]
  OBVIOUS
<1>8. M.pc = N.pc /\ M.texts = N.texts /\ M.cache = N.cache /\ M.agent = N.agent
  BY <1>6, <1>7 DEF JobType
<1>9. job'[q] = N \/ job'[q] = M
  BY <1>2, <1>4, <1>7 DEF TypeInv
<1>10. PICK J : J = job'[q]
  OBVIOUS
<1>11. J.pc \in {"resolve", "instruction"} => Shows(J.texts, J.cache, KnownBy(handler[q].delivery, J))
  BY <1>5, <1>8, <1>9, <1>10 DEF KnownBy
<1>12. QED
  BY <1>1, <1>10, <1>11 DEF ValueInv, ShowsValues


\* The variables that are due are not known and not cached.
LEMMA DueIsNew ==
    ASSUME NEW q \in Requests, NEW v \in Due(q)
    PROVE  v \in providerVariables /\ v \notin KnownBy(handler[q].delivery, job[q])
           /\ v \notin DOMAIN job[q].cache
BY DEF Due, ToFetch, Known, KnownBy, Agent, Dir, RepoOf, Event

LEMMA ValuesByFetch ==
    ASSUME TypeInv, ValueInv, NEW q \in Requests, NEW v, FetchVariable(q, v)
    PROVE  ShowsValues(handler'[q], job'[q], runs'[q])
<1>1. runs' = runs /\ handler' = handler /\ job[q].pc = "resolve" /\ v \in Due(q)
  BY DEF FetchVariable
<1>2. PICK j \in JobType : j = job[q]
  BY DEF TypeInv
<1>3. PICK value \in Fetched :
        job' = [job EXCEPT ![q].cache = [x \in DOMAIN @ \cup {v} |-> IF x = v THEN value ELSE job[q].cache[x]]]
  BY DEF FetchVariable
<1>4. PICK c : c = [x \in DOMAIN j.cache \cup {v} |-> IF x = v THEN value ELSE j.cache[x]]
  OBVIOUS
<1>5. job'[q] = [j EXCEPT !.cache = c]
  BY <1>2, <1>3, <1>4 DEF TypeInv
<1>6. PICK J : J = job'[q]
  OBVIOUS
<1>7. J.pc = "resolve" /\ J.texts = j.texts /\ J.cache = c /\ J.agent = j.agent
  BY <1>1, <1>2, <1>5, <1>6 DEF JobType
<1>8. Shows(j.texts, j.cache, KnownBy(handler[q].delivery, j))
  BY <1>1, <1>2 DEF ValueInv, ShowsValues
<1>9. Shows(J.texts, J.cache, KnownBy(handler[q].delivery, j))
  BY <1>1, <1>2, <1>4, <1>7, <1>8, DueIsNew, ShowsWithCache
<1>10. QED
  BY <1>1, <1>6, <1>7, <1>9 DEF ValueInv, ShowsValues, KnownBy

LEMMA ValuesByText ==
    ASSUME TypeInv, ValueInv, NEW q \in Requests, ResolveText(q)
    PROVE  ShowsValues(handler'[q], job'[q], runs'[q])
<1>1. runs' = runs /\ handler' = handler /\ job[q].pc = "resolve" /\ Due(q) = {}
  BY DEF ResolveText
<1>2. PICK j \in JobType : j = job[q]
  BY DEF TypeInv
<1>3. PICK t : t = [position |-> j.text, values |-> ResolveVariables(Words(q), Known(q), j.cache)]
  OBVIOUS
<1>4. PICK T : T = Append(j.texts, t)
  OBVIOUS
<1>5. job'[q] = [j EXCEPT !.pc = "instruction", !.texts = T]
  BY <1>2, <1>3, <1>4 DEF ResolveText, TypeInv
<1>6. PICK J : J = job'[q]
  OBVIOUS
<1>7. J.pc = "instruction" /\ J.texts = T /\ J.cache = j.cache /\ J.agent = j.agent
  BY <1>2, <1>5, <1>6 DEF JobType
<1>8. PICK known : known = KnownBy(handler[q].delivery, j)
  OBVIOUS
<1>9. Known(q) = known
  BY <1>2, <1>8 DEF Known, KnownBy, Agent, Dir, RepoOf, Event
<1>10. Shows(j.texts, j.cache, known)
  BY <1>1, <1>2, <1>8 DEF ValueInv, ShowsValues
<1>11. t \in Texts
  <2>1. Words(q) \in SUBSET AllWords
    <3>1. /\ handler[q].delivery \in Admitted /\ Docs(handler[q]) = Dir(q)
          /\ job[q].agent \in DOMAIN Docs(handler[q])
      BY <1>1 DEF TypeInv, Agrees, Docs, Dir, RepoOf
    <3>2. QED
      <4>1. Agent(q) \in Documents
        BY <3>1, DocsAreDocuments DEF Agent
      <4>2. job[q].text \in Positions
        BY DEF TypeInv, JobType
      <4>3. QED
        BY <4>1, <4>2, WordsAreWords
  <2>2. QED
    BY <1>2, <1>3, <2>1, ResolvedType DEF Texts, JobType
<1>12. PICK words : words = Words(q)
  OBVIOUS
<1>13. ToFetch(words, known, j.cache) = {} /\ t.values = ResolveVariables(words, known, j.cache)
  BY <1>1, <1>2, <1>3, <1>9, <1>12 DEF Due
<1>14. Shows(T, j.cache, known)
  BY <1>2, <1>4, <1>10, <1>11, <1>13, ShowsWithText DEF JobType
<1>15. QED
  BY <1>1, <1>6, <1>7, <1>8, <1>14 DEF ValueInv, ShowsValues, KnownBy


LEMMA ValuesByInstruction ==
    ASSUME TypeInv, ValueInv, NEW q \in Requests, FetchInstruction(q)
    PROVE  ShowsValues(handler'[q], job'[q], runs'[q])
<1>1. runs' = runs /\ handler' = handler /\ job[q].pc = "instruction"
  BY DEF FetchInstruction
<1>2. PICK j \in JobType : j = job[q]
  BY DEF TypeInv
<1>3. PICK k : \/ job' = [job EXCEPT ![q].pc = "resolve", ![q].refs = @ \ {k}, ![q].text = k]
              \/ job' = [job EXCEPT ![q].refs = @ \ {k}]
  BY DEF FetchInstruction
<1>4. \/ job'[q] = [j EXCEPT !.pc = "resolve", !.refs = @ \ {k}, !.text = k]
      \/ job'[q] = [j EXCEPT !.refs = @ \ {k}]
  BY <1>2, <1>3 DEF TypeInv
<1>5. PICK J : J = job'[q]
  OBVIOUS
<1>6. J.texts = j.texts /\ J.cache = j.cache /\ J.agent = j.agent
  BY <1>4, <1>5 DEF JobType
<1>7. Shows(j.texts, j.cache, KnownBy(handler[q].delivery, j))
  BY <1>1, <1>2 DEF ValueInv, ShowsValues
<1>8. QED
  BY <1>1, <1>5, <1>6, <1>7 DEF ValueInv, ShowsValues, KnownBy

LEMMA ValuesByCreate ==
    ASSUME TypeInv, ValueInv, NEW q \in Requests, CreateAgentRun(q)
    PROVE  ShowsValues(handler'[q], job'[q], runs'[q])
<1>1. handler' = handler /\ job[q].pc = "instruction"
  BY DEF CreateAgentRun
<1>2. PICK N : N = NextAgent(q, job[q].todo)
  OBVIOUS
<1>3. job[q].todo \in SUBSET Nat /\ job[q].todo \subseteq job[q].fetched
  BY DEF TypeInv, JobType, Agrees
<1>4. /\ N \in JobType
      /\ N.pc \in {"resolve", "instruction"} => Shows(N.texts, N.cache, KnownBy(handler[q].delivery, N))
  BY <1>1, <1>2, <1>3, NextShows, NextAgentType
<1>5. PICK L : L = N.lost \cup {job[q].agent}
  OBVIOUS
<1>6. PICK M : M = [N EXCEPT !.lost = L]
  OBVIOUS
<1>7. M.pc = N.pc /\ M.texts = N.texts /\ M.cache = N.cache /\ M.agent = N.agent
  BY <1>4, <1>6 DEF JobType
<1>8. PICK J : J = job'[q]
  OBVIOUS
<1>9. J = N \/ J = M
  BY <1>2, <1>5, <1>6, <1>8 DEF CreateAgentRun, TypeInv
<1>10. J.pc \in {"resolve", "instruction"} => Shows(J.texts, J.cache, KnownBy(handler[q].delivery, J))
  BY <1>4, <1>7, <1>9 DEF KnownBy
<1>11. \A n \in DOMAIN runs'[q] : Uniform(runs'[q][n].texts)
  <2>1. PICK R \in Seq(RunType), x \in RunType : R = runs[q] /\ x = AgentRun(q)
    BY <1>1, AgentRunType DEF TypeInv
  <2>2. runs'[q] = R \/ runs'[q] = Append(R, x)
    BY <2>1 DEF CreateAgentRun, TypeInv
  <2>3. Uniform(x.texts)
    <3>1. Shows(job[q].texts, job[q].cache, KnownBy(handler[q].delivery, job[q]))
      BY <1>1 DEF ValueInv, ShowsValues
    <3>2. x.texts = job[q].texts
      BY <2>1 DEF AgentRun
    <3>3. QED
      BY <3>1, <3>2, ShowsIsUniform
  <2>4. \A n \in DOMAIN R : Uniform(R[n].texts)
    BY <2>1 DEF ValueInv, ShowsValues
  <2>5. ASSUME NEW n \in DOMAIN Append(R, x)
        PROVE  Uniform(Append(R, x)[n].texts)
    <3>1. Append(R, x)[n] = x \/ (n \in DOMAIN R /\ Append(R, x)[n] = R[n])
      BY <2>1
    <3>2. QED
      BY <2>3, <2>4, <3>1
  <2>6. QED
    BY <2>2, <2>4, <2>5
<1>12. QED
  BY <1>1, <1>8, <1>10, <1>11 DEF ShowsValues

LEMMA ValuesByProcess ==
    ASSUME TypeInv, ValueInv, NEW q \in Requests, Process(q) \/ Panic(q)
    PROVE  ValueInv'
<1>1. ShowsValues(handler'[q], job'[q], runs'[q])
  BY ValuesBeforeAgents, ValuesByMatch, ValuesByFetch, ValuesByText, ValuesByInstruction, ValuesByCreate
     DEF Process
<1>2. PICK J, R : Updates(q, J, R)
  BY ProcessUpdates
<1>3. \A r \in Requests \ {q} : handler'[r] = handler[r] /\ job'[r] = job[r] /\ runs'[r] = runs[r]
  BY <1>2 DEF Updates, TypeInv
<1>4. ASSUME NEW r \in Requests
      PROVE  ShowsValues(handler'[r], job'[r], runs'[r])
  <2>1. CASE r = q
    BY <1>1, <2>1
  <2>2. CASE r # q
    BY <1>3, <2>2 DEF ValueInv
  <2>3. QED
    BY <2>1, <2>2
<1>5. QED
  BY <1>4 DEF ValueInv

\* A job that shows nothing before and after.
LEMMA ShowsNothing ==
    ASSUME ValueInv, NEW q \in Requests, NEW h, NEW j, j.pc \notin {"resolve", "instruction"}
    PROVE  ShowsValues(h, j, runs[q])
BY DEF ValueInv, ShowsValues

LEMMA ValuesByOthers ==
    ASSUME TypeInv, ValueInv, Crash \/ \E q \in Requests : Arrive(q) \/ Handle(q)
    PROVE  ValueInv'
<1>1. CASE Crash
  <2>1. \A r \in Requests : job'[r].pc \notin {"resolve", "instruction"} /\ runs' = runs
    BY <1>1, CrashCases
  <2>2. ASSUME NEW r \in Requests
        PROVE  ShowsValues(handler'[r], job'[r], runs'[r])
    BY <2>1, ShowsNothing
  <2>3. QED
    BY <2>2 DEF ValueInv
<1>2. ASSUME NEW q \in Requests, handler[q].pc # "over", runs' = runs,
             job'[q].pc \notin {"resolve", "instruction"},
             \A r \in Requests \ {q} : handler'[r].delivery = handler[r].delivery /\ job'[r] = job[r]
      PROVE  ValueInv'
  <2>1. ASSUME NEW r \in Requests
        PROVE  ShowsValues(handler'[r], job'[r], runs'[r])
    <3>1. CASE r = q
      BY <1>2, <3>1, ShowsNothing
    <3>2. CASE r # q
      BY <1>2, <3>2 DEF ValueInv, ShowsValues
    <3>3. QED
      BY <3>1, <3>2
  <2>2. QED
    BY <2>1 DEF ValueInv
<1>3. ASSUME NEW q \in Requests, Arrive(q)
      PROVE  ValueInv'
  <2>1. job[q].pc = "none" /\ UNCHANGED <<job, runs>> /\ handler[q].pc # "over"
    BY <1>3, ArriveCases DEF TypeInv, Agrees
  <2>2. \A r \in Requests \ {q} : handler'[r] = handler[r]
    BY <1>3, ArriveCases
  <2>3. QED
    BY <1>2, <2>1, <2>2
<1>4. ASSUME NEW q \in Requests, StoreLength(q) \/ StorePointer(q) \/ StoreClient(q)
      PROVE  ValueInv'
  <2>1. UNCHANGED <<job, runs>> /\ handler[q].pc # "over"
    BY <1>4, HandlerStepType
  <2>2. job[q].pc = "none"
    BY <2>1 DEF TypeInv, Agrees
  <2>3. \A r \in Requests \ {q} : handler'[r].delivery = handler[r].delivery
    BY <1>4, HandlerStepType DEF Same
  <2>4. QED
    BY <1>2, <2>1, <2>2, <2>3
<1>5. ASSUME NEW q \in Requests, NEW secret, Validate(q, secret)
      PROVE  ValueInv'
  <2>1. /\ handler[q].pc # "over" /\ runs' = runs
        /\ \A r \in Requests \ {q} : handler'[r] = handler[r] /\ job'[r] = job[r]
    BY <1>5, ValidateCases DEF Validate
  <2>2. job'[q].pc \notin {"resolve", "instruction"}
    <3>1. job[q].pc = "none" /\ job \in [Requests -> JobType]
      BY <2>1 DEF TypeInv, Agrees
    <3>2. job' = job \/ \E pc \in {"permission", "tree"} : job' = [job EXCEPT ![q].pc = pc]
      BY <1>5 DEF Validate
    <3>3. QED
      BY <3>1, <3>2 DEF JobType
  <2>3. QED
    BY <1>2, <2>1, <2>2
<1>6. QED
  BY <1>1, <1>3, <1>4, <1>5 DEF Handle

\* A variable has one value in the prompt and in all instructions of an AgentRun,
\* however often what it is fetched from changes meanwhile (variables.go:115-160).
THEOREM OneValue == Spec => []OneValuePerVariable
<1>1. ASSUME Init
      PROVE  ValueInv
  BY <1>1 DEF Init, ValueInv, ShowsValues, Idle
<1>2. ASSUME TypeInv, ValueInv, [Next]_vars
      PROVE  ValueInv'
  <2>1. CASE UNCHANGED vars
    BY <1>2, <2>1 DEF vars, ValueInv
  <2>2. CASE Next
    BY <1>2, <2>2, ValuesByProcess, ValuesByOthers DEF Next
  <2>3. QED
    BY <1>2, <2>1, <2>2
<1>3. ValueInv => OneValuePerVariable
  BY DEF ValueInv, ShowsValues, Uniform, OneValuePerVariable
<1>4. QED
  BY <1>1, <1>2, <1>3, TypeInvariant, PTL DEF Spec

=============================================================================
