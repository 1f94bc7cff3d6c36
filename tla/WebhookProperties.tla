------------------------- MODULE WebhookProperties -------------------------
(***************************************************************************)
(* What must hold of WebhookAdapter.                                       *)
(***************************************************************************)
EXTENDS WebhookAdapter

TypeOK ==
    /\ provider \in [length : Secrets \cup {NoSecret}, pointer : Secrets \cup {NoSecret},
                     client : Repositories \cup {NoClient}]
    /\ handler \in [Requests -> Handler]
    /\ \A q \in Requests : handler[q].pc \notin {"idle", "over"} => handler[q].delivery # NoDelivery
    /\ \A q \in Requests : IsJob(job[q])
    /\ errors \in Nat /\ crashes \in Nat

\* Concurrent deliveries and the shared Provider (github.go:30): whatever the
\* interleaving, a delivery is accepted only if it is signed with a secret that
\* is configured, and one that is signed correctly is answered 401 only if the
\* secret of another delivery was written over its own.
AnswersAreJust ==
    \A q \in Requests :
        /\ handler[q].answer = 202 => handler[q].delivery.signed \in Secrets
        /\ handler[q].answer = 401 =>
             \/ handler[q].delivery.signed # SecretOf(handler[q].delivery)
             \/ handler[q].overwritten

\* The trigger table of writing-agents.md:42-60, for the delivery as GitHub
\* sent it.
Documented(a, d) ==
    LET trigger == TriggerType(d)
        On(key, texts) == \E p \in Values(a.annots, key) : \E t \in texts : MatchesText(p, t)
        Passes(key, texts) == Has(a.annots, key) => On(key, texts)
    IN  IF trigger = "issue_comment" /\ Has(a.annots, "on-comment")
        THEN On("on-comment", {d.text})
        ELSE /\ trigger \in Values(a.annots, "on-event")
             /\ Passes("on-target-branch", {d.base})
             /\ Passes("on-path-change", d.files)
             /\ trigger \in LabelTriggers => Has(a.annots, "on-label")
             /\ Has(a.annots, "on-label") => d.text \in Values(a.annots, "on-label")

\* Whatever fails or happens at the same time, an AgentRun is made only for an
\* agent of the delivery's repository that the documented triggers select and
\* that is well-formed, and for a comment only if its author may write.
RunsAreAsked ==
    \A q \in Requests : \A i \in DOMAIN runs[q] :
        LET a == Dir(q)[runs[q][i].agent]
            d == handler[q].delivery
        IN  /\ a.kind = "Agent" /\ validateAgent(a)
            /\ Documented(a, d)
            /\ d.event = "issue_comment" => d.writer

MadeFor(q) == {runs[q][i].agent : i \in DOMAIN runs[q]}

\* A job that is done has made a run for every agent that matches, except for
\* what it could not read or create and for the agents beside a document that
\* is rejected: an error costs the agent it concerns and no other.
NothingIsLostSilently ==
    \A q \in Requests :
        job[q].pc = "done" /\ ~job[q].failed
            /\ (handler[q].delivery.event = "issue_comment" => handler[q].delivery.writer)
            /\ (\A i \in DOMAIN Dir(q) \ job[q].lost : ~Rejected(Dir(q)[i]))
        => \A i \in DOMAIN Dir(q) \ (job[q].lost \cup MadeFor(q)) :
             \/ Dir(q)[i].kind # "Agent"
             \/ ~Matches(Dir(q)[i].annots, Event(q), If(Event(q).pull, handler[q].delivery.files))
             \/ job[q].blind /\ Has(Dir(q)[i].annots, "on-path-change")

\* Nothing fails by itself: without an error and without a crash only a delivery
\* for another repository, whose client replaces the job's, makes its calls fail.
FailureNeedsCause ==
    \A q \in Requests :
        job[q].failed \/ job[q].blind \/ job[q].lost # {}
            => errors > 0 \/ crashes > 0 \/ handler[q].overtaken

\* A variable has one value in the prompt and in all instructions of an
\* AgentRun (writing-agents.md:104), although what it is fetched from changes and
\* fetching it may fail meanwhile.
OneValuePerVariable ==
    \A q \in Requests : \A n \in DOMAIN runs[q] :
        LET texts == runs[q][n].texts
        IN  \A i, k \in DOMAIN texts :
              \A v \in DOMAIN texts[i].values \cap DOMAIN texts[k].values :
                 texts[i].values[v] = texts[k].values[v]

\* The verdict on each request, as DeliveryHandling sees it.
Verdict(q) ==
    IF job[q].pc # "none" THEN "accepted"
    ELSE IF handler[q].answer # 0 THEN "refused" ELSE "pending"

Handling == INSTANCE DeliveryHandling WITH
    Agents <- UNION {DOMAIN AgentDir[r] : r \in Repositories},
    verdict <- [q \in Requests |-> Verdict(q)],
    made <- [q \in Requests |-> [i \in DOMAIN runs[q] |-> runs[q][i].agent]]

\* An accepted request makes at most one run per agent, also if Create fails
\* after the fact, and requests that are refused or still undecided none.
ImplementsHandling == Handling!Spec

\* A request gets an answer unless the process dies, and an accepted delivery is
\* processed to the end, also after its handler has returned and whatever fails.
EveryRequestIsFinished ==
    \A q \in Requests :
        handler[q].pc \notin {"idle", "over"}
            ~> (handler[q].answer # 0 \/ crashes > 0) /\ job[q].pc \in {"none", "done"}

\* writing-agents.md:303: the agent on [pull_request, issue_comment] with the
\* comment /triage "fires on new PRs and /triage comments".
DocumentedTriggersFire ==
    \A q \in Requests :
        job[q].pc = "done" /\ ~job[q].failed /\ job[q].lost = {} /\ ~job[q].blind
            /\ handler[q].delivery.writer
        => \A i \in DOMAIN Dir(q) :
             Dir(q)[i].kind = "Agent" /\ Documented(Dir(q)[i], handler[q].delivery)
                => i \in MadeFor(q)

=============================================================================
