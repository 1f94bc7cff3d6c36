-------------------------- MODULE DeliveryHandling --------------------------
(***************************************************************************)
(* What the webhook owes each request: a verdict that is never changed,    *)
(* and, after it was accepted, at most one AgentRun per agent.  A request  *)
(* that is sent again is a request of its own.                             *)
(***************************************************************************)
EXTENDS Naturals, Sequences

CONSTANTS Requests, Agents

VARIABLES
    verdict,    \* on each request
    made        \* the agents that each request has made a run for

handlingVars == <<verdict, made>>

Init ==
    /\ verdict = [q \in Requests |-> "pending"]
    /\ made = [q \in Requests |-> <<>>]

Decide(q, v) ==
    /\ verdict[q] = "pending"
    /\ verdict' = [verdict EXCEPT ![q] = v]
    /\ UNCHANGED made

Make(q, a) ==
    /\ verdict[q] = "accepted"
    /\ \A i \in DOMAIN made[q] : made[q][i] # a
    /\ made' = [made EXCEPT ![q] = Append(@, a)]
    /\ UNCHANGED verdict

Next ==
    \E q \in Requests :
        \/ \E v \in {"accepted", "refused"} : Decide(q, v)
        \/ \E a \in Agents : Make(q, a)

Spec == Init /\ [][Next]_handlingVars

=============================================================================
