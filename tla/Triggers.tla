------------------------------ MODULE Triggers ------------------------------
(***************************************************************************)
(* Which agents a GitHub delivery triggers: detect.go and parse.go of the  *)
(* GitHub provider make an event of it, and pkg/matcher reads the agent    *)
(* definitions and compares their annotations with the event.              *)
(*                                                                         *)
(* Texts (branches, labels, comments, paths) are members of a set.  The    *)
(* value of an annotation is the set of the values in its list, or         *)
(* Malformed; a pattern stands for the texts that it matches.              *)
(***************************************************************************)
EXTENDS Integers

CONSTANTS
    NoText,     \* the empty string
    Malformed,  \* an annotation that is neither one value nor a list
    Denotes     \* the texts each glob or regular expression matches; a pattern
                \* outside its domain does not compile

TriggerTypes == {"push", "pull_request", "pull_request_review", "issue_comment",
                 "issues_labeled", "pull_request_labeled"}

LabelTriggers == {"issues_labeled", "pull_request_labeled"}

-----------------------------------------------------------------------------
\* From the delivery to the event

supportedPRActions == {"opened", "synchronize", "synchronized", "reopened"}

\* The event header, the action in the payload, and the trigger they amount to.
TriggerTable ==
    {<<"push", "pushed", "push">>,
     <<"pull_request", "labeled", "pull_request_labeled">>,
     <<"pull_request_review", "submitted", "pull_request_review">>,
     <<"issue_comment", "created", "issue_comment">>,
     <<"issues", "labeled", "issues_labeled">>}
    \cup {<<"pull_request", a, "pull_request">> : a \in supportedPRActions}

Detect(d) == \E t \in TriggerTypes : <<d.event, d.action, t>> \in TriggerTable

TriggerType(d) == CHOOSE t \in TriggerTypes : <<d.event, d.action, t>> \in TriggerTable

\* The parsed event: comments and issues have no branch, also on pull requests.
EventOf(d) ==
    [trigger |-> TriggerType(d),
     base    |-> IF d.event \in {"push", "pull_request", "pull_request_review"} THEN d.base ELSE NoText,
     comment |-> IF d.event = "issue_comment" THEN d.text ELSE NoText,
     label   |-> IF d.action = "labeled" THEN d.text ELSE NoText,
     pull    |-> d.pull]

-----------------------------------------------------------------------------
\* Annotations

\* getAnnotationValues, where an error and an empty list come to the same.
Values(annots, key) == IF annots[key] = Malformed THEN {} ELSE annots[key]

Has(annots, key) == key \in DOMAIN annots

MatchesText(pattern, text) == pattern \in DOMAIN Denotes /\ text \in Denotes[pattern]

matchEvent(annots, evt) == Has(annots, "on-event") /\ evt.trigger \in Values(annots, "on-event")

matchTargetBranch(annots, evt) ==
    Has(annots, "on-target-branch") =>
        \E pattern \in Values(annots, "on-target-branch") : MatchesText(pattern, evt.base)

\* A comment annotation decides alone, on events of any kind.
matchComment(annots, evt) ==
    IF ~Has(annots, "on-comment") THEN "notApplicable"
    ELSE IF /\ evt.trigger = "issue_comment"
            /\ \E pattern \in Values(annots, "on-comment") : MatchesText(pattern, evt.comment)
         THEN "matched"
         ELSE "notMatched"

\* files is the empty set also if the changed files could not be read.
matchPathChange(annots, files) ==
    Has(annots, "on-path-change") =>
        \E pattern \in Values(annots, "on-path-change") : \E f \in files : MatchesText(pattern, f)

matchLabel(annots, evt) ==
    IF Has(annots, "on-label")
    THEN evt.trigger \in LabelTriggers /\ evt.label \in Values(annots, "on-label")
    ELSE evt.trigger \notin LabelTriggers

\* MatchAgentsToEvent, for one agent.
Matches(annots, evt, files) ==
    \/ matchComment(annots, evt) = "matched"
    \/ /\ matchComment(annots, evt) = "notApplicable"
       /\ matchEvent(annots, evt)
       /\ matchTargetBranch(annots, evt)
       /\ matchLabel(annots, evt)
       /\ matchPathChange(annots, files)

-----------------------------------------------------------------------------
\* Agent definitions

validateAgent(a) ==
    /\ a.name # NoText
    /\ a.prompt # {}
    /\ Has(a.annots, "on-event")
    /\ Values(a.annots, "on-event") # {}
    /\ Values(a.annots, "on-event") \subseteq TriggerTypes
    /\ Has(a.annots, "on-comment") =>
         /\ a.annots["on-comment"] # Malformed
         /\ Values(a.annots, "on-comment") \subseteq DOMAIN Denotes
    /\ a.tokens > 0
    /\ a.timeout > 0

\* A document that makes ParseAgentDefinitions give up, and with it all others.
Rejected(a) ==
    \/ a.kind = "undecodable"
    \/ a.kind = "Agent" /\ (a.version # "v1alpha1" \/ ~validateAgent(a))

=============================================================================
