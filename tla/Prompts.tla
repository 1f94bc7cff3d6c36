------------------------------- MODULE Prompts -------------------------------
(***************************************************************************)
(* What the prompt and the instructions of an AgentRun are made of:        *)
(* pkg/template and pkg/instruction.                                       *)
(*                                                                         *)
(* A text is the set of its words: template variables, and Plain for all   *)
(* that is not a variable.  Resolving it gives each of its variables a     *)
(* value: from the event, from a call to the provider, or nothing.         *)
(***************************************************************************)
EXTENDS Triggers

CONSTANTS
    Plain,      \* text that is no variable
    FromEvent,  \* the value of a variable that the event knows
    Nothing     \* the empty value

alwaysKnown == {"repo_url", "repo_name", "repo_owner", "default_branch", "event_type",
                "sender", "sha", "branch", "comment_body", "repo_clone_path"}

pullVariables == {"pull_request_number", "pull_request_title", "pull_request_author",
                  "pull_request_url", "pull_request_head_sha"}

pullContents == {"pull_request_description", "pull_request_diff", "pull_request_reviews",
                 "pull_request_comments", "pull_request_files"}

issueContents == {"issue_title", "issue_body", "issue_comments", "issue_labels"}

providerVariables == pullContents \cup issueContents

If(condition, set) == IF condition THEN set ELSE {}

HasIssue(evt) == evt.pull \/ evt.trigger \in {"issue_comment", "issues_labeled"}

\* Whether the event has what the variable is about; if not it is empty.
Exists(v, evt) == IF v \in pullContents THEN evt.pull ELSE HasIssue(evt)

\* The variables that agent a gets from the event, without a call.
metadataVars(a, evt) ==
    alwaysKnown
    \cup If(evt.pull, pullVariables)
    \cup If(HasIssue(evt), {"issue_number"})
    \cup If(evt.label # NoText, {"issue_labels"})
    \cup If(matchComment(a.annots, evt) = "matched" /\ evt.comment # NoText, {"trigger_comment_args"})

\* Mutant: the values that were fetched are not looked up.
ToFetchUncached(words, known, cache) == (words \cap providerVariables) \ known

\* The variables of a text that have to be fetched.
ToFetch(words, known, cache) == ((words \cap providerVariables) \ known) \ DOMAIN cache

ResolveVariables(words, known, cache) ==
    [v \in words \ {Plain} |-> IF v \in known THEN FromEvent
                               ELSE IF v \in DOMAIN cache THEN cache[v]
                               ELSE Nothing]

\* An agent's references to instructions, by position: -1 for the one without
\* a number.  They are visited in this order, whether or not there are gaps.
ParseAnnotations(a) == {k \in DOMAIN a.refs : a.refs[k] # NoText}

=============================================================================
