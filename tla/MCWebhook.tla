----------------------------- MODULE MCWebhook -----------------------------
(***************************************************************************)
(* Instances of WebhookAdapter for TLC.  The repository app has agents for *)
(* pull requests and comments, lib for labels and pushes, and in old one   *)
(* document is rejected.                                                   *)
(***************************************************************************)
EXTENDS WebhookProperties, TLC

CONSTANTS app, lib, old, github

MCRepositories == {app, lib, old}

\* The text "docs/*" is a glob, "/fix" a regular expression, "main" a branch.
MCDenotes == "main" :> {"main"} @@ "docs/*" :> {"docs/a.md"} @@ "/fix" :> {"/fix", "/fix it"}
             @@ "/triage" :> {"/triage"}

Define(name, annots, prompt, refs) ==
    [name |-> name, kind |-> "Agent", version |-> "v1alpha1", annots |-> annots,
     prompt |-> prompt, refs |-> refs, tokens |-> 1, timeout |-> 1]

\* A reviewer with the third of three instructions.
Reviewer == Define("reviewer",
    "on-event" :> {"pull_request"} @@ "on-target-branch" :> {"main"},
    {"text", "pull_request_diff", "sender"}, 1 :> "" @@ 3 :> "guide.md")

Writer == Define("writer",
    "on-event" :> {"pull_request"} @@ "on-path-change" :> {"docs/*"}, {"text"}, -1 :> "https")

Fixer == Define("fixer",
    "on-event" :> {"issue_comment"} @@ "on-comment" :> {"/fix"},
    {"text", "trigger_comment_args"}, <<>>)

Labeler == Define("labeler",
    "on-event" :> {"issues_labeled"} @@ "on-label" :> {"bug"}, {"text", "issue_labels"}, <<>>)

Deployer == Define("deployer", "on-event" :> {"push"} @@ "on-target-branch" :> {"main"}, {"text"}, <<>>)

Notes == [kind |-> "other"]

Broken == [Deployer EXCEPT !.version = "v1"]

MCAgentDir == app :> <<Reviewer, Fixer, Writer>> @@ lib :> <<Labeler, Deployer>>
              @@ old :> <<Notes, Broken>>

MCContents == "guide.md" :> {"text", "pull_request_diff"} @@ "https" :> {"text"}

Deliver(repo, event, action, base, text, pull, files) ==
    [repo |-> repo, event |-> event, action |-> action, base |-> base, text |-> text,
     pull |-> pull, files |-> files, app |-> FALSE, signed |-> repo, writer |-> TRUE]

Opened == Deliver(app, "pull_request", "opened", "main", "", TRUE, {"docs/a.md"})
Comment == Deliver(app, "issue_comment", "created", "main", "/fix it", TRUE, {"docs/a.md"})
Pushed == Deliver(lib, "push", "pushed", "main", "", FALSE, {"docs/a.md"})

\* What arrives: besides these, a comment by somebody who may not write, a
\* label through the GitHub App, a push to the repository with the rejected
\* document, a merged pull request, and a hook with a secret of its own.
MCDeliveries ==
    {Opened, Comment, Pushed,
     [Comment EXCEPT !.writer = FALSE],
     [Deliver(lib, "issues", "labeled", "", "bug", FALSE, {}) EXCEPT !.app = TRUE, !.signed = github],
     [Pushed EXCEPT !.repo = old, !.signed = old],
     [Opened EXCEPT !.action = "closed"],
     [Pushed EXCEPT !.signed = "unknown"]}

\* The triage agent of writing-agents.md:307-315, and a new pull request.
Triage == Define("triage",
    "on-event" :> {"pull_request", "issue_comment"} @@ "on-comment" :> {"/triage"}, {"text"}, <<>>)

MCTriageDir == app :> <<Triage>> @@ lib :> <<>> @@ old :> <<>>
MCTriageDeliveries == {Opened, [Comment EXCEPT !.text = "/triage"]}

MCDocuments == {Reviewer, Writer, Fixer, Labeler, Deployer, Notes, Broken, Triage}

\* The token of lib gives access to old.
MCAccess == {<<lib, old>>}

=============================================================================
