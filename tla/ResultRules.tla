---------------------------- MODULE ResultRules ----------------------------
(***************************************************************************)
(* Which results of an agent are accepted: Parse and Validate of           *)
(* pkg/result/parser.go.  A path is the sequence of what its slashes       *)
(* separate.                                                               *)
(***************************************************************************)
EXTENDS Integers, SequencesExt

CONSTANT NoText     \* the empty string

ReviewEvents == {"COMMENT", "APPROVE", "REQUEST_CHANGES"}
States == {"success", "failure", "error", "pending"}

\* path.Clean of a relative path; the empty sequence is ".".
Clean(path) ==
    LET Step(done, name) ==
            IF name \in {NoText, "."} THEN done
            ELSE IF name = ".." /\ done # <<>> /\ Last(done) # ".." THEN Front(done)
            ELSE Append(done, name)
    IN  FoldLeft(Step, <<>>, path)

Absolute(path) == Len(path) > 1 /\ Head(path) = NoText

\* Mutant: the path is not cleaned before it is compared.
validatePathAsGiven(path) ==
    /\ path # <<NoText>>
    /\ ~Absolute(path)
    /\ Head(path) # ".."

validatePath(path) ==
    /\ path # <<NoText>>
    /\ ~Absolute(path)
    /\ Clean(path) # <<>> => Head(Clean(path)) # ".."

validateReviewComment(c) == c.path # NoText /\ c.line > 0 /\ c.body # NoText

validateAction(a) ==
    CASE a.type = "comment" -> a.body # NoText
      [] a.type = "review" -> /\ a.event \in ReviewEvents
                              /\ \A c \in a.comments : validateReviewComment(c)
      [] a.type = "label" -> a.add \cup a.remove # {}
      [] a.type = "create-pr" -> NoText \notin {a.title, a.head, a.base}
      [] a.type = "status" -> a.context # NoText /\ a.state \in States
      [] a.type = "commit" -> /\ a.message # NoText
                              /\ a.files # {}
                              /\ \A path \in a.files : validatePath(path)
      [] OTHER -> FALSE

Validate(result) == \A i \in DOMAIN result.actions : validateAction(result.actions[i])

=============================================================================
