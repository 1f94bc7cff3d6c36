------------------------------ MODULE BranchLog ------------------------------
(***************************************************************************)
(* What everybody who works on a repository may rely on: a branch is a log *)
(* of commits.  It is created from what the default branch holds or held,  *)
(* from then on it grows until it is deleted, and nothing that is in it is *)
(* replaced or taken back by another writer.                               *)
(*                                                                         *)
(* This is what concepts.md:132 calls an atomic commit, although the       *)
(* provider makes it with five calls.                                      *)
(***************************************************************************)
EXTENDS Sequences, Integers

CONSTANTS Branches, DefaultBranch

VARIABLE branches

Extended(old, new) == Len(old) < Len(new) /\ \A i \in 1..Len(old) : old[i] = new[i]

\* No other branch changes.
Only(b) ==
    \A x \in DOMAIN branches \ {b} : x \in DOMAIN branches' /\ branches'[x] = branches[x]

Fork(b) ==
    /\ b \notin DOMAIN branches /\ DefaultBranch \in DOMAIN branches
    /\ DOMAIN branches' = DOMAIN branches \cup {b}
    /\ \/ branches'[b] = branches[DefaultBranch]
       \/ Extended(branches'[b], branches[DefaultBranch])
    /\ Only(b)

Grow(b) ==
    /\ b \in DOMAIN branches
    /\ DOMAIN branches' = DOMAIN branches
    /\ Extended(branches[b], branches'[b])
    /\ Only(b)

Delete(b) ==
    /\ b \in DOMAIN branches /\ b # DefaultBranch
    /\ DOMAIN branches' = DOMAIN branches \ {b}
    /\ Only(b)

Init == DefaultBranch \in DOMAIN branches /\ DOMAIN branches \subseteq Branches

Next == \E b \in Branches : Fork(b) \/ Grow(b) \/ Delete(b)

Spec == Init /\ [][Next]_branches

=============================================================================
