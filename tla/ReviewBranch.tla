---------------------------- MODULE ReviewBranch ----------------------------
(***************************************************************************)
(* What git-native sync-back promises about the two host refs it writes:   *)
(* the review branch agbranch/<session>, which the user of the host may    *)
(* also move, and the hidden session head, which nobody else touches.      *)
(***************************************************************************)
\* SyncBack, which instantiates this module, assumes of these that NoCommit is
\* no commit, Base is one, and Ancestry is reflexive and transitive on Commits.
CONSTANTS
    Commits,    \* commits of the guest and the host repository
    NoCommit,   \* the value of a ref that does not exist
    Base,       \* the commit the session was opened at
    Ancestry    \* <<a, b>>: a is b or an ancestor of b

Reaches(a, b) == <<a, b>> \in Ancestry

\* A ref that does not exist can become any commit, any other only descend.
FastForwards(r, c) == r = NoCommit \/ Reaches(r, c)

VARIABLES review, head
refs == <<review, head>>

Init == review = NoCommit /\ head = Base

\* Both refs move to the same commit at once, neither of them backwards.
Publish(c) ==
    /\ FastForwards(review, c) /\ Reaches(head, c)
    /\ review' = c /\ head' = c

HostMoves ==
    /\ review' \in Commits \cup {NoCommit}
    /\ UNCHANGED head

Next == HostMoves \/ \E c \in Commits : Publish(c)

Spec == Init /\ [][Next]_refs
=============================================================================
