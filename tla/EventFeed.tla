------------------------------ MODULE EventFeed ------------------------------
(***************************************************************************)
(* What a user may expect of `watch` and `logs --follow`: every event that *)
(* is written for the session appears once and in the order of writing,    *)
(* unless the session itself is deleted before.                            *)
(***************************************************************************)
EXTENDS Integers

VARIABLES
    session,  \* the session has a row
    pending,  \* ids of events written and not shown yet
    shown,    \* ids of events shown
    lines     \* event lines printed

feed == <<session, pending, shown, lines>>

FeedInit == session \in BOOLEAN /\ pending = {} /\ shown = {} /\ lines = 0

\* Events belong to a session, and ids only grow.
Append ==
    /\ session
    /\ \E id \in pending' \ pending :
        /\ pending' = pending \cup {id}
        /\ \A e \in pending \cup shown : e < id
    /\ UNCHANGED <<session, shown, lines>>

\* One line for the oldest one, and never one after a newer one.
Show ==
    /\ \E id \in pending :
        /\ \A e \in pending : id <= e
        /\ \A e \in shown : e < id
        /\ pending' = pending \ {id}
        /\ shown' = shown \cup {id}
    /\ lines' = lines + 1
    /\ UNCHANGED session

\* A session that is rolled back takes its events with it.
Withdraw ==
    /\ session /\ ~session'
    /\ pending' \subseteq pending
    /\ UNCHANGED <<shown, lines>>

Appear == ~session /\ session' /\ UNCHANGED <<pending, shown, lines>>

FeedNext == Append \/ Show \/ Withdraw \/ Appear

FeedSpec == FeedInit /\ [][FeedNext]_feed
=============================================================================
