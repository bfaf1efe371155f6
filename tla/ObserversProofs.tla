--------------------------- MODULE ObserversProofs ---------------------------
(* Theorems about Observers, for any lifecycle states and columns and any     *)
(* number of events.                                                          *)
EXTENDS Observers, WellFoundedInduction, TLAPS

\* The largest element of a non-empty set of numbers with a bound.
LEMMA LargestOf ==
    ASSUME NEW n \in Nat, NEW S \in SUBSET (0..n), S # {}
    PROVE  Max(S) \in S /\ \A e \in S : e <= Max(S)
<1> DEFINE T == {i \in Nat : \E e \in S : i = n - e}
           R == {ss \in Nat \X Nat : ss[1] < ss[2]}
<1>1. \A e \in S : e \in 0..n
  OBVIOUS
<1>2. T \subseteq Nat /\ T # {}
  <2>1. PICK e \in S : TRUE
    OBVIOUS
  <2>2. n - e \in Nat
    BY <1>1, <2>1
  <2> QED
    BY <2>1, <2>2
<1>3. IsWellFoundedOn(R, Nat)
  <2>1. R = OpToRel(<, Nat)
    BY DEF OpToRel
  <2> HIDE DEF R
  <2> QED
    BY <2>1, NatLessThanWellFounded
<1>4. PICK d \in T : \A t \in T : ~(<<t, d>> \in R)
  <2> HIDE DEF R, T
  <2> QED
    BY <1>2, <1>3, WFMin
<1>5. \A t \in T : d <= t
  <2> TAKE t \in T
  <2>1. t \in Nat /\ d \in Nat
    BY <1>2, <1>4
  <2>2. ~(t < d)
    <3>1. ASSUME t < d PROVE <<t, d>> \in R
      BY <2>1, <3>1
    <3> HIDE DEF R, T
    <3> QED
      BY <1>4, <3>1
  <2> QED
    BY <2>1, <2>2
<1>6. PICK m \in S : d = n - m
  BY <1>4
<1>7. \A e \in S : m >= e
  <2> TAKE e \in S
  <2>1. n - e \in T
    BY <1>1
  <2> QED
    BY <1>1, <1>5, <1>6, <2>1
<1> QED
  BY <1>1, <1>6, <1>7 DEF Max

\* The operators the invariant rests on.
LEMMA PositionOf ==
    ASSUME NEW n \in Nat, NEW S \in SUBSET (0..n)
    PROVE  /\ Max(S \cup {0}) \in 0..n
           /\ \A e \in S : e <= Max(S \cup {0})
<1>1. S \cup {0} \in SUBSET (0..n) /\ S \cup {0} # {}
  OBVIOUS
<1> QED
  BY <1>1, LargestOf

-----------------------------------------------------------------------------
LEMMA InitObserve == Init => IInv
<1> SUFFICES ASSUME Init PROVE IInv
  OBVIOUS
<1> USE ObserversAssumption, RegistryAssumption DEF Init, RegistryInit, FirstStep
<1>1. TypeOK
  <2>1. pc \in {"start", "position", "rows", "events", "emit", "first", "second"}
    OBVIOUS
  <2>2. /\ state \in Lives /\ machine \in Machines /\ columns \in Columns
        /\ seen \in Prints
    BY DEF Prints, Machines
  <2>3. /\ seq \in 0..MaxEvents /\ lastId \in 0..MaxEvents
        /\ log \subseteq 1..MaxEvents /\ batch \subseteq 1..MaxEvents
        /\ printed \subseteq 1..MaxEvents /\ due \subseteq 1..MaxEvents
        /\ lines \in Nat
    OBVIOUS
  <2>4. /\ rowRead \in Lives \cup {"unread", "unreadable"}
        /\ vmRead \in Machines \cup {"unread", "unreadable"}
        /\ answer \in Lives \cup {"unread", "hidden", "orphan", "fine"}
        /\ ran \in BOOLEAN /\ lost \in BOOLEAN
    OBVIOUS
  <2> QED
    BY <2>1, <2>2, <2>3, <2>4 DEF TypeOK
<1>2. FeedInv
  BY <1>1 DEF FeedInv, Following
<1>3. LookInv
  BY <1>1 DEF LookInv, TypeOK
<1> QED
  BY <1>2, <1>3 DEF IInv

\* A write by another command keeps the invariant.
LEMMA WriteObserve == IInv /\ Write => IInv'
<1> SUFFICES ASSUME IInv, Write PROVE IInv'
  OBVIOUS
<1> USE ObserversAssumption, RegistryAssumption
<1> USE DEF IInv, FeedInv, LookInv, TypeOK, Prints, Machines, Following,
            registry, catalog, follower, looker, Write
<1>1. CASE InsertRow
  <2>1. TypeOK'
    BY <1>1 DEF InsertRow, Insert
  <2>2. FeedInv'
    BY <1>1, <2>1 DEF InsertRow, Insert
  <2>3. LookInv'
    BY <1>1, <2>1 DEF InsertRow, Insert
  <2> QED
    BY <2>1, <2>2, <2>3
<1>2. CASE WriteRow
  BY <1>2 DEF WriteRow, WriteState
<1>3. CASE WriteColumns
  BY <1>3 DEF WriteColumns
<1>4. CASE WriteEvent
  BY <1>4 DEF WriteEvent, AppendEvent, NewId
<1>5. CASE WriteOutcome
  BY <1>5 DEF WriteOutcome, AppendEvent, NewId
<1>6. CASE OtherEvent
  BY <1>6 DEF OtherEvent, NewId
<1>7. CASE ForgetRow
  <2>1. TypeOK'
    BY <1>7 DEF ForgetRow, Forget
  <2>2. FeedInv'
    BY <1>7, <2>1 DEF ForgetRow, Forget
  <2>3. LookInv'
    BY <1>7, <2>1 DEF ForgetRow, Forget
  <2> QED
    BY <2>1, <2>2, <2>3
<1>8. CASE CloneMachine
  <2>1. TypeOK'
    BY <1>8 DEF CloneMachine, Clone
  <2>2. FeedInv'
    BY <1>8, <2>1 DEF CloneMachine, Clone
  <2>3. LookInv'
    BY <1>8, <2>1 DEF CloneMachine, Clone
  <2> QED
    BY <2>1, <2>2, <2>3
<1>9. CASE ChangeMachine
  BY <1>9 DEF ChangeMachine, Power, Delete
<1> QED
  BY <1>1, <1>2, <1>3, <1>4, <1>5, <1>6, <1>7, <1>8, <1>9

\* So does a step of watch or logs.
LEMMA FollowObserve == IInv /\ Follow => IInv'
<1> SUFFICES ASSUME IInv, Follow PROVE IInv'
  OBVIOUS
<1> USE ObserversAssumption, RegistryAssumption
<1> USE DEF IInv, FeedInv, LookInv, TypeOK, Prints, Machines, Following,
            registry, catalog, follower, looker, Follow
<1>1. CASE WatchStart
  BY <1>1 DEF WatchStart, Fingerprint
<1>2. CASE WatchPosition
  <2>1. log \in SUBSET (0..seq)
    OBVIOUS
  <2>2. lastId' \in 0..seq /\ \A e \in log : e <= lastId'
    BY <1>2, <2>1, PositionOf DEF WatchPosition
  <2>3. TypeOK'
    BY <1>2, <2>2 DEF WatchPosition
  <2>4. FeedInv'
    <3>1. (state = NoRow => log = {})'
      BY <1>2, <2>2, <2>3 DEF WatchPosition
    <3>2. (state = Closed => machine = "absent")'
      BY <1>2, <2>2, <2>3 DEF WatchPosition
    <3>3. (\A e \in log \cup batch \cup printed : e <= seq)'
      BY <1>2, <2>2, <2>3 DEF WatchPosition
    <3>4. (lastId <= seq)'
      BY <1>2, <2>2, <2>3 DEF WatchPosition
    <3>5. (~Following => due = {} /\ batch = {} /\ printed = {})'
      BY <1>2, <2>2, <2>3 DEF WatchPosition
    <3>a. due' = {} /\ batch' = {} /\ log' = log
      BY <1>2 DEF WatchPosition
    <3>b. {e \in log' : e > lastId'} = {}
      <4>1. ASSUME NEW e \in log PROVE ~(e > lastId')
        <5>1. e \in Nat /\ lastId' \in Nat /\ e <= lastId'
          BY <2>2
        <5> QED
          BY <5>1
      <4> QED
        BY <3>a, <4>1
    <3>6. (Following => due = batch \cup {e \in log : e > lastId})'
      BY <3>a, <3>b
    <3>7. (tool = "watch" => \A e \in batch : e <= lastId)'
      BY <1>2, <2>2, <2>3 DEF WatchPosition
    <3>8. (tool = "logs" => pc \in {"events", "emit"} /\ \A e \in batch : e > lastId)'
      BY <1>2, <2>2, <2>3 DEF WatchPosition
    <3>9. (\A e \in printed : e <= lastId /\ \A d \in due : e < d)'
      BY <1>2, <2>2, <2>3 DEF WatchPosition
    <3>10. (\A e \in batch, d \in due \ batch : e < d)'
      BY <1>2, <2>2, <2>3 DEF WatchPosition
    <3>11. (pc # "emit" => batch = {})'
      BY <1>2, <2>2, <2>3 DEF WatchPosition
    <3> QED
      BY <2>3, <3>1, <3>2, <3>3, <3>4, <3>5, <3>6, <3>7, <3>8, <3>9, <3>10, <3>11
  <2>5. LookInv'
    BY <1>2, <2>3 DEF WatchPosition
  <2> QED
    BY <2>4, <2>5
<1>3. CASE WatchRows
  BY <1>3 DEF WatchRows, Fingerprint
<1>4. CASE FetchEvents
  <2>1. batch' \in SUBSET (0..seq) /\ seq \in Nat
    <3>1. \A e \in batch' : e \in 0..seq
      BY <1>4 DEF FetchEvents
    <3>2. seq \in Nat
      OBVIOUS
    <3> QED
      BY <3>1, <3>2 DEF FetchEvents
  <2>2. ASSUME batch' # {} PROVE LastOf(batch') \in batch' /\ \A e \in batch' : e <= LastOf(batch')
    BY <2>1, <2>2, LargestOf DEF LastOf
  <2>3. ASSUME batch' = {} PROVE LastOf(batch') = lastId
    BY <2>3 DEF LastOf
  <2>4. lastId' \in 0..seq /\ \A e \in log : e > lastId => (tool = "watch" => e <= lastId')
    BY <1>4, <2>2, <2>3, <2>1 DEF FetchEvents
  <2>5. TypeOK'
    BY <1>4, <2>1, <2>4 DEF FetchEvents
  <2>6. FeedInv'
    <3>1. (state = NoRow => log = {})'
      BY <1>4, <2>2, <2>3, <2>4, <2>5 DEF FetchEvents
    <3>2. (state = Closed => machine = "absent")'
      BY <1>4, <2>2, <2>3, <2>4, <2>5 DEF FetchEvents
    <3>3. (\A e \in log \cup batch \cup printed : e <= seq)'
      BY <1>4, <2>2, <2>3, <2>4, <2>5 DEF FetchEvents
    <3>4. (lastId <= seq)'
      BY <1>4, <2>2, <2>3, <2>4, <2>5 DEF FetchEvents
    <3>5. (~Following => due = {} /\ batch = {} /\ printed = {})'
      BY <1>4, <2>2, <2>3, <2>4, <2>5 DEF FetchEvents
    <3>a. due' = batch' /\ log' = log
      BY <1>4 DEF FetchEvents
    <3>b. {e \in log' : e > lastId'} \subseteq batch'
      <4>1. CASE tool = "watch"
        <5>1. ASSUME NEW e \in log, e > lastId' PROVE e \in batch'
          <6>1. e \in Nat /\ lastId \in Nat /\ lastId' \in Nat
            BY <2>4
          <6>2. ~(e > lastId)
            BY <2>4, <4>1, <5>1, <6>1
          <6>3. lastId' = lastId \/ lastId' \in batch'
            BY <1>4, <2>2, <2>3 DEF FetchEvents
          <6> QED
            BY <1>4, <5>1, <6>1, <6>2, <6>3 DEF FetchEvents
        <5> QED
          BY <3>a, <5>1
      <4>2. CASE tool # "watch"
        BY <1>4, <3>a, <4>2 DEF FetchEvents
      <4> QED
        BY <4>1, <4>2
    <3>6. (Following => due = batch \cup {e \in log : e > lastId})'
      BY <3>a, <3>b
    <3>7. (tool = "watch" => \A e \in batch : e <= lastId)'
      BY <1>4, <2>2, <2>3, <2>4, <2>5 DEF FetchEvents
    <3>8. (tool = "logs" => pc \in {"events", "emit"} /\ \A e \in batch : e > lastId)'
      BY <1>4, <2>2, <2>3, <2>4, <2>5 DEF FetchEvents
    <3>9. (\A e \in printed : e <= lastId /\ \A d \in due : e < d)'
      BY <1>4, <2>2, <2>3, <2>4, <2>5 DEF FetchEvents
    <3>10. (\A e \in batch, d \in due \ batch : e < d)'
      BY <1>4, <2>2, <2>3, <2>4, <2>5 DEF FetchEvents
    <3>11. (pc # "emit" => batch = {})'
      BY <1>4, <2>2, <2>3, <2>4, <2>5 DEF FetchEvents
    <3> QED
      BY <2>5, <3>1, <3>2, <3>3, <3>4, <3>5, <3>6, <3>7, <3>8, <3>9, <3>10, <3>11
  <2>7. LookInv'
    BY <1>4, <2>5 DEF FetchEvents
  <2> QED
    BY <2>6, <2>7
<1>5. CASE EmitEvent
  <2>1. TypeOK'
    BY <1>5 DEF EmitEvent
  <2>2. FeedInv'
    <3>1. (state = NoRow => log = {})'
      BY <1>5, <2>1 DEF EmitEvent
    <3>2. (state = Closed => machine = "absent")'
      BY <1>5, <2>1 DEF EmitEvent
    <3>3. (\A e \in log \cup batch \cup printed : e <= seq)'
      BY <1>5, <2>1 DEF EmitEvent
    <3>4. (lastId <= seq)'
      BY <1>5, <2>1 DEF EmitEvent
    <3>5. (~Following => due = {} /\ batch = {} /\ printed = {})'
      BY <1>5, <2>1 DEF EmitEvent
    <3>a. PICK id \in batch : /\ \A other \in batch : id <= other
                             /\ batch' = batch \ {id} /\ printed' = printed \cup {id}
                             /\ due' = due \ {id} /\ log' = log /\ tool' = tool
                             /\ lastId' = IF tool = "watch" THEN lastId ELSE id
      BY <1>5 DEF EmitEvent
    <3>b. due = batch \cup {e \in log : e > lastId}
      BY <1>5 DEF EmitEvent
    <3>c. \A d \in due \ {id} : id < d
      <4> TAKE d \in due \ {id}
      <4>1. d \in Nat /\ id \in Nat
        OBVIOUS
      <4>2. CASE d \in batch
        BY <3>a, <4>1, <4>2
      <4>3. CASE d \notin batch
        BY <4>3
      <4> QED
        BY <4>2, <4>3
    <3>d. \A e \in log : e > lastId' <=> (e > lastId /\ e # id)
      <4>1. CASE tool = "watch"
        BY <3>a, <4>1
      <4>2. CASE tool = "logs"
        BY <3>a, <3>b, <3>c, <4>2
      <4> QED
        BY <1>5, <4>1, <4>2 DEF EmitEvent
    <3>e. {e \in log : e > lastId'} = {e \in log : e > lastId} \ {id}
      BY <3>d
    <3>6. (Following => due = batch \cup {e \in log : e > lastId})'
      BY <3>a, <3>b, <3>e
    <3>7. (tool = "watch" => \A e \in batch : e <= lastId)'
      BY <1>5, <2>1 DEF EmitEvent
    <3>8. (tool = "logs" => pc \in {"events", "emit"} /\ \A e \in batch : e > lastId)'
      BY <1>5, <2>1 DEF EmitEvent
    <3>9. (\A e \in printed : e <= lastId /\ \A d \in due : e < d)'
      BY <2>1, <3>a, <3>c
    <3>10. (\A e \in batch, d \in due \ batch : e < d)'
      BY <1>5, <2>1 DEF EmitEvent
    <3>11. (pc # "emit" => batch = {})'
      BY <1>5, <2>1 DEF EmitEvent
    <3> QED
      BY <2>1, <3>1, <3>2, <3>3, <3>4, <3>5, <3>6, <3>7, <3>8, <3>9, <3>10, <3>11
  <2>3. LookInv'
    BY <1>5, <2>1 DEF EmitEvent
  <2> QED
    BY <2>1, <2>2, <2>3
<1>6. CASE Sleep
  BY <1>6 DEF Sleep
<1> QED
  BY <1>1, <1>2, <1>3, <1>4, <1>5, <1>6

\* And one of ps or doctor.
LEMMA InspectObserve == IInv /\ Inspect => IInv'
<1> SUFFICES ASSUME IInv, Inspect PROVE IInv'
  OBVIOUS
<1> USE ObserversAssumption, RegistryAssumption
<1> USE DEF IInv, FeedInv, LookInv, TypeOK, Prints, Machines, Following,
            registry, catalog, follower, looker, Inspect, Look, ReadsOf,
            ReadRows, ReadVms
<1>1. CASE LookFirst
  BY <1>1 DEF LookFirst
<1>2. CASE LookSecond
  BY <1>2 DEF LookSecond, Answer, PsAnswer, Reconcile, DoctorAnswer
<1> QED
  BY <1>1, <1>2

LEMMA StepObserve == IInv /\ [Next]_vars => IInv'
<1>1. IInv /\ UNCHANGED vars => IInv'
  BY DEF vars, registry, catalog, follower, looker, history, IInv, FeedInv, LookInv, TypeOK, Following
<1> QED
  BY <1>1, WriteObserve, FollowObserve, InspectObserve DEF Next

\* What an observer holds of the catalog stays true of it, whatever the other
\* commands do between its reads.
THEOREM Observed == Spec => []IInv
  BY InitObserve, StepObserve, PTL DEF Spec

\* watch --session and logs --follow show each event once, in order and none
\* twice, for any number of polls and deletions.
THEOREM FeedImplemented == Spec => ImplementsFeed
<1>1. Init => Feed!FeedInit
  BY DEF Init, Feed!FeedInit
<1>2. IInv /\ [Next]_vars => [Feed!FeedNext]_(Feed!feed)
  <2> SUFFICES ASSUME IInv, [Next]_vars PROVE [Feed!FeedNext]_(Feed!feed)
    OBVIOUS
  <2> USE RegistryAssumption
  <2> USE DEF IInv, FeedInv, TypeOK, Following, Feed!feed, Feed!FeedNext, registry,
              catalog, follower, looker, history
  <2>1. CASE UNCHANGED vars
    BY <2>1 DEF vars
  <2>2. CASE Write
    <3> USE DEF Write
    <3>1. CASE InsertRow
      BY <2>2, <3>1 DEF InsertRow, Insert, Feed!Appear
    <3>2. CASE WriteRow
      BY <2>2, <3>2 DEF WriteRow, WriteState
    <3>3. CASE WriteColumns
      BY <2>2, <3>3 DEF WriteColumns
    <3>4. CASE WriteEvent
      BY <2>2, <3>4 DEF WriteEvent, AppendEvent, NewId, Feed!Append
    <3>5. CASE WriteOutcome
      BY <2>2, <3>5, ObserversAssumption DEF WriteOutcome, AppendEvent, NewId, Feed!Append
    <3>6. CASE OtherEvent
      BY <2>2, <3>6 DEF OtherEvent
    <3>7. CASE ForgetRow
      BY <2>2, <3>7 DEF ForgetRow, Forget, Feed!Withdraw
    <3>8. CASE CloneMachine
      BY <2>2, <3>8 DEF CloneMachine, Clone
    <3>9. CASE ChangeMachine
      BY <2>2, <3>9 DEF ChangeMachine, Power, Delete
    <3> QED
      BY <2>2, <3>1, <3>2, <3>3, <3>4, <3>5, <3>6, <3>7, <3>8, <3>9
  <2>3. CASE Follow
    <3>1. CASE EmitEvent
      BY <2>3, <3>1 DEF Follow, EmitEvent, Feed!Show
    <3> QED
      BY <2>3, <3>1 DEF Follow, WatchStart, WatchPosition, WatchRows, FetchEvents, Sleep
  <2>4. CASE Inspect
    BY <2>4 DEF Inspect
  <2> QED
    BY <2>1, <2>2, <2>3, <2>4 DEF Next
<1> QED
  BY <1>1, <1>2, Observed, PTL DEF Spec, ImplementsFeed, Feed!FeedSpec

\* ps shows every session whose VM runs from its first read to its last.
THEOREM PsIsComplete == Spec => PsShowsWhatRuns
<1>1. IInv /\ [Next]_vars
      => (LookSecond /\ tool = "ps" /\ ran /\ machine = "running"
          /\ vmRead' # "unreadable" => answer' # "hidden")
  BY ObserversAssumption, RegistryAssumption
  DEF IInv, LookInv, LookSecond, Look, ReadsOf, ReadRows, ReadVms, Answer, PsAnswer, Reconcile
<1> QED
  BY <1>1, Observed, PTL DEF Spec, PsShowsWhatRuns

\* doctor never takes the VM of a launch under way for an orphan.
THEOREM DoctorIsFair == Spec => DoctorBlamesOnlyForgotten
<1>1. IInv /\ [Next]_vars
      => (LookSecond /\ answer' = "orphan" /\ rowRead' # "unreadable" => lost)
  BY ObserversAssumption, RegistryAssumption
  DEF IInv, FeedInv, LookInv, TypeOK, LookSecond, Look, ReadsOf, ReadRows, ReadVms,
      Answer, PsAnswer, Reconcile, DoctorAnswer
<1> QED
  BY <1>1, Observed, PTL DEF Spec, DoctorBlamesOnlyForgotten
=============================================================================
