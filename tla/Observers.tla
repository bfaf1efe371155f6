------------------------------ MODULE Observers ------------------------------
(***************************************************************************)
(* The commands that only look at a session while others change it: watch, *)
(* logs --follow, ps and doctor.  They hold no lock and no transaction     *)
(* over their reads; each read of the catalog or of `limactl list` is a    *)
(* step of its own.  They do not see each other, so one of them is running *)
(* here.  What they look at changes as SessionRegistry says; the rest of   *)
(* the row and the session's events are added to it.                       *)
(***************************************************************************)
EXTENDS SessionRegistry, Integers, FiniteSetsExt

CONSTANTS
    Tools,     \* the commands to run, out of watch, logs, ps and doctor
    Columns,   \* the sync and lock columns of a row
    Fresh,     \* the columns of a new row
    Active,    \* lifecycle states that ps shows without --all
    Stopped,   \* the lifecycle_state of a stopped session
    Running,   \* the lifecycle_state of a running session
    MaxEvents  \* bound: event ids ever given out

ASSUME ObserversAssumption ==
    /\ Tools \subseteq {"watch", "logs", "ps", "doctor"}
    /\ Fresh \in Columns
    /\ Running # Stopped /\ {Running, Stopped} \subseteq Lives \ {NoRow, Closed}
    /\ Active = Lives \ {NoRow, Closed, Stopped}
    /\ Lives \cap {"unread", "unreadable", "hidden", "orphan", "fine"} = {}
    /\ MaxEvents \in Nat

VARIABLES
    columns,  \* sync_state and the lock metadata of the row
    log,      \* ids of the session's rows in session_events
    seq,      \* sqlite_sequence: the last id AUTOINCREMENT gave out
    tool,     \* the command that runs
    pc,       \* its next step
    seen,     \* watch: the fingerprint it printed last
    lastId,   \* watch, logs: the last event it fetched or printed
    batch,    \* watch, logs: events fetched and not printed yet
    printed,  \* watch, logs: ids of events printed
    lines,    \* watch, logs: event lines printed
    rowRead,  \* ps, doctor: lifecycle_state read from the catalog
    vmRead,   \* ps, doctor: status read from `limactl list`
    answer,   \* ps, doctor: what it said of the session
    due,      \* history: events written since the command took its position,
              \* neither printed nor deleted
    ran,      \* history: the VM has been running since ps read the rows
    lost      \* history: a row was deleted after the last clone

catalog == <<columns, log, seq>>
follower == <<seen, lastId, batch, printed, lines>>
looker == <<rowRead, vmRead, answer>>
history == <<due, ran, lost>>
vars == <<registry, catalog, tool, pc, follower, looker, history>>

Prints == Lives \X Columns

\* The types of the row, of the command that looks at it and of the histories.
TypeOK ==
    /\ state \in Lives /\ machine \in Machines
    /\ columns \in Columns
    /\ seq \in 0..MaxEvents /\ lastId \in 0..MaxEvents
    /\ log \subseteq 1..MaxEvents /\ batch \subseteq 1..MaxEvents
    /\ printed \subseteq 1..MaxEvents /\ due \subseteq 1..MaxEvents
    /\ lines \in Nat
    /\ tool \in Tools
    /\ pc \in {"start", "position", "rows", "events", "emit", "first", "second"}
    /\ seen \in Prints
    /\ rowRead \in Lives \cup {"unread", "unreadable"}
    /\ vmRead \in Machines \cup {"unread", "unreadable"}
    /\ answer \in Lives \cup {"unread", "hidden", "orphan", "fine"}
    /\ ran \in BOOLEAN /\ lost \in BOOLEAN

FirstStep(t) ==
    CASE t = "watch" -> "start" [] t = "logs" -> "events" [] OTHER -> "first"

Init ==
    /\ RegistryInit
    /\ columns = Fresh /\ log = {} /\ seq = 0
    /\ tool \in Tools /\ pc = FirstStep(tool)
    /\ seen = <<NoRow, Fresh>> /\ lastId = 0 /\ batch = {} /\ printed = {} /\ lines = 0
    /\ rowRead = "unread" /\ vmRead = "unread" /\ answer = "unread"
    /\ due = {} /\ ran = FALSE /\ lost = FALSE

-------------------------------------------------------------------------------
(* The other commands *)

\* Mutant: ids without AUTOINCREMENT start again after the largest one left.
IdAfterLargest == Max(log \cup {0}) + 1

\* session_events.id
NewId == seq + 1

\* watch has taken its position in the log; logs starts with all of it.
Following == tool \in {"watch", "logs"} /\ pc \notin {"start", "position"}

\* append_event; its foreign key asks for the row.
AppendEvent ==
    /\ seq < MaxEvents
    /\ seq' = NewId
    /\ log' = log \cup {NewId}
    /\ due' = IF Following THEN due \cup {NewId} ELSE due

InsertRow ==
    /\ Insert
    /\ columns' = Fresh
    /\ UNCHANGED <<log, seq, due, lost>>

WriteRow ==
    /\ WriteState
    /\ UNCHANGED <<catalog, due, lost>>

\* set_lock_metadata, clear_lock_metadata, update_sync_state
WriteColumns ==
    /\ state # NoRow
    /\ columns' \in Columns
    /\ UNCHANGED <<registry, log, seq, due, lost>>

\* The events of close, repair and launch come after the write they speak of.
WriteEvent ==
    /\ state # NoRow
    /\ AppendEvent
    /\ UNCHANGED <<registry, columns, lost>>

\* record_sync_outcome: state, columns and event in one transaction.
WriteOutcome ==
    /\ state # NoRow
    /\ state' = Running
    /\ columns' \in Columns
    /\ AppendEvent
    /\ UNCHANGED <<machine, lost>>

\* An event of another session takes the next id.
OtherEvent ==
    /\ seq < MaxEvents
    /\ seq' = NewId
    /\ UNCHANGED <<registry, columns, log, due, lost>>

\* delete_session, with its ON DELETE CASCADE
ForgetRow ==
    /\ Forget
    /\ log' = {}
    /\ columns' = Fresh
    /\ due' = due \cap batch
    /\ lost' = TRUE
    /\ UNCHANGED seq

CloneMachine == Clone /\ lost' = FALSE /\ UNCHANGED <<catalog, due>>
ChangeMachine == (Power \/ Delete) /\ UNCHANGED <<catalog, due, lost>>

Write ==
    /\ \/ InsertRow \/ WriteRow \/ WriteColumns \/ WriteEvent \/ WriteOutcome
       \/ OtherEvent \/ ForgetRow \/ CloneMachine \/ ChangeMachine
    /\ ran' = (ran /\ machine' = "running" /\ state' # NoRow)
    /\ UNCHANGED <<tool, pc, follower, looker>>

-------------------------------------------------------------------------------
(* watch --session and logs --follow *)

\* Mutant: changes of the sync and lock columns alone are not noticed.
FingerprintOfState == <<state, Fresh>>

Fingerprint == <<state, columns>>

\* initial_watch_state reads the row, which must exist ...
WatchStart ==
    /\ tool = "watch" /\ pc = "start"
    /\ state # NoRow
    /\ seen' = Fingerprint
    /\ pc' = "position"
    /\ UNCHANGED <<lastId, batch, printed, lines, due>>

\* ... and then the largest id so far: what was written between the two reads
\* is in neither.
WatchPosition ==
    /\ pc = "position"
    /\ lastId' = Max(log \cup {0})
    /\ pc' = "rows"
    /\ UNCHANGED <<seen, batch, printed, lines, due>>

\* A session that is gone keeps its last fingerprint.
WatchRows ==
    /\ pc = "rows"
    /\ seen' = IF state = NoRow THEN seen ELSE Fingerprint
    /\ pc' = "events"
    /\ UNCHANGED <<lastId, batch, printed, lines, due>>

\* Mutant: the position moves to the first event of the batch.
FirstOf(ids) == IF ids = {} THEN lastId ELSE Min(ids)

\* events.last()
LastOf(ids) == IF ids = {} THEN lastId ELSE Max(ids)

\* list_events_since, or list_events and the skipping of ids up to last_id.
FetchEvents ==
    /\ pc = "events"
    /\ batch' = {e \in log : e > lastId}
    /\ lastId' = IF tool = "watch" THEN LastOf(batch') ELSE lastId
    /\ pc' = "emit"
    /\ UNCHANGED <<seen, printed, lines, due>>

\* One line after the other, in the order of the ids.
EmitEvent ==
    /\ pc = "emit" /\ batch # {}
    /\ \E e \in batch :
        /\ \A other \in batch : e <= other
        /\ batch' = batch \ {e}
        /\ printed' = printed \cup {e}
        /\ due' = due \ {e}
        /\ lastId' = IF tool = "watch" THEN lastId ELSE e
    /\ lines' = lines + 1
    /\ UNCHANGED <<pc, seen>>

\* The thread sleeps and polls again.
Sleep ==
    /\ pc = "emit" /\ batch = {}
    /\ pc' = IF tool = "watch" THEN "rows" ELSE "events"
    /\ UNCHANGED <<follower, due>>

Follow ==
    /\ WatchStart \/ WatchPosition \/ WatchRows \/ FetchEvents \/ EmitEvent \/ Sleep
    /\ UNCHANGED <<registry, catalog, tool, looker, ran, lost>>

-------------------------------------------------------------------------------
(* ps and doctor *)

\* ps reads the catalog before it asks Lima, doctor the other way round.
ReadsOf(t) == IF t = "ps" THEN <<"rows", "vms">> ELSE <<"vms", "rows">>

\* reconcile_lifecycle_state: only Running and Stopped yield to Lima.
Reconcile(row, vm) ==
    CASE row \in {Running, Stopped} /\ vm = "running" -> Running
      [] row \in {Running, Stopped} /\ vm = "stopped" -> Stopped
      [] OTHER -> row

\* Mutant: rows are filtered by what the catalog says.
PsFiltersFirst(row, vm) == IF row \in Active THEN Reconcile(row, vm) ELSE "hidden"

\* visible_sessions after reconcile_sessions_with_live_instances
PsAnswer(row, vm) ==
    IF Reconcile(row, vm) \in Active THEN Reconcile(row, vm) ELSE "hidden"

\* No row with this vm_name; a catalog that cannot be read has no rows.
DoctorAnswer(row, vm) ==
    IF vm \in {"stopped", "running"} /\ row \in {NoRow, "unreadable"}
    THEN "orphan" ELSE "fine"

Answer(row, vm) == IF tool = "ps" THEN PsAnswer(row, vm) ELSE DoctorAnswer(row, vm)

\* ps ends when the catalog cannot be read and goes on without Lima; doctor goes
\* on without the catalog and skips the sessions without Lima.
ReadRows ==
    \/ rowRead' = state
    \/ tool = "doctor" /\ rowRead' = "unreadable"

ReadVms ==
    \/ vmRead' = machine
    \/ vmRead' = "unreadable"

Look(i, from, to) ==
    /\ tool \in {"ps", "doctor"} /\ pc = from
    /\ \/ ReadsOf(tool)[i] = "rows" /\ ReadRows /\ UNCHANGED vmRead
       \/ ReadsOf(tool)[i] = "vms" /\ ReadVms /\ UNCHANGED rowRead
    /\ pc' = to

LookFirst ==
    /\ Look(1, "first", "second")
    /\ answer' = "unread"
    /\ ran' = (machine = "running" /\ state # NoRow)

LookSecond ==
    /\ Look(2, "second", "first")
    /\ answer' = Answer(rowRead', vmRead')
    /\ UNCHANGED ran

Inspect ==
    /\ LookFirst \/ LookSecond
    /\ UNCHANGED <<registry, catalog, tool, follower, due, lost>>

-------------------------------------------------------------------------------
Next == Write \/ Follow \/ Inspect

Spec == Init /\ [][Next]_vars

\* A command that polls goes on polling until it is interrupted.
FairSpec == Spec /\ WF_vars(Follow)

-------------------------------------------------------------------------------
(* Properties *)

\* Half of the inductive invariant: what is due is what was fetched and what is in the
\* log beyond the position, and everything printed is older than all of it.
FeedInv ==
    /\ TypeOK
    /\ state = NoRow => log = {}
    /\ state = Closed => machine = "absent"
    /\ \A e \in log \cup batch \cup printed : e <= seq
    /\ lastId <= seq
    /\ ~Following => due = {} /\ batch = {} /\ printed = {}
    /\ Following => due = batch \cup {e \in log : e > lastId}
    /\ tool = "watch" => \A e \in batch : e <= lastId
    /\ tool = "logs" => pc \in {"events", "emit"} /\ \A e \in batch : e > lastId
    /\ \A e \in printed : e <= lastId /\ \A d \in due : e < d
    /\ \A e \in batch, d \in due \ batch : e < d
    /\ pc # "emit" => batch = {}

\* A VM without a row, now or when doctor saw it, lost the row after its clone;
\* a row that ps read while its VM ran is no closed one.
LookInv ==
    /\ state = NoRow /\ machine # "absent" => lost
    /\ tool = "doctor" /\ pc = "second" /\ state = NoRow
       /\ vmRead \in {"stopped", "running"} => lost
    /\ tool = "ps" /\ pc = "second" /\ ran => rowRead \in Lives \ {NoRow, Closed}
    /\ tool = "watch" => pc \in {"start", "position", "rows", "events", "emit"}
    /\ tool \in {"ps", "doctor"} => pc \in {"first", "second"}

IInv == FeedInv /\ LookInv

\* watch and logs --follow show every event once and in order, whatever is
\* written between two polls, and whatever is deleted (watch.rs, logs.rs).
Feed == INSTANCE EventFeed
        WITH session <- (state # NoRow), pending <- due, shown <- printed,
             lines <- lines

ImplementsFeed == Feed!FeedSpec

\* An event written after the command took its position is shown, or goes away
\* with its session.
EveryEventShown == \A e \in 1..MaxEvents : (e \in due) ~> (e \notin due)

\* Once a row is left alone, the last snapshot watch printed is that row, in its
\* sync and lock columns too.
WatchCatchesUp ==
    tool = "watch" =>
        \A s \in Lives \ {NoRow}, c \in Columns :
            <>[](pc # "start" /\ state = s /\ columns = c) => <>[](seen = <<s, c>>)

\* ps does not hide a session whose VM runs all the time ps looks, though the
\* catalog may call it stopped and other commands go on writing.
PsShowsWhatRuns ==
    [][LookSecond /\ tool = "ps" /\ ran /\ machine = "running"
       /\ vmRead' # "unreadable" => answer' # "hidden"]_vars

\* doctor calls a VM orphaned only if the row of its last clone was deleted:
\* never a VM that a launch has just cloned.
DoctorBlamesOnlyForgotten ==
    [][LookSecond /\ answer' = "orphan" /\ rowRead' # "unreadable" => lost]_vars
=============================================================================
