---------------------------- MODULE CommandRunner ----------------------------
(***************************************************************************)
(* run_bounded, by which agbranch runs limactl, git and tar: one call after*)
(* the other, each with the thread that waits, one that reads stdout, one  *)
(* that reads stderr, one that writes stdin, the command and what it has   *)
(* started itself.  The interrupt flag outlives the call.                  *)
(***************************************************************************)
EXTENDS Naturals

CONSTANTS
    Child,          \* the command
    Helpers,        \* processes it may start
    Escaped,        \* those that leave its process group
    PipeSize,       \* bound: what a pipe holds
    CaptureLimit,   \* capture_limit
    MaxOutput,      \* bound: what is written to a stream
    MaxInput,       \* bound: what is written to stdin
    MaxInterrupts   \* bound: times the user presses Ctrl-C

ASSUME CommandRunnerAssumption ==
    /\ Escaped \subseteq Helpers /\ Child \notin Helpers
    /\ PipeSize \in Nat \ {0} /\ CaptureLimit \in Nat
    /\ MaxOutput \in Nat /\ MaxInput \in Nat /\ MaxInterrupts \in Nat

Streams == {"stdout", "stderr"}
Family == {Child} \cup Helpers
Group == Family \ Escaped

VARIABLES
    main,       \* next step of the calling thread
    cause,      \* why the wait ended
    result,     \* what the last call returned
    alive,      \* the processes of the call that run
    status,     \* how the command ended
    holders,    \* per stream: processes that may write to it
    pipe,       \* per stream: what is in it
    written,    \* per stream: what was ever written to it
    captured,   \* per stream: what its reader has kept
    overflow,   \* per stream: its reader has dropped something
    reader,     \* per stream: its thread
    listeners,  \* processes that may read stdin
    stdin,      \* what is in its pipe
    input,      \* what is still to be written to it
    writer,     \* its thread
    flag,       \* INTERRUPTED
    expired,    \* the deadline has passed
    pressed,    \* history: times the user has pressed Ctrl-C
    stopped     \* history: calls that an interrupt has ended

processes == <<alive, status>>
output == <<holders, pipe, written, captured, overflow, reader>>
feeding == <<listeners, stdin, input, writer>>
signals == <<flag, expired, pressed, stopped>>
runnerVars == <<main, cause, result, processes, output, feeding, signals>>

RunnerTypeOK ==
    /\ main \in {"idle", "check", "wait", "reap", "join_in", "join_out", "join_err",
                 "judge"}
    /\ cause \in {"none", "exit", "interrupt", "timeout"}
    /\ result \in {"none", "ok", "failed", "interrupted", "timeout", "limit", "broken"}
    /\ alive \subseteq Family
    /\ status \in {"none", "zero", "nonzero", "killed"}
    /\ holders \in [Streams -> SUBSET Family]
    /\ pipe \in [Streams -> 0..PipeSize] /\ written \in [Streams -> Nat]
    /\ captured \in [Streams -> 0..CaptureLimit]
    /\ overflow \in [Streams -> BOOLEAN]
    /\ reader \in [Streams -> {"read", "done"}]
    /\ listeners \subseteq Family /\ stdin \in 0..PipeSize /\ input \in 0..MaxInput
    /\ writer \in {"write", "done", "broken"}
    /\ flag \in BOOLEAN /\ expired \in BOOLEAN
    /\ pressed \in 0..MaxInterrupts /\ stopped \in Nat

All(v) == [s \in Streams |-> v]

RunnerInit ==
    /\ main = "idle" /\ cause = "none" /\ result = "none"
    /\ alive = {} /\ status = "none"
    /\ holders = All({}) /\ pipe = All(0) /\ written = All(0)
    /\ captured = All(0) /\ overflow = All(FALSE) /\ reader = All("done")
    /\ listeners = {} /\ stdin = 0 /\ input = 0 /\ writer = "done"
    /\ flag = FALSE /\ expired = FALSE /\ pressed = 0 /\ stopped = 0

-------------------------------------------------------------------------------
(* The calling thread *)

\* Spawns the command and the three threads; without input there is no writer.
\* What the last call left running is out of its hands.
Call ==
    /\ main = "idle" /\ main' = "check"
    /\ cause' = "none" /\ result' = "none"
    /\ alive' = {Child} /\ status' = "none"
    /\ holders' = All({Child}) /\ pipe' = All(0) /\ written' = All(0)
    /\ captured' = All(0) /\ overflow' = All(FALSE) /\ reader' = All("read")
    /\ \/ writer' = "done" /\ input' = 0 /\ listeners' = {}
       \/ writer' = "write" /\ input' \in 0..MaxInput /\ listeners' = {Child}
    /\ stdin' = 0
    /\ expired' = FALSE
    /\ UNCHANGED <<flag, pressed, stopped>>

\* Processes that die leave their pipes.
Dies(ps) ==
    /\ alive' = alive \ ps
    /\ holders' = [s \in Streams |-> holders[s] \ ps]
    /\ listeners' = listeners \ ps

\* Mutant: only the command itself is killed.
TerminateChild ==
    /\ Dies({Child})
    /\ status' = IF status = "none" THEN "killed" ELSE status

\* terminate_child_tree: SIGKILL to the process group.
Terminate ==
    /\ Dies(Group)
    /\ status' = IF status = "none" THEN "killed" ELSE status

\* Mutant: the flag is read and left set.
LeaveInterrupt == UNCHANGED flag

\* take_interrupt swaps the flag.
TakeInterrupt == flag' = FALSE

Interrupted ==
    /\ main = "check" /\ flag
    /\ TakeInterrupt
    /\ Terminate
    /\ cause' = "interrupt" /\ main' = "reap"
    /\ stopped' = stopped + 1
    /\ UNCHANGED <<result, pipe, written, captured, overflow, reader, stdin, input,
                   writer, expired, pressed>>

\* Mutant: the command is left to end by itself.
TimedOutUnkilled ==
    /\ main = "check" /\ ~flag /\ expired
    /\ cause' = "timeout" /\ main' = "reap"
    /\ UNCHANGED <<result, processes, output, feeding, signals>>

TimedOut ==
    /\ main = "check" /\ ~flag /\ expired
    /\ Terminate
    /\ cause' = "timeout" /\ main' = "reap"
    /\ UNCHANGED <<result, pipe, written, captured, overflow, reader, stdin, input,
                   writer, signals>>

Check ==
    /\ main = "check" /\ ~flag /\ ~expired
    /\ main' = "wait"
    /\ UNCHANGED <<cause, result, processes, output, feeding, signals>>

\* wait_timeout: 100 ms, or until the command has ended.
Wait ==
    /\ main = "wait"
    /\ IF Child \in alive
       THEN main' = "check" /\ UNCHANGED cause
       ELSE main' = "join_in" /\ cause' = "exit"
    /\ UNCHANGED <<result, processes, output, feeding, signals>>

\* child.wait() after the kill
Reap ==
    /\ main = "reap" /\ Child \notin alive
    /\ main' = "join_in"
    /\ UNCHANGED <<cause, result, processes, output, feeding, signals>>

\* A write error is returned at once, whatever ended the wait; the readers go on.
JoinWriter ==
    /\ main = "join_in" /\ writer # "write"
    /\ IF writer = "broken"
       THEN main' = "idle" /\ result' = "broken"
       ELSE main' = "join_out" /\ UNCHANGED result
    /\ UNCHANGED <<cause, processes, output, feeding, signals>>

JoinReader(s, from, to) ==
    /\ main = from /\ reader[s] = "done"
    /\ main' = to
    /\ UNCHANGED <<cause, result, processes, output, feeding, signals>>

\* Mutant: the reader of stderr is not waited for.
JoinStdoutOnly ==
    \/ JoinReader("stdout", "join_out", "join_err")
    \/ /\ main = "join_err" /\ main' = "judge"
       /\ UNCHANGED <<cause, result, processes, output, feeding, signals>>

JoinReaders ==
    \/ JoinReader("stdout", "join_out", "join_err")
    \/ JoinReader("stderr", "join_err", "judge")

\* Output that is no UTF-8 fails like a nonzero status.
Judgement ==
    CASE cause = "interrupt" -> {"interrupted"}
      [] cause = "timeout" -> {"timeout"}
      [] cause = "exit" /\ (\E s \in Streams : overflow[s]) -> {"limit"}
      [] cause = "exit" /\ (\A s \in Streams : ~overflow[s]) ->
             IF status = "zero" THEN {"ok", "failed"} ELSE {"failed"}

Judge ==
    /\ main = "judge" /\ main' = "idle"
    /\ result' \in Judgement
    /\ UNCHANGED <<cause, processes, output, feeding, signals>>

-------------------------------------------------------------------------------
(* The other threads *)

Keep(s) ==
    IF captured[s] < CaptureLimit
    THEN captured' = [captured EXCEPT ![s] = @ + 1] /\ UNCHANGED overflow
    ELSE overflow' = [overflow EXCEPT ![s] = TRUE] /\ UNCHANGED captured

\* read_capped goes on reading past its limit.
Read(s) ==
    /\ reader[s] = "read" /\ pipe[s] > 0
    /\ pipe' = [pipe EXCEPT ![s] = @ - 1]
    /\ Keep(s)
    /\ UNCHANGED <<main, cause, result, processes, holders, written, reader, feeding,
                   signals>>

\* The end of the stream comes when nobody may write to it any more.
ReadEnd(s) ==
    /\ reader[s] = "read" /\ pipe[s] = 0 /\ holders[s] = {}
    /\ reader' = [reader EXCEPT ![s] = "done"]
    /\ UNCHANGED <<main, cause, result, processes, holders, pipe, written, captured,
                   overflow, feeding, signals>>

\* EPIPE when nobody may read it any more.
WriteInput ==
    /\ writer = "write"
    /\ \/ input = 0 /\ writer' = "done" /\ UNCHANGED <<stdin, input>>
       \/ input > 0 /\ listeners = {} /\ writer' = "broken" /\ UNCHANGED <<stdin, input>>
       \/ /\ input > 0 /\ listeners # {} /\ stdin < PipeSize
          /\ stdin' = stdin + 1 /\ input' = input - 1 /\ UNCHANGED writer
    /\ UNCHANGED <<main, cause, result, processes, output, listeners, signals>>

-------------------------------------------------------------------------------
(* The command and what it starts *)

Write(q, s) ==
    /\ q \in holders[s] /\ pipe[s] < PipeSize /\ written[s] < MaxOutput
    /\ pipe' = [pipe EXCEPT ![s] = @ + 1]
    /\ written' = [written EXCEPT ![s] = @ + 1]
    /\ UNCHANGED <<main, cause, result, processes, holders, captured, overflow, reader,
                   feeding, signals>>

ReadInput ==
    /\ listeners # {} /\ stdin > 0
    /\ stdin' = stdin - 1
    /\ UNCHANGED <<main, cause, result, processes, output, listeners, input, writer,
                   signals>>

\* A helper inherits what the command has open.
StartHelper(h) ==
    /\ Child \in alive /\ h \notin alive
    /\ alive' = alive \cup {h}
    /\ holders' = [s \in Streams |-> IF Child \in holders[s] THEN holders[s] \cup {h}
                                                            ELSE holders[s]]
    /\ listeners' = IF Child \in listeners THEN listeners \cup {h} ELSE listeners
    /\ UNCHANGED <<main, cause, result, status, pipe, written, captured, overflow,
                   reader, stdin, input, writer, signals>>

\* What a daemon does: it goes on with its pipes closed.
Detach(q) ==
    /\ q \in alive
    /\ holders' = [s \in Streams |-> holders[s] \ {q}]
    /\ listeners' = listeners \ {q}
    /\ UNCHANGED <<main, cause, result, processes, pipe, written, captured, overflow,
                   reader, stdin, input, writer, signals>>

End(q) ==
    /\ q \in alive
    /\ Dies({q})
    /\ IF q = Child THEN status' \in {"zero", "nonzero"} ELSE UNCHANGED status
    /\ UNCHANGED <<main, cause, result, pipe, written, captured, overflow, reader, stdin,
                   input, writer, signals>>

-------------------------------------------------------------------------------
(* The user and the clock *)

PressCtrlC ==
    /\ pressed < MaxInterrupts
    /\ pressed' = pressed + 1 /\ flag' = TRUE
    /\ UNCHANGED <<main, cause, result, processes, output, feeding, expired, stopped>>

DeadlinePasses ==
    /\ main \in {"check", "wait"} /\ ~expired
    /\ expired' = TRUE
    /\ UNCHANGED <<main, cause, result, processes, output, feeding, flag, pressed,
                   stopped>>

-------------------------------------------------------------------------------
MainStep ==
    \/ Interrupted \/ TimedOut \/ Check \/ Wait \/ Reap \/ JoinWriter \/ JoinReaders
    \/ Judge

ReaderStep(s) == Read(s) \/ ReadEnd(s)

CommandStep ==
    \/ \E q \in Family, s \in Streams : Write(q, s)
    \/ ReadInput
    \/ \E h \in Helpers : StartHelper(h)
    \/ \E q \in Family : Detach(q) \/ End(q)

RunnerNext ==
    \/ Call \/ MainStep \/ WriteInput
    \/ \E s \in Streams : ReaderStep(s)
    \/ CommandStep \/ PressCtrlC \/ DeadlinePasses

RunnerSpec == RunnerInit /\ [][RunnerNext]_runnerVars

-------------------------------------------------------------------------------
(* Properties *)

\* A call that succeeds returns everything the command and its helpers ever wrote.
OkIsComplete ==
    result = "ok" => /\ status = "zero"
                     /\ \A s \in Streams : captured[s] = written[s] /\ holders[s] = {}

\* Of a command that was interrupted or took too long nothing goes on, but for
\* what left its process group.
KilledIsGone ==
    result \in {"interrupted", "timeout"} => alive \subseteq Escaped

\* An interrupt ends one call and no more: the calls that clean up afterwards run.
OneCallPerInterrupt == stopped + (IF flag THEN 1 ELSE 0) <= pressed

\* Nobody is stuck on a full pipe: its reader goes on past the capture limit.
PipesAreDrained ==
    \A s \in Streams : holders[s] # {} /\ pipe[s] = PipeSize => reader[s] = "read"

\* The threads run, time passes, and what the command has started, the command
\* excepted, ends or closes its pipes.
FairSpec ==
    /\ RunnerSpec
    /\ WF_runnerVars(MainStep) /\ WF_runnerVars(WriteInput)
    /\ WF_runnerVars(DeadlinePasses)
    /\ \A s \in Streams : WF_runnerVars(ReaderStep(s))
    /\ \A h \in Helpers : WF_runnerVars(Detach(h))

\* Every call returns, though the command may never end, never read its input
\* and write more than is kept.
CallReturns == main # "idle" ~> main = "idle"

-------------------------------------------------------------------------------
(* The inductive invariant *)

CaptureInv ==
    \A s \in Streams :
        /\ ~overflow[s] => captured[s] + pipe[s] = written[s]
        /\ reader[s] = "done" => pipe[s] = 0 /\ holders[s] = {}

CallInv ==
    /\ main \in {"check", "wait", "reap"} \/ Child \notin alive
    /\ status = "none" => Child \in alive \/ main = "idle"
    /\ main # "idle" => result = "none"
    /\ main \in {"reap", "join_in", "join_out", "join_err", "judge"} => cause # "none"
    /\ result = "ok" => \A s \in Streams : reader[s] = "done"
    /\ main = "reap" \/ (main # "idle" /\ cause \in {"interrupt", "timeout"}) =>
           cause # "exit" /\ alive \subseteq Escaped
    /\ main \in {"join_err", "judge"} => reader["stdout"] = "done"
    /\ main = "judge" => reader["stderr"] = "done"

RunnerIInv ==
    /\ RunnerTypeOK /\ CaptureInv /\ CallInv
    /\ OkIsComplete /\ KilledIsGone /\ OneCallPerInterrupt
=============================================================================
