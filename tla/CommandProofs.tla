----------------------------- MODULE CommandProofs -----------------------------
(***************************************************************************)
(* The processes agbranch runs and the guest it reaches into.              *)
(* CommandRunner for any helpers, pipe size, capture limit and number of   *)
(* interrupts; GuestAccess, with its PublishedPorts, for any arguments of  *)
(* --publish, services and number of calls: what a call promises follows   *)
(* from an inductive invariant of each.                                    *)
(***************************************************************************)
EXTENDS CommandRunner, GuestAccess, FiniteSetTheorems, WellFoundedInduction, TLAPS

-------------------------------------------------------------------------------
(* CommandRunner *)

\* Every step keeps the variables in their types.
LEMMA TypeStep ==
    ASSUME RunnerIInv, [RunnerNext]_runnerVars
    PROVE  RunnerTypeOK'
<1>. USE CommandRunnerAssumption DEF RunnerIInv, RunnerTypeOK, Family
<1>1. ASSUME Call PROVE RunnerTypeOK'
  <2>1. All({Child}) \in [Streams -> SUBSET Family] /\ All(0) \in [Streams -> 0..PipeSize]
    BY DEF All
  <2>2. All(0) \in [Streams -> Nat] /\ All(0) \in [Streams -> 0..CaptureLimit]
    BY DEF All
  <2>3. All(FALSE) \in [Streams -> BOOLEAN] /\ All("read") \in [Streams -> {"read", "done"}]
    BY DEF All
  <2>4. stdin' \in 0..PipeSize /\ input' \in 0..MaxInput /\ listeners' \subseteq Family
        /\ writer' \in {"write", "done", "broken"}
    BY <1>1 DEF Call
  <2>. QED
    BY <1>1, <2>1, <2>2, <2>3, <2>4 DEF Call, signals
<1>2. ASSUME Interrupted PROVE RunnerTypeOK'
  <2>1. holders' \in [Streams -> SUBSET Family]
    BY <1>2 DEF Interrupted, Terminate, Dies, Group
  <2>2. alive' \subseteq Family /\ listeners' \subseteq Family
    BY <1>2 DEF Interrupted, Terminate, Dies, Group
  <2>3. status' \in {"none", "zero", "nonzero", "killed"}
    BY <1>2 DEF Interrupted, Terminate
  <2>4. flag' \in BOOLEAN /\ stopped' \in Nat
    <3>1. flag' = FALSE
      BY <1>2 DEF Interrupted, TakeInterrupt
    <3>2. stopped' \in Nat
      BY <1>2 DEF Interrupted
    <3>. QED
      BY <3>1, <3>2
  <2>5. main' \in {"idle", "check", "wait", "reap", "join_in", "join_out", "join_err",
                  "judge"} /\ cause' \in {"none", "exit", "interrupt", "timeout"}
    BY <1>2 DEF Interrupted
  <2>6. UNCHANGED <<result, pipe, written, captured, overflow, reader, stdin, input,
                    writer, expired, pressed>>
    BY <1>2 DEF Interrupted
  <2>. QED
    BY <2>1, <2>2, <2>3, <2>4, <2>5, <2>6
<1>3. ASSUME TimedOut PROVE RunnerTypeOK'
  BY <1>3 DEF TimedOut, Terminate, Dies, Group, processes, output, feeding, signals
<1>4. ASSUME Check PROVE RunnerTypeOK'
  BY <1>4 DEF Check, processes, output, feeding, signals
<1>5. ASSUME Wait PROVE RunnerTypeOK'
  BY <1>5 DEF Wait, processes, output, feeding, signals
<1>6. ASSUME Reap PROVE RunnerTypeOK'
  BY <1>6 DEF Reap, processes, output, feeding, signals
<1>7. ASSUME JoinWriter PROVE RunnerTypeOK'
  BY <1>7 DEF JoinWriter, processes, output, feeding, signals
<1>8. ASSUME JoinReader("stdout", "join_out", "join_err") PROVE RunnerTypeOK'
  BY <1>8 DEF JoinReader, processes, output, feeding, signals
<1>9. ASSUME JoinReader("stderr", "join_err", "judge") PROVE RunnerTypeOK'
  BY <1>9 DEF JoinReader, processes, output, feeding, signals
<1>10. ASSUME Judge PROVE RunnerTypeOK'
  <2>1. cause \in {"exit", "interrupt", "timeout"}
    BY <1>10 DEF Judge, CallInv
  <2>2. result' \in {"ok", "failed", "interrupted", "timeout", "limit"}
    BY <1>10, <2>1 DEF Judge, Judgement
  <2>. QED
    BY <1>10, <2>2 DEF Judge, processes, output, feeding, signals
<1>11. ASSUME NEW s \in Streams, Read(s) PROVE RunnerTypeOK'
  <2>1. pipe' \in [Streams -> 0..PipeSize]
    <3>1. pipe[s] \in 0..PipeSize /\ pipe[s] > 0
      BY <1>11 DEF Read
    <3>2. pipe[s] - 1 \in 0..PipeSize
      BY <3>1
    <3>. QED
      BY <1>11, <3>2 DEF Read
  <2>2. captured' \in [Streams -> 0..CaptureLimit] /\ overflow' \in [Streams -> BOOLEAN]
    <3>1. captured[s] < CaptureLimit => captured[s] + 1 \in 0..CaptureLimit
      OBVIOUS
    <3>. QED
      BY <1>11, <3>1 DEF Read, Keep
  <2>. QED
    BY <1>11, <2>1, <2>2 DEF Read, processes, feeding, signals
<1>12. ASSUME NEW s \in Streams, ReadEnd(s) PROVE RunnerTypeOK'
  BY <1>12 DEF ReadEnd, processes, output, feeding, signals
<1>13. ASSUME WriteInput PROVE RunnerTypeOK'
  BY <1>13 DEF WriteInput, processes, output, feeding, signals
<1>14. ASSUME NEW q \in Family, NEW s \in Streams, Write(q, s) PROVE RunnerTypeOK'
  BY <1>14 DEF Write, processes, output, feeding, signals
<1>15. ASSUME ReadInput PROVE RunnerTypeOK'
  BY <1>15 DEF ReadInput, processes, output, feeding, signals
<1>16. ASSUME NEW h \in Helpers, StartHelper(h) PROVE RunnerTypeOK'
  BY <1>16 DEF StartHelper, processes, output, feeding, signals
<1>17. ASSUME NEW q \in Family, Detach(q) PROVE RunnerTypeOK'
  BY <1>17 DEF Detach, processes, output, feeding, signals
<1>18. ASSUME NEW q \in Family, End(q) PROVE RunnerTypeOK'
  BY <1>18 DEF End, Dies, processes, output, feeding, signals
<1>19. ASSUME PressCtrlC PROVE RunnerTypeOK'
  BY <1>19 DEF PressCtrlC, processes, output, feeding, signals
<1>20. ASSUME DeadlinePasses PROVE RunnerTypeOK'
  BY <1>20 DEF DeadlinePasses, processes, output, feeding, signals
<1>21. ASSUME UNCHANGED runnerVars PROVE RunnerTypeOK'
  BY <1>21 DEF runnerVars, processes, output, feeding, signals
<1>. QED
  BY <1>1, <1>2, <1>3, <1>4, <1>5, <1>6, <1>7, <1>8, <1>9, <1>10, <1>11, <1>12, <1>13,
     <1>14, <1>15, <1>16, <1>17, <1>18, <1>19, <1>20, <1>21
  DEF RunnerNext, MainStep, JoinReaders, ReaderStep, CommandStep

\* Every step keeps account of what was written.
LEMMA CaptureStep ==
    ASSUME RunnerIInv, [RunnerNext]_runnerVars
    PROVE  CaptureInv'
<1>. USE CommandRunnerAssumption DEF RunnerIInv, RunnerTypeOK, CaptureInv, Family
<1>1. ASSUME Call PROVE CaptureInv'
  BY <1>1 DEF Call, All, processes, output, feeding, signals
<1>2. ASSUME Interrupted PROVE CaptureInv'
  BY <1>2 DEF Interrupted, TakeInterrupt, Terminate, Dies, Group, processes, output,
         feeding, signals
<1>3. ASSUME TimedOut PROVE CaptureInv'
  BY <1>3 DEF TimedOut, Terminate, Dies, Group, processes, output, feeding, signals
<1>4. ASSUME Check PROVE CaptureInv'
  BY <1>4 DEF Check, processes, output, feeding, signals
<1>5. ASSUME Wait PROVE CaptureInv'
  BY <1>5 DEF Wait, processes, output, feeding, signals
<1>6. ASSUME Reap PROVE CaptureInv'
  BY <1>6 DEF Reap, processes, output, feeding, signals
<1>7. ASSUME JoinWriter PROVE CaptureInv'
  BY <1>7 DEF JoinWriter, processes, output, feeding, signals
<1>8. ASSUME JoinReader("stdout", "join_out", "join_err") PROVE CaptureInv'
  BY <1>8 DEF JoinReader, processes, output, feeding, signals
<1>9. ASSUME JoinReader("stderr", "join_err", "judge") PROVE CaptureInv'
  BY <1>9 DEF JoinReader, processes, output, feeding, signals
<1>10. ASSUME Judge PROVE CaptureInv'
  BY <1>10 DEF Judge, Judgement, processes, output, feeding, signals
<1>11. ASSUME NEW s \in Streams, Read(s) PROVE CaptureInv'
  BY <1>11 DEF Read, Keep, processes, output, feeding, signals
<1>12. ASSUME NEW s \in Streams, ReadEnd(s) PROVE CaptureInv'
  BY <1>12 DEF ReadEnd, processes, output, feeding, signals
<1>13. ASSUME WriteInput PROVE CaptureInv'
  BY <1>13 DEF WriteInput, processes, output, feeding, signals
<1>14. ASSUME NEW q \in Family, NEW s \in Streams, Write(q, s) PROVE CaptureInv'
  BY <1>14 DEF Write, processes, output, feeding, signals
<1>15. ASSUME ReadInput PROVE CaptureInv'
  BY <1>15 DEF ReadInput, processes, output, feeding, signals
<1>16. ASSUME NEW h \in Helpers, StartHelper(h) PROVE CaptureInv'
  BY <1>16 DEF StartHelper, processes, output, feeding, signals
<1>17. ASSUME NEW q \in Family, Detach(q) PROVE CaptureInv'
  BY <1>17 DEF Detach, processes, output, feeding, signals
<1>18. ASSUME NEW q \in Family, End(q) PROVE CaptureInv'
  BY <1>18 DEF End, Dies, processes, output, feeding, signals
<1>19. ASSUME PressCtrlC PROVE CaptureInv'
  BY <1>19 DEF PressCtrlC, processes, output, feeding, signals
<1>20. ASSUME DeadlinePasses PROVE CaptureInv'
  BY <1>20 DEF DeadlinePasses, processes, output, feeding, signals
<1>21. ASSUME UNCHANGED runnerVars PROVE CaptureInv'
  BY <1>21 DEF runnerVars, processes, output, feeding, signals
<1>. QED
  BY <1>1, <1>2, <1>3, <1>4, <1>5, <1>6, <1>7, <1>8, <1>9, <1>10, <1>11, <1>12, <1>13,
     <1>14, <1>15, <1>16, <1>17, <1>18, <1>19, <1>20, <1>21
  DEF RunnerNext, MainStep, JoinReaders, ReaderStep, CommandStep

\* Every step keeps the call's bookkeeping.
LEMMA CallStep ==
    ASSUME RunnerIInv, [RunnerNext]_runnerVars
    PROVE  CallInv'
<1>. USE CommandRunnerAssumption DEF RunnerIInv, RunnerTypeOK, CallInv,
                                       Family, Streams
<1>1. ASSUME Call PROVE CallInv'
  BY <1>1 DEF Call, All, processes, output, feeding, signals
<1>2. ASSUME Interrupted PROVE CallInv'
  BY <1>2 DEF Interrupted, TakeInterrupt, Terminate, Dies, Group, processes, output,
         feeding, signals
<1>3. ASSUME TimedOut PROVE CallInv'
  BY <1>3 DEF TimedOut, Terminate, Dies, Group, processes, output, feeding, signals
<1>4. ASSUME Check PROVE CallInv'
  BY <1>4 DEF Check, processes, output, feeding, signals
<1>5. ASSUME Wait PROVE CallInv'
  BY <1>5 DEF Wait, processes, output, feeding, signals
<1>6. ASSUME Reap PROVE CallInv'
  BY <1>6 DEF Reap, processes, output, feeding, signals
<1>7. ASSUME JoinWriter PROVE CallInv'
  BY <1>7 DEF JoinWriter, processes, output, feeding, signals
<1>8. ASSUME JoinReader("stdout", "join_out", "join_err") PROVE CallInv'
  BY <1>8 DEF JoinReader, processes, output, feeding, signals
<1>9. ASSUME JoinReader("stderr", "join_err", "judge") PROVE CallInv'
  BY <1>9 DEF JoinReader, processes, output, feeding, signals
<1>10. ASSUME Judge PROVE CallInv'
  BY <1>10 DEF Judge, Judgement, processes, output, feeding, signals
<1>11. ASSUME NEW s \in Streams, Read(s) PROVE CallInv'
  BY <1>11 DEF Read, Keep, processes, output, feeding, signals
<1>12. ASSUME NEW s \in Streams, ReadEnd(s) PROVE CallInv'
  BY <1>12 DEF ReadEnd, processes, output, feeding, signals
<1>13. ASSUME WriteInput PROVE CallInv'
  BY <1>13 DEF WriteInput, processes, output, feeding, signals
<1>14. ASSUME NEW q \in Family, NEW s \in Streams, Write(q, s) PROVE CallInv'
  BY <1>14 DEF Write, processes, output, feeding, signals
<1>15. ASSUME ReadInput PROVE CallInv'
  BY <1>15 DEF ReadInput, processes, output, feeding, signals
<1>16. ASSUME NEW h \in Helpers, StartHelper(h) PROVE CallInv'
  BY <1>16 DEF StartHelper, processes, output, feeding, signals
<1>17. ASSUME NEW q \in Family, Detach(q) PROVE CallInv'
  BY <1>17 DEF Detach, processes, output, feeding, signals
<1>18. ASSUME NEW q \in Family, End(q) PROVE CallInv'
  BY <1>18 DEF End, Dies, processes, output, feeding, signals
<1>19. ASSUME PressCtrlC PROVE CallInv'
  BY <1>19 DEF PressCtrlC, processes, output, feeding, signals
<1>20. ASSUME DeadlinePasses PROVE CallInv'
  BY <1>20 DEF DeadlinePasses, processes, output, feeding, signals
<1>21. ASSUME UNCHANGED runnerVars PROVE CallInv'
  BY <1>21 DEF runnerVars, processes, output, feeding, signals
<1>. QED
  BY <1>1, <1>2, <1>3, <1>4, <1>5, <1>6, <1>7, <1>8, <1>9, <1>10, <1>11, <1>12, <1>13,
     <1>14, <1>15, <1>16, <1>17, <1>18, <1>19, <1>20, <1>21
  DEF RunnerNext, MainStep, JoinReaders, ReaderStep, CommandStep

\* No step makes a success incomplete.
LEMMA OkStep ==
    ASSUME RunnerIInv, [RunnerNext]_runnerVars
    PROVE  OkIsComplete'
<1>. USE CommandRunnerAssumption DEF RunnerIInv, RunnerTypeOK, CaptureInv, CallInv,
                                       OkIsComplete, Family, Streams
<1>1. ASSUME Call PROVE OkIsComplete'
  BY <1>1 DEF Call, All, processes, output, feeding, signals
<1>2. ASSUME Interrupted PROVE OkIsComplete'
  BY <1>2 DEF Interrupted, TakeInterrupt, Terminate, Dies, Group, processes, output,
         feeding, signals
<1>3. ASSUME TimedOut PROVE OkIsComplete'
  BY <1>3 DEF TimedOut, Terminate, Dies, Group, processes, output, feeding, signals
<1>4. ASSUME Check PROVE OkIsComplete'
  BY <1>4 DEF Check, processes, output, feeding, signals
<1>5. ASSUME Wait PROVE OkIsComplete'
  BY <1>5 DEF Wait, processes, output, feeding, signals
<1>6. ASSUME Reap PROVE OkIsComplete'
  BY <1>6 DEF Reap, processes, output, feeding, signals
<1>7. ASSUME JoinWriter PROVE OkIsComplete'
  BY <1>7 DEF JoinWriter, processes, output, feeding, signals
<1>8. ASSUME JoinReader("stdout", "join_out", "join_err") PROVE OkIsComplete'
  BY <1>8 DEF JoinReader, processes, output, feeding, signals
<1>9. ASSUME JoinReader("stderr", "join_err", "judge") PROVE OkIsComplete'
  BY <1>9 DEF JoinReader, processes, output, feeding, signals
<1>10. ASSUME Judge PROVE OkIsComplete'
  BY <1>10 DEF Judge, Judgement, processes, output, feeding, signals
<1>11. ASSUME NEW s \in Streams, Read(s) PROVE OkIsComplete'
  BY <1>11 DEF Read, Keep, processes, output, feeding, signals
<1>12. ASSUME NEW s \in Streams, ReadEnd(s) PROVE OkIsComplete'
  BY <1>12 DEF ReadEnd, processes, output, feeding, signals
<1>13. ASSUME WriteInput PROVE OkIsComplete'
  BY <1>13 DEF WriteInput, processes, output, feeding, signals
<1>14. ASSUME NEW q \in Family, NEW s \in Streams, Write(q, s) PROVE OkIsComplete'
  BY <1>14 DEF Write, processes, output, feeding, signals
<1>15. ASSUME ReadInput PROVE OkIsComplete'
  BY <1>15 DEF ReadInput, processes, output, feeding, signals
<1>16. ASSUME NEW h \in Helpers, StartHelper(h) PROVE OkIsComplete'
  BY <1>16 DEF StartHelper, processes, output, feeding, signals
<1>17. ASSUME NEW q \in Family, Detach(q) PROVE OkIsComplete'
  BY <1>17 DEF Detach, processes, output, feeding, signals
<1>18. ASSUME NEW q \in Family, End(q) PROVE OkIsComplete'
  BY <1>18 DEF End, Dies, processes, output, feeding, signals
<1>19. ASSUME PressCtrlC PROVE OkIsComplete'
  BY <1>19 DEF PressCtrlC, processes, output, feeding, signals
<1>20. ASSUME DeadlinePasses PROVE OkIsComplete'
  BY <1>20 DEF DeadlinePasses, processes, output, feeding, signals
<1>21. ASSUME UNCHANGED runnerVars PROVE OkIsComplete'
  BY <1>21 DEF runnerVars, processes, output, feeding, signals
<1>. QED
  BY <1>1, <1>2, <1>3, <1>4, <1>5, <1>6, <1>7, <1>8, <1>9, <1>10, <1>11, <1>12, <1>13,
     <1>14, <1>15, <1>16, <1>17, <1>18, <1>19, <1>20, <1>21
  DEF RunnerNext, MainStep, JoinReaders, ReaderStep, CommandStep

\* No step leaves or brings back what a call has killed.
LEMMA KillStep ==
    ASSUME RunnerIInv, [RunnerNext]_runnerVars
    PROVE  KilledIsGone'
<1>. USE CommandRunnerAssumption DEF RunnerIInv, RunnerTypeOK, CallInv,
                                       KilledIsGone, Family, Streams
<1>1. ASSUME Call PROVE KilledIsGone'
  BY <1>1 DEF Call, All, processes, output, feeding, signals
<1>2. ASSUME Interrupted PROVE KilledIsGone'
  BY <1>2 DEF Interrupted, TakeInterrupt, Terminate, Dies, Group, processes, output,
         feeding, signals
<1>3. ASSUME TimedOut PROVE KilledIsGone'
  BY <1>3 DEF TimedOut, Terminate, Dies, Group, processes, output, feeding, signals
<1>4. ASSUME Check PROVE KilledIsGone'
  BY <1>4 DEF Check, processes, output, feeding, signals
<1>5. ASSUME Wait PROVE KilledIsGone'
  BY <1>5 DEF Wait, processes, output, feeding, signals
<1>6. ASSUME Reap PROVE KilledIsGone'
  BY <1>6 DEF Reap, processes, output, feeding, signals
<1>7. ASSUME JoinWriter PROVE KilledIsGone'
  BY <1>7 DEF JoinWriter, processes, output, feeding, signals
<1>8. ASSUME JoinReader("stdout", "join_out", "join_err") PROVE KilledIsGone'
  BY <1>8 DEF JoinReader, processes, output, feeding, signals
<1>9. ASSUME JoinReader("stderr", "join_err", "judge") PROVE KilledIsGone'
  BY <1>9 DEF JoinReader, processes, output, feeding, signals
<1>10. ASSUME Judge PROVE KilledIsGone'
  BY <1>10 DEF Judge, Judgement, processes, output, feeding, signals
<1>11. ASSUME NEW s \in Streams, Read(s) PROVE KilledIsGone'
  BY <1>11 DEF Read, Keep, processes, output, feeding, signals
<1>12. ASSUME NEW s \in Streams, ReadEnd(s) PROVE KilledIsGone'
  BY <1>12 DEF ReadEnd, processes, output, feeding, signals
<1>13. ASSUME WriteInput PROVE KilledIsGone'
  BY <1>13 DEF WriteInput, processes, output, feeding, signals
<1>14. ASSUME NEW q \in Family, NEW s \in Streams, Write(q, s) PROVE KilledIsGone'
  BY <1>14 DEF Write, processes, output, feeding, signals
<1>15. ASSUME ReadInput PROVE KilledIsGone'
  BY <1>15 DEF ReadInput, processes, output, feeding, signals
<1>16. ASSUME NEW h \in Helpers, StartHelper(h) PROVE KilledIsGone'
  BY <1>16 DEF StartHelper, processes, output, feeding, signals
<1>17. ASSUME NEW q \in Family, Detach(q) PROVE KilledIsGone'
  BY <1>17 DEF Detach, processes, output, feeding, signals
<1>18. ASSUME NEW q \in Family, End(q) PROVE KilledIsGone'
  BY <1>18 DEF End, Dies, processes, output, feeding, signals
<1>19. ASSUME PressCtrlC PROVE KilledIsGone'
  BY <1>19 DEF PressCtrlC, processes, output, feeding, signals
<1>20. ASSUME DeadlinePasses PROVE KilledIsGone'
  BY <1>20 DEF DeadlinePasses, processes, output, feeding, signals
<1>21. ASSUME UNCHANGED runnerVars PROVE KilledIsGone'
  BY <1>21 DEF runnerVars, processes, output, feeding, signals
<1>. QED
  BY <1>1, <1>2, <1>3, <1>4, <1>5, <1>6, <1>7, <1>8, <1>9, <1>10, <1>11, <1>12, <1>13,
     <1>14, <1>15, <1>16, <1>17, <1>18, <1>19, <1>20, <1>21
  DEF RunnerNext, MainStep, JoinReaders, ReaderStep, CommandStep

\* No step counts an interrupt twice.
LEMMA InterruptStep ==
    ASSUME RunnerIInv, [RunnerNext]_runnerVars
    PROVE  OneCallPerInterrupt'
<1>. USE CommandRunnerAssumption DEF RunnerIInv, RunnerTypeOK, CallInv,
                                       OneCallPerInterrupt, Family, Streams
<1>1. ASSUME Call PROVE OneCallPerInterrupt'
  BY <1>1 DEF Call, All, processes, output, feeding, signals
<1>2. ASSUME Interrupted PROVE OneCallPerInterrupt'
  BY <1>2 DEF Interrupted, TakeInterrupt, Terminate, Dies, Group, processes, output,
         feeding, signals
<1>3. ASSUME TimedOut PROVE OneCallPerInterrupt'
  BY <1>3 DEF TimedOut, Terminate, Dies, Group, processes, output, feeding, signals
<1>4. ASSUME Check PROVE OneCallPerInterrupt'
  BY <1>4 DEF Check, processes, output, feeding, signals
<1>5. ASSUME Wait PROVE OneCallPerInterrupt'
  BY <1>5 DEF Wait, processes, output, feeding, signals
<1>6. ASSUME Reap PROVE OneCallPerInterrupt'
  BY <1>6 DEF Reap, processes, output, feeding, signals
<1>7. ASSUME JoinWriter PROVE OneCallPerInterrupt'
  BY <1>7 DEF JoinWriter, processes, output, feeding, signals
<1>8. ASSUME JoinReader("stdout", "join_out", "join_err") PROVE OneCallPerInterrupt'
  BY <1>8 DEF JoinReader, processes, output, feeding, signals
<1>9. ASSUME JoinReader("stderr", "join_err", "judge") PROVE OneCallPerInterrupt'
  BY <1>9 DEF JoinReader, processes, output, feeding, signals
<1>10. ASSUME Judge PROVE OneCallPerInterrupt'
  BY <1>10 DEF Judge, Judgement, processes, output, feeding, signals
<1>11. ASSUME NEW s \in Streams, Read(s) PROVE OneCallPerInterrupt'
  BY <1>11 DEF Read, Keep, processes, output, feeding, signals
<1>12. ASSUME NEW s \in Streams, ReadEnd(s) PROVE OneCallPerInterrupt'
  BY <1>12 DEF ReadEnd, processes, output, feeding, signals
<1>13. ASSUME WriteInput PROVE OneCallPerInterrupt'
  BY <1>13 DEF WriteInput, processes, output, feeding, signals
<1>14. ASSUME NEW q \in Family, NEW s \in Streams, Write(q, s) PROVE OneCallPerInterrupt'
  BY <1>14 DEF Write, processes, output, feeding, signals
<1>15. ASSUME ReadInput PROVE OneCallPerInterrupt'
  BY <1>15 DEF ReadInput, processes, output, feeding, signals
<1>16. ASSUME NEW h \in Helpers, StartHelper(h) PROVE OneCallPerInterrupt'
  BY <1>16 DEF StartHelper, processes, output, feeding, signals
<1>17. ASSUME NEW q \in Family, Detach(q) PROVE OneCallPerInterrupt'
  BY <1>17 DEF Detach, processes, output, feeding, signals
<1>18. ASSUME NEW q \in Family, End(q) PROVE OneCallPerInterrupt'
  BY <1>18 DEF End, Dies, processes, output, feeding, signals
<1>19. ASSUME PressCtrlC PROVE OneCallPerInterrupt'
  BY <1>19 DEF PressCtrlC, processes, output, feeding, signals
<1>20. ASSUME DeadlinePasses PROVE OneCallPerInterrupt'
  BY <1>20 DEF DeadlinePasses, processes, output, feeding, signals
<1>21. ASSUME UNCHANGED runnerVars PROVE OneCallPerInterrupt'
  BY <1>21 DEF runnerVars, processes, output, feeding, signals
<1>. QED
  BY <1>1, <1>2, <1>3, <1>4, <1>5, <1>6, <1>7, <1>8, <1>9, <1>10, <1>11, <1>12, <1>13,
     <1>14, <1>15, <1>16, <1>17, <1>18, <1>19, <1>20, <1>21
  DEF RunnerNext, MainStep, JoinReaders, ReaderStep, CommandStep

\* The invariant holds at first and every step keeps it.
THEOREM Inductive == RunnerSpec => []RunnerIInv
<1>1. ASSUME RunnerInit PROVE RunnerTypeOK
  <2>1. All({}) \in [Streams -> SUBSET Family] /\ All(0) \in [Streams -> 0..PipeSize]
    BY CommandRunnerAssumption DEF All
  <2>2. All(0) \in [Streams -> Nat] /\ All(0) \in [Streams -> 0..CaptureLimit]
    BY CommandRunnerAssumption DEF All
  <2>3. All(FALSE) \in [Streams -> BOOLEAN] /\ All("done") \in [Streams -> {"read", "done"}]
    BY DEF All
  <2>4. flag \in BOOLEAN /\ expired \in BOOLEAN
    BY <1>1 DEF RunnerInit
  <2>5. stdin \in 0..PipeSize /\ input \in 0..MaxInput /\ pressed \in 0..MaxInterrupts
        /\ stopped \in Nat
    BY <1>1, CommandRunnerAssumption DEF RunnerInit
  <2>6. alive \subseteq Family /\ listeners \subseteq Family
    BY <1>1 DEF RunnerInit
  <2>7. /\ holders \in [Streams -> SUBSET Family] /\ pipe \in [Streams -> 0..PipeSize]
        /\ written \in [Streams -> Nat] /\ captured \in [Streams -> 0..CaptureLimit]
        /\ overflow \in [Streams -> BOOLEAN] /\ reader \in [Streams -> {"read", "done"}]
    BY <1>1, <2>1, <2>2, <2>3 DEF RunnerInit
  <2>8. main = "idle" /\ cause = "none" /\ result = "none" /\ status = "none"
        /\ writer = "done"
    BY <1>1 DEF RunnerInit
  <2>. QED
    BY <2>4, <2>5, <2>6, <2>7, <2>8 DEF RunnerTypeOK
<1>2. ASSUME RunnerInit PROVE RunnerIInv
  <2>1. CaptureInv
    BY <1>2 DEF RunnerInit, CaptureInv, All
  <2>2. CallInv
    BY <1>2 DEF RunnerInit, CallInv, All
  <2>3. OkIsComplete /\ KilledIsGone
    BY <1>2 DEF RunnerInit, OkIsComplete, KilledIsGone
  <2>4. OneCallPerInterrupt
    BY <1>2 DEF RunnerInit, OneCallPerInterrupt
  <2>. QED
    BY <1>1, <1>2, <2>1, <2>2, <2>3, <2>4 DEF RunnerIInv
<1>3. RunnerIInv /\ [RunnerNext]_runnerVars => RunnerIInv'
  BY TypeStep, CaptureStep, CallStep, OkStep, KillStep, InterruptStep DEF RunnerIInv
<1>. QED
  BY <1>2, <1>3, PTL DEF RunnerSpec

\* run_bounded returns Ok only with all that was written to both streams.
THEOREM SuccessIsComplete == RunnerSpec => []OkIsComplete
<1>1. RunnerIInv => OkIsComplete
  BY CommandRunnerAssumption DEF RunnerIInv, OkIsComplete
<1>. QED
  BY <1>1, Inductive, PTL

\* After Interrupted or Timeout nothing of the command's process group runs.
THEOREM KilledForGood == RunnerSpec => []KilledIsGone
<1>1. RunnerIInv => KilledIsGone
  BY CommandRunnerAssumption DEF RunnerIInv, KilledIsGone
<1>. QED
  BY <1>1, Inductive, PTL

\* take_interrupt lets one Ctrl-C end at most one call.
THEOREM InterruptsOnce == RunnerSpec => []OneCallPerInterrupt
<1>1. RunnerIInv => OneCallPerInterrupt
  BY CommandRunnerAssumption DEF RunnerIInv, OneCallPerInterrupt
<1>. QED
  BY <1>1, Inductive, PTL

\* read_capped never leaves a writer on a full pipe.
THEOREM ReadersStay == RunnerSpec => []PipesAreDrained
<1>1. RunnerIInv => PipesAreDrained
  BY CommandRunnerAssumption DEF RunnerIInv, CaptureInv, RunnerTypeOK, PipesAreDrained
<1>. QED
  BY <1>1, Inductive, PTL

-------------------------------------------------------------------------------
(* PublishedPorts and GuestAccess: lists of rules *)

\* A set of numbers that is not empty has a least element.
LEMMA LeastOf ==
    ASSUME NEW S \in SUBSET Nat, S # {}
    PROVE  \E m \in S : \A k \in S : m <= k
<1> DEFINE R == {ss \in Nat \X Nat : ss[1] < ss[2]}
<1>1. IsWellFoundedOn(R, Nat)
  <2>1. R = OpToRel(<, Nat)
    BY DEF OpToRel
  <2> HIDE DEF R
  <2> QED
    BY <2>1, NatLessThanWellFounded
<1>2. PICK m \in S : \A k \in S : ~(<<k, m>> \in R)
  <2> HIDE DEF R
  <2> QED
    BY <1>1, WFMin
<1>3. ASSUME NEW k \in S PROVE m <= k
  <2>1. ~(<<k, m>> \in R)
    BY <1>2
  <2> QED
    BY <2>1
<1> QED
  BY <1>3

\* What Lima's first matching rule says of a service, when the rules of the
\* session come before the one that ignores everything.
LEMMA ForwardOf ==
    ASSUME rows \subseteq Ports, active \in Seq(Rules), NEW ps, Guarded(active, ps),
           NEW s \in [guest: PortNumbers, proto: Protocols]
    PROVE  /\ Forward(s) \in rows \cup {Ignore}
           /\ \A p \in ps : p \in Ports /\ p.guest = s.guest /\ p.proto = s.proto =>
                  /\ Forward(s) \in rows
                  /\ Forward(s).guest = s.guest /\ Forward(s).proto = s.proto
<1> DEFINE hits == {i \in DOMAIN active : Matches(active[i], s)}
           first == CHOOSE h \in hits : \A k \in hits : h <= k
<1>1. PICK n \in DOMAIN active :
          /\ active[n] = Ignore
          /\ \A i \in 1..(n - 1) : active[i] \in rows
          /\ \A p \in ps : \E i \in 1..(n - 1) : active[i] = p
  BY DEF Guarded
<1>2. DOMAIN active = 1..Len(active) /\ Len(active) \in Nat
  OBVIOUS
<1>3. n \in hits /\ hits \in SUBSET Nat
  BY <1>1, <1>2 DEF Matches, Ignore
<1>4. first \in hits /\ \A k \in hits : first <= k
  <2>1. \E m \in hits : \A k \in hits : m <= k
    <3> HIDE DEF hits
    <3> QED
      BY <1>3, LeastOf
  <2> QED
    BY <2>1
<1>5. Forward(s) = active[first]
  BY <1>3 DEF Forward
<1> HIDE DEF first
<1>6. first \in 1..n
  BY <1>2, <1>3, <1>4
<1>7. Forward(s) \in rows \cup {Ignore}
  <2>1. CASE first = n
    BY <2>1, <1>1, <1>5
  <2>2. CASE first \in 1..(n - 1)
    BY <2>2, <1>1, <1>5
  <2> QED
    BY <1>2, <1>6, <2>1, <2>2
<1>8. ASSUME NEW p \in ps, p \in Ports, p.guest = s.guest, p.proto = s.proto
      PROVE  /\ Forward(s) \in rows
             /\ Forward(s).guest = s.guest /\ Forward(s).proto = s.proto
  <2>1. PICK i \in 1..(n - 1) : active[i] = p
    BY <1>1
  <2>2. i \in DOMAIN active
    BY <1>1, <1>2, <2>1
  <2>3. i \in hits
    BY <1>8, <2>1, <2>2 DEF Matches
  <2>4. first \in 1..(n - 1)
    BY <1>2, <1>3, <1>4, <1>6, <2>1, <2>3
  <2>5. Forward(s) \in rows
    BY <1>1, <1>5, <2>4
  <2>6. Matches(Forward(s), s)
    BY <1>4, <1>5
  <2>7. Forward(s).guest # 0 /\ Forward(s).proto # "any"
    BY <2>5 DEF Ports, Protocols, PortNumbers
  <2> QED
    BY <2>5, <2>6, <2>7 DEF Matches
<1> QED
  BY <1>7, <1>8

\* The template's rules guard, and so do those of the session put before them.
LEMMA TemplateGuards ==
    /\ <<>> \in Seq(Rules) /\ TemplateRules \in Seq(Rules)
    /\ Guarded(TemplateRules, {})
<1>1. <<>> \in Seq(Rules) /\ TemplateRules \in Seq(Rules)
  BY DEF TemplateRules, Rules
<1>2. 1 \in DOMAIN TemplateRules /\ TemplateRules[1] = Ignore
  BY DEF TemplateRules
<1> QED
  BY <1>1, <1>2 DEF Guarded

LEMMA EditIsRules ==
    ASSUME NEW ps \in Seq(Ports), NEW list \in Seq(Rules)
    PROVE  ps \o list \in Seq(Rules)
<1>1. Ports \subseteq Rules
  BY DEF Rules
<1>2. ps \in Seq(Rules)
  BY <1>1
<1> QED
  BY <1>2

LEMMA EditGuards ==
    ASSUME order \in Seq(Ports), ToSet(order) = rows,
           NEW list \in Seq(Rules), Guarded(list, {})
    PROVE  /\ order \o list \in Seq(Rules)
           /\ Guarded(order \o list, rows)
<1> DEFINE m == Len(order)
<1>1. PICK n \in DOMAIN list :
          list[n] = Ignore /\ \A i \in 1..(n - 1) : list[i] \in rows
  BY DEF Guarded
<1>2. m \in Nat /\ DOMAIN order = 1..m /\ n \in 1..Len(list) /\ Len(list) \in Nat
  OBVIOUS
<1>3. order \o list \in Seq(Rules)
  BY EditIsRules
<1>4. Len(order \o list) = m + Len(list)
  OBVIOUS
<1>5. \A i \in 1..m : (order \o list)[i] = order[i]
  BY <1>2
<1>6. \A i \in 1..Len(list) : (order \o list)[m + i] = list[i]
  BY <1>2
<1>7. \A i \in 1..m : (order \o list)[i] \in rows
  BY <1>2, <1>5 DEF ToSet
<1> DEFINE k == m + n
           whole == order \o list
<1>8. ASSUME NEW i \in 1..(k - 1) PROVE whole[i] \in rows
  <2>1. CASE i \in 1..m
    BY <1>7, <2>1
  <2>2. CASE i \notin 1..m
    <3>1. i - m \in 1..(n - 1) /\ i - m \in 1..Len(list) /\ m + (i - m) = i
      BY <1>2, <2>2
    <3>2. (order \o list)[i] = list[i - m]
      BY <1>6, <3>1
    <3> QED
      BY <1>1, <3>1, <3>2
  <2> QED
    BY <2>1, <2>2
<1>9. ASSUME NEW p \in rows PROVE \E i \in 1..(k - 1) : whole[i] = p
  <2>1. PICK i \in 1..m : order[i] = p
    BY <1>2 DEF ToSet
  <2>2. i \in 1..(k - 1)
    BY <1>2
  <2> QED
    BY <1>5, <2>1, <2>2
<1>10. k \in DOMAIN whole /\ whole[k] = Ignore
  BY <1>1, <1>2, <1>3, <1>4, <1>6
<1> HIDE DEF k, whole
<1>11. Guarded(whole, rows)
  BY <1>8, <1>9, <1>10 DEF Guarded
<1> QED
  BY <1>3, <1>11 DEF whole

\* What a sequence lists are finitely many of its values.
LEMMA ListedIsFinite ==
    ASSUME NEW S, NEW seq \in Seq(S)
    PROVE  ToSet(seq) \subseteq S /\ IsFiniteSet(ToSet(seq))
<1>1. DOMAIN seq = 1..Len(seq) /\ Len(seq) \in Nat
  OBVIOUS
<1>2. IsFiniteSet(DOMAIN seq)
  BY <1>1, FS_Interval
<1>3. seq \in Surjection(DOMAIN seq, ToSet(seq))
  BY DEF Surjection, ToSet
<1>4. ToSet(seq) \subseteq S
  BY DEF ToSet
<1> QED
  BY <1>2, <1>3, <1>4, FS_Surjection

\* A well-formed argument names a port.
LEMMA PortOfIsPort ==
    ASSUME NEW arg \in Arguments, WellFormed(arg)
    PROVE  PortOf(arg) \in Ports
<1> DEFINE ps == arg.parts
           pr == IF arg.proto = "" THEN "tcp" ELSE arg.proto
<1>1. ps \in Seq(Nat)
  BY DEF Arguments
<1>2. Len(ps) \in 1..2 /\ \A i \in DOMAIN ps : ps[i] \in PortNumbers
  BY Zenon DEF WellFormed
<1>3. pr \in Protocols
  BY Zenon DEF WellFormed, Protocols
<1>4. PortOf(arg) = [host |-> Head(ps), guest |-> Last(ps), proto |-> pr]
  BY Zenon DEF PortOf
<1> HIDE DEF ps, pr
<1>5. 1 \in DOMAIN ps /\ Len(ps) \in DOMAIN ps /\ Head(ps) = ps[1]
  BY <1>1, <1>2
<1>6. Head(ps) \in PortNumbers /\ Last(ps) \in PortNumbers
  BY <1>2, <1>5 DEF Last
<1> QED
  BY <1>3, <1>4, <1>6 DEF Ports

\* The arguments of a launch name ports.
LEMMA LaunchedPorts ==
    ASSUME NEW q \in Requests, \A i \in DOMAIN q : WellFormed(q[i])
    PROVE  [i \in DOMAIN q |-> PortOf(q[i])] \in Seq(Ports)
<1>1. q \in Seq(Arguments)
  BY PublishedPortsAssumption
<1>2. DOMAIN q = 1..Len(q) /\ Len(q) \in Nat /\ \A i \in DOMAIN q : q[i] \in Arguments
  BY <1>1
<1>3. \A i \in DOMAIN q : PortOf(q[i]) \in Ports
  BY <1>2, PortOfIsPort
<1> QED
  BY <1>2, <1>3

\* The answer of list_session_ports lists the rows.
LEMMA ListingOf ==
    ASSUME rows \subseteq Ports, IsFiniteSet(rows), NEW s \in Listings
    PROVE  s \in Seq(Ports) /\ ToSet(s) = rows
<1>1. Cardinality(rows) \in Nat
  BY FS_CardinalityType
<1>2. s \in [1..Cardinality(rows) -> rows] /\ ToSet(s) = rows
  BY DEF Listings
<1>3. s \in [1..Cardinality(rows) -> Ports]
  BY <1>2
<1>4. s \in Seq(Ports)
  BY <1>1, <1>3
<1> QED
  BY <1>2, <1>4

-------------------------------------------------------------------------------
(* PublishedPorts: what its steps keep *)

\* The launch and its retries keep the types, the rest of the session does too.
LEMMA PortTypeStep ==
    ASSUME PortTypeOK, PortInv, PortNext
    PROVE  PortTypeOK'
<1>. USE DEF PortTypeOK
<1>1. ASSUME NEW q \in Requests, Launch(q) PROVE PortTypeOK'
  <2> DEFINE ports == [i \in DOMAIN q |-> PortOf(q[i])]
  <2>1. ports \in Seq(Ports)
    BY <1>1, LaunchedPorts DEF Launch
  <2>2. rows' = ToSet(ports) /\ order' = ports
    BY <1>1 DEF Launch, InsertPorts
  <2>3. rows' \subseteq Ports /\ order' \in Seq(Ports)
    <3> HIDE DEF ports
    <3> QED
      BY <2>1, <2>2, ListedIsFinite
  <2>4. lpc' = "clone" /\ UNCHANGED <<stage, breaks, vmVars, busy, listening>>
    BY <1>1 DEF Launch
  <2> HIDE DEF ports
  <2> QED
    BY <2>3, <2>4 DEF vmVars
<1>2. ASSUME Clone PROVE PortTypeOK'
  BY <1>2, TemplateGuards DEF Clone
<1>3. ASSUME Configure PROVE PortTypeOK'
  <2>1. order \o rules \in Seq(Rules)
    BY EditIsRules
  <2> QED
    BY <1>3, <2>1 DEF Configure, Edit
<1>4. ASSUME Checkpoint PROVE PortTypeOK'
  BY <1>4 DEF Checkpoint, vmVars
<1>5. ASSUME Boot PROVE PortTypeOK'
  BY <1>5 DEF Boot, PowerOn
<1>6. ASSUME Break PROVE PortTypeOK'
  <2>1. MaxBreaks \in Nat
    BY PublishedPortsAssumption
  <2>2. breaks' \in 0..MaxBreaks
    <3>1. breaks \in 0..MaxBreaks /\ breaks < MaxBreaks /\ breaks' = breaks + 1
      BY <1>6 DEF Break
    <3> HIDE DEF PortTypeOK
    <3> QED
      BY <2>1, <3>1
  <2>3. rows' \subseteq Ports /\ lpc' \in {"none", "broken"}
    BY <1>6 DEF Break
  <2>4. UNCHANGED <<order, stage, vm, rules, active, busy, listening>>
    BY <1>6 DEF Break, vmVars
  <2> QED
    BY <2>2, <2>3, <2>4
<1>7. ASSUME Retry PROVE PortTypeOK'
  <2>1. order' \in Seq(Ports)
    BY <1>7, ListingOf DEF Retry, PortInv
  <2> QED
    BY <1>7, <2>1 DEF Retry, vmVars
<1>8. ASSUME SwitchVm PROVE PortTypeOK'
  BY <1>8 DEF SwitchVm, PowerOn, PowerOff, launchVars
<1>9. ASSUME DestroyVm PROVE PortTypeOK'
  BY <1>9, TemplateGuards DEF DestroyVm
<1>10. ASSUME NEW s \in Services, Serve(s) PROVE PortTypeOK'
  BY <1>10 DEF Serve, launchVars, vmVars
<1>11. ASSUME NEW r \in Rivals, TakePort(r) PROVE PortTypeOK'
  BY <1>11 DEF TakePort, launchVars, vmVars
<1>12. ASSUME RecordClosed PROVE PortTypeOK'
  BY <1>12 DEF RecordClosed, vmVars
<1> QED
  BY <1>1, <1>2, <1>3, <1>4, <1>5, <1>6, <1>7, <1>8, <1>9, <1>10, <1>11, <1>12 DEF PortNext

\* The checkpoint goes with the step the launch is at.
LEMMA StageStep ==
    ASSUME PortTypeOK, PortInv, PortNext
    PROVE  StageInv'
<1>. USE DEF PortInv, StageInv, PortTypeOK
<1>1. ASSUME NEW q \in Requests, Launch(q) PROVE StageInv'
  BY <1>1 DEF Launch, vmVars
<1>2. ASSUME Clone PROVE StageInv'
  BY <1>2 DEF Clone
<1>3. ASSUME Configure PROVE StageInv'
  BY <1>3 DEF Configure
<1>4. ASSUME Checkpoint PROVE StageInv'
  BY <1>4 DEF Checkpoint, vmVars
<1>5. ASSUME Boot PROVE StageInv'
  BY <1>5 DEF Boot, PowerOn
<1>6. ASSUME Break PROVE StageInv'
  BY <1>6 DEF Break, vmVars
<1>7. ASSUME Retry PROVE StageInv'
  BY <1>7 DEF Retry, vmVars
<1>8. ASSUME SwitchVm PROVE StageInv'
  BY <1>8 DEF SwitchVm, PowerOn, PowerOff, launchVars
<1>9. ASSUME DestroyVm \/ RecordClosed PROVE StageInv'
  BY <1>9 DEF DestroyVm, RecordClosed, vmVars
<1>10. ASSUME UNCHANGED <<launchVars, vmVars>> PROVE StageInv'
  BY <1>10 DEF launchVars, vmVars
<1> QED
  BY <1>1, <1>2, <1>3, <1>4, <1>5, <1>6, <1>7, <1>8, <1>9, <1>10
  DEF PortNext, Serve, TakePort

\* The order of the ports goes with the rows until the VM is configured.
LEMMA RowStep ==
    ASSUME PortTypeOK, PortInv, PortNext
    PROVE  IsFiniteSet(rows)' /\ (lpc \in {"clone", "configure"} => ToSet(order) = rows)'
<1> DEFINE Goal ==
        IsFiniteSet(rows)' /\ (lpc \in {"clone", "configure"} => ToSet(order) = rows)'
<1>. USE DEF PortInv
<1>1. ASSUME NEW q \in Requests, Launch(q) PROVE Goal
  <2>1. order' \in Seq(Ports) /\ rows' = ToSet(order')
    BY <1>1, PortTypeStep DEF Launch, InsertPorts, PortNext, PortTypeOK
  <2> QED
    BY <2>1, ListedIsFinite
<1>2. ASSUME Clone \/ Configure \/ Checkpoint \/ Boot PROVE Goal
  BY <1>2 DEF Clone, Configure, Checkpoint, Boot
<1>3. ASSUME Break PROVE Goal
  BY <1>3, FS_EmptySet DEF Break
<1>4. ASSUME Retry PROVE Goal
  <2>1. ToSet(order') = rows
    BY <1>4, ListingOf DEF Retry, PortTypeOK
  <2> QED
    BY <1>4, <2>1 DEF Retry
<1>5. ASSUME DestroyVm \/ RecordClosed PROVE Goal
  BY <1>5 DEF DestroyVm, RecordClosed
<1>6. ASSUME UNCHANGED launchVars PROVE Goal
  BY <1>6 DEF launchVars
<1> QED
  BY <1>1, <1>2, <1>3, <1>4, <1>5, <1>6
  DEF PortNext, SwitchVm, Serve, TakePort

\* Nothing about the rules changes, and no row is put down as configured.
LEMMA GuardStutter ==
    ASSUME GuardInv, UNCHANGED <<rows, rules, active>>, Configured' \subseteq Configured,
           vm' # "none" => vm # "none",
           vm' = "running" => vm = "running"
    PROVE  GuardInv'
<1>1. ASSUME (vm # "none")' PROVE Guarded(rules, Configured)'
  <2>1. Guarded(rules, Configured)
    BY <1>1 DEF GuardInv
  <2> QED
    BY <2>1 DEF Guarded
<1>2. ASSUME (vm = "running")' PROVE Guarded(active, Configured)'
  <2>1. Guarded(active, Configured)
    BY <1>2 DEF GuardInv
  <2> QED
    BY <2>1 DEF Guarded
<1> QED
  BY <1>1, <1>2 DEF GuardInv

\* A VM boots with the rules of its configuration.
LEMMA GuardPowerOn ==
    ASSUME GuardInv, PowerOn, rows' = rows, Configured' = Configured
    PROVE  GuardInv'
<1>1. vm \in {"stopped", "running"} /\ rules' = rules
      /\ active' = IF vm = "stopped" THEN rules ELSE active
  BY DEF PowerOn
<1>2. Guarded(rules, Configured)'
  <2>1. Guarded(rules, Configured)
    BY <1>1 DEF GuardInv
  <2> QED
    BY <1>1, <2>1 DEF Guarded
<1>3. Guarded(active, Configured)'
  <2>1. CASE vm = "stopped"
    <3>1. active' = rules'
      BY <1>1, <2>1
    <3> QED
      BY <1>2, <3>1 DEF Guarded
  <2>2. CASE vm = "running"
    <3>1. active' = active
      BY <1>1, <2>2
    <3>2. Guarded(active, Configured)
      BY <2>2 DEF GuardInv
    <3> QED
      BY <3>1, <3>2 DEF Guarded
  <2> QED
    BY <1>1, <2>1, <2>2
<1> QED
  BY <1>2, <1>3 DEF GuardInv

\* The steps of the session keep its rules in front of the template's.
LEMMA GuardStep ==
    ASSUME PortTypeOK, PortInv, PortNext
    PROVE  GuardInv'
<1>. USE DEF PortInv
<1>0. GuardInv
  OBVIOUS
<1>1. ASSUME NEW q \in Requests, Launch(q) PROVE GuardInv'
  BY <1>1 DEF Launch, vmVars, StageInv, GuardInv
<1>2. ASSUME Clone PROVE GuardInv'
  <2>1. Configured' = {} /\ rules' = TemplateRules /\ vm' = "stopped"
    BY <1>2 DEF Clone, Configured, StageInv
  <2>2. \E n \in DOMAIN TemplateRules :
            TemplateRules[n] = Ignore /\ \A i \in 1..(n - 1) : TemplateRules[i] \in rows
    BY TemplateGuards DEF Guarded
  <2>3. 1 \in DOMAIN rules' /\ rules'[1] = Ignore
    BY <2>1 DEF TemplateRules
  <2> QED
    BY <2>1, <2>3 DEF GuardInv, Guarded
<1>3. ASSUME Configure PROVE GuardInv'
  <2>1. CASE order = <<>>
    <3>1. rows = {}
      BY <1>3, <2>1 DEF Configure, ToSet
    <3>2. Configured' = {} /\ UNCHANGED <<rows, rules, active, vm>>
      BY <1>3, <2>1, <3>1 DEF Configure, Configured
    <3> QED
      BY <1>0, <3>2, GuardStutter
  <2>2. CASE order # <<>> /\ vm = "stopped"
    <3>1. rules' = order \o rules /\ UNCHANGED <<rows, order, vm>> /\ lpc' = "checkpoint"
      BY <1>3, <2>2 DEF Configure, Edit
    <3>2. Guarded(rules, {})
      BY <1>0, <2>2 DEF GuardInv, Guarded
    <3>3. Guarded(order \o rules, rows)
      BY <1>3, <3>2, EditGuards DEF Configure, PortTypeOK
    <3>4. Configured' = rows
      BY <3>1 DEF Configured
    <3>5. Guarded(rules, Configured)'
      BY ONLY <3>1, <3>3, <3>4 DEF Guarded
    <3> QED
      BY ONLY <2>2, <3>1, <3>5 DEF GuardInv
  <2>3. CASE order # <<>> /\ vm # "stopped"
    <3>1. UNCHANGED <<rows, rules, active, vm, stage>> /\ lpc' = "broken"
      BY <1>3, <2>3 DEF Configure
    <3>2. Configured' \subseteq Configured
      BY <3>1 DEF Configured
    <3> QED
      BY <1>0, <3>1, <3>2, GuardStutter
  <2> QED
    BY <2>1, <2>2, <2>3
<1>4. ASSUME Checkpoint PROVE GuardInv'
  <2>1. UNCHANGED <<rows, rules, active, vm>> /\ Configured' = Configured
    BY <1>4 DEF Checkpoint, vmVars, Configured
  <2> QED
    BY <1>0, <2>1, GuardStutter
<1>5. ASSUME Boot PROVE GuardInv'
  <2>1. PowerOn /\ rows' = rows /\ Configured' = Configured
    BY <1>5 DEF Boot, Configured, StageInv
  <2> QED
    BY <1>0, <2>1, GuardPowerOn
<1>6. ASSUME Break PROVE GuardInv'
  <2>1. CASE lpc = "clone"
    BY <1>6, <2>1 DEF Break, vmVars, StageInv, GuardInv
  <2>2. CASE lpc # "clone"
    <3>1. UNCHANGED <<rows, rules, active, vm, stage>> /\ lpc' = "broken"
      BY <1>6, <2>2 DEF Break, vmVars
    <3>2. Configured' \subseteq Configured
      BY <3>1 DEF Configured
    <3> QED
      BY <1>0, <3>1, <3>2, GuardStutter
  <2> QED
    BY <2>1, <2>2
<1>7. ASSUME Retry PROVE GuardInv'
  <2>1. UNCHANGED <<rows, rules, active, vm>> /\ Configured' \subseteq Configured
    BY <1>7 DEF Retry, vmVars, Configured
  <2> QED
    BY <1>0, <2>1, GuardStutter
<1>8. ASSUME SwitchVm PROVE GuardInv'
  <2>1. rows' = rows /\ Configured' = Configured
    BY <1>8 DEF SwitchVm, launchVars, Configured
  <2>2. CASE PowerOn
    BY <1>0, <2>1, <2>2, GuardPowerOn
  <2>3. CASE PowerOff
    BY <1>0, <2>1, <2>3, GuardStutter DEF PowerOff
  <2> QED
    BY <1>8, <2>2, <2>3 DEF SwitchVm
<1>9. ASSUME DestroyVm \/ RecordClosed PROVE GuardInv'
  BY <1>9 DEF DestroyVm, RecordClosed, StageInv, vmVars, GuardInv
<1>10. ASSUME UNCHANGED <<launchVars, vmVars>> PROVE GuardInv'
  <2>1. UNCHANGED <<rows, rules, active, vm>> /\ Configured' = Configured
    BY <1>10 DEF launchVars, vmVars, Configured
  <2> QED
    BY <1>0, <2>1, GuardStutter
<1> QED
  BY <1>1, <1>2, <1>3, <1>4, <1>5, <1>6, <1>7, <1>8, <1>9, <1>10
  DEF PortNext, Serve, TakePort

\* What a step of the session keeps, put together.
LEMMA PortStep ==
    ASSUME PortTypeOK, PortInv, PortNext
    PROVE  PortTypeOK' /\ PortInv'
BY PortTypeStep, StageStep, RowStep, GuardStep DEF PortInv

\* A call into the guest does nothing to the session but turn its VM on and off.
LEMMA PortCallStep ==
    ASSUME PortTypeOK, PortInv, UNCHANGED <<rules, launchVars, busy>>,
           \/ PowerOn /\ UNCHANGED listening
           \/ PowerOff /\ listening' = {}
           \/ UNCHANGED <<vm, active, listening>>
    PROVE  PortTypeOK' /\ PortInv'
<1>1. UNCHANGED <<rows, order, stage, lpc, breaks, busy>>
  BY DEF launchVars
<1>2. vm' \in {"none", "stopped", "running"} /\ (vm' = "none" <=> vm = "none")
  BY DEF PowerOn, PowerOff, PortTypeOK
<1>3. active' \in Seq(Rules)
  BY DEF PowerOn, PowerOff, PortTypeOK
<1>4. listening' \subseteq Services
  BY DEF PortTypeOK
<1>5. PortTypeOK'
  BY <1>1, <1>2, <1>3, <1>4 DEF PortTypeOK
<1>6. StageInv'
  BY <1>1, <1>2 DEF PortInv, StageInv
<1>7. Configured' = Configured
  BY <1>1 DEF Configured
<1>8. GuardInv
  BY DEF PortInv
<1>9. GuardInv'
  <2>1. CASE PowerOn
    BY <1>1, <1>7, <1>8, <2>1, GuardPowerOn
  <2>2. CASE PowerOff
    BY <1>1, <1>7, <1>8, <2>2, GuardStutter DEF PowerOff
  <2>3. CASE UNCHANGED <<vm, active, listening>>
    BY <1>1, <1>7, <1>8, <2>3, GuardStutter
  <2> QED
    BY <2>1, <2>2, <2>3
<1> QED
  BY <1>1, <1>5, <1>6, <1>9 DEF PortInv

\* What the invariant says of the forwarded services.
LEMMA PublishedOnly ==
    ASSUME PortTypeOK, PortInv
    PROVE  ForwardsArePublished
<1>1. ASSUME NEW s \in listening, vm = "running"
      PROVE  Forward(s) \in rows \cup {Ignore}
  <2>1. s \in [guest: PortNumbers, proto: Protocols]
    BY PublishedPortsAssumption DEF PortTypeOK, Protocols
  <2>2. Guarded(active, Configured)
    BY <1>1 DEF PortInv, GuardInv
  <2> QED
    BY <2>1, <2>2, ForwardOf DEF PortTypeOK
<1>2. ASSUME lpc = "up", NEW p \in rows, vm = "running", Answers(p), ~Shared(p), ~Taken(p)
      PROVE  p \in Forwards
  <2> DEFINE s == [guest |-> p.guest, proto |-> p.proto]
  <2>1. p \in Ports
    BY DEF PortTypeOK
  <2>2. s \in [guest: PortNumbers, proto: Protocols] /\ s.guest = p.guest /\ s.proto = p.proto
    BY <2>1 DEF Ports
  <2>3. s \in listening
    BY <1>2 DEF Answers
  <2>4. Guarded(active, rows)
    BY <1>2 DEF PortInv, StageInv, GuardInv, Configured
  <2> HIDE DEF s
  <2>5. Forward(s) \in rows /\ Forward(s).guest = p.guest /\ Forward(s).proto = p.proto
    <3>1. rows \subseteq Ports /\ active \in Seq(Rules)
      BY DEF PortTypeOK
    <3>2. \A r \in rows : r \in Ports /\ r.guest = s.guest /\ r.proto = s.proto =>
              /\ Forward(s) \in rows
              /\ Forward(s).guest = s.guest /\ Forward(s).proto = s.proto
      BY <2>2, <2>4, <3>1, ForwardOf
    <3> QED
      BY <2>1, <2>2, <3>2
  <2>6. Forward(s) = p
    BY <1>2, <2>5 DEF Shared
  <2>7. p # Ignore
    BY <2>1 DEF Ports, Protocols, Ignore
  <2> QED
    BY <1>2, <2>3, <2>6, <2>7 DEF Forwards
<1> QED
  BY <1>1, <1>2 DEF ForwardsArePublished, Forwards

-------------------------------------------------------------------------------
(* GuestAccess: what its steps keep *)

\* The calls leave the session to its own steps, but for its VM.
LEMMA AccessPortStep ==
    ASSUME AccessInv, [Next]_vars
    PROVE  PortTypeOK' /\ PortInv'
<1>. USE DEF AccessInv, TypeOK
<1>1. ASSUME Session PROVE PortTypeOK' /\ PortInv'
  BY <1>1, PortStep DEF Session
<1>2. ASSUME NEW c \in Calls, RunStep(c) \/ ExportStep(c)
      PROVE  PortTypeOK' /\ PortInv'
  <2>1. /\ UNCHANGED <<rules, launchVars, busy>>
        /\ \/ PowerOn /\ UNCHANGED listening
           \/ PowerOff /\ listening' = {}
           \/ UNCHANGED <<vm, active, listening>>
    BY <1>2
    DEF RunStep, ReadGuestLogs, ExportStep, Begin, Ensure, Start, Restop, MakeTemp, Mkdir,
        Copy, Chmod, Cleanup, Ssh, Finish, Die, Export, Test, CopyOut, world, vmState
  <2> QED
    BY <2>1, PortCallStep
<1>3. ASSUME UNCHANGED vars PROVE PortTypeOK' /\ PortInv'
  <2>1. UNCHANGED <<rules, launchVars, busy, vm, active, listening>>
    BY <1>3 DEF vars, portVars, vmVars
  <2> QED
    BY <2>1, PortCallStep
<1> QED
  BY <1>1, <1>2, <1>3 DEF Next

\* Every step keeps the state of the calls in its types.
LEMMA AccessTypeStep ==
    ASSUME AccessInv, [Next]_vars
    PROVE  TypeOK'
<1> DEFINE CallTypes ==
        /\ mode \in {"repo", "sandbox"} /\ file \in SecretFile /\ taken \in BOOLEAN
        /\ pc \in [Calls -> Pcs] /\ gives \in [Calls -> BOOLEAN]
        /\ temp \in [Calls -> BOOLEAN] /\ failed \in [Calls -> BOOLEAN]
        /\ saw \in [Calls -> SecretFile] /\ ended \in [Calls -> SUBSET Calls]
<1>0. CallTypes /\ NoFile \in SecretFile
  BY DEF AccessInv, TypeOK, NoFile, SecretFile
<1>1. ASSUME NEW c \in Calls, NEW e \in BOOLEAN, Begin(c, e) PROVE CallTypes'
  BY <1>1, <1>0 DEF Begin, Goto, FailTo, callVars, Over, world, Pcs
<1>2. ASSUME NEW c \in Calls, Ensure(c) PROVE CallTypes'
  BY <1>2, <1>0 DEF Ensure, FirstStep, Goto, FailTo, callVars, world, Pcs
<1>3. ASSUME NEW c \in Calls, Start(c) PROVE CallTypes'
  BY <1>3, <1>0 DEF Start, FirstStep, Goto, FailTo, callVars, world, Pcs
<1>4. ASSUME NEW c \in Calls, Restop(c) PROVE CallTypes'
  BY <1>4, <1>0 DEF Restop, Goto, FailTo, callVars, world, Pcs
<1>5. ASSUME NEW c \in Calls, MakeTemp(c) PROVE CallTypes'
  BY <1>5, <1>0 DEF MakeTemp, Goto, FailTo, callVars, world, Pcs
<1>6. ASSUME NEW c \in Calls, Mkdir(c) PROVE CallTypes'
  BY <1>6, <1>0 DEF Mkdir, Goto, FailTo, callVars, world, Pcs
<1>7. ASSUME NEW c \in Calls, Copy(c) PROVE CallTypes'
  <2>1. file' \in SecretFile
    BY <1>7, <1>0 DEF Copy, SecretFile
  <2> QED
    BY <1>7, <1>0, <2>1 DEF Copy, Goto, FailTo, callVars, world, Pcs
<1>8. ASSUME NEW c \in Calls, Chmod(c) PROVE CallTypes'
  <2>1. file' \in SecretFile
    BY <1>8, <1>0 DEF Chmod, SecretFile
  <2> QED
    BY <1>8, <1>0, <2>1 DEF Chmod, Goto, FailTo, callVars, world, Pcs
<1>9. ASSUME NEW c \in Calls, Cleanup(c) PROVE CallTypes'
  BY <1>9, <1>0 DEF Cleanup, Goto, FailTo, callVars, world, Pcs
<1>10. ASSUME NEW c \in Calls, Ssh(c) PROVE CallTypes'
  <2>1. (IF gives[c] THEN file ELSE NoFile) \in SecretFile
    BY <1>0
  <2>2. saw' \in [Calls -> SecretFile]
    BY <1>10, <1>0, <2>1 DEF Ssh
  <2> QED
    BY <1>10, <1>0, <2>2 DEF Ssh, Goto, FailTo, callVars, world, Pcs
<1>11. ASSUME NEW c \in Calls, Finish(c) PROVE CallTypes'
  BY <1>11, <1>0 DEF Finish, Goto, FailTo, callVars, world, Pcs
<1>12. ASSUME NEW c \in Calls, Die(c) PROVE CallTypes'
  BY <1>12, <1>0 DEF Die, Goto, FailTo, callVars, world, Pcs
<1>13. ASSUME NEW c \in Calls, NEW force \in BOOLEAN, Export(c, force) PROVE CallTypes'
  BY <1>13, <1>0 DEF Export, Goto, FailTo, callVars, Over, world, Pcs
<1>14. ASSUME NEW c \in Calls, Test(c) PROVE CallTypes'
  BY <1>14, <1>0 DEF Test, Goto, FailTo, callVars, world, Pcs
<1>15. ASSUME NEW c \in Calls, CopyOut(c) PROVE CallTypes'
  BY <1>15, <1>0 DEF CopyOut, Goto, FailTo, callVars, world, Pcs
<1>16. ASSUME Session PROVE CallTypes'
  BY <1>16, <1>0 DEF Session
<1>17. ASSUME UNCHANGED vars PROVE CallTypes'
  BY <1>17, <1>0 DEF vars, guestVars
<1>18. ASSUME NEW c \in Calls, RunStep(c) \/ ExportStep(c) PROVE CallTypes'
  BY <1>1, <1>2, <1>3, <1>4, <1>5, <1>6, <1>7, <1>8, <1>9, <1>10, <1>11, <1>12, <1>13,
     <1>14, <1>15, <1>18 DEF RunStep, ReadGuestLogs, ExportStep
<1>19. CallTypes'
  BY <1>16, <1>17, <1>18 DEF Next
<1> QED
  BY <1>19, AccessPortStep DEF TypeOK

\* No step is taken in a VM before there is one.
LEMMA WaitStep ==
    ASSUME AccessInv, [Next]_vars
    PROVE  WaitInv'
<1>. USE GuestAccessAssumption
     DEF AccessInv, TypeOK, HandOverInv, WaitInv, PortInv, StageInv
<1>1. ASSUME NEW c \in Calls, NEW e \in BOOLEAN, Begin(c, e) PROVE WaitInv'
  BY <1>1 DEF Begin, Goto, FailTo, callVars, Over, world, vmState, launchVars
<1>2. ASSUME NEW c \in Calls, Ensure(c) PROVE WaitInv'
  BY <1>2 DEF Ensure, FirstStep, Goto, FailTo, callVars, world, vmState, launchVars
<1>3. ASSUME NEW c \in Calls, Start(c) PROVE WaitInv'
  BY <1>3
  DEF Start, FirstStep, Goto, FailTo, callVars, world, vmState, launchVars, PowerOn
<1>4. ASSUME NEW c \in Calls, Restop(c) PROVE WaitInv'
  BY <1>4 DEF Restop, Goto, FailTo, callVars, world, vmState, launchVars, PowerOff
<1>5. ASSUME NEW c \in Calls, MakeTemp(c) PROVE WaitInv'
  BY <1>5 DEF MakeTemp, Goto, FailTo, callVars, world, vmState, launchVars
<1>6. ASSUME NEW c \in Calls, Mkdir(c) PROVE WaitInv'
  BY <1>6 DEF Mkdir, Goto, FailTo, callVars, world, vmState, launchVars
<1>7. ASSUME NEW c \in Calls, Copy(c) PROVE WaitInv'
  BY <1>7 DEF Copy, Goto, FailTo, callVars, world, vmState, launchVars
<1>8. ASSUME NEW c \in Calls, Chmod(c) PROVE WaitInv'
  BY <1>8 DEF Chmod, Goto, FailTo, callVars, world, vmState, launchVars
<1>9. ASSUME NEW c \in Calls, Cleanup(c) PROVE WaitInv'
  BY <1>9 DEF Cleanup, Goto, FailTo, callVars, world, vmState, launchVars
<1>10. ASSUME NEW c \in Calls, Ssh(c) PROVE WaitInv'
  BY <1>10 DEF Ssh, Goto, FailTo, callVars, world, vmState, launchVars
<1>11. ASSUME NEW c \in Calls, Finish(c) PROVE WaitInv'
  BY <1>11 DEF Finish, Goto, FailTo, callVars, world, vmState, launchVars
<1>12. ASSUME NEW c \in Calls, Die(c) PROVE WaitInv'
  BY <1>12 DEF Die, Goto, FailTo, callVars, world, vmState, launchVars
<1>13. ASSUME NEW c \in Calls, NEW force \in BOOLEAN, Export(c, force) PROVE WaitInv'
  BY <1>13 DEF Export, Goto, FailTo, callVars, Over, world, vmState, launchVars
<1>14. ASSUME NEW c \in Calls, Test(c) PROVE WaitInv'
  BY <1>14 DEF Test, Goto, FailTo, callVars, world, vmState, launchVars
<1>15. ASSUME NEW c \in Calls, CopyOut(c) PROVE WaitInv'
  BY <1>15 DEF CopyOut, Goto, FailTo, callVars, world, vmState, launchVars
<1>16. ASSUME Session PROVE WaitInv'
  <2>1. (lpc \in {"none", "clone"})' => lpc \in {"none", "clone"}
    BY <1>16
    DEF Session, PortNext, Launch, Clone, Configure, Checkpoint, Boot, Break, Retry,
        SwitchVm, DestroyVm, RecordClosed, Serve, TakePort, launchVars
  <2> QED
    BY <1>16, <2>1 DEF Session
<1>17. ASSUME UNCHANGED vars PROVE WaitInv'
  BY <1>17 DEF vars, guestVars, portVars, launchVars, vmVars
<1>18. ASSUME NEW c \in Calls, RunStep(c) \/ ExportStep(c) PROVE WaitInv'
  BY <1>1, <1>2, <1>3, <1>4, <1>5, <1>6, <1>7, <1>8, <1>9, <1>10, <1>11, <1>12, <1>13,
     <1>14, <1>15, <1>18 DEF RunStep, ReadGuestLogs, ExportStep
<1> QED
  BY <1>16, <1>17, <1>18 DEF Next

\* A call that is over stays over.
LEMMA EndedStep ==
    ASSUME AccessInv, [Next]_vars
    PROVE  EndedInv'
<1>. USE GuestAccessAssumption DEF AccessInv, TypeOK, HandOverInv, EndedInv
<1>1. ASSUME NEW c \in Calls, NEW e \in BOOLEAN, Begin(c, e) PROVE EndedInv'
  BY <1>1 DEF Begin, Goto, FailTo, callVars, Over
<1>2. ASSUME NEW c \in Calls, Ensure(c) PROVE EndedInv'
  BY <1>2 DEF Ensure, FirstStep, Goto, FailTo, callVars
<1>3. ASSUME NEW c \in Calls, Start(c) PROVE EndedInv'
  BY <1>3 DEF Start, FirstStep, Goto, FailTo, callVars
<1>4. ASSUME NEW c \in Calls, Restop(c) PROVE EndedInv'
  BY <1>4 DEF Restop, Goto, FailTo, callVars
<1>5. ASSUME NEW c \in Calls, MakeTemp(c) PROVE EndedInv'
  BY <1>5 DEF MakeTemp, Goto, FailTo, callVars
<1>6. ASSUME NEW c \in Calls, Mkdir(c) PROVE EndedInv'
  BY <1>6 DEF Mkdir, Goto, FailTo, callVars
<1>7. ASSUME NEW c \in Calls, Copy(c) PROVE EndedInv'
  BY <1>7 DEF Copy, Goto, FailTo, callVars
<1>8. ASSUME NEW c \in Calls, Chmod(c) PROVE EndedInv'
  BY <1>8 DEF Chmod, Goto, FailTo, callVars
<1>9. ASSUME NEW c \in Calls, Cleanup(c) PROVE EndedInv'
  BY <1>9 DEF Cleanup, Goto, FailTo, callVars
<1>10. ASSUME NEW c \in Calls, Ssh(c) PROVE EndedInv'
  BY <1>10 DEF Ssh, Goto, FailTo, callVars
<1>11. ASSUME NEW c \in Calls, Finish(c) PROVE EndedInv'
  BY <1>11 DEF Finish, Goto, FailTo, callVars
<1>12. ASSUME NEW c \in Calls, Die(c) PROVE EndedInv'
  BY <1>12 DEF Die, Goto, FailTo, callVars
<1>13. ASSUME NEW c \in Calls, NEW force \in BOOLEAN, Export(c, force) PROVE EndedInv'
  BY <1>13 DEF Export, Goto, FailTo, callVars, Over
<1>14. ASSUME NEW c \in Calls, Test(c) PROVE EndedInv'
  BY <1>14 DEF Test, Goto, FailTo, callVars
<1>15. ASSUME NEW c \in Calls, CopyOut(c) PROVE EndedInv'
  BY <1>15 DEF CopyOut, Goto, FailTo, callVars
<1>16. ASSUME Session PROVE EndedInv'
  BY <1>16 DEF Session
<1>17. ASSUME UNCHANGED vars PROVE EndedInv'
  BY <1>17 DEF vars, guestVars
<1>18. ASSUME NEW c \in Calls, RunStep(c) \/ ExportStep(c) PROVE EndedInv'
  BY <1>1, <1>2, <1>3, <1>4, <1>5, <1>6, <1>7, <1>8, <1>9, <1>10, <1>11, <1>12, <1>13,
     <1>14, <1>15, <1>18 DEF RunStep, ReadGuestLogs, ExportStep
<1> QED
  BY <1>16, <1>17, <1>18 DEF Next

\* Only a command that runs has an environment.
LEMMA SawStep ==
    ASSUME AccessInv, [Next]_vars
    PROVE  SawInv'
<1>. USE GuestAccessAssumption DEF AccessInv, TypeOK, HandOverInv, SawInv
<1>1. ASSUME NEW c \in Calls, NEW e \in BOOLEAN, Begin(c, e) PROVE SawInv'
  BY <1>1 DEF Begin, Goto, FailTo, callVars, Over
<1>2. ASSUME NEW c \in Calls, Ensure(c) PROVE SawInv'
  BY <1>2 DEF Ensure, FirstStep, Goto, FailTo, callVars
<1>3. ASSUME NEW c \in Calls, Start(c) PROVE SawInv'
  BY <1>3 DEF Start, FirstStep, Goto, FailTo, callVars
<1>4. ASSUME NEW c \in Calls, Restop(c) PROVE SawInv'
  BY <1>4 DEF Restop, Goto, FailTo, callVars
<1>5. ASSUME NEW c \in Calls, MakeTemp(c) PROVE SawInv'
  BY <1>5 DEF MakeTemp, Goto, FailTo, callVars
<1>6. ASSUME NEW c \in Calls, Mkdir(c) PROVE SawInv'
  BY <1>6 DEF Mkdir, Goto, FailTo, callVars
<1>7. ASSUME NEW c \in Calls, Copy(c) PROVE SawInv'
  BY <1>7 DEF Copy, Goto, FailTo, callVars
<1>8. ASSUME NEW c \in Calls, Chmod(c) PROVE SawInv'
  BY <1>8 DEF Chmod, Goto, FailTo, callVars
<1>9. ASSUME NEW c \in Calls, Cleanup(c) PROVE SawInv'
  BY <1>9 DEF Cleanup, Goto, FailTo, callVars
<1>10. ASSUME NEW c \in Calls, Ssh(c) PROVE SawInv'
  BY <1>10 DEF Ssh, Goto, FailTo, callVars
<1>11. ASSUME NEW c \in Calls, Finish(c) PROVE SawInv'
  BY <1>11 DEF Finish, Goto, FailTo, callVars
<1>12. ASSUME NEW c \in Calls, Die(c) PROVE SawInv'
  BY <1>12 DEF Die, Goto, FailTo, callVars
<1>13. ASSUME NEW c \in Calls, NEW force \in BOOLEAN, Export(c, force) PROVE SawInv'
  BY <1>13 DEF Export, Goto, FailTo, callVars, Over
<1>14. ASSUME NEW c \in Calls, Test(c) PROVE SawInv'
  BY <1>14 DEF Test, Goto, FailTo, callVars
<1>15. ASSUME NEW c \in Calls, CopyOut(c) PROVE SawInv'
  BY <1>15 DEF CopyOut, Goto, FailTo, callVars
<1>16. ASSUME Session PROVE SawInv'
  BY <1>16 DEF Session
<1>17. ASSUME UNCHANGED vars PROVE SawInv'
  BY <1>17 DEF vars, guestVars
<1>18. ASSUME NEW c \in Calls, RunStep(c) \/ ExportStep(c) PROVE SawInv'
  BY <1>1, <1>2, <1>3, <1>4, <1>5, <1>6, <1>7, <1>8, <1>9, <1>10, <1>11, <1>12, <1>13,
     <1>14, <1>15, <1>18 DEF RunStep, ReadGuestLogs, ExportStep
<1> QED
  BY <1>16, <1>17, <1>18 DEF Next

\* Every step leaves a call its environment or that of a call it overlaps.
LEMMA OwnerStep ==
    ASSUME AccessInv, [Next]_vars
    PROVE  OwnerInv'
<1>. USE GuestAccessAssumption
     DEF AccessInv, TypeOK, HandOverInv, WaitInv, EndedInv, OwnerInv, Copied
<1>1. ASSUME NEW c \in Calls, NEW e \in BOOLEAN, Begin(c, e) PROVE OwnerInv'
  BY <1>1 DEF Begin, Goto, FailTo, callVars, Over, world, vmState, launchVars
<1>2. ASSUME NEW c \in Calls, Ensure(c) PROVE OwnerInv'
  BY <1>2 DEF Ensure, FirstStep, Goto, FailTo, callVars, world, vmState, launchVars
<1>3. ASSUME NEW c \in Calls, Start(c) PROVE OwnerInv'
  BY <1>3
  DEF Start, FirstStep, Goto, FailTo, callVars, world, vmState, launchVars, PowerOn
<1>4. ASSUME NEW c \in Calls, Restop(c) PROVE OwnerInv'
  BY <1>4 DEF Restop, Goto, FailTo, callVars, world, vmState, launchVars, PowerOff
<1>5. ASSUME NEW c \in Calls, MakeTemp(c) PROVE OwnerInv'
  BY <1>5 DEF MakeTemp, Goto, FailTo, callVars, world, vmState, launchVars
<1>6. ASSUME NEW c \in Calls, Mkdir(c) PROVE OwnerInv'
  BY <1>6 DEF Mkdir, Goto, FailTo, callVars, world, vmState, launchVars
<1>7. ASSUME NEW c \in Calls, Copy(c) PROVE OwnerInv'
  BY <1>7 DEF Copy, Goto, FailTo, callVars, world, vmState, launchVars
<1>8. ASSUME NEW c \in Calls, Chmod(c) PROVE OwnerInv'
  <2>1. file' = [owner |-> file.owner, private |-> TRUE] \/ file' = file
    BY <1>8 DEF Chmod, SecretFile
  <2> QED
    BY <1>8, <2>1 DEF Chmod, Goto, FailTo, callVars, vmState
<1>9. ASSUME NEW c \in Calls, Cleanup(c) PROVE OwnerInv'
  BY <1>9 DEF Cleanup, Goto, FailTo, callVars, world, vmState, launchVars
<1>10. ASSUME NEW c \in Calls, Ssh(c) PROVE OwnerInv'
  BY <1>10 DEF Ssh, Goto, FailTo, callVars, world, vmState, launchVars
<1>11. ASSUME NEW c \in Calls, Finish(c) PROVE OwnerInv'
  BY <1>11 DEF Finish, Goto, FailTo, callVars, world, vmState, launchVars
<1>12. ASSUME NEW c \in Calls, Die(c) PROVE OwnerInv'
  BY <1>12 DEF Die, Goto, FailTo, callVars, world, vmState, launchVars
<1>13. ASSUME NEW c \in Calls, NEW force \in BOOLEAN, Export(c, force) PROVE OwnerInv'
  BY <1>13 DEF Export, Goto, FailTo, callVars, Over, world, vmState, launchVars
<1>14. ASSUME NEW c \in Calls, Test(c) PROVE OwnerInv'
  BY <1>14 DEF Test, Goto, FailTo, callVars, world, vmState, launchVars
<1>15. ASSUME NEW c \in Calls, CopyOut(c) PROVE OwnerInv'
  BY <1>15 DEF CopyOut, Goto, FailTo, callVars, world, vmState, launchVars
<1>16. ASSUME Session PROVE OwnerInv'
  <2>1. ASSUME (vm # "none")', NEW c \in Calls, Copied(c)' PROVE vm # "none"
    <3>1. Copied(c)
      BY <1>16, <2>1 DEF Session, Copied
    <3>2. lpc # "clone"
      BY <3>1 DEF Copied, WaitInv
    <3> QED
      BY <1>16, <2>1, <3>2
      DEF Session, PortNext, Launch, Clone, Configure, Checkpoint, Boot, Break, Retry,
          SwitchVm, DestroyVm, RecordClosed, Serve, TakePort, PowerOn,
          PowerOff, vmVars
  <2> QED
    BY <1>16, <2>1 DEF Session, Copied
<1>17. ASSUME UNCHANGED vars PROVE OwnerInv'
  BY <1>17 DEF vars, guestVars, portVars, launchVars, vmVars
<1>18. ASSUME NEW c \in Calls, RunStep(c) \/ ExportStep(c) PROVE OwnerInv'
  BY <1>1, <1>2, <1>3, <1>4, <1>5, <1>6, <1>7, <1>8, <1>9, <1>10, <1>11, <1>12, <1>13,
     <1>14, <1>15, <1>18 DEF RunStep, ReadGuestLogs, ExportStep
<1> QED
  BY <1>16, <1>17, <1>18 DEF Next

\* An environment that is handed over stays its user's.
LEMMA PrivateStep ==
    ASSUME AccessInv, [Next]_vars
    PROVE  PrivateInv'
<1>. USE GuestAccessAssumption
     DEF AccessInv, TypeOK, HandOverInv, PrivateInv, HandedOver, Copied
<1>1. ASSUME NEW c \in Calls, NEW e \in BOOLEAN, Begin(c, e) PROVE PrivateInv'
  BY <1>1 DEF Begin, Goto, FailTo, callVars, Over
<1>2. ASSUME NEW c \in Calls, Ensure(c) PROVE PrivateInv'
  BY <1>2 DEF Ensure, FirstStep, Goto, FailTo, callVars
<1>3. ASSUME NEW c \in Calls, Start(c) PROVE PrivateInv'
  BY <1>3 DEF Start, FirstStep, Goto, FailTo, callVars
<1>4. ASSUME NEW c \in Calls, Restop(c) PROVE PrivateInv'
  BY <1>4 DEF Restop, Goto, FailTo, callVars
<1>5. ASSUME NEW c \in Calls, MakeTemp(c) PROVE PrivateInv'
  BY <1>5 DEF MakeTemp, Goto, FailTo, callVars
<1>6. ASSUME NEW c \in Calls, Mkdir(c) PROVE PrivateInv'
  BY <1>6 DEF Mkdir, Goto, FailTo, callVars
<1>7. ASSUME NEW c \in Calls, Copy(c) PROVE PrivateInv'
  BY <1>7 DEF Copy, Goto, FailTo, callVars
<1>8. ASSUME NEW c \in Calls, Chmod(c) PROVE PrivateInv'
  <2>1. CASE file'.private
    BY <2>1
  <2>2. CASE file' = file /\ FailTo(c, "cleanup")
    BY <1>8, <2>2 DEF Chmod, FailTo, callVars
  <2> QED
    BY <1>8, <2>1, <2>2 DEF Chmod, SecretFile
<1>9. ASSUME NEW c \in Calls, Cleanup(c) PROVE PrivateInv'
  BY <1>9 DEF Cleanup, Goto, FailTo, callVars
<1>10. ASSUME NEW c \in Calls, Ssh(c) PROVE PrivateInv'
  BY <1>10 DEF Ssh, Goto, FailTo, callVars
<1>11. ASSUME NEW c \in Calls, Finish(c) PROVE PrivateInv'
  BY <1>11 DEF Finish, Goto, FailTo, callVars
<1>12. ASSUME NEW c \in Calls, Die(c) PROVE PrivateInv'
  BY <1>12 DEF Die, Goto, FailTo, callVars
<1>13. ASSUME NEW c \in Calls, NEW force \in BOOLEAN, Export(c, force) PROVE PrivateInv'
  BY <1>13 DEF Export, Goto, FailTo, callVars, Over
<1>14. ASSUME NEW c \in Calls, Test(c) PROVE PrivateInv'
  BY <1>14 DEF Test, Goto, FailTo, callVars
<1>15. ASSUME NEW c \in Calls, CopyOut(c) PROVE PrivateInv'
  BY <1>15 DEF CopyOut, Goto, FailTo, callVars
<1>16. ASSUME Session PROVE PrivateInv'
  BY <1>16 DEF Session, NoFile, SecretFile
<1>17. ASSUME UNCHANGED vars PROVE PrivateInv'
  BY <1>17 DEF vars, guestVars
<1>18. ASSUME NEW c \in Calls, RunStep(c) \/ ExportStep(c) PROVE PrivateInv'
  BY <1>1, <1>2, <1>3, <1>4, <1>5, <1>6, <1>7, <1>8, <1>9, <1>10, <1>11, <1>12, <1>13,
     <1>14, <1>15, <1>18 DEF RunStep, ReadGuestLogs, ExportStep
<1> QED
  BY <1>16, <1>17, <1>18 DEF Next

\* No step lets a command begin with what an earlier call left.
LEMMA StaleStep ==
    ASSUME AccessInv, [Next]_vars
    PROVE  NoStaleSecrets'
<1>. USE GuestAccessAssumption
     DEF AccessInv, TypeOK, HandOverInv, SawInv, OwnerInv, Copied, NoStaleSecrets
<1>1. ASSUME NEW c \in Calls, NEW e \in BOOLEAN, Begin(c, e) PROVE NoStaleSecrets'
  BY <1>1 DEF Begin, Goto, FailTo, callVars, Over, NoFile
<1>2. ASSUME NEW c \in Calls, Ensure(c) PROVE NoStaleSecrets'
  BY <1>2 DEF Ensure, FirstStep, Goto, FailTo, callVars, NoFile
<1>3. ASSUME NEW c \in Calls, Start(c) PROVE NoStaleSecrets'
  BY <1>3 DEF Start, FirstStep, Goto, FailTo, callVars, NoFile
<1>4. ASSUME NEW c \in Calls, Restop(c) PROVE NoStaleSecrets'
  BY <1>4 DEF Restop, Goto, FailTo, callVars, NoFile
<1>5. ASSUME NEW c \in Calls, MakeTemp(c) PROVE NoStaleSecrets'
  BY <1>5 DEF MakeTemp, Goto, FailTo, callVars, NoFile
<1>6. ASSUME NEW c \in Calls, Mkdir(c) PROVE NoStaleSecrets'
  BY <1>6 DEF Mkdir, Goto, FailTo, callVars, NoFile
<1>7. ASSUME NEW c \in Calls, Copy(c) PROVE NoStaleSecrets'
  BY <1>7 DEF Copy, Goto, FailTo, callVars, NoFile
<1>8. ASSUME NEW c \in Calls, Chmod(c) PROVE NoStaleSecrets'
  BY <1>8 DEF Chmod, Goto, FailTo, callVars, NoFile
<1>9. ASSUME NEW c \in Calls, Cleanup(c) PROVE NoStaleSecrets'
  BY <1>9 DEF Cleanup, Goto, FailTo, callVars, NoFile
<1>10. ASSUME NEW c \in Calls, Ssh(c) PROVE NoStaleSecrets'
  BY <1>10 DEF Ssh, Goto, FailTo, callVars, NoFile
<1>11. ASSUME NEW c \in Calls, Finish(c) PROVE NoStaleSecrets'
  BY <1>11 DEF Finish, Goto, FailTo, callVars, NoFile
<1>12. ASSUME NEW c \in Calls, Die(c) PROVE NoStaleSecrets'
  BY <1>12 DEF Die, Goto, FailTo, callVars, NoFile
<1>13. ASSUME NEW c \in Calls, NEW force \in BOOLEAN, Export(c, force) PROVE NoStaleSecrets'
  BY <1>13 DEF Export, Goto, FailTo, callVars, Over, NoFile
<1>14. ASSUME NEW c \in Calls, Test(c) PROVE NoStaleSecrets'
  BY <1>14 DEF Test, Goto, FailTo, callVars, NoFile
<1>15. ASSUME NEW c \in Calls, CopyOut(c) PROVE NoStaleSecrets'
  BY <1>15 DEF CopyOut, Goto, FailTo, callVars, NoFile
<1>16. ASSUME Session PROVE NoStaleSecrets'
  BY <1>16 DEF Session
<1>17. ASSUME UNCHANGED vars PROVE NoStaleSecrets'
  BY <1>17 DEF vars, guestVars, NoFile
<1>18. ASSUME NEW c \in Calls, RunStep(c) \/ ExportStep(c) PROVE NoStaleSecrets'
  BY <1>1, <1>2, <1>3, <1>4, <1>5, <1>6, <1>7, <1>8, <1>9, <1>10, <1>11, <1>12, <1>13,
     <1>14, <1>15, <1>18 DEF RunStep, ReadGuestLogs, ExportStep
<1> QED
  BY <1>16, <1>17, <1>18 DEF Next

\* No step opens an environment to others or forgets it on the host.
LEMMA KeptStep ==
    ASSUME AccessInv, [Next]_vars
    PROVE  SecretsAreKept'
<1>. USE GuestAccessAssumption
     DEF AccessInv, TypeOK, HandOverInv, SawInv, PrivateInv, HandedOver, Copied,
         SecretsAreKept
<1>1. ASSUME NEW c \in Calls, NEW e \in BOOLEAN, Begin(c, e) PROVE SecretsAreKept'
  BY <1>1 DEF Begin, Goto, FailTo, callVars, Over, NoFile
<1>2. ASSUME NEW c \in Calls, Ensure(c) PROVE SecretsAreKept'
  BY <1>2 DEF Ensure, FirstStep, Goto, FailTo, callVars, NoFile
<1>3. ASSUME NEW c \in Calls, Start(c) PROVE SecretsAreKept'
  BY <1>3 DEF Start, FirstStep, Goto, FailTo, callVars, NoFile
<1>4. ASSUME NEW c \in Calls, Restop(c) PROVE SecretsAreKept'
  BY <1>4 DEF Restop, Goto, FailTo, callVars, NoFile
<1>5. ASSUME NEW c \in Calls, MakeTemp(c) PROVE SecretsAreKept'
  BY <1>5 DEF MakeTemp, Goto, FailTo, callVars, NoFile
<1>6. ASSUME NEW c \in Calls, Mkdir(c) PROVE SecretsAreKept'
  BY <1>6 DEF Mkdir, Goto, FailTo, callVars, NoFile
<1>7. ASSUME NEW c \in Calls, Copy(c) PROVE SecretsAreKept'
  BY <1>7 DEF Copy, Goto, FailTo, callVars, NoFile
<1>8. ASSUME NEW c \in Calls, Chmod(c) PROVE SecretsAreKept'
  BY <1>8 DEF Chmod, Goto, FailTo, callVars, NoFile
<1>9. ASSUME NEW c \in Calls, Cleanup(c) PROVE SecretsAreKept'
  BY <1>9 DEF Cleanup, Goto, FailTo, callVars, NoFile
<1>10. ASSUME NEW c \in Calls, Ssh(c) PROVE SecretsAreKept'
  BY <1>10 DEF Ssh, Goto, FailTo, callVars, NoFile
<1>11. ASSUME NEW c \in Calls, Finish(c) PROVE SecretsAreKept'
  BY <1>11 DEF Finish, Goto, FailTo, callVars, NoFile
<1>12. ASSUME NEW c \in Calls, Die(c) PROVE SecretsAreKept'
  BY <1>12 DEF Die, Goto, FailTo, callVars, NoFile
<1>13. ASSUME NEW c \in Calls, NEW force \in BOOLEAN, Export(c, force) PROVE SecretsAreKept'
  BY <1>13 DEF Export, Goto, FailTo, callVars, Over, NoFile
<1>14. ASSUME NEW c \in Calls, Test(c) PROVE SecretsAreKept'
  BY <1>14 DEF Test, Goto, FailTo, callVars, NoFile
<1>15. ASSUME NEW c \in Calls, CopyOut(c) PROVE SecretsAreKept'
  BY <1>15 DEF CopyOut, Goto, FailTo, callVars, NoFile
<1>16. ASSUME Session PROVE SecretsAreKept'
  BY <1>16 DEF Session
<1>17. ASSUME UNCHANGED vars PROVE SecretsAreKept'
  BY <1>17 DEF vars, guestVars, NoFile
<1>18. ASSUME NEW c \in Calls, RunStep(c) \/ ExportStep(c) PROVE SecretsAreKept'
  BY <1>1, <1>2, <1>3, <1>4, <1>5, <1>6, <1>7, <1>8, <1>9, <1>10, <1>11, <1>12, <1>13,
     <1>14, <1>15, <1>18 DEF RunStep, ReadGuestLogs, ExportStep
<1> QED
  BY <1>16, <1>17, <1>18 DEF Next

-------------------------------------------------------------------------------
(* GuestAccess: theorems *)

\* The invariant of the launch, its ports and the calls into the guest.
THEOREM GuestInductive == Spec => []AccessInv
<1>1. ASSUME Init PROVE AccessInv
  <2>1. PortTypeOK
    <3>1. <<>> \in Seq(Ports) /\ <<>> \in Seq(Rules)
      BY TemplateGuards
    <3>2. 0 \in 0..MaxBreaks
      BY PublishedPortsAssumption
    <3> QED
      BY <1>1, <3>1, <3>2 DEF Init, PortInit, PortTypeOK
  <2>2. PortInv
    BY <1>1, FS_EmptySet DEF Init, PortInit, PortInv, StageInv, GuardInv
  <2>3. NoFile \in SecretFile
    BY DEF NoFile, SecretFile
  <2>4. TypeOK
    BY <1>1, <2>1, <2>3 DEF Init, TypeOK, Pcs
  <2>5. HandOverInv
    BY <1>1
    DEF Init, PortInit, HandOverInv, WaitInv, EndedInv, SawInv, OwnerInv, PrivateInv,
        HandedOver, Copied
  <2>6. NoStaleSecrets
    BY <1>1, GuestAccessAssumption DEF Init, NoFile, NoStaleSecrets
  <2>7. SecretsAreKept
    BY <1>1, GuestAccessAssumption DEF Init, NoFile, SecretsAreKept
  <2> QED
    BY <2>2, <2>4, <2>5, <2>6, <2>7 DEF AccessInv
<1>2. AccessInv /\ [Next]_vars => AccessInv'
  BY AccessPortStep, AccessTypeStep, WaitStep, EndedStep, SawStep, OwnerStep, PrivateStep,
     StaleStep, KeptStep DEF AccessInv, HandOverInv
<1> QED
  BY <1>1, <1>2, PTL DEF Spec

\* run and shell never begin with an environment that an earlier call left.
THEOREM EnvironmentIsFresh == Spec => []NoStaleSecrets
<1>1. AccessInv => NoStaleSecrets
  BY DEF AccessInv
<1> QED
  BY <1>1, GuestInductive, PTL

\* The environment of a call stays with its user, in the guest and on the host.
THEOREM EnvironmentIsKept == Spec => []SecretsAreKept
<1>1. AccessInv => SecretsAreKept
  BY DEF AccessInv
<1> QED
  BY <1>1, GuestInductive, PTL

\* Lima forwards what was published and nothing else.
THEOREM PublishedIsForwarded == Spec => []ForwardsArePublished
<1>1. AccessInv => ForwardsArePublished
  BY PublishedOnly DEF AccessInv, TypeOK
<1> QED
  BY <1>1, GuestInductive, PTL

-------------------------------------------------------------------------------
(* PublishedPorts and GuestAccess implement SessionRegistry *)

\* A step of the session inserts, forgets or closes its row, or makes, switches or
\* deletes its VM.
LEMMA PortRegistryStep ==
    ASSUME PortTypeOK, PortInv, PortNext
    PROVE  [Registry!RegistryNext]_(Registry!registry)
<1> DEFINE Goal == [Registry!RegistryNext]_(Registry!registry)
<1>. USE DEF PortTypeOK, PortInv, StageInv, RowState, Registry!registry
<1>1. ASSUME NEW q \in Requests, Launch(q) PROVE Goal
  BY <1>1 DEF Launch, vmVars, Registry!RegistryNext, Registry!Insert
<1>2. ASSUME Clone PROVE Goal
  BY <1>2 DEF Clone, Registry!RegistryNext, Registry!Clone
<1>3. ASSUME Configure \/ Checkpoint \/ Retry PROVE Goal
  BY <1>3 DEF Configure, Checkpoint, Retry, vmVars
<1>4. ASSUME Boot \/ SwitchVm PROVE Goal
  BY <1>4
  DEF Boot, SwitchVm, PowerOn, PowerOff, launchVars, Registry!RegistryNext, Registry!Power,
      Registry!Machines
<1>5. ASSUME Break PROVE Goal
  BY <1>5 DEF Break, vmVars, Registry!RegistryNext, Registry!Forget
<1>6. ASSUME DestroyVm PROVE Goal
  BY <1>6 DEF DestroyVm, Registry!RegistryNext, Registry!Delete
<1>7. ASSUME RecordClosed PROVE Goal
  BY <1>7 DEF RecordClosed, vmVars, Registry!RegistryNext, Registry!WriteState
<1>8. ASSUME UNCHANGED <<launchVars, vmVars>> PROVE Goal
  BY <1>8 DEF launchVars, vmVars
<1> QED
  BY <1>1, <1>2, <1>3, <1>4, <1>5, <1>6, <1>7, <1>8
  DEF PortNext, Serve, TakePort

\* The launches, retries, calls and close of a session with published ports change
\* its row and its VM as SessionRegistry allows.
THEOREM GuestRefinesRegistry == Spec => ImplementsRegistry
<1>1. Init => Registry!RegistryInit
  BY DEF Init, PortInit, RowState, Registry!RegistryInit
<1>2. AccessInv /\ [Next]_vars => [Registry!RegistryNext]_(Registry!registry)
  <2> SUFFICES ASSUME AccessInv, [Next]_vars
               PROVE  [Registry!RegistryNext]_(Registry!registry)
    OBVIOUS
  <2>1. CASE Session
    BY <2>1, PortRegistryStep DEF Session, AccessInv, TypeOK
  <2>2. ASSUME NEW c \in Calls, RunStep(c) \/ ExportStep(c)
        PROVE  [Registry!RegistryNext]_(Registry!registry)
    <3>1. lpc' = lpc /\ (PowerOn \/ PowerOff \/ UNCHANGED vm)
      BY <2>2
      DEF RunStep, ReadGuestLogs, ExportStep, Begin, Ensure, Start, Restop, MakeTemp,
          Mkdir, Copy, Chmod, Cleanup, Ssh, Finish, Die, Export, Test, CopyOut, world,
          launchVars, vmState
    <3> QED
      BY <3>1
      DEF PowerOn, PowerOff, RowState, Registry!registry, Registry!RegistryNext,
          Registry!Power
  <2>3. CASE UNCHANGED vars
    BY <2>3 DEF vars, portVars, launchVars, vmVars, RowState, Registry!registry
  <2> QED
    BY <2>1, <2>2, <2>3 DEF Next
<1> QED
  BY <1>1, <1>2, GuestInductive, PTL DEF Spec, ImplementsRegistry, Registry!RegistrySpec
================================================================================
