--------------------------- MODULE AgentSessionProofs ---------------------------
(***************************************************************************)
(* AgentSession for any number of processes, providers, sources and tmux   *)
(* windows: the invariant IInv is inductive, the safety properties follow  *)
(* from it, and nothing is imported without consent.                       *)
(***************************************************************************)
EXTENDS AgentSession, TLAPS

\* What detect_auth finds are sources.
LEMMA DetectedAreSources ==
    ASSUME user \in Users, NEW k \in Providers, NEW d \in user.found[k]
    PROVE  d \subseteq Sources
BY DEF Sources

\* A new window takes the place of none; the others stay.
LEMMA Opened ==
    ASSUME TypeOK, NEW n \in {"shell", "agent"}, OpenWindow(n)
    PROVE  \E w \in Named("none") :
             /\ w \in Ids /\ current' = w /\ windows' \in [Ids -> Window]
             /\ windows'[w] = [name |-> n, live |-> TRUE, keep |-> FALSE, runs |-> None]
             /\ \A v \in Ids : v # w => windows'[v] = windows[v]
<1>1. NewWindow(n) \in Window
  BY DEF NewWindow, Window
<1>. QED
  BY <1>1 DEF OpenWindow, NewWindow, Named, TypeOK

\* What closes is one window; without a window there is no current one.
LEMMA Closed ==
    ASSUME TypeOK, NEW w \in Ids, windows[w].name # "none", Close(w)
    PROVE  /\ windows' \in [Ids -> Window] /\ current' \in Ids \cup {0}
           /\ windows'[w] = NoWindow
           /\ \A v \in Ids : v # w => windows'[v] = windows[v]
           /\ current' = 0 =>
                (current = 0 \/ \A v \in Ids : v # w => windows[v].name = "none")
<1>1. NoWindow \in Window
  BY DEF NoWindow, Window
<1>. QED
  BY <1>1 DEF Close, Named, TypeOK, Ids

\* remain-on-exit changes only that of the window tmux finds.
LEMMA KeptIs ==
    ASSUME TypeOK, NEW n \in {"shell", "agent"}
    PROVE  /\ Kept(n) \in [Ids -> Window]
           /\ \A w \in Ids : /\ Kept(n)[w].name = windows[w].name
                             /\ Kept(n)[w].runs = windows[w].runs
                             /\ windows[w].keep => Kept(n)[w].keep
                             /\ Only(n, w) => Kept(n)[w].keep
                             /\ Kept(n)[w].live = windows[w].live
<1>1. ASSUME NEW w \in Ids PROVE [windows[w] EXCEPT !.keep = TRUE] \in Window
  BY DEF TypeOK, Window
<1>. QED
  BY <1>1 DEF Kept, TypeOK, Window

\* What a window is after its program has ended, and after a start has put one
\* into it or attach has started its shell again.
LEMMA Changed ==
    ASSUME TypeOK, NEW w \in Ids
    PROVE  /\ Dies(w) => /\ windows' \in [Ids -> Window] /\ current' = current
                         /\ windows'[w] = [windows[w] EXCEPT !.live = FALSE, !.runs = None]
                         /\ windows'[w].name = windows[w].name
                         /\ windows'[w].keep = windows[w].keep
                         /\ windows'[w].runs = None
                         /\ \A v \in Ids : v # w => windows'[v] = windows[v]
           /\ [windows EXCEPT ![w].live = TRUE] \in [Ids -> Window]
           /\ \A k \in Providers : [windows EXCEPT ![w].runs = k] \in [Ids -> Window]
<1>1. windows[w] \in Window
  BY DEF TypeOK
<1>2. [windows[w] EXCEPT !.live = TRUE] \in Window
  BY <1>1 DEF Window
<1>3. ASSUME NEW k \in Providers \cup {None} PROVE [windows[w] EXCEPT !.runs = k] \in Window
  BY <1>1 DEF Window
<1>4. /\ [windows[w] EXCEPT !.live = FALSE, !.runs = None] \in Window
      /\ [windows[w] EXCEPT !.live = FALSE, !.runs = None].name = windows[w].name
      /\ [windows[w] EXCEPT !.live = FALSE, !.runs = None].keep = windows[w].keep
      /\ [windows[w] EXCEPT !.live = FALSE, !.runs = None].runs = None
  BY <1>1 DEF Window
<1>5. ASSUME Dies(w)
      PROVE  /\ windows' \in [Ids -> Window] /\ current' = current
             /\ windows'[w] = [windows[w] EXCEPT !.live = FALSE, !.runs = None]
             /\ \A v \in Ids : v # w => windows'[v] = windows[v]
  BY <1>4, <1>5 DEF Dies, TypeOK
<1>. QED
  BY <1>2, <1>3, <1>4, <1>5 DEF TypeOK

\* A window that closes or dies leaves windows behind.
LEMMA Takes ==
    ASSUME TypeOK, NEW w \in Ids, windows[w].name # "none", Close(w) \/ Dies(w)
    PROVE  windows' \in [Ids -> Window] /\ current' \in Ids \cup {0}
<1>1. CASE Close(w)
  BY <1>1, Closed
<1>2. CASE Dies(w)
  <2>1. windows' \in [Ids -> Window] /\ current' = current
    BY <1>2, Changed
  <2>. QED
    BY <2>1 DEF TypeOK
<1>. QED
  BY <1>1, <1>2

\* Every step keeps the variables in their types.
LEMMA TypeStep ==
    ASSUME IInv, [Next]_vars
    PROVE  TypeOK'
<1>. USE AgentAssumption DEF IInv, TypeOK, JobInv, StartPcs, ScriptPcs, OpeningPcs, Jobs, NoJob, Idle,
         Step, Goto, Exit, Asked, row, disk, tmux, local, history
<1>1. ASSUME NEW p \in Procs, StartBegin(p) PROVE TypeOK'
  BY <1>1 DEF StartBegin, Compatible, Starting
<1>2. ASSUME NEW p \in Procs, Resolve(p) PROVE TypeOK'
  <2>1. PICK m \in user.flags, tty \in BOOLEAN, d \in user.found[job[p].kind] :
          LET verdict == Decision(m, prefs[job[p].kind], d, tty) IN
          /\ selected' = [selected EXCEPT ![p] =
                              IF verdict \in {"import", "prompt"} THEN d ELSE {}]
          /\ Goto(p, IF verdict = "prompt" THEN "prompt" ELSE "boot")
          /\ IF m \in {"import", "none"} THEN Remember(job[p].kind, m = "import")
                                         ELSE UNCHANGED prefs
    BY <1>2 DEF Resolve
  <2>2. job[p].kind \in Providers
    BY <1>2 DEF Resolve
  <2>3. d \subseteq Sources
    BY <2>2, DetectedAreSources
  <2>4. selected' \in [Procs -> SUBSET Sources]
    BY <2>1, <2>3
  <2>5. prefs' \in [Providers -> {"import", "none", "unset"}]
    BY <2>1, <2>2 DEF Remember
  <2>6. pc' \in [Procs -> StartPcs \cup {"probe", "select", Idle}]
    BY <2>1
  <2>. QED
    BY <1>2, <2>4, <2>5, <2>6 DEF Resolve
<1>3. ASSUME NEW p \in Procs, Prompt(p) PROVE TypeOK'
  <2>1. job[p].kind \in Providers
    BY <1>3 DEF Prompt
  <2>2. prefs' \in [Providers -> {"import", "none", "unset"}]
    BY <1>3, <2>1 DEF Prompt, Remember
  <2>3. selected' \in [Procs -> SUBSET Sources]
    BY <1>3 DEF Prompt
  <2>4. pc' \in [Procs -> StartPcs \cup {"probe", "select", Idle}]
    BY <1>3 DEF Prompt
  <2>. QED
    BY <1>3, <2>2, <2>3, <2>4 DEF Prompt
<1>4. ASSUME NEW p \in Procs, EnsureInstanceRunning(p) PROVE TypeOK'
  BY <1>4 DEF EnsureInstanceRunning
<1>5. ASSUME NEW p \in Procs, Bootstrap(p) PROVE TypeOK'
  BY <1>5 DEF Bootstrap
<1>6. ASSUME NEW p \in Procs, CopyFile(p) PROVE TypeOK'
  BY <1>6 DEF CopyFile
<1>7. ASSUME NEW p \in Procs, FilesCopied(p) PROVE TypeOK'
  BY <1>7 DEF FilesCopied
<1>8. ASSUME NEW p \in Procs, WriteAuthEnv(p) PROVE TypeOK'
  BY <1>8 DEF WriteAuthEnv, AuthEnvIs
<1>9. ASSUME NEW p \in Procs, HasSession(p) PROVE TypeOK'
  BY <1>9 DEF HasSession
<1>10. ASSUME NEW p \in Procs, NewSession(p) PROVE TypeOK'
  <2>1. CASE UNCHANGED tmux
    BY <1>10, <2>1 DEF NewSession
  <2>2. CASE OpenWindow("shell")
    BY <1>10, <2>2, Opened DEF NewSession
  <2>. QED
    BY <1>10, <2>1, <2>2 DEF NewSession, OpenIfTmux
<1>11. ASSUME NEW p \in Procs, ListWindows(p) PROVE TypeOK'
  BY <1>11 DEF ListWindows
<1>12. ASSUME NEW p \in Procs, NewShellWindow(p) PROVE TypeOK'
  <2>1. CASE UNCHANGED tmux
    BY <1>12, <2>1 DEF NewShellWindow
  <2>2. CASE OpenWindow("shell")
    BY <1>12, <2>2, Opened DEF NewShellWindow
  <2>. QED
    BY <1>12, <2>1, <2>2 DEF NewShellWindow, OpenIfTmux
<1>13. ASSUME NEW p \in Procs, KeepShell(p) PROVE TypeOK'
  BY <1>13, KeptIs DEF KeepShell, KeepAnd
<1>14. ASSUME NEW p \in Procs, KillOldAgent(p) PROVE TypeOK'
  <2>1. CASE UNCHANGED tmux
    BY <1>14, <2>1 DEF KillOldAgent
  <2>2. CASE CloseAgent
    BY <1>14, <2>2, Closed DEF KillOldAgent, CloseAgent, Only, Named
  <2>. QED
    BY <1>14, <2>1, <2>2 DEF KillOldAgent
<1>15. ASSUME NEW p \in Procs, NewAgentWindow(p) PROVE TypeOK'
  <2>1. CASE UNCHANGED tmux
    BY <1>15, <2>1 DEF NewAgentWindow
  <2>2. CASE OpenWindow("agent")
    BY <1>15, <2>2, Opened DEF NewAgentWindow
  <2>. QED
    BY <1>15, <2>1, <2>2 DEF NewAgentWindow, OpenIfTmux
<1>16. ASSUME NEW p \in Procs, KeepAgent(p) PROVE TypeOK'
  BY <1>16, KeptIs DEF KeepAgent
<1>17. ASSUME NEW p \in Procs, SendLine(p) PROVE TypeOK'
  <2>1. PICK w \in Ids : windows' = IF windows[w].live /\ windows[w].runs = None
                  THEN [windows EXCEPT ![w].runs = job[p].kind] ELSE windows
    BY <1>17 DEF SendLine
  <2>2. job[p].kind \in Providers
    BY <1>17 DEF SendLine
  <2>3. windows' \in [Ids -> Window]
    BY <2>1, <2>2, Changed
  <2>. QED
    BY <1>17, <2>3 DEF SendLine
<1>18. ASSUME NEW p \in Procs, Record(p) PROVE TypeOK'
  <2>1. kind' \in Providers \cup {None} /\ recorded' \subseteq Sources
    BY <1>18 DEF Record, RecordAs
  <2>2. settled' \in BOOLEAN
    <3>1. settled' = settled \/ settled' = (p \in alone)
      BY <1>18 DEF Record, RecordAs
    <3>2. (p \in alone) \in BOOLEAN
      BY SMT
    <3>. QED
      BY <3>1, <3>2
  <2>3. /\ pc' \in [Procs -> StartPcs \cup {"probe", "select", Idle}]
        /\ job' \in [Procs -> Jobs]
        /\ selected' \in [Procs -> SUBSET Sources] /\ alone' \subseteq Procs
    BY <1>18 DEF Record, RecordAs
  <2>. QED
    BY <1>18, <2>1, <2>2, <2>3 DEF Record, RecordAs
<1>19. ASSUME NEW p \in Procs, Fail(p) PROVE TypeOK'
  BY <1>19 DEF Fail
<1>20. ASSUME NEW p \in Procs, StartVmBegin(p) PROVE TypeOK'
  BY <1>20 DEF StartVmBegin
<1>21. ASSUME NEW p \in Procs, AttachBegin(p) PROVE TypeOK'
  BY <1>21 DEF AttachBegin
<1>22. ASSUME NEW p \in Procs, AdmitAttach(p) PROVE TypeOK'
  BY <1>22 DEF AdmitAttach
<1>23. ASSUME NEW p \in Procs, RefuseAttach(p) PROVE TypeOK'
  BY <1>23 DEF RefuseAttach
<1>24. ASSUME NEW p \in Procs, Attach(p) PROVE TypeOK'
  <2>1. PICK w \in Ids :
          /\ windows' = IF job[p].op = "shell_window"
                        THEN [windows EXCEPT ![w].live = TRUE] ELSE windows
          /\ current' = w
    BY <1>24 DEF Attach
  <2>2. windows' \in [Ids -> Window] /\ current' \in Ids
    BY <2>1, Changed
  <2>. QED
    BY <1>24, <2>2 DEF Attach
<1>25. ASSUME AuthSet PROVE TypeOK'
  BY <1>25 DEF AuthSet, Remember
<1>26. ASSUME AuthReset PROVE TypeOK'
  BY <1>26 DEF AuthReset
<1>27. ASSUME KillAgent PROVE TypeOK'
  BY <1>27, Closed DEF KillAgent, CloseAgent, Only, Named
<1>28. ASSUME ShellExits PROVE TypeOK'
  <2>1. PICK w \in Named("shell") : Close(w) \/ Dies(w)
    BY <1>28 DEF ShellExits
  <2>2. w \in Ids /\ windows[w].name # "none"
    BY <2>1 DEF Named
  <2>3. windows' \in [Ids -> Window] /\ current' \in Ids \cup {0}
    BY <2>1, <2>2, Takes
  <2>. QED
    BY <1>28, <2>3 DEF ShellExits
<1>29. ASSUME AgentExits PROVE TypeOK'
  <2>1. PICK w \in Named("agent") : Close(w) \/ Dies(w)
    BY <1>29 DEF AgentExits
  <2>2. w \in Ids /\ windows[w].name # "none"
    BY <2>1 DEF Named
  <2>3. windows' \in [Ids -> Window] /\ current' \in Ids \cup {0}
    BY <2>1, <2>2, Takes
  <2>. QED
    BY <1>29, <2>3 DEF AgentExits
<1>30. ASSUME UserSwitches PROVE TypeOK'
  BY <1>30 DEF UserSwitches
<1>31. ASSUME VmStops PROVE TypeOK'
  <2>1. NoWindow \in Window
    BY DEF NoWindow, Window
  <2>. QED
    BY <1>31, <2>1 DEF VmStops
<1>32. ASSUME UNCHANGED vars PROVE TypeOK'
  BY <1>32 DEF vars
<1>. QED
  BY <1>1, <1>2, <1>3, <1>4, <1>5, <1>6, <1>7, <1>8, <1>9, <1>10, <1>11, <1>12, <1>13,
     <1>14, <1>15, <1>16, <1>17, <1>18, <1>19, <1>20, <1>21, <1>22, <1>23, <1>24,
     <1>25, <1>26, <1>27, <1>28, <1>29, <1>30, <1>31, <1>32
  DEF Next, AgentStep, AttachStep, Outside

\* Every step leaves the processes at steps of their jobs.
LEMMA JobStep ==
    ASSUME IInv, [Next]_vars
    PROVE  JobInv'
<1>. USE AgentAssumption DEF IInv, TypeOK, JobInv, StartPcs, ScriptPcs, OpeningPcs, Jobs, NoJob, Idle,
         Step, Goto, Exit, Asked, row, disk, tmux, local, history
<1>1. ASSUME NEW p \in Procs, StartBegin(p) PROVE JobInv'
  BY <1>1 DEF StartBegin, Compatible, Starting
<1>2. ASSUME NEW p \in Procs, Resolve(p) PROVE JobInv'
  BY <1>2, DetectedAreSources DEF Resolve, Remember
<1>3. ASSUME NEW p \in Procs, Prompt(p) PROVE JobInv'
  BY <1>3 DEF Prompt, Remember
<1>4. ASSUME NEW p \in Procs, EnsureInstanceRunning(p) PROVE JobInv'
  BY <1>4 DEF EnsureInstanceRunning
<1>5. ASSUME NEW p \in Procs, Bootstrap(p) PROVE JobInv'
  BY <1>5 DEF Bootstrap
<1>6. ASSUME NEW p \in Procs, CopyFile(p) PROVE JobInv'
  BY <1>6 DEF CopyFile
<1>7. ASSUME NEW p \in Procs, FilesCopied(p) PROVE JobInv'
  BY <1>7 DEF FilesCopied
<1>8. ASSUME NEW p \in Procs, WriteAuthEnv(p) PROVE JobInv'
  BY <1>8 DEF WriteAuthEnv, AuthEnvIs
<1>9. ASSUME NEW p \in Procs, HasSession(p) PROVE JobInv'
  BY <1>9 DEF HasSession
<1>10. ASSUME NEW p \in Procs, NewSession(p) PROVE JobInv'
  BY <1>10 DEF NewSession
<1>11. ASSUME NEW p \in Procs, ListWindows(p) PROVE JobInv'
  BY <1>11 DEF ListWindows
<1>12. ASSUME NEW p \in Procs, NewShellWindow(p) PROVE JobInv'
  BY <1>12 DEF NewShellWindow, OpenIfTmux
<1>13. ASSUME NEW p \in Procs, KeepShell(p) PROVE JobInv'
  BY <1>13 DEF KeepShell, KeepAnd, Kept
<1>14. ASSUME NEW p \in Procs, KillOldAgent(p) PROVE JobInv'
  BY <1>14 DEF KillOldAgent
<1>15. ASSUME NEW p \in Procs, NewAgentWindow(p) PROVE JobInv'
  BY <1>15 DEF NewAgentWindow, OpenIfTmux
<1>16. ASSUME NEW p \in Procs, KeepAgent(p) PROVE JobInv'
  BY <1>16 DEF KeepAgent, Kept
<1>17. ASSUME NEW p \in Procs, SendLine(p) PROVE JobInv'
  BY <1>17 DEF SendLine
<1>18. ASSUME NEW p \in Procs, Record(p) PROVE JobInv'
  BY <1>18 DEF Record, RecordAs
<1>19. ASSUME NEW p \in Procs, Fail(p) PROVE JobInv'
  BY <1>19 DEF Fail
<1>20. ASSUME NEW p \in Procs, StartVmBegin(p) PROVE JobInv'
  BY <1>20 DEF StartVmBegin
<1>21. ASSUME NEW p \in Procs, AttachBegin(p) PROVE JobInv'
  BY <1>21 DEF AttachBegin
<1>22. ASSUME NEW p \in Procs, AdmitAttach(p) PROVE JobInv'
  BY <1>22 DEF AdmitAttach
<1>23. ASSUME NEW p \in Procs, RefuseAttach(p) PROVE JobInv'
  BY <1>23 DEF RefuseAttach
<1>24. ASSUME NEW p \in Procs, Attach(p) PROVE JobInv'
  BY <1>24 DEF Attach, Name
<1>25. ASSUME AuthSet PROVE JobInv'
  BY <1>25 DEF AuthSet, Remember
<1>26. ASSUME AuthReset PROVE JobInv'
  BY <1>26 DEF AuthReset
<1>27. ASSUME KillAgent PROVE JobInv'
  BY <1>27 DEF KillAgent
<1>28. ASSUME ShellExits PROVE JobInv'
  BY <1>28 DEF ShellExits
<1>29. ASSUME AgentExits PROVE JobInv'
  BY <1>29 DEF AgentExits
<1>30. ASSUME UserSwitches PROVE JobInv'
  BY <1>30 DEF UserSwitches
<1>31. ASSUME VmStops PROVE JobInv'
  BY <1>31 DEF VmStops
<1>32. ASSUME UNCHANGED vars PROVE JobInv'
  BY <1>32 DEF vars
<1>. QED
  BY <1>1, <1>2, <1>3, <1>4, <1>5, <1>6, <1>7, <1>8, <1>9, <1>10, <1>11, <1>12, <1>13,
     <1>14, <1>15, <1>16, <1>17, <1>18, <1>19, <1>20, <1>21, <1>22, <1>23, <1>24,
     <1>25, <1>26, <1>27, <1>28, <1>29, <1>30, <1>31, <1>32
  DEF Next, AgentStep, AttachStep, Outside

\* Every step leaves recorded and copied files in the guest.
LEMMA FilesStep ==
    ASSUME IInv, [Next]_vars
    PROVE  FilesInv'
<1>. USE AgentAssumption DEF IInv, TypeOK, JobInv, StartPcs, ScriptPcs, OpeningPcs, Jobs, NoJob, Idle, FilesInv,
         RecordedFilesInGuest, CopiedPcs, Step, Goto, Exit, Asked, row, disk, tmux, local, history
<1>1. ASSUME NEW p \in Procs, StartBegin(p) PROVE FilesInv'
  BY <1>1 DEF StartBegin, Compatible, Starting
<1>2. ASSUME NEW p \in Procs, Resolve(p) PROVE FilesInv'
  BY <1>2, DetectedAreSources DEF Resolve, Remember
<1>3. ASSUME NEW p \in Procs, Prompt(p) PROVE FilesInv'
  BY <1>3 DEF Prompt, Remember
<1>4. ASSUME NEW p \in Procs, EnsureInstanceRunning(p) PROVE FilesInv'
  BY <1>4 DEF EnsureInstanceRunning
<1>5. ASSUME NEW p \in Procs, Bootstrap(p) PROVE FilesInv'
  BY <1>5 DEF Bootstrap
<1>6. ASSUME NEW p \in Procs, CopyFile(p) PROVE FilesInv'
  BY <1>6 DEF CopyFile
<1>7. ASSUME NEW p \in Procs, FilesCopied(p) PROVE FilesInv'
  BY <1>7 DEF FilesCopied
<1>8. ASSUME NEW p \in Procs, WriteAuthEnv(p) PROVE FilesInv'
  BY <1>8 DEF WriteAuthEnv, AuthEnvIs
<1>9. ASSUME NEW p \in Procs, HasSession(p) PROVE FilesInv'
  BY <1>9 DEF HasSession
<1>10. ASSUME NEW p \in Procs, NewSession(p) PROVE FilesInv'
  BY <1>10 DEF NewSession
<1>11. ASSUME NEW p \in Procs, ListWindows(p) PROVE FilesInv'
  BY <1>11 DEF ListWindows
<1>12. ASSUME NEW p \in Procs, NewShellWindow(p) PROVE FilesInv'
  BY <1>12 DEF NewShellWindow, OpenIfTmux
<1>13. ASSUME NEW p \in Procs, KeepShell(p) PROVE FilesInv'
  BY <1>13 DEF KeepShell, KeepAnd, Kept
<1>14. ASSUME NEW p \in Procs, KillOldAgent(p) PROVE FilesInv'
  BY <1>14 DEF KillOldAgent
<1>15. ASSUME NEW p \in Procs, NewAgentWindow(p) PROVE FilesInv'
  BY <1>15 DEF NewAgentWindow, OpenIfTmux
<1>16. ASSUME NEW p \in Procs, KeepAgent(p) PROVE FilesInv'
  BY <1>16 DEF KeepAgent, Kept
<1>17. ASSUME NEW p \in Procs, SendLine(p) PROVE FilesInv'
  BY <1>17 DEF SendLine
<1>18. ASSUME NEW p \in Procs, Record(p) PROVE FilesInv'
  BY <1>18 DEF Record, RecordAs
<1>19. ASSUME NEW p \in Procs, Fail(p) PROVE FilesInv'
  BY <1>19 DEF Fail
<1>20. ASSUME NEW p \in Procs, StartVmBegin(p) PROVE FilesInv'
  BY <1>20 DEF StartVmBegin
<1>21. ASSUME NEW p \in Procs, AttachBegin(p) PROVE FilesInv'
  BY <1>21 DEF AttachBegin
<1>22. ASSUME NEW p \in Procs, AdmitAttach(p) PROVE FilesInv'
  BY <1>22 DEF AdmitAttach
<1>23. ASSUME NEW p \in Procs, RefuseAttach(p) PROVE FilesInv'
  BY <1>23 DEF RefuseAttach
<1>24. ASSUME NEW p \in Procs, Attach(p) PROVE FilesInv'
  BY <1>24 DEF Attach, Name
<1>25. ASSUME AuthSet PROVE FilesInv'
  BY <1>25 DEF AuthSet, Remember
<1>26. ASSUME AuthReset PROVE FilesInv'
  BY <1>26 DEF AuthReset
<1>27. ASSUME KillAgent PROVE FilesInv'
  BY <1>27 DEF KillAgent
<1>28. ASSUME ShellExits PROVE FilesInv'
  BY <1>28 DEF ShellExits
<1>29. ASSUME AgentExits PROVE FilesInv'
  BY <1>29 DEF AgentExits
<1>30. ASSUME UserSwitches PROVE FilesInv'
  BY <1>30 DEF UserSwitches
<1>31. ASSUME VmStops PROVE FilesInv'
  BY <1>31 DEF VmStops
<1>32. ASSUME UNCHANGED vars PROVE FilesInv'
  BY <1>32 DEF vars
<1>. QED
  BY <1>1, <1>2, <1>3, <1>4, <1>5, <1>6, <1>7, <1>8, <1>9, <1>10, <1>11, <1>12, <1>13,
     <1>14, <1>15, <1>16, <1>17, <1>18, <1>19, <1>20, <1>21, <1>22, <1>23, <1>24,
     <1>25, <1>26, <1>27, <1>28, <1>29, <1>30, <1>31, <1>32
  DEF Next, AgentStep, AttachStep, Outside

\* What does not open or close a shell window, nor let go of one that is kept, nor
\* take a script to where it opens one, leaves the windows as the invariant says.
LEMMA ShellsStay ==
    ASSUME IInv,
           \A w \in Ids : /\ windows'[w].name = "shell" <=> windows[w].name = "shell"
                          /\ windows[w].name = "shell" =>
                               (windows[w].keep => windows'[w].keep),
           ensured' = ensured, raced' = raced,
           current = 0 => current' = 0,
           current' = 0 => \A w \in Ids : windows'[w].name = "none",
           vm' \/ current' = 0,
           \A q \in Procs : pc'[q] \in OpeningPcs => pc'[q] = pc[q]
    PROVE  WindowInv'
<1>. USE DEF IInv, WindowInv, ShellOutlivesAgent, Named
<1>1. (current = 0 => Named("none") = Ids)'
  OBVIOUS
<1>2. (ensured /\ ~raced => \E w \in Named("shell") : windows[w].keep)'
  OBVIOUS
<1>3. (~raced => \A v, w \in Named("shell") : v = w)'
  OBVIOUS
<1>4. (~raced => \A p \in Procs : pc[p] \in OpeningPcs =>
        /\ pc[p] = "create" => current = 0
        /\ pc[p] = "open" => Named("shell") = {}
        /\ \A q \in Procs : pc[q] \in OpeningPcs => p = q)'
  BY DEF OpeningPcs
<1>. QED
  BY <1>1, <1>2, <1>3, <1>4

\* A shell window that a script opens is the only one, unless two have raced.
LEMMA ShellOpens ==
    ASSUME IInv, NEW p \in Procs, pc[p] \in {"create", "open"}, OpenWindow("shell"),
           pc[p] = "create" => current = 0,
           pc' = [pc EXCEPT ![p] = IF pc[p] = "create" THEN "list" ELSE "keep"],
           UNCHANGED <<vm, ensured, raced>>, vm
    PROVE  WindowInv'
<1>. USE DEF IInv, TypeOK
<1>1. PICK w \in Named("none") :
        /\ w \in Ids /\ current' = w /\ windows' \in [Ids -> Window]
        /\ windows'[w] = [name |-> "shell", live |-> TRUE, keep |-> FALSE, runs |-> None]
        /\ \A v \in Ids : v # w => windows'[v] = windows[v]
  BY Opened
<1>2. current' # 0
  BY <1>1 DEF Ids
<1>3. windows'[w].name = "shell"
  BY <1>1
<1>4. (ensured /\ ~raced => \E v \in Named("shell") : windows[v].keep)'
  BY <1>1 DEF WindowInv, ShellOutlivesAgent, Named
<1>5. ASSUME ~raced PROVE \A v \in Ids : windows[v].name # "shell"
  <2>1. CASE pc[p] = "create"
    BY <2>1, <1>5 DEF WindowInv, Named
  <2>2. CASE pc[p] = "open"
    BY <2>2, <1>5 DEF WindowInv, OpeningPcs, Named
  <2>. QED
    BY <2>1, <2>2
<1>6. (~raced => \A v, u \in Named("shell") : v = u)'
  BY <1>1, <1>3, <1>5 DEF Named
<1>7. (~raced => \A q \in Procs : pc[q] \in OpeningPcs =>
        /\ pc[q] = "create" => current = 0
        /\ pc[q] = "open" => Named("shell") = {}
        /\ \A r \in Procs : pc[r] \in OpeningPcs => q = r)'
  <2>1. ASSUME ~raced, NEW q \in Procs, pc'[q] \in OpeningPcs PROVE q = p /\ pc'[q] = "list"
    BY <2>1 DEF WindowInv, OpeningPcs
  <2>. QED
    BY <2>1
<1>. QED
  BY <1>2, <1>4, <1>6, <1>7 DEF WindowInv, ShellOutlivesAgent

\* An agent window that closes leaves the shell windows, and ends tmux only when it
\* was the last.
LEMMA AgentWindowCloses ==
    ASSUME IInv, NEW w \in Named("agent"), Close(w)
    PROVE  /\ \A v \in Ids : /\ windows'[v].name = "shell" <=> windows[v].name = "shell"
                             /\ windows[v].name = "shell" => windows'[v] = windows[v]
           /\ current # 0
           /\ current' = 0 => \A v \in Ids : windows'[v].name = "none"
<1>. USE DEF IInv
<1>1. w \in Ids /\ windows[w].name = "agent" /\ NoWindow.name = "none"
  BY DEF Named, NoWindow
<1>2. current # 0
  BY <1>1 DEF WindowInv, Named
<1>. QED
  BY <1>1, <1>2, Closed

LEMMA AgentCloses ==
    ASSUME IInv, CloseAgent
    PROVE  /\ \A v \in Ids : /\ windows'[v].name = "shell" <=> windows[v].name = "shell"
                             /\ windows[v].name = "shell" => windows'[v] = windows[v]
           /\ current # 0
           /\ current' = 0 => \A v \in Ids : windows'[v].name = "none"
BY AgentWindowCloses DEF CloseAgent, Only

\* No step ends tmux once a shell window is kept, unless two scripts have raced.
LEMMA WindowStep ==
    ASSUME IInv, [Next]_vars
    PROVE  WindowInv'
<1>. USE AgentAssumption DEF IInv, TypeOK, OpeningPcs, Idle, Step, Goto, Exit, Asked, row, disk, tmux, local, history
<1>1. ASSUME NEW p \in Procs, StartBegin(p) PROVE WindowInv'
  BY <1>1, ShellsStay DEF StartBegin, Compatible, Starting, WindowInv, Named
<1>2. ASSUME NEW p \in Procs, Resolve(p) PROVE WindowInv'
  BY <1>2, ShellsStay DEF Resolve, Remember, WindowInv, Named
<1>3. ASSUME NEW p \in Procs, Prompt(p) PROVE WindowInv'
  BY <1>3, ShellsStay DEF Prompt, Remember, WindowInv, Named
<1>4. ASSUME NEW p \in Procs, EnsureInstanceRunning(p) PROVE WindowInv'
  BY <1>4, ShellsStay DEF EnsureInstanceRunning, WindowInv, Named
<1>5. ASSUME NEW p \in Procs, Bootstrap(p) PROVE WindowInv'
  BY <1>5, ShellsStay DEF Bootstrap, WindowInv, Named
<1>6. ASSUME NEW p \in Procs, CopyFile(p) PROVE WindowInv'
  BY <1>6, ShellsStay DEF CopyFile, WindowInv, Named
<1>7. ASSUME NEW p \in Procs, FilesCopied(p) PROVE WindowInv'
  BY <1>7, ShellsStay DEF FilesCopied, WindowInv, Named
<1>8. ASSUME NEW p \in Procs, WriteAuthEnv(p) PROVE WindowInv'
  BY <1>8, ShellsStay DEF WriteAuthEnv, AuthEnvIs, WindowInv, Named
<1>9. ASSUME NEW p \in Procs, HasSession(p) PROVE WindowInv'
  <2>1. /\ (current = 0 => Named("none") = Ids)' /\ (vm \/ current = 0)' /\ ShellOutlivesAgent'
        /\ (~raced => \A v, w \in Named("shell") : v = w)'
    BY <1>9 DEF HasSession, WindowInv, ShellOutlivesAgent, Named
  <2>2. (~raced => \A q \in Procs : pc[q] \in OpeningPcs =>
          /\ pc[q] = "create" => current = 0
          /\ pc[q] = "open" => Named("shell") = {}
          /\ \A r \in Procs : pc[r] \in OpeningPcs => q = r)'
    <3>1. ASSUME ~raced', NEW q \in Procs, pc'[q] \in OpeningPcs
          PROVE  q = p /\ pc'[q] = IF current = 0 THEN "create" ELSE "list"
      BY <1>9, <3>1 DEF HasSession
    <3>. QED
      BY <1>9, <3>1 DEF HasSession
  <2>. QED
    BY <2>1, <2>2 DEF WindowInv
<1>10. ASSUME NEW p \in Procs, NewSession(p) PROVE WindowInv'
  <2>1. CASE UNCHANGED tmux /\ current # 0
    BY <1>10, <2>1 DEF NewSession, WindowInv, ShellOutlivesAgent, Named
  <2>2. CASE OpenWindow("shell") /\ current = 0
    BY <1>10, <2>2, ShellOpens DEF NewSession
  <2>. QED
    BY <1>10, <2>1, <2>2 DEF NewSession
<1>11. ASSUME NEW p \in Procs, ListWindows(p) PROVE WindowInv'
  BY <1>11 DEF ListWindows, WindowInv, ShellOutlivesAgent, Named
<1>12. ASSUME NEW p \in Procs, NewShellWindow(p) PROVE WindowInv'
  <2>1. CASE UNCHANGED tmux
    BY <1>12, <2>1, ShellsStay DEF NewShellWindow, WindowInv, Named
  <2>2. CASE OpenWindow("shell")
    BY <1>12, <2>2, ShellOpens DEF NewShellWindow
  <2>. QED
    BY <1>12, <2>1, <2>2 DEF NewShellWindow, OpenIfTmux
<1>13. ASSUME NEW p \in Procs, KeepShell(p) PROVE WindowInv'
  <2>1. \A w \in Ids : /\ windows'[w].name = windows[w].name
                       /\ windows[w].keep => windows'[w].keep
                       /\ Only("shell", w) => windows'[w].keep
    BY <1>13, KeptIs DEF KeepShell, KeepAnd
  <2>2. ASSUME ~raced, NEW w \in Named("shell") PROVE Only("shell", w)
    BY <2>2 DEF WindowInv, Only
  <2>3. (ensured /\ ~raced => \E w \in Named("shell") : windows[w].keep)'
    <3>1. ASSUME ensured', ~raced PROVE \E w \in Named("shell") : windows'[w].keep
      BY <1>13, <3>1, <2>1, <2>2 DEF KeepShell, KeepAnd, WindowInv, ShellOutlivesAgent, Named
    <3>. QED
      BY <1>13, <3>1, <2>1 DEF KeepShell, KeepAnd, Named
  <2>. QED
    BY <1>13, <2>1, <2>3 DEF KeepShell, KeepAnd, WindowInv, ShellOutlivesAgent, Named
<1>14. ASSUME NEW p \in Procs, KillOldAgent(p) PROVE WindowInv'
  <2>1. CASE UNCHANGED tmux
    BY <1>14, <2>1, ShellsStay DEF KillOldAgent, WindowInv, Named
  <2>2. CASE CloseAgent
    BY <1>14, <2>2, AgentCloses, ShellsStay DEF KillOldAgent
  <2>. QED
    BY <1>14, <2>1, <2>2 DEF KillOldAgent
<1>15. ASSUME NEW p \in Procs, NewAgentWindow(p) PROVE WindowInv'
  <2>1. CASE UNCHANGED tmux
    BY <1>15, <2>1, ShellsStay DEF NewAgentWindow, WindowInv, Named
  <2>2. CASE OpenWindow("agent") /\ current # 0
    <3>1. current' # 0
      BY <2>2, Opened DEF Ids
    <3>2. \A w \in Ids : /\ windows'[w].name = "shell" <=> windows[w].name = "shell"
                         /\ windows[w].name = "shell" => windows'[w].keep = windows[w].keep
      BY <2>2, Opened DEF Named
    <3>. QED
      BY <1>15, <2>2, <3>1, <3>2, ShellsStay DEF NewAgentWindow
  <2>. QED
    BY <1>15, <2>1, <2>2 DEF NewAgentWindow, OpenIfTmux
<1>16. ASSUME NEW p \in Procs, KeepAgent(p) PROVE WindowInv'
  BY <1>16, KeptIs, ShellsStay DEF KeepAgent, WindowInv, Named
<1>17. ASSUME NEW p \in Procs, SendLine(p) PROVE WindowInv'
  <2>1. \A w \in Ids : windows'[w].name = windows[w].name /\ windows'[w].keep = windows[w].keep
    BY <1>17 DEF SendLine, Window
  <2>. QED
    BY <1>17, <2>1, ShellsStay DEF SendLine, WindowInv, Named
<1>18. ASSUME NEW p \in Procs, Record(p) PROVE WindowInv'
  BY <1>18, ShellsStay DEF Record, RecordAs, WindowInv, Named
<1>19. ASSUME NEW p \in Procs, Fail(p) PROVE WindowInv'
  BY <1>19, ShellsStay DEF Fail, WindowInv, Named
<1>20. ASSUME NEW p \in Procs, StartVmBegin(p) PROVE WindowInv'
  BY <1>20, ShellsStay DEF StartVmBegin, WindowInv, Named
<1>21. ASSUME NEW p \in Procs, AttachBegin(p) PROVE WindowInv'
  BY <1>21, ShellsStay DEF AttachBegin, WindowInv, Named
<1>22. ASSUME NEW p \in Procs, AdmitAttach(p) PROVE WindowInv'
  BY <1>22, ShellsStay DEF AdmitAttach, WindowInv, Named
<1>23. ASSUME NEW p \in Procs, RefuseAttach(p) PROVE WindowInv'
  BY <1>23, ShellsStay DEF RefuseAttach, WindowInv, Named
<1>24. ASSUME NEW p \in Procs, Attach(p) PROVE WindowInv'
  <2>1. \A w \in Ids : windows'[w].name = windows[w].name /\ windows'[w].keep = windows[w].keep
    BY <1>24 DEF Attach, Window
  <2>2. current' # 0 /\ current # 0
    BY <1>24 DEF Attach, Only, Named, Ids, WindowInv, Name
  <2>. QED
    BY <1>24, <2>1, <2>2, ShellsStay DEF Attach
<1>25. ASSUME AuthSet PROVE WindowInv'
  BY <1>25, ShellsStay DEF AuthSet, Remember, WindowInv, Named
<1>26. ASSUME AuthReset PROVE WindowInv'
  BY <1>26, ShellsStay DEF AuthReset, WindowInv, Named
<1>27. ASSUME KillAgent PROVE WindowInv'
  BY <1>27, AgentCloses, ShellsStay DEF KillAgent
<1>28. ASSUME ShellExits PROVE WindowInv'
  <2>1. PICK w \in Named("shell") : IF windows[w].keep THEN Dies(w) ELSE Close(w)
    BY <1>28 DEF ShellExits
  <2>2. CASE windows[w].keep
    <3>1. w \in Ids /\ current # 0 /\ vm
      BY DEF Named, WindowInv
    <3>2. \A v \in Ids : /\ windows'[v].name = windows[v].name
                         /\ windows'[v].keep = windows[v].keep
      BY <2>1, <2>2, <3>1, Changed
    <3>3. current' = current
      BY <2>1, <2>2, <3>1, Changed
    <3>. QED
      BY <1>28, <3>1, <3>2, <3>3, ShellsStay DEF ShellExits
  <2>3. CASE ~windows[w].keep
    <3>1. /\ windows'[w] = NoWindow
          /\ \A v \in Ids : v # w => windows'[v] = windows[v]
          /\ current' = 0 => \A v \in Ids : windows'[v].name = "none"
      <4>1. w \in Ids /\ windows[w].name = "shell" /\ current # 0 /\ NoWindow.name = "none"
        BY DEF Named, WindowInv, NoWindow
      <4>. QED
        BY <2>1, <2>3, <4>1, Closed
    <3>. QED
      BY <1>28, <2>1, <2>3, <3>1 DEF ShellExits, WindowInv, ShellOutlivesAgent, Named, NoWindow
  <2>. QED
    BY <2>2, <2>3
<1>29. ASSUME AgentExits PROVE WindowInv'
  <2>1. PICK w \in Named("agent") : Close(w) \/ Dies(w)
    BY <1>29 DEF AgentExits
  <2>2. CASE Dies(w)
    <3>1. w \in Ids /\ current # 0 /\ vm
      BY DEF Named, WindowInv
    <3>2. \A v \in Ids : /\ windows'[v].name = windows[v].name
                         /\ windows'[v].keep = windows[v].keep
      BY <2>2, <3>1, Changed
    <3>3. current' = current
      BY <2>2, <3>1, Changed
    <3>. QED
      BY <1>29, <3>1, <3>2, <3>3, ShellsStay DEF AgentExits
  <2>3. CASE Close(w)
    BY <1>29, <2>3, AgentWindowCloses, ShellsStay DEF AgentExits, WindowInv
  <2>. QED
    BY <2>1, <2>2, <2>3
<1>30. ASSUME UserSwitches PROVE WindowInv'
  BY <1>30, ShellsStay DEF UserSwitches, WindowInv, Named, Ids
<1>31. ASSUME VmStops PROVE WindowInv'
  BY <1>31 DEF VmStops, WindowInv, ShellOutlivesAgent, Named, NoWindow, ScriptPcs
<1>32. ASSUME UNCHANGED vars PROVE WindowInv'
  BY <1>32, ShellsStay DEF vars, WindowInv, Named
<1>. QED
  BY <1>1, <1>2, <1>3, <1>4, <1>5, <1>6, <1>7, <1>8, <1>9, <1>10, <1>11, <1>12, <1>13,
     <1>14, <1>15, <1>16, <1>17, <1>18, <1>19, <1>20, <1>21, <1>22, <1>23, <1>24,
     <1>25, <1>26, <1>27, <1>28, <1>29, <1>30, <1>31, <1>32
  DEF Next, AgentStep, AttachStep, Outside

\* Agent windows that close, end or are left alone, and variables that are left
\* alone, leave what the row tells true.
LEMMA GuestStays ==
    ASSUME IInv, recorded' = recorded, kind' = kind,
           settled' => settled /\ authEnv' = authEnv,
           settled' => \A w \in Ids : windows'[w].name = "agent" =>
               windows'[w].runs = None \/ windows'[w] = windows[w]
    PROVE  RowTellsGuest'
BY DEF IInv, RowTellsGuest, Named

\* A step of p leaves what another start that is alone has put into the guest, and
\* there is no such start when p is one itself.
LEMMA AloneStays ==
    ASSUME IInv, NEW p \in Procs, alone' \subseteq alone, alone' \subseteq Procs,
           \A q \in Procs : q # p =>
               pc'[q] = pc[q] /\ job'[q] = job[q] /\ selected'[q] = selected[q],
           Starting(p)' => Starting(p),
           Starting(p) \/ (/\ authEnv' = authEnv
                           /\ \A w \in Ids : windows'[w].name = "agent" =>
                                windows'[w].runs = None \/ windows'[w] = windows[w]),
           p \in alone' => Starting(p)' /\ PutSoFar(p)'
    PROVE  AloneInv'
<1>1. SUFFICES ASSUME NEW q \in alone'
      PROVE  (Starting(q) /\ PutSoFar(q) /\ \A r \in Procs : Starting(r) => q = r)'
  BY DEF AloneInv
<1>2. \A r \in Procs : Starting(r)' => Starting(r)
  BY DEF Starting
<1>3. Starting(q) /\ PutSoFar(q) /\ \A r \in Procs : Starting(r) => q = r
  BY DEF IInv, AloneInv
<1>4. CASE q = p
  BY <1>2, <1>3, <1>4
<1>5. CASE q # p
  <2>1. Starting(q)'
    BY <1>3, <1>5 DEF Starting
  <2>2. PutSoFar(q)'
    BY <1>3, <1>5 DEF PutSoFar, Named
  <2>. QED
    BY <1>2, <1>3, <2>1, <2>2
<1>. QED
  BY <1>4, <1>5

\* A step of no process does so too.
LEMMA OutsideStays ==
    ASSUME IInv, UNCHANGED <<pc, job, selected, alone, authEnv>>,
           \A w \in Ids : windows'[w].name = "agent" =>
                windows'[w].runs = None \/ windows'[w] = windows[w]
    PROVE  AloneInv'
BY DEF IInv, AloneInv, PutSoFar, Starting, Named

\* Agent windows that close run nothing.
LEMMA AgentsClose ==
    ASSUME IInv, CloseAgent
    PROVE  \A w \in Ids : windows'[w].name = "agent" => windows'[w] = windows[w]
<1>1. PICK v \in Ids : Only("agent", v) /\ Close(v)
  BY DEF CloseAgent
<1>2. windows[v].name = "agent" /\ NoWindow.name = "none"
  BY <1>1 DEF Only, Named, NoWindow
<1>. QED
  BY <1>1, <1>2, Closed DEF IInv

\* A shell window that opens is no agent window.
LEMMA ShellIsNoAgent ==
    ASSUME IInv, OpenWindow("shell")
    PROVE  \A w \in Ids : windows'[w].name = "agent" => windows'[w] = windows[w]
BY Opened DEF IInv

\* No step makes the row untrue that a start left which ran alone.
LEMMA AloneStep ==
    ASSUME IInv, [Next]_vars
    PROVE  RowTellsGuest' /\ AloneInv'
<1>. USE AgentAssumption DEF IInv, TypeOK, Step, Goto, Exit, Asked, row, disk, tmux, local, history
<1>1. ASSUME NEW p \in Procs, StartBegin(p) PROVE RowTellsGuest' /\ AloneInv'
  <2>1. RowTellsGuest'
    BY <1>1, GuestStays DEF StartBegin
  <2>2. ASSUME NEW q \in alone' PROVE q = p /\ \A r \in Procs : ~Starting(r)
    BY <1>1, <2>2 DEF StartBegin
  <2>3. Starting(p)' /\ PutSoFar(p)'
    BY <1>1 DEF StartBegin, Starting, PutSoFar, CopiedPcs, ScriptPcs, Idle
  <2>4. \A r \in Procs : Starting(r)' => r = p \/ Starting(r)
    BY <1>1 DEF StartBegin, Starting
  <2>. QED
    BY <2>1, <2>2, <2>3, <2>4 DEF AloneInv
<1>2. ASSUME NEW p \in Procs, Resolve(p) PROVE RowTellsGuest' /\ AloneInv'
  <2>1. \A w \in Ids : windows'[w].name = "agent" =>
          windows'[w].runs = None \/ windows'[w] = windows[w]
    BY <1>2 DEF Resolve, Remember
  <2>2. RowTellsGuest'
    BY <1>2, <2>1, GuestStays DEF Resolve, Remember
  <2>3. p \in alone' => Starting(p)' /\ PutSoFar(p)'
    BY <1>2, <2>1 DEF Resolve, Remember, Named, JobInv, StartPcs, ScriptPcs, OpeningPcs, CopiedPcs, Idle, PutSoFar, AloneInv, Starting
  <2>4. Starting(p)' => Starting(p)
    BY <1>2 DEF Resolve, Remember, Starting, Idle, NoJob
  <2>. QED
    BY <1>2, <2>1, <2>2, <2>3, <2>4, AloneStays DEF Resolve, Remember
<1>3. ASSUME NEW p \in Procs, Prompt(p) PROVE RowTellsGuest' /\ AloneInv'
  <2>1. \A w \in Ids : windows'[w].name = "agent" =>
          windows'[w].runs = None \/ windows'[w] = windows[w]
    BY <1>3 DEF Prompt, Remember
  <2>2. RowTellsGuest'
    BY <1>3, <2>1, GuestStays DEF Prompt, Remember
  <2>3. p \in alone' => Starting(p)' /\ PutSoFar(p)'
    BY <1>3, <2>1 DEF Prompt, Remember, Named, JobInv, StartPcs, ScriptPcs, OpeningPcs, CopiedPcs, Idle, PutSoFar, AloneInv, Starting
  <2>4. Starting(p)' => Starting(p)
    BY <1>3 DEF Prompt, Remember, Starting, Idle, NoJob
  <2>. QED
    BY <1>3, <2>1, <2>2, <2>3, <2>4, AloneStays DEF Prompt, Remember
<1>4. ASSUME NEW p \in Procs, EnsureInstanceRunning(p) PROVE RowTellsGuest' /\ AloneInv'
  <2>1. \A w \in Ids : windows'[w].name = "agent" =>
          windows'[w].runs = None \/ windows'[w] = windows[w]
    BY <1>4 DEF EnsureInstanceRunning
  <2>2. RowTellsGuest'
    BY <1>4, <2>1, GuestStays DEF EnsureInstanceRunning
  <2>3. p \in alone' => Starting(p)' /\ PutSoFar(p)'
    BY <1>4, <2>1 DEF EnsureInstanceRunning, Named, JobInv, StartPcs, ScriptPcs, OpeningPcs, CopiedPcs, Idle, PutSoFar, AloneInv, Starting
  <2>4. Starting(p)' => Starting(p)
    BY <1>4 DEF EnsureInstanceRunning, Starting, Idle, NoJob
  <2>. QED
    BY <1>4, <2>1, <2>2, <2>3, <2>4, AloneStays DEF EnsureInstanceRunning
<1>5. ASSUME NEW p \in Procs, Bootstrap(p) PROVE RowTellsGuest' /\ AloneInv'
  <2>1. \A w \in Ids : windows'[w].name = "agent" =>
          windows'[w].runs = None \/ windows'[w] = windows[w]
    BY <1>5 DEF Bootstrap
  <2>2. RowTellsGuest'
    BY <1>5, <2>1, GuestStays DEF Bootstrap
  <2>3. p \in alone' => Starting(p)' /\ PutSoFar(p)'
    BY <1>5, <2>1 DEF Bootstrap, Named, JobInv, StartPcs, ScriptPcs, OpeningPcs, CopiedPcs, Idle, PutSoFar, AloneInv, Starting
  <2>4. Starting(p)' => Starting(p)
    BY <1>5 DEF Bootstrap, Starting, Idle, NoJob
  <2>. QED
    BY <1>5, <2>1, <2>2, <2>3, <2>4, AloneStays DEF Bootstrap
<1>6. ASSUME NEW p \in Procs, CopyFile(p) PROVE RowTellsGuest' /\ AloneInv'
  <2>1. \A w \in Ids : windows'[w].name = "agent" =>
          windows'[w].runs = None \/ windows'[w] = windows[w]
    BY <1>6 DEF CopyFile
  <2>2. RowTellsGuest'
    BY <1>6, <2>1, GuestStays DEF CopyFile
  <2>3. p \in alone' => Starting(p)' /\ PutSoFar(p)'
    BY <1>6, <2>1 DEF CopyFile, Named, JobInv, StartPcs, ScriptPcs, OpeningPcs, CopiedPcs, Idle, PutSoFar, AloneInv, Starting
  <2>4. Starting(p)' => Starting(p)
    BY <1>6 DEF CopyFile, Starting, Idle, NoJob
  <2>. QED
    BY <1>6, <2>1, <2>2, <2>3, <2>4, AloneStays DEF CopyFile
<1>7. ASSUME NEW p \in Procs, FilesCopied(p) PROVE RowTellsGuest' /\ AloneInv'
  <2>1. \A w \in Ids : windows'[w].name = "agent" =>
          windows'[w].runs = None \/ windows'[w] = windows[w]
    BY <1>7 DEF FilesCopied
  <2>2. RowTellsGuest'
    BY <1>7, <2>1, GuestStays DEF FilesCopied
  <2>3. p \in alone' => Starting(p)' /\ PutSoFar(p)'
    BY <1>7, <2>1 DEF FilesCopied, Named, JobInv, StartPcs, ScriptPcs, OpeningPcs, CopiedPcs, Idle, PutSoFar, AloneInv, Starting
  <2>4. Starting(p)' => Starting(p)
    BY <1>7 DEF FilesCopied, Starting, Idle, NoJob
  <2>. QED
    BY <1>7, <2>1, <2>2, <2>3, <2>4, AloneStays DEF FilesCopied
<1>8. ASSUME NEW p \in Procs, WriteAuthEnv(p) PROVE RowTellsGuest' /\ AloneInv'
  <2>1. RowTellsGuest'
    BY <1>8, GuestStays DEF WriteAuthEnv, AuthEnvIs
  <2>2. Starting(p)
    BY <1>8 DEF WriteAuthEnv, AuthEnvIs, Starting, JobInv, StartPcs, ScriptPcs, OpeningPcs, Idle
  <2>3. selected'[p] = selected[p] /\ selected[p] \ Files \subseteq authEnv'
    BY <1>8 DEF WriteAuthEnv, AuthEnvIs
  <2>4. Starting(p)' /\ PutSoFar(p)'
    BY <1>8, <2>2, <2>3 DEF WriteAuthEnv, AuthEnvIs, Starting, PutSoFar, CopiedPcs, Idle
  <2>. QED
    BY <1>8, <2>1, <2>2, <2>4, AloneStays DEF WriteAuthEnv, AuthEnvIs
<1>9. ASSUME NEW p \in Procs, HasSession(p) PROVE RowTellsGuest' /\ AloneInv'
  <2>1. \A w \in Ids : windows'[w].name = "agent" =>
          windows'[w].runs = None \/ windows'[w] = windows[w]
    BY <1>9 DEF HasSession
  <2>2. RowTellsGuest'
    BY <1>9, <2>1, GuestStays DEF HasSession
  <2>3. p \in alone' => Starting(p)' /\ PutSoFar(p)'
    BY <1>9, <2>1 DEF HasSession, Named, JobInv, StartPcs, ScriptPcs, OpeningPcs, CopiedPcs, Idle, PutSoFar, AloneInv, Starting
  <2>4. Starting(p)' => Starting(p)
    BY <1>9 DEF HasSession, Starting, Idle, NoJob
  <2>. QED
    BY <1>9, <2>1, <2>2, <2>3, <2>4, AloneStays DEF HasSession
<1>10. ASSUME NEW p \in Procs, NewSession(p) PROVE RowTellsGuest' /\ AloneInv'
  <2>1. \A w \in Ids : windows'[w].name = "agent" =>
          windows'[w].runs = None \/ windows'[w] = windows[w]
    BY <1>10, ShellIsNoAgent DEF NewSession
  <2>2. RowTellsGuest'
    BY <1>10, <2>1, GuestStays DEF NewSession
  <2>3. p \in alone' => Starting(p)' /\ PutSoFar(p)'
    BY <1>10, <2>1 DEF NewSession, Named, JobInv, StartPcs, ScriptPcs, OpeningPcs, CopiedPcs, Idle, PutSoFar, AloneInv, Starting
  <2>4. Starting(p)' => Starting(p)
    BY <1>10 DEF NewSession, Starting, Idle, NoJob
  <2>. QED
    BY <1>10, <2>1, <2>2, <2>3, <2>4, AloneStays DEF NewSession
<1>11. ASSUME NEW p \in Procs, ListWindows(p) PROVE RowTellsGuest' /\ AloneInv'
  <2>1. \A w \in Ids : windows'[w].name = "agent" =>
          windows'[w].runs = None \/ windows'[w] = windows[w]
    BY <1>11 DEF ListWindows
  <2>2. RowTellsGuest'
    BY <1>11, <2>1, GuestStays DEF ListWindows
  <2>3. p \in alone' => Starting(p)' /\ PutSoFar(p)'
    BY <1>11, <2>1 DEF ListWindows, Named, JobInv, StartPcs, ScriptPcs, OpeningPcs, CopiedPcs, Idle, PutSoFar, AloneInv, Starting
  <2>4. Starting(p)' => Starting(p)
    BY <1>11 DEF ListWindows, Starting, Idle, NoJob
  <2>. QED
    BY <1>11, <2>1, <2>2, <2>3, <2>4, AloneStays DEF ListWindows
<1>12. ASSUME NEW p \in Procs, NewShellWindow(p) PROVE RowTellsGuest' /\ AloneInv'
  <2>1. \A w \in Ids : windows'[w].name = "agent" =>
          windows'[w].runs = None \/ windows'[w] = windows[w]
    BY <1>12, ShellIsNoAgent DEF NewShellWindow, OpenIfTmux
  <2>2. RowTellsGuest'
    BY <1>12, <2>1, GuestStays DEF NewShellWindow, OpenIfTmux
  <2>3. p \in alone' => Starting(p)' /\ PutSoFar(p)'
    BY <1>12, <2>1 DEF NewShellWindow, OpenIfTmux, Named, JobInv, StartPcs, ScriptPcs, OpeningPcs, CopiedPcs, Idle, PutSoFar, AloneInv, Starting
  <2>4. Starting(p)' => Starting(p)
    BY <1>12 DEF NewShellWindow, OpenIfTmux, Starting, Idle, NoJob
  <2>. QED
    BY <1>12, <2>1, <2>2, <2>3, <2>4, AloneStays DEF NewShellWindow, OpenIfTmux
<1>13. ASSUME NEW p \in Procs, KeepShell(p) PROVE RowTellsGuest' /\ AloneInv'
  <2>1. \A w \in Ids : windows'[w].name = windows[w].name /\ windows'[w].runs = windows[w].runs
    BY <1>13, KeptIs DEF KeepShell, KeepAnd
  <2>2. RowTellsGuest'
    BY <1>13, <2>1 DEF KeepShell, KeepAnd, RowTellsGuest, Named
  <2>3. ASSUME NEW q \in alone' PROVE (Starting(q) /\ PutSoFar(q) /\ \A r \in Procs : Starting(r) => q = r)'
    BY <1>13, <2>1, <2>3 DEF KeepShell, KeepAnd, Named, JobInv, StartPcs, ScriptPcs, OpeningPcs, CopiedPcs, Idle, PutSoFar, AloneInv, Starting
  <2>. QED
    BY <2>2, <2>3 DEF AloneInv
<1>14. ASSUME NEW p \in Procs, KillOldAgent(p) PROVE RowTellsGuest' /\ AloneInv'
  <2>1. \A w \in Ids : windows'[w].name = "agent" =>
          windows'[w].runs = None \/ windows'[w] = windows[w]
    BY <1>14, AgentsClose DEF KillOldAgent
  <2>2. RowTellsGuest'
    BY <1>14, <2>1, GuestStays DEF KillOldAgent
  <2>3. p \in alone' => Starting(p)' /\ PutSoFar(p)'
    BY <1>14, <2>1 DEF KillOldAgent, Named, JobInv, StartPcs, ScriptPcs, OpeningPcs, CopiedPcs, Idle, PutSoFar, AloneInv, Starting
  <2>4. Starting(p)' => Starting(p)
    BY <1>14 DEF KillOldAgent, Starting, Idle, NoJob
  <2>. QED
    BY <1>14, <2>1, <2>2, <2>3, <2>4, AloneStays DEF KillOldAgent
<1>15. ASSUME NEW p \in Procs, NewAgentWindow(p) PROVE RowTellsGuest' /\ AloneInv'
  <2>1. \A w \in Ids : windows'[w].name = "agent" => windows'[w].runs = None \/ windows'[w] = windows[w]
    BY <1>15, Opened DEF NewAgentWindow, OpenIfTmux
  <2>2. RowTellsGuest'
    BY <1>15, <2>1, GuestStays DEF NewAgentWindow
  <2>3. Starting(p)
    BY <1>15 DEF NewAgentWindow, Starting, JobInv, StartPcs, ScriptPcs, OpeningPcs, Idle
  <2>4. p \in alone' => p \in alone /\ \A w \in Ids : windows[w].name # "agent"
    BY <1>15 DEF NewAgentWindow, Named
  <2>5. p \in alone' => \A w \in Ids : windows'[w].name = "agent" => windows'[w].runs = None
    BY <2>1, <2>4
  <2>6. p \in alone' => Starting(p)' /\ PutSoFar(p)'
    BY <1>15, <2>3, <2>4, <2>5
    DEF NewAgentWindow, Named, Starting, PutSoFar, AloneInv, CopiedPcs, ScriptPcs, Idle
  <2>. QED
    BY <1>15, <2>2, <2>3, <2>6, AloneStays DEF NewAgentWindow
<1>16. ASSUME NEW p \in Procs, KeepAgent(p) PROVE RowTellsGuest' /\ AloneInv'
  <2>1. \A w \in Ids : windows'[w].name = windows[w].name /\ windows'[w].runs = windows[w].runs
    BY <1>16, KeptIs DEF KeepAgent
  <2>2. RowTellsGuest'
    BY <1>16, <2>1 DEF KeepAgent, RowTellsGuest, Named
  <2>3. ASSUME NEW q \in alone' PROVE (Starting(q) /\ PutSoFar(q) /\ \A r \in Procs : Starting(r) => q = r)'
    BY <1>16, <2>1, <2>3 DEF KeepAgent, Named, JobInv, StartPcs, ScriptPcs, OpeningPcs, CopiedPcs, Idle, PutSoFar, AloneInv, Starting
  <2>. QED
    BY <2>2, <2>3 DEF AloneInv
<1>17. ASSUME NEW p \in Procs, SendLine(p) PROVE RowTellsGuest' /\ AloneInv'
  <2>1. PICK v \in Ids : windows' = IF windows[v].live /\ windows[v].runs = None
                  THEN [windows EXCEPT ![v].runs = job[p].kind] ELSE windows
    BY <1>17 DEF SendLine
  <2>2. \A w \in Ids : /\ windows'[w].name = windows[w].name
                       /\ windows'[w].runs \in {windows[w].runs, job[p].kind}
    BY <2>1 DEF Window
  <2>3. RowTellsGuest'
    BY <1>17 DEF SendLine, RowTellsGuest
  <2>4. Starting(p)
    BY <1>17 DEF SendLine, Starting, JobInv, StartPcs, ScriptPcs, OpeningPcs, Idle
  <2>5. p \in alone => Starting(p)' /\ PutSoFar(p)'
    BY <1>17, <2>2, <2>4
    DEF SendLine, Named, Starting, PutSoFar, AloneInv, CopiedPcs, ScriptPcs, Idle
  <2>. QED
    BY <1>17, <2>3, <2>4, <2>5, AloneStays DEF SendLine
<1>18. ASSUME NEW p \in Procs, Record(p) PROVE RowTellsGuest' /\ AloneInv'
  <2>1. ASSUME settled', job[p].op = "agent" PROVE RowTellsGuest'
    <3>1. p \in alone
      BY <1>18, <2>1 DEF Record, RecordAs
    <3>2. PutSoFar(p)
      BY <3>1 DEF AloneInv
    <3>. QED
      BY <1>18, <2>1, <3>2 DEF Record, RecordAs, PutSoFar, RowTellsGuest, Named, CopiedPcs
  <2>2. ASSUME settled', job[p].op # "agent" PROVE RowTellsGuest'
    BY <1>18, <2>2, GuestStays DEF Record, RecordAs
  <2>3. RowTellsGuest'
    BY <2>1, <2>2 DEF RowTellsGuest
  <2>4. ~Starting(p)' /\ p \notin alone'
    BY <1>18 DEF Record, RecordAs, Starting, Idle
  <2>. QED
    BY <1>18, <2>3, <2>4, AloneStays DEF Record, RecordAs
<1>19. ASSUME NEW p \in Procs, Fail(p) PROVE RowTellsGuest' /\ AloneInv'
  <2>1. \A w \in Ids : windows'[w].name = "agent" =>
          windows'[w].runs = None \/ windows'[w] = windows[w]
    BY <1>19 DEF Fail
  <2>2. RowTellsGuest'
    BY <1>19, <2>1, GuestStays DEF Fail
  <2>3. p \in alone' => Starting(p)' /\ PutSoFar(p)'
    BY <1>19, <2>1 DEF Fail, Named, JobInv, StartPcs, ScriptPcs, OpeningPcs, CopiedPcs, Idle, PutSoFar, AloneInv, Starting
  <2>4. Starting(p)' => Starting(p)
    BY <1>19 DEF Fail, Starting, Idle, NoJob
  <2>. QED
    BY <1>19, <2>1, <2>2, <2>3, <2>4, AloneStays DEF Fail
<1>20. ASSUME NEW p \in Procs, StartVmBegin(p) PROVE RowTellsGuest' /\ AloneInv'
  <2>1. \A w \in Ids : windows'[w].name = "agent" =>
          windows'[w].runs = None \/ windows'[w] = windows[w]
    BY <1>20 DEF StartVmBegin
  <2>2. RowTellsGuest'
    BY <1>20, <2>1, GuestStays DEF StartVmBegin
  <2>3. p \in alone' => Starting(p)' /\ PutSoFar(p)'
    BY <1>20, <2>1 DEF StartVmBegin, Named, JobInv, StartPcs, ScriptPcs, OpeningPcs, CopiedPcs, Idle, PutSoFar, AloneInv, Starting
  <2>4. Starting(p)' => Starting(p)
    BY <1>20 DEF StartVmBegin, Starting, Idle, NoJob
  <2>. QED
    BY <1>20, <2>1, <2>2, <2>3, <2>4, AloneStays DEF StartVmBegin
<1>21. ASSUME NEW p \in Procs, AttachBegin(p) PROVE RowTellsGuest' /\ AloneInv'
  <2>1. \A w \in Ids : windows'[w].name = "agent" =>
          windows'[w].runs = None \/ windows'[w] = windows[w]
    BY <1>21 DEF AttachBegin
  <2>2. RowTellsGuest'
    BY <1>21, <2>1, GuestStays DEF AttachBegin
  <2>3. p \in alone' => Starting(p)' /\ PutSoFar(p)'
    BY <1>21, <2>1 DEF AttachBegin, Named, JobInv, StartPcs, ScriptPcs, OpeningPcs, CopiedPcs, Idle, PutSoFar, AloneInv, Starting
  <2>4. Starting(p)' => Starting(p)
    BY <1>21 DEF AttachBegin, Starting, Idle, NoJob
  <2>. QED
    BY <1>21, <2>1, <2>2, <2>3, <2>4, AloneStays DEF AttachBegin
<1>22. ASSUME NEW p \in Procs, AdmitAttach(p) PROVE RowTellsGuest' /\ AloneInv'
  <2>1. \A w \in Ids : windows'[w].name = "agent" =>
          windows'[w].runs = None \/ windows'[w] = windows[w]
    BY <1>22 DEF AdmitAttach
  <2>2. RowTellsGuest'
    BY <1>22, <2>1, GuestStays DEF AdmitAttach
  <2>3. p \in alone' => Starting(p)' /\ PutSoFar(p)'
    BY <1>22, <2>1 DEF AdmitAttach, Named, JobInv, StartPcs, ScriptPcs, OpeningPcs, CopiedPcs, Idle, PutSoFar, AloneInv, Starting
  <2>4. Starting(p)' => Starting(p)
    BY <1>22 DEF AdmitAttach, Starting, Idle, NoJob
  <2>. QED
    BY <1>22, <2>1, <2>2, <2>3, <2>4, AloneStays DEF AdmitAttach
<1>23. ASSUME NEW p \in Procs, RefuseAttach(p) PROVE RowTellsGuest' /\ AloneInv'
  <2>1. \A w \in Ids : windows'[w].name = "agent" =>
          windows'[w].runs = None \/ windows'[w] = windows[w]
    BY <1>23 DEF RefuseAttach
  <2>2. RowTellsGuest'
    BY <1>23, <2>1, GuestStays DEF RefuseAttach
  <2>3. p \in alone' => Starting(p)' /\ PutSoFar(p)'
    BY <1>23, <2>1 DEF RefuseAttach, Named, JobInv, StartPcs, ScriptPcs, OpeningPcs, CopiedPcs, Idle, PutSoFar, AloneInv, Starting
  <2>4. Starting(p)' => Starting(p)
    BY <1>23 DEF RefuseAttach, Starting, Idle, NoJob
  <2>. QED
    BY <1>23, <2>1, <2>2, <2>3, <2>4, AloneStays DEF RefuseAttach
<1>24. ASSUME NEW p \in Procs, Attach(p) PROVE RowTellsGuest' /\ AloneInv'
  <2>1. PICK v \in Ids :
          /\ Only(Name(job[p].op), v)
          /\ windows' = IF job[p].op = "shell_window"
                        THEN [windows EXCEPT ![v].live = TRUE] ELSE windows
    BY <1>24 DEF Attach
  <2>2. \A w \in Ids : windows'[w].name = "agent" => windows'[w] = windows[w]
    BY <2>1 DEF Only, Name, Named, Window
  <2>3. RowTellsGuest'
    BY <1>24, <2>2, GuestStays DEF Attach
  <2>4. ~Starting(p)' /\ p \notin alone'
    BY <1>24 DEF Attach, Starting, Idle
  <2>. QED
    BY <1>24, <2>2, <2>3, <2>4, AloneStays DEF Attach
<1>25. ASSUME AuthSet PROVE RowTellsGuest' /\ AloneInv'
  <2>1. \A w \in Ids : windows'[w].name = "agent" =>
          windows'[w].runs = None \/ windows'[w] = windows[w]
    BY <1>25 DEF AuthSet, Remember
  <2>2. RowTellsGuest'
    BY <1>25, <2>1, GuestStays DEF AuthSet, Remember
  <2>. QED
    BY <1>25, <2>1, <2>2, OutsideStays DEF AuthSet, Remember
<1>26. ASSUME AuthReset PROVE RowTellsGuest' /\ AloneInv'
  <2>1. \A w \in Ids : windows'[w].name = "agent" =>
          windows'[w].runs = None \/ windows'[w] = windows[w]
    BY <1>26 DEF AuthReset
  <2>2. RowTellsGuest'
    BY <1>26, <2>1, GuestStays DEF AuthReset
  <2>. QED
    BY <1>26, <2>1, <2>2, OutsideStays DEF AuthReset
<1>27. ASSUME KillAgent PROVE RowTellsGuest' /\ AloneInv'
  <2>1. \A w \in Ids : windows'[w].name = "agent" =>
          windows'[w].runs = None \/ windows'[w] = windows[w]
    BY <1>27, AgentsClose DEF KillAgent
  <2>2. RowTellsGuest'
    BY <1>27, <2>1, GuestStays DEF KillAgent
  <2>. QED
    BY <1>27, <2>1, <2>2, OutsideStays DEF KillAgent
<1>28. ASSUME ShellExits PROVE RowTellsGuest' /\ AloneInv'
  <2>0. PICK v \in Named("shell") : Dies(v) \/ Close(v)
    BY <1>28 DEF ShellExits
  <2>5. v \in Ids /\ windows[v].name # "none" /\ NoWindow.name = "none"
    BY DEF Named, NoWindow
  <2>1. \A w \in Ids : windows'[w].name = "agent" =>
          windows'[w].runs = None \/ windows'[w] = windows[w]
    BY <2>0, <2>5, Changed, Closed
  <2>2. RowTellsGuest'
    BY <1>28, <2>1, GuestStays DEF ShellExits
  <2>. QED
    BY <1>28, <2>1, <2>2, OutsideStays DEF ShellExits
<1>29. ASSUME AgentExits PROVE RowTellsGuest' /\ AloneInv'
  <2>0. PICK v \in Named("agent") : Dies(v) \/ Close(v)
    BY <1>29 DEF AgentExits
  <2>5. v \in Ids /\ windows[v].name # "none" /\ NoWindow.name = "none"
    BY DEF Named, NoWindow
  <2>1. \A w \in Ids : windows'[w].name = "agent" =>
          windows'[w].runs = None \/ windows'[w] = windows[w]
    BY <2>0, <2>5, Changed, Closed
  <2>2. RowTellsGuest'
    BY <1>29, <2>1, GuestStays DEF AgentExits
  <2>. QED
    BY <1>29, <2>1, <2>2, OutsideStays DEF AgentExits
<1>30. ASSUME UserSwitches PROVE RowTellsGuest' /\ AloneInv'
  <2>1. \A w \in Ids : windows'[w].name = "agent" =>
          windows'[w].runs = None \/ windows'[w] = windows[w]
    BY <1>30 DEF UserSwitches
  <2>2. RowTellsGuest'
    BY <1>30, <2>1, GuestStays DEF UserSwitches
  <2>. QED
    BY <1>30, <2>1, <2>2, OutsideStays DEF UserSwitches
<1>31. ASSUME VmStops PROVE RowTellsGuest' /\ AloneInv'
  <2>1. \A w \in Ids : windows'[w].name # "agent"
    BY <1>31 DEF VmStops, NoWindow
  <2>2. RowTellsGuest'
    BY <1>31, <2>1, GuestStays DEF VmStops
  <2>3. ASSUME NEW q \in alone'
        PROVE  (Starting(q) /\ PutSoFar(q) /\ \A r \in Procs : Starting(r) => q = r)'
    BY <1>31, <2>1, <2>3 DEF VmStops, PutSoFar, Starting, AloneInv, Named, CopiedPcs, ScriptPcs,
       NoJob, Idle
  <2>. QED
    BY <2>2, <2>3 DEF AloneInv
<1>32. ASSUME UNCHANGED vars PROVE RowTellsGuest' /\ AloneInv'
  BY <1>32, GuestStays, OutsideStays DEF vars
<1>. QED
  BY <1>1, <1>2, <1>3, <1>4, <1>5, <1>6, <1>7, <1>8, <1>9, <1>10, <1>11, <1>12, <1>13,
     <1>14, <1>15, <1>16, <1>17, <1>18, <1>19, <1>20, <1>21, <1>22, <1>23, <1>24,
     <1>25, <1>26, <1>27, <1>28, <1>29, <1>30, <1>31, <1>32
  DEF Next, AgentStep, AttachStep, Outside

\* Every step that chooses sources has the user's consent.
LEMMA ConsentStep ==
    ASSUME IInv, [Next]_vars
    PROVE  Consented
<1>. USE AgentAssumption DEF IInv, TypeOK, JobInv, StartPcs, ScriptPcs, OpeningPcs, Idle, Consented,
         Step, Goto, Exit, Asked, row, disk, tmux, local, history
<1>1. ASSUME NEW p \in Procs, StartBegin(p) PROVE Consented
  BY <1>1 DEF StartBegin, Compatible, Starting
<1>2. ASSUME NEW p \in Procs, Resolve(p) PROVE Consented
  BY <1>2 DEF Resolve, Remember, Decision
<1>3. ASSUME NEW p \in Procs, Prompt(p) PROVE Consented
  BY <1>3 DEF Prompt, Remember
<1>4. ASSUME NEW p \in Procs, EnsureInstanceRunning(p) PROVE Consented
  BY <1>4 DEF EnsureInstanceRunning
<1>5. ASSUME NEW p \in Procs, Bootstrap(p) PROVE Consented
  BY <1>5 DEF Bootstrap
<1>6. ASSUME NEW p \in Procs, CopyFile(p) PROVE Consented
  BY <1>6 DEF CopyFile
<1>7. ASSUME NEW p \in Procs, FilesCopied(p) PROVE Consented
  BY <1>7 DEF FilesCopied
<1>8. ASSUME NEW p \in Procs, WriteAuthEnv(p) PROVE Consented
  BY <1>8 DEF WriteAuthEnv, AuthEnvIs
<1>9. ASSUME NEW p \in Procs, HasSession(p) PROVE Consented
  BY <1>9 DEF HasSession
<1>10. ASSUME NEW p \in Procs, NewSession(p) PROVE Consented
  BY <1>10 DEF NewSession
<1>11. ASSUME NEW p \in Procs, ListWindows(p) PROVE Consented
  BY <1>11 DEF ListWindows
<1>12. ASSUME NEW p \in Procs, NewShellWindow(p) PROVE Consented
  BY <1>12 DEF NewShellWindow, OpenIfTmux
<1>13. ASSUME NEW p \in Procs, KeepShell(p) PROVE Consented
  BY <1>13 DEF KeepShell, KeepAnd, Kept
<1>14. ASSUME NEW p \in Procs, KillOldAgent(p) PROVE Consented
  BY <1>14 DEF KillOldAgent
<1>15. ASSUME NEW p \in Procs, NewAgentWindow(p) PROVE Consented
  BY <1>15 DEF NewAgentWindow, OpenIfTmux
<1>16. ASSUME NEW p \in Procs, KeepAgent(p) PROVE Consented
  BY <1>16 DEF KeepAgent, Kept
<1>17. ASSUME NEW p \in Procs, SendLine(p) PROVE Consented
  BY <1>17 DEF SendLine
<1>18. ASSUME NEW p \in Procs, Record(p) PROVE Consented
  BY <1>18 DEF Record, RecordAs
<1>19. ASSUME NEW p \in Procs, Fail(p) PROVE Consented
  BY <1>19 DEF Fail
<1>20. ASSUME NEW p \in Procs, StartVmBegin(p) PROVE Consented
  BY <1>20 DEF StartVmBegin
<1>21. ASSUME NEW p \in Procs, AttachBegin(p) PROVE Consented
  BY <1>21 DEF AttachBegin
<1>22. ASSUME NEW p \in Procs, AdmitAttach(p) PROVE Consented
  BY <1>22 DEF AdmitAttach
<1>23. ASSUME NEW p \in Procs, RefuseAttach(p) PROVE Consented
  BY <1>23 DEF RefuseAttach
<1>24. ASSUME NEW p \in Procs, Attach(p) PROVE Consented
  BY <1>24 DEF Attach, Name
<1>25. ASSUME AuthSet PROVE Consented
  BY <1>25 DEF AuthSet, Remember
<1>26. ASSUME AuthReset PROVE Consented
  BY <1>26 DEF AuthReset
<1>27. ASSUME KillAgent PROVE Consented
  BY <1>27 DEF KillAgent
<1>28. ASSUME ShellExits PROVE Consented
  BY <1>28 DEF ShellExits
<1>29. ASSUME AgentExits PROVE Consented
  BY <1>29 DEF AgentExits
<1>30. ASSUME UserSwitches PROVE Consented
  BY <1>30 DEF UserSwitches
<1>31. ASSUME VmStops PROVE Consented
  BY <1>31 DEF VmStops
<1>32. ASSUME UNCHANGED vars PROVE Consented
  BY <1>32 DEF vars
<1>. QED
  BY <1>1, <1>2, <1>3, <1>4, <1>5, <1>6, <1>7, <1>8, <1>9, <1>10, <1>11, <1>12, <1>13,
     <1>14, <1>15, <1>16, <1>17, <1>18, <1>19, <1>20, <1>21, <1>22, <1>23, <1>24,
     <1>25, <1>26, <1>27, <1>28, <1>29, <1>30, <1>31, <1>32
  DEF Next, AgentStep, AttachStep, Outside

\* The initial states have the invariant.
LEMMA InitInv == Init => IInv
<1>. SUFFICES ASSUME Init PROVE IInv
  OBVIOUS
<1>. USE AgentAssumption DEF Init
<1>1. 1 \in Ids /\ 0 \notin Ids
  BY DEF Ids
<1>2. \A w \in Ids : windows[w].name = IF w = 1 THEN "shell" ELSE "none"
  BY DEF NoWindow
<1>3. TypeOK
  <2>1. windows \in [Ids -> Window]
    BY DEF NoWindow, Window
  <2>. QED
    BY <1>1, <2>1 DEF TypeOK, StartPcs, Jobs, NoJob, Idle
<1>4. JobInv
  BY DEF JobInv, StartPcs, ScriptPcs, NoJob, Idle
<1>5. FilesInv
  BY DEF FilesInv, RecordedFilesInGuest, CopiedPcs, ScriptPcs, Idle
<1>6. WindowInv
  BY <1>1, <1>2 DEF WindowInv, ShellOutlivesAgent, Named, OpeningPcs, Idle
<1>7. RowTellsGuest
  BY <1>2 DEF RowTellsGuest, Named
<1>8. AloneInv
  BY DEF AloneInv
<1>. QED
  BY <1>3, <1>4, <1>5, <1>6, <1>7, <1>8 DEF IInv

\* Every state of AgentSession has the invariant.
THEOREM Inductive == Spec => []IInv
<1>1. IInv /\ [Next]_vars => IInv'
  BY TypeStep, JobStep, FilesStep, WindowStep, AloneStep DEF IInv
<1>. QED
  BY InitInv, <1>1, PTL DEF Spec

\* What the row says was imported is in the guest, for any number of starts that
\* overlap or fail half-way.
THEOREM RecordIsTrue == Spec => []RecordedFilesInGuest
<1>1. IInv => RecordedFilesInGuest
  BY DEF IInv, FilesInv
<1>. QED
  BY Inductive, <1>1, PTL

\* A boot in which no two scripts have looked for the shell window at once keeps
\* one from the first start to its end, for any number of processes and windows.
THEOREM ShellStays == Spec => []ShellOutlivesAgent
<1>1. IInv => ShellOutlivesAgent
  BY DEF IInv, WindowInv
<1>. QED
  BY Inductive, <1>1, PTL

\* A start that ran alone leaves a row that tells what the guest has, and it stays
\* true until another start gets to agent.env or to the agent window.
THEOREM RowIsRight == Spec => []RowTellsGuest
<1>1. IInv => RowTellsGuest
  BY DEF IInv
<1>. QED
  BY Inductive, <1>1, PTL

\* No start imports what the user has not agreed to, whoever changes the
\* remembered decision at the same time.
THEOREM ConsentGiven == Spec => ImportsOnlyWithConsent
<1>1. IInv /\ [Next]_vars => [Consented]_vars
  BY ConsentStep
<1>. QED
  BY Inductive, <1>1, PTL DEF Spec, ImportsOnlyWithConsent

=============================================================================
