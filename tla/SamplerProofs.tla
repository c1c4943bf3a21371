--------------------------- MODULE SamplerProofs ---------------------------
(***************************************************************************)
(* The safety of ProcessSampler for any number of processes: that no       *)
(* sample is taken during the cleanup and that the root is reaped, always; *)
(* what the cleanup kills and reports, and what the label of the CPU time  *)
(* says, when /proc can be read.  The workload forks whenever it likes.    *)
(***************************************************************************)
EXTENDS ProcessSampler, TLAPS

\* Before _terminate_process_group.
Early == {"start", "wait", "edge", "left", "stop", "join"}

\* The steps of a phase.
StepInv ==
  /\ step = "read" => phase \in SamplePhases \union ScanPhases \union GroupPhases
  /\ step = "send" => phase \in GroupPhases \union SeenPhases

\* The sampling thread has ended when the cleanup starts, and signals come later.
JoinInv ==
  /\ phase \notin Early => spc \in {"off", "ended"}
  /\ signalled # {} => phase \notin Early

\* The root is reaped only when it is dead, and no process takes its place.
RootInv ==
  /\ Root \in born
  /\ reaped => Root \notin alive
  /\ RootReaped

\* The group id is free only once the root is reaped, and killpg comes before that.
StrangerInv ==
  /\ ~reaped => Stranger \notin born
  /\ phase \in GroupPhases /\ step = "killpg" => ~reaped

\* CPU counters come from a cgroup.
ScopeInv == snapshot => scope

\* What was listed, sampled or looked at had been forked.
BornInv ==
  /\ view \subseteq born /\ sview \subseteq born /\ seen \subseteq born
  /\ running \subseteq born
  /\ \A k \in Looks : known[k] \subseteq born

IInv == TypeOK /\ StepInv /\ JoinInv /\ RootInv /\ StrangerInv /\ ScopeInv /\ BornInv

\* Those SIGKILL is meant for.
Due == Left \intersect (known["kill"] \union seen)

\* The group, as the look k knew it.
Old(k) == Group \intersect Procs \intersect known[k]

\* The scans of the cleanup miss nobody they could know, SIGKILL reaches all they found.
CleanupInv ==
  /\ phase \in {"still", "kill"} /\ step = "read" => Old("kill") \subseteq view
  /\ phase = "kill" /\ step = "send" => Old("kill") \subseteq targets \union doomed
  /\ phase = "kill_seen" => Old("kill") \subseteq doomed
  /\ phase = "kill_seen" /\ step = "send" => Due \subseteq targets \union doomed
  /\ phase \in {"drain", "reap", "last", "block", "final", "snapshot", "close", "done"} =>
       Due \subseteq doomed
  /\ phase = "final" /\ step = "read" => Old("final") \subseteq view
  /\ phase \in {"snapshot", "close", "done"} => Left \intersect known["final"] \subseteq remaining
  /\ phase \in {"close", "done"} => running \intersect own \intersect known["final"] \subseteq remaining

\* A command in a cgroup is not sampled; when it ended by itself and nothing was alive
\* at the boundary, nothing of its group that was there ever is again, or is signalled.
QuietInv ==
  /\ scope => spc = "off" /\ phase \notin SamplePhases /\ seen = {}
  /\ phase \in Early => targets = {}
  /\ scope /\ ~raised /\ ~timedOut =>
       /\ phase # "wait" => reaped
       /\ phase = "left" /\ step = "read" => Old("boundary") \subseteq view
       /\ phase \notin {"wait", "left"} /\ boundary = {} =>
            ((own \intersect alive) \union view \union targets \union signalled)
              \intersect Procs \intersect known["boundary"] = {}
-----------------------------------------------------------------------------
(* Type correctness *)

USE ProcsAssumption, SamplerAssumption
    DEF Everyone, SamplePhases, ScanPhases, GroupPhases, SeenPhases, Phases

LEMMA TypeInit == Init => TypeOK
<1> SUFFICES ASSUME Init PROVE TypeOK
  OBVIOUS
<1>1. WorkloadTypeOK
  BY DEF Init, WorkloadInit, WorkloadTypeOK
<1>2. phase \in Phases /\ scope \in BOOLEAN /\ failures \in Nat
  BY DEF Init
<1>3. HistoryTypeOK
  BY DEF Init, HistoryTypeOK
<1>4. QED
  BY <1>1, <1>2, <1>3 DEF Init, TypeOK

\* The history is typed, and is of processes already forked.
LEMMA HistoryStep ==
  ASSUME TypeOK, [Next]_vars PROVE HistoryTypeOK'
<1>1. ASSUME History
      PROVE  HistoryTypeOK'
  BY <1>1 DEF TypeOK, HistoryTypeOK, WorkloadTypeOK, History
<1>2. ASSUME UNCHANGED vars
      PROVE  HistoryTypeOK'
  BY <1>2 DEF TypeOK, HistoryTypeOK, vars
<1>3. QED
  BY <1>1, <1>2 DEF Next

LEMMA SampleTypes ==
  ASSUME TypeOK, CaptureSample
  PROVE  WorkloadTypeOK' /\ view' = {} /\ seen' \subseteq Everyone /\ failures' \in Nat
<1>1. WorkloadTypeOK'
  BY DEF TypeOK, WorkloadTypeOK, CaptureSample, workloadVars
<1>2. seen' \subseteq Everyone
  BY DEF TypeOK, CaptureSample, Found, ReadFails
<1>3. failures' \in Nat
  BY DEF TypeOK, CaptureSample, ReadFails
<1>4. QED
  BY <1>1, <1>2, <1>3 DEF CaptureSample

LEMMA ScanTypes ==
  ASSUME TypeOK, NEW L, LiveIds(L)
  PROVE  view' = {} /\ failures' \in Nat
<1>1. failures' \in Nat
  BY DEF TypeOK, LiveIds, ReadFails
<1>2. QED
  BY <1>1 DEF LiveIds

LEMMA TypeStep ==
  ASSUME TypeOK, [Next]_vars PROVE TypeOK'
<1>0. HistoryTypeOK'
  BY HistoryStep
<1> USE <1>0 DEF TypeOK, WorkloadTypeOK, Group, Tree, vars, workloadVars, stepVars, viewVars,
            threadVars, waitVars, leftVars, scopeVars, supervisorVars, scanElseVars,
            signalElseVars, reapElseVars, resultElseVars, threadElseVars, Goto, Advance,
            Found, ReadFails
<1>1. ASSUME Work
      PROVE  TypeOK'
  BY <1>1 DEF Work, Fork, Escape, Exit
<1>2. ASSUME ReuseGroupId
      PROVE  TypeOK'
  BY <1>2 DEF ReuseGroupId, Squat
<1>3. ASSUME Tick
      PROVE  TypeOK'
  BY <1>3 DEF Tick
<1>4. ASSUME ListTree
      PROVE  TypeOK'
  BY <1>4 DEF ListTree
<1>5. ASSUME StartSampler
      PROVE  TypeOK'
  <2>1. WorkloadTypeOK' /\ view' = {} /\ seen' \subseteq Everyone /\ failures' \in Nat
    BY <1>5, SampleTypes DEF StartSampler
  <2>2. UNCHANGED <<targets, sview, stop, waitVars, leftVars, scopeVars, signalled>>
    BY <1>5 DEF StartSampler, CaptureSample
  <2>3. phase' \in Phases /\ step' = "begin" /\ expired' = FALSE /\ spc' = "idle"
    BY <1>5 DEF StartSampler
  <2>4. QED
    BY <2>1, <2>2, <2>3
<1>6. ASSUME WaitReaps
      PROVE  TypeOK'
  BY <1>6 DEF WaitReaps, WaitOver
<1>7. ASSUME WaitTimesOut
      PROVE  TypeOK'
  BY <1>7 DEF WaitTimesOut, WaitOver
<1>8. ASSUME EdgeSample
      PROVE  TypeOK'
  <2>1. WorkloadTypeOK' /\ view' = {} /\ seen' \subseteq Everyone /\ failures' \in Nat
    BY <1>8, SampleTypes DEF EdgeSample
  <2>2. UNCHANGED <<targets, sview, stop, waitVars, leftVars, scopeVars, signalled>>
    BY <1>8 DEF EdgeSample, CaptureSample
  <2>3. phase' \in Phases /\ step' = "begin" /\ expired' = FALSE /\ spc' = spc
    BY <1>8 DEF EdgeSample
  <2>4. QED
    BY <2>1, <2>2, <2>3
<1>9. ASSUME ListGroup
      PROVE  TypeOK'
  BY <1>9 DEF ListGroup
<1>10. ASSUME StopSampler
      PROVE  TypeOK'
  BY <1>10 DEF StopSampler
<1>11. ASSUME Join
      PROVE  TypeOK'
  BY <1>11 DEF Join
<1>12. ASSUME DeadlinePasses
      PROVE  TypeOK'
  BY <1>12 DEF DeadlinePasses
<1>13. ASSUME PollRoot
      PROVE  TypeOK'
  BY <1>13 DEF PollRoot
<1>14. ASSUME KillGroup
      PROVE  TypeOK'
  <2>1. AfterSignal \in Phases
    BY DEF AfterSignal
  <2>2. doomed' \subseteq alive /\ signalled' \subseteq Everyone
    BY <1>14 DEF KillGroup, Deliver
  <2>3. phase' \in Phases /\ step' = "begin" /\ expired' = FALSE
    BY <1>14, <2>1 DEF KillGroup
  <2>4. UNCHANGED <<born, alive, own, ancestors, viewVars, signalElseVars, reaped, failures>>
    BY <1>14 DEF KillGroup, Deliver
  <2>5. QED
    BY <2>2, <2>3, <2>4
<1>15. ASSUME ListTargets
      PROVE  TypeOK'
  BY <1>15 DEF ListTargets
<1>16. ASSUME FindTargets
      PROVE  TypeOK'
  BY <1>16 DEF FindTargets
<1>17. ASSUME SeenTargets
      PROVE  TypeOK'
  BY <1>17 DEF SeenTargets
<1>18. ASSUME Sent
      PROVE  TypeOK'
  <2>1. AfterSignal \in Phases
    BY DEF AfterSignal
  <2>2. phase' \in Phases /\ step' = "begin" /\ expired' = FALSE
    BY <1>18, <2>1 DEF Sent
  <2>3. QED
    BY <1>18, <2>2 DEF Sent
<1>19. ASSUME Reap
      PROVE  TypeOK'
  BY <1>19 DEF Reap, reapElseVars
<1>20. ASSUME ReapTimesOut
      PROVE  TypeOK'
  BY <1>20 DEF ReapTimesOut, reapElseVars
<1>21. ASSUME ReadCpu
      PROVE  TypeOK'
  BY <1>21 DEF ReadCpu
<1>22. ASSUME CloseScope
      PROVE  TypeOK'
  BY <1>22 DEF CloseScope
<1>23. ASSUME NEW p \in Everyone, Send(p)
      PROVE  TypeOK'
  BY <1>23 DEF Send, Deliver
<1>24. ASSUME NEW L \in SUBSET Everyone, RecordBoundary(L)
      PROVE  TypeOK'
  BY <1>24, ScanTypes DEF RecordBoundary
<1>25. ASSUME NEW L \in SUBSET Everyone, Check(L)
      PROVE  TypeOK'
  <2>1. phase' \in Phases /\ step' = "begin" /\ expired' \in BOOLEAN
    BY <1>25 DEF Check, Decide
  <2>2. view' = {} /\ failures' \in Nat
    BY <1>25, ScanTypes DEF Check, Decide
  <2>3. QED
    BY <1>25, <2>1, <2>2 DEF Check, Decide
<1>26. ASSUME NEW L \in SUBSET Everyone, Grace(L)
      PROVE  TypeOK'
  <2>1. phase' \in Phases /\ step' = "begin" /\ expired' \in BOOLEAN
    BY <1>26 DEF Grace, Decide
  <2>2. view' = {} /\ failures' \in Nat
    BY <1>26, ScanTypes DEF Grace, Decide
  <2>3. QED
    BY <1>26, <2>1, <2>2 DEF Grace, Decide
<1>27. ASSUME NEW L \in SUBSET Everyone, Still(L)
      PROVE  TypeOK'
  <2>1. phase' \in Phases /\ step' = "begin" /\ expired' \in BOOLEAN
    BY <1>27 DEF Still, Decide
  <2>2. view' = {} /\ failures' \in Nat
    BY <1>27, ScanTypes DEF Still, Decide
  <2>3. QED
    BY <1>27, <2>1, <2>2 DEF Still, Decide
<1>28. ASSUME NEW L \in SUBSET Everyone, Drain(L)
      PROVE  TypeOK'
  <2>1. phase' \in Phases /\ step' = "begin" /\ expired' \in BOOLEAN
    BY <1>28 DEF Drain, Decide
  <2>2. view' = {} /\ failures' \in Nat
    BY <1>28, ScanTypes DEF Drain, Decide
  <2>3. QED
    BY <1>28, <2>1, <2>2 DEF Drain, Decide
<1>29. ASSUME NEW L \in SUBSET Everyone, Remaining(L)
      PROVE  TypeOK'
  BY <1>29, ScanTypes DEF Remaining
<1>30. ASSUME Interrupt
      PROVE  TypeOK'
  BY <1>30 DEF Interrupt
<1>31. ASSUME ThreadLists
      PROVE  TypeOK'
  BY <1>31 DEF ThreadLists
<1>32. ASSUME ThreadSamples
      PROVE  TypeOK'
  BY <1>32 DEF ThreadSamples
<1>33. ASSUME ThreadEnds
      PROVE  TypeOK'
  BY <1>33 DEF ThreadEnds
<1>34. ASSUME UNCHANGED vars
      PROVE  TypeOK'
  BY <1>34 DEF vars
<1>35. QED
  BY <1>1, <1>2, <1>3, <1>4, <1>5, <1>6, <1>7, <1>8, <1>9, <1>10, <1>11, <1>12, <1>13,
     <1>14, <1>15, <1>16, <1>17, <1>18, <1>19, <1>20, <1>21, <1>22, <1>23, <1>24, <1>25,
     <1>26, <1>27, <1>28, <1>29, <1>30, <1>31, <1>32, <1>33, <1>34 DEF Next, Step, Main,
     Thread

\* Every variable keeps its type, whatever the workload does.
THEOREM TypeCorrect == Spec => []TypeOK
<1>1. TypeOK /\ [Next]_vars => TypeOK'
  BY TypeStep
<1>2. QED
  BY TypeInit, <1>1, PTL DEF Spec

-----------------------------------------------------------------------------
(* What holds whatever the workload and the file system do *)

LEMMA StepStep ==
  ASSUME TypeOK, StepInv, [Next]_vars PROVE StepInv'
<1> USE DEF StepInv, AfterSignal, vars, workloadVars, stepVars, viewVars, threadVars,
            waitVars, leftVars, scopeVars, supervisorVars, scanElseVars, signalElseVars,
            reapElseVars, resultElseVars, threadElseVars, Goto, Advance, Found,
            ReadFails
<1>1. ASSUME Work
      PROVE  StepInv'
  BY <1>1 DEF Work, Fork, Escape, Exit
<1>2. ASSUME ReuseGroupId
      PROVE  StepInv'
  BY <1>2 DEF ReuseGroupId, Squat
<1>3. ASSUME Tick
      PROVE  StepInv'
  BY <1>3 DEF Tick
<1>4. ASSUME ListTree
      PROVE  StepInv'
  BY <1>4 DEF ListTree
<1>5. ASSUME StartSampler
      PROVE  StepInv'
  BY <1>5 DEF StartSampler, CaptureSample
<1>6. ASSUME WaitReaps
      PROVE  StepInv'
  BY <1>6 DEF WaitReaps, WaitOver
<1>7. ASSUME WaitTimesOut
      PROVE  StepInv'
  BY <1>7 DEF WaitTimesOut, WaitOver
<1>8. ASSUME EdgeSample
      PROVE  StepInv'
  BY <1>8 DEF EdgeSample, CaptureSample
<1>9. ASSUME ListGroup
      PROVE  StepInv'
  BY <1>9 DEF ListGroup
<1>10. ASSUME StopSampler
      PROVE  StepInv'
  BY <1>10 DEF StopSampler
<1>11. ASSUME Join
      PROVE  StepInv'
  BY <1>11 DEF Join
<1>12. ASSUME DeadlinePasses
      PROVE  StepInv'
  BY <1>12 DEF DeadlinePasses
<1>13. ASSUME PollRoot
      PROVE  StepInv'
  BY <1>13 DEF PollRoot
<1>14. ASSUME KillGroup
      PROVE  StepInv'
  BY <1>14 DEF KillGroup, Deliver, AfterSignal
<1>15. ASSUME ListTargets
      PROVE  StepInv'
  BY <1>15 DEF ListTargets
<1>16. ASSUME FindTargets
      PROVE  StepInv'
  BY <1>16 DEF FindTargets
<1>17. ASSUME SeenTargets
      PROVE  StepInv'
  BY <1>17 DEF SeenTargets
<1>18. ASSUME Sent
      PROVE  StepInv'
  BY <1>18 DEF Sent, AfterSignal
<1>19. ASSUME Reap
      PROVE  StepInv'
  BY <1>19 DEF Reap, reapElseVars
<1>20. ASSUME ReapTimesOut
      PROVE  StepInv'
  BY <1>20 DEF ReapTimesOut, reapElseVars
<1>21. ASSUME ReadCpu
      PROVE  StepInv'
  BY <1>21 DEF ReadCpu
<1>22. ASSUME CloseScope
      PROVE  StepInv'
  BY <1>22 DEF CloseScope
<1>23. ASSUME NEW p \in Everyone, Send(p)
      PROVE  StepInv'
  BY <1>23 DEF Send, Deliver
<1>24. ASSUME NEW L \in SUBSET Everyone, RecordBoundary(L)
      PROVE  StepInv'
  BY <1>24 DEF RecordBoundary, LiveIds
<1>25. ASSUME NEW L \in SUBSET Everyone, Check(L)
      PROVE  StepInv'
  BY <1>25 DEF Check, Decide, LiveIds
<1>26. ASSUME NEW L \in SUBSET Everyone, Grace(L)
      PROVE  StepInv'
  BY <1>26 DEF Grace, LiveIds
<1>27. ASSUME NEW L \in SUBSET Everyone, Still(L)
      PROVE  StepInv'
  BY <1>27 DEF Still, Decide, LiveIds
<1>28. ASSUME NEW L \in SUBSET Everyone, Drain(L)
      PROVE  StepInv'
  BY <1>28 DEF Drain, LiveIds
<1>29. ASSUME NEW L \in SUBSET Everyone, Remaining(L)
      PROVE  StepInv'
  BY <1>29 DEF Remaining, LiveIds
<1>30. ASSUME Interrupt
      PROVE  StepInv'
  BY <1>30 DEF Interrupt
<1>31. ASSUME ThreadLists
      PROVE  StepInv'
  BY <1>31 DEF ThreadLists
<1>32. ASSUME ThreadSamples
      PROVE  StepInv'
  BY <1>32 DEF ThreadSamples
<1>33. ASSUME ThreadEnds
      PROVE  StepInv'
  BY <1>33 DEF ThreadEnds
<1>34. ASSUME UNCHANGED vars
      PROVE  StepInv'
  BY <1>34 DEF vars
<1>35. QED
  BY <1>1, <1>2, <1>3, <1>4, <1>5, <1>6, <1>7, <1>8, <1>9, <1>10, <1>11, <1>12, <1>13,
     <1>14, <1>15, <1>16, <1>17, <1>18, <1>19, <1>20, <1>21, <1>22, <1>23, <1>24, <1>25,
     <1>26, <1>27, <1>28, <1>29, <1>30, <1>31, <1>32, <1>33, <1>34 DEF Next, Step, Main,
     Thread

LEMMA JoinStep ==
  ASSUME TypeOK, StepInv, JoinInv, [Next]_vars PROVE JoinInv'
<1> USE DEF StepInv, JoinInv, Early, vars, workloadVars, stepVars, viewVars, threadVars,
            waitVars, leftVars, scopeVars, supervisorVars, scanElseVars, signalElseVars,
            reapElseVars, resultElseVars, threadElseVars, Goto, Advance, Found,
            ReadFails
<1>1. ASSUME Work
      PROVE  JoinInv'
  BY <1>1 DEF Work, Fork, Escape, Exit
<1>2. ASSUME ReuseGroupId
      PROVE  JoinInv'
  BY <1>2 DEF ReuseGroupId, Squat
<1>3. ASSUME Tick
      PROVE  JoinInv'
  BY <1>3 DEF Tick
<1>4. ASSUME ListTree
      PROVE  JoinInv'
  BY <1>4 DEF ListTree
<1>5. ASSUME StartSampler
      PROVE  JoinInv'
  BY <1>5 DEF StartSampler, CaptureSample
<1>6. ASSUME WaitReaps
      PROVE  JoinInv'
  BY <1>6 DEF WaitReaps, WaitOver
<1>7. ASSUME WaitTimesOut
      PROVE  JoinInv'
  BY <1>7 DEF WaitTimesOut, WaitOver
<1>8. ASSUME EdgeSample
      PROVE  JoinInv'
  BY <1>8 DEF EdgeSample, CaptureSample
<1>9. ASSUME ListGroup
      PROVE  JoinInv'
  BY <1>9 DEF ListGroup
<1>10. ASSUME StopSampler
      PROVE  JoinInv'
  BY <1>10 DEF StopSampler
<1>11. ASSUME Join
      PROVE  JoinInv'
  BY <1>11 DEF Join
<1>12. ASSUME DeadlinePasses
      PROVE  JoinInv'
  BY <1>12 DEF DeadlinePasses
<1>13. ASSUME PollRoot
      PROVE  JoinInv'
  BY <1>13 DEF PollRoot
<1>14. ASSUME KillGroup
      PROVE  JoinInv'
  BY <1>14 DEF KillGroup, Deliver, AfterSignal
<1>15. ASSUME ListTargets
      PROVE  JoinInv'
  BY <1>15 DEF ListTargets
<1>16. ASSUME FindTargets
      PROVE  JoinInv'
  BY <1>16 DEF FindTargets
<1>17. ASSUME SeenTargets
      PROVE  JoinInv'
  BY <1>17 DEF SeenTargets
<1>18. ASSUME Sent
      PROVE  JoinInv'
  BY <1>18 DEF Sent, AfterSignal
<1>19. ASSUME Reap
      PROVE  JoinInv'
  BY <1>19 DEF Reap, reapElseVars
<1>20. ASSUME ReapTimesOut
      PROVE  JoinInv'
  BY <1>20 DEF ReapTimesOut, reapElseVars
<1>21. ASSUME ReadCpu
      PROVE  JoinInv'
  BY <1>21 DEF ReadCpu
<1>22. ASSUME CloseScope
      PROVE  JoinInv'
  BY <1>22 DEF CloseScope
<1>23. ASSUME NEW p \in Everyone, Send(p)
      PROVE  JoinInv'
  BY <1>23 DEF Send, Deliver
<1>24. ASSUME NEW L \in SUBSET Everyone, RecordBoundary(L)
      PROVE  JoinInv'
  BY <1>24 DEF RecordBoundary, LiveIds
<1>25. ASSUME NEW L \in SUBSET Everyone, Check(L)
      PROVE  JoinInv'
  BY <1>25 DEF Check, Decide, LiveIds
<1>26. ASSUME NEW L \in SUBSET Everyone, Grace(L)
      PROVE  JoinInv'
  BY <1>26 DEF Grace, LiveIds
<1>27. ASSUME NEW L \in SUBSET Everyone, Still(L)
      PROVE  JoinInv'
  BY <1>27 DEF Still, Decide, LiveIds
<1>28. ASSUME NEW L \in SUBSET Everyone, Drain(L)
      PROVE  JoinInv'
  BY <1>28 DEF Drain, LiveIds
<1>29. ASSUME NEW L \in SUBSET Everyone, Remaining(L)
      PROVE  JoinInv'
  BY <1>29 DEF Remaining, LiveIds
<1>30. ASSUME Interrupt
      PROVE  JoinInv'
  BY <1>30 DEF Interrupt
<1>31. ASSUME ThreadLists
      PROVE  JoinInv'
  BY <1>31 DEF ThreadLists
<1>32. ASSUME ThreadSamples
      PROVE  JoinInv'
  BY <1>32 DEF ThreadSamples
<1>33. ASSUME ThreadEnds
      PROVE  JoinInv'
  BY <1>33 DEF ThreadEnds
<1>34. ASSUME UNCHANGED vars
      PROVE  JoinInv'
  BY <1>34 DEF vars
<1>35. QED
  BY <1>1, <1>2, <1>3, <1>4, <1>5, <1>6, <1>7, <1>8, <1>9, <1>10, <1>11, <1>12, <1>13,
     <1>14, <1>15, <1>16, <1>17, <1>18, <1>19, <1>20, <1>21, <1>22, <1>23, <1>24, <1>25,
     <1>26, <1>27, <1>28, <1>29, <1>30, <1>31, <1>32, <1>33, <1>34 DEF Next, Step, Main,
     Thread

LEMMA RootStep ==
  ASSUME TypeOK, StepInv, RootInv, [Next]_vars PROVE RootInv'
<1> USE DEF StepInv, RootInv, RootReaped, TypeOK, WorkloadTypeOK, vars, workloadVars,
            stepVars, viewVars, threadVars, waitVars, leftVars, scopeVars,
            supervisorVars, scanElseVars, signalElseVars, reapElseVars, resultElseVars,
            threadElseVars, Goto, Advance, Found, ReadFails
<1>1. ASSUME Work
      PROVE  RootInv'
  BY <1>1 DEF Work, Fork, Escape, Exit
<1>2. ASSUME ReuseGroupId
      PROVE  RootInv'
  BY <1>2 DEF ReuseGroupId, Squat
<1>3. ASSUME Tick
      PROVE  RootInv'
  BY <1>3 DEF Tick
<1>4. ASSUME ListTree
      PROVE  RootInv'
  BY <1>4 DEF ListTree
<1>5. ASSUME StartSampler
      PROVE  RootInv'
  BY <1>5 DEF StartSampler, CaptureSample
<1>6. ASSUME WaitReaps
      PROVE  RootInv'
  BY <1>6 DEF WaitReaps, WaitOver
<1>7. ASSUME WaitTimesOut
      PROVE  RootInv'
  BY <1>7 DEF WaitTimesOut, WaitOver
<1>8. ASSUME EdgeSample
      PROVE  RootInv'
  BY <1>8 DEF EdgeSample, CaptureSample
<1>9. ASSUME ListGroup
      PROVE  RootInv'
  BY <1>9 DEF ListGroup
<1>10. ASSUME StopSampler
      PROVE  RootInv'
  BY <1>10 DEF StopSampler
<1>11. ASSUME Join
      PROVE  RootInv'
  BY <1>11 DEF Join
<1>12. ASSUME DeadlinePasses
      PROVE  RootInv'
  BY <1>12 DEF DeadlinePasses
<1>13. ASSUME PollRoot
      PROVE  RootInv'
  BY <1>13 DEF PollRoot
<1>14. ASSUME KillGroup
      PROVE  RootInv'
  BY <1>14 DEF KillGroup, Deliver, AfterSignal
<1>15. ASSUME ListTargets
      PROVE  RootInv'
  BY <1>15 DEF ListTargets
<1>16. ASSUME FindTargets
      PROVE  RootInv'
  BY <1>16 DEF FindTargets
<1>17. ASSUME SeenTargets
      PROVE  RootInv'
  BY <1>17 DEF SeenTargets
<1>18. ASSUME Sent
      PROVE  RootInv'
  BY <1>18 DEF Sent, AfterSignal
<1>19. ASSUME Reap
      PROVE  RootInv'
  BY <1>19 DEF Reap, reapElseVars
<1>20. ASSUME ReapTimesOut
      PROVE  RootInv'
  BY <1>20 DEF ReapTimesOut, reapElseVars
<1>21. ASSUME ReadCpu
      PROVE  RootInv'
  BY <1>21 DEF ReadCpu
<1>22. ASSUME CloseScope
      PROVE  RootInv'
  BY <1>22 DEF CloseScope
<1>23. ASSUME NEW p \in Everyone, Send(p)
      PROVE  RootInv'
  BY <1>23 DEF Send, Deliver
<1>24. ASSUME NEW L \in SUBSET Everyone, RecordBoundary(L)
      PROVE  RootInv'
  BY <1>24 DEF RecordBoundary, LiveIds
<1>25. ASSUME NEW L \in SUBSET Everyone, Check(L)
      PROVE  RootInv'
  BY <1>25 DEF Check, Decide, LiveIds
<1>26. ASSUME NEW L \in SUBSET Everyone, Grace(L)
      PROVE  RootInv'
  BY <1>26 DEF Grace, LiveIds
<1>27. ASSUME NEW L \in SUBSET Everyone, Still(L)
      PROVE  RootInv'
  BY <1>27 DEF Still, Decide, LiveIds
<1>28. ASSUME NEW L \in SUBSET Everyone, Drain(L)
      PROVE  RootInv'
  BY <1>28 DEF Drain, LiveIds
<1>29. ASSUME NEW L \in SUBSET Everyone, Remaining(L)
      PROVE  RootInv'
  BY <1>29 DEF Remaining, LiveIds
<1>30. ASSUME Interrupt
      PROVE  RootInv'
  BY <1>30 DEF Interrupt
<1>31. ASSUME ThreadLists
      PROVE  RootInv'
  BY <1>31 DEF ThreadLists
<1>32. ASSUME ThreadSamples
      PROVE  RootInv'
  BY <1>32 DEF ThreadSamples
<1>33. ASSUME ThreadEnds
      PROVE  RootInv'
  BY <1>33 DEF ThreadEnds
<1>34. ASSUME UNCHANGED vars
      PROVE  RootInv'
  BY <1>34 DEF vars
<1>35. QED
  BY <1>1, <1>2, <1>3, <1>4, <1>5, <1>6, <1>7, <1>8, <1>9, <1>10, <1>11, <1>12, <1>13,
     <1>14, <1>15, <1>16, <1>17, <1>18, <1>19, <1>20, <1>21, <1>22, <1>23, <1>24, <1>25,
     <1>26, <1>27, <1>28, <1>29, <1>30, <1>31, <1>32, <1>33, <1>34 DEF Next, Step, Main,
     Thread

LEMMA StrangerStep ==
  ASSUME TypeOK, RootInv, StrangerInv, [Next]_vars PROVE StrangerInv'
<1> USE DEF RootInv, StrangerInv, TypeOK, WorkloadTypeOK, vars, workloadVars,
            stepVars, viewVars, threadVars, waitVars, leftVars, scopeVars,
            supervisorVars, scanElseVars, signalElseVars, reapElseVars, resultElseVars,
            threadElseVars, Goto, Advance, Found, ReadFails
<1>1. ASSUME Work
      PROVE  StrangerInv'
  BY <1>1 DEF Work, Fork, Escape, Exit
<1>2. ASSUME ReuseGroupId
      PROVE  StrangerInv'
  BY <1>2 DEF ReuseGroupId, Squat
<1>3. ASSUME Tick
      PROVE  StrangerInv'
  BY <1>3 DEF Tick
<1>4. ASSUME ListTree
      PROVE  StrangerInv'
  BY <1>4 DEF ListTree
<1>5. ASSUME StartSampler
      PROVE  StrangerInv'
  BY <1>5 DEF StartSampler, CaptureSample
<1>6. ASSUME WaitReaps
      PROVE  StrangerInv'
  BY <1>6 DEF WaitReaps, WaitOver
<1>7. ASSUME WaitTimesOut
      PROVE  StrangerInv'
  BY <1>7 DEF WaitTimesOut, WaitOver
<1>8. ASSUME EdgeSample
      PROVE  StrangerInv'
  BY <1>8 DEF EdgeSample, CaptureSample
<1>9. ASSUME ListGroup
      PROVE  StrangerInv'
  BY <1>9 DEF ListGroup
<1>10. ASSUME StopSampler
      PROVE  StrangerInv'
  BY <1>10 DEF StopSampler
<1>11. ASSUME Join
      PROVE  StrangerInv'
  BY <1>11 DEF Join
<1>12. ASSUME DeadlinePasses
      PROVE  StrangerInv'
  BY <1>12 DEF DeadlinePasses
<1>13. ASSUME PollRoot
      PROVE  StrangerInv'
  BY <1>13 DEF PollRoot
<1>14. ASSUME KillGroup
      PROVE  StrangerInv'
  BY <1>14 DEF KillGroup, Deliver, AfterSignal
<1>15. ASSUME ListTargets
      PROVE  StrangerInv'
  BY <1>15 DEF ListTargets
<1>16. ASSUME FindTargets
      PROVE  StrangerInv'
  BY <1>16 DEF FindTargets
<1>17. ASSUME SeenTargets
      PROVE  StrangerInv'
  BY <1>17 DEF SeenTargets
<1>18. ASSUME Sent
      PROVE  StrangerInv'
  BY <1>18 DEF Sent, AfterSignal
<1>19. ASSUME Reap
      PROVE  StrangerInv'
  BY <1>19 DEF Reap, reapElseVars
<1>20. ASSUME ReapTimesOut
      PROVE  StrangerInv'
  BY <1>20 DEF ReapTimesOut, reapElseVars
<1>21. ASSUME ReadCpu
      PROVE  StrangerInv'
  BY <1>21 DEF ReadCpu
<1>22. ASSUME CloseScope
      PROVE  StrangerInv'
  BY <1>22 DEF CloseScope
<1>23. ASSUME NEW p \in Everyone, Send(p)
      PROVE  StrangerInv'
  BY <1>23 DEF Send, Deliver
<1>24. ASSUME NEW L \in SUBSET Everyone, RecordBoundary(L)
      PROVE  StrangerInv'
  BY <1>24 DEF RecordBoundary, LiveIds
<1>25. ASSUME NEW L \in SUBSET Everyone, Check(L)
      PROVE  StrangerInv'
  BY <1>25 DEF Check, Decide, LiveIds
<1>26. ASSUME NEW L \in SUBSET Everyone, Grace(L)
      PROVE  StrangerInv'
  BY <1>26 DEF Grace, LiveIds
<1>27. ASSUME NEW L \in SUBSET Everyone, Still(L)
      PROVE  StrangerInv'
  BY <1>27 DEF Still, Decide, LiveIds
<1>28. ASSUME NEW L \in SUBSET Everyone, Drain(L)
      PROVE  StrangerInv'
  BY <1>28 DEF Drain, LiveIds
<1>29. ASSUME NEW L \in SUBSET Everyone, Remaining(L)
      PROVE  StrangerInv'
  BY <1>29 DEF Remaining, LiveIds
<1>30. ASSUME Interrupt
      PROVE  StrangerInv'
  BY <1>30 DEF Interrupt
<1>31. ASSUME ThreadLists
      PROVE  StrangerInv'
  BY <1>31 DEF ThreadLists
<1>32. ASSUME ThreadSamples
      PROVE  StrangerInv'
  BY <1>32 DEF ThreadSamples
<1>33. ASSUME ThreadEnds
      PROVE  StrangerInv'
  BY <1>33 DEF ThreadEnds
<1>34. ASSUME UNCHANGED vars
      PROVE  StrangerInv'
  BY <1>34 DEF vars
<1>35. QED
  BY <1>1, <1>2, <1>3, <1>4, <1>5, <1>6, <1>7, <1>8, <1>9, <1>10, <1>11, <1>12, <1>13,
     <1>14, <1>15, <1>16, <1>17, <1>18, <1>19, <1>20, <1>21, <1>22, <1>23, <1>24, <1>25,
     <1>26, <1>27, <1>28, <1>29, <1>30, <1>31, <1>32, <1>33, <1>34 DEF Next, Step, Main,
     Thread

LEMMA ScopeStep ==
  ASSUME TypeOK, ScopeInv, [Next]_vars PROVE ScopeInv'
<1> USE DEF ScopeInv, TypeOK, WorkloadTypeOK, vars, workloadVars, stepVars, viewVars,
            threadVars, waitVars, leftVars, scopeVars, supervisorVars, scanElseVars,
            signalElseVars, reapElseVars, resultElseVars, threadElseVars, Goto, Advance,
            Found, ReadFails
<1>1. ASSUME Work
      PROVE  ScopeInv'
  BY <1>1 DEF Work, Fork, Escape, Exit
<1>2. ASSUME ReuseGroupId
      PROVE  ScopeInv'
  BY <1>2 DEF ReuseGroupId, Squat
<1>3. ASSUME Tick
      PROVE  ScopeInv'
  BY <1>3 DEF Tick
<1>4. ASSUME ListTree
      PROVE  ScopeInv'
  BY <1>4 DEF ListTree
<1>5. ASSUME StartSampler
      PROVE  ScopeInv'
  BY <1>5 DEF StartSampler, CaptureSample
<1>6. ASSUME WaitReaps
      PROVE  ScopeInv'
  BY <1>6 DEF WaitReaps, WaitOver
<1>7. ASSUME WaitTimesOut
      PROVE  ScopeInv'
  BY <1>7 DEF WaitTimesOut, WaitOver
<1>8. ASSUME EdgeSample
      PROVE  ScopeInv'
  BY <1>8 DEF EdgeSample, CaptureSample
<1>9. ASSUME ListGroup
      PROVE  ScopeInv'
  BY <1>9 DEF ListGroup
<1>10. ASSUME StopSampler
      PROVE  ScopeInv'
  BY <1>10 DEF StopSampler
<1>11. ASSUME Join
      PROVE  ScopeInv'
  BY <1>11 DEF Join
<1>12. ASSUME DeadlinePasses
      PROVE  ScopeInv'
  BY <1>12 DEF DeadlinePasses
<1>13. ASSUME PollRoot
      PROVE  ScopeInv'
  BY <1>13 DEF PollRoot
<1>14. ASSUME KillGroup
      PROVE  ScopeInv'
  BY <1>14 DEF KillGroup, Deliver, AfterSignal
<1>15. ASSUME ListTargets
      PROVE  ScopeInv'
  BY <1>15 DEF ListTargets
<1>16. ASSUME FindTargets
      PROVE  ScopeInv'
  BY <1>16 DEF FindTargets
<1>17. ASSUME SeenTargets
      PROVE  ScopeInv'
  BY <1>17 DEF SeenTargets
<1>18. ASSUME Sent
      PROVE  ScopeInv'
  BY <1>18 DEF Sent, AfterSignal
<1>19. ASSUME Reap
      PROVE  ScopeInv'
  BY <1>19 DEF Reap, reapElseVars
<1>20. ASSUME ReapTimesOut
      PROVE  ScopeInv'
  BY <1>20 DEF ReapTimesOut, reapElseVars
<1>21. ASSUME ReadCpu
      PROVE  ScopeInv'
  <2>1. scope' = scope /\ (snapshot' = FALSE \/ snapshot' = scope)
    BY <1>21 DEF ReadCpu
  <2>2. QED
    BY ONLY <2>1, Zenon DEF ScopeInv
<1>22. ASSUME CloseScope
      PROVE  ScopeInv'
  BY <1>22 DEF CloseScope
<1>23. ASSUME NEW p \in Everyone, Send(p)
      PROVE  ScopeInv'
  BY <1>23 DEF Send, Deliver
<1>24. ASSUME NEW L \in SUBSET Everyone, RecordBoundary(L)
      PROVE  ScopeInv'
  BY <1>24 DEF RecordBoundary, LiveIds
<1>25. ASSUME NEW L \in SUBSET Everyone, Check(L)
      PROVE  ScopeInv'
  BY <1>25 DEF Check, Decide, LiveIds
<1>26. ASSUME NEW L \in SUBSET Everyone, Grace(L)
      PROVE  ScopeInv'
  BY <1>26 DEF Grace, LiveIds
<1>27. ASSUME NEW L \in SUBSET Everyone, Still(L)
      PROVE  ScopeInv'
  BY <1>27 DEF Still, Decide, LiveIds
<1>28. ASSUME NEW L \in SUBSET Everyone, Drain(L)
      PROVE  ScopeInv'
  BY <1>28 DEF Drain, LiveIds
<1>29. ASSUME NEW L \in SUBSET Everyone, Remaining(L)
      PROVE  ScopeInv'
  BY <1>29 DEF Remaining, LiveIds
<1>30. ASSUME Interrupt
      PROVE  ScopeInv'
  BY <1>30 DEF Interrupt
<1>31. ASSUME ThreadLists
      PROVE  ScopeInv'
  BY <1>31 DEF ThreadLists
<1>32. ASSUME ThreadSamples
      PROVE  ScopeInv'
  BY <1>32 DEF ThreadSamples
<1>33. ASSUME ThreadEnds
      PROVE  ScopeInv'
  BY <1>33 DEF ThreadEnds
<1>34. ASSUME UNCHANGED vars
      PROVE  ScopeInv'
  BY <1>34 DEF vars
<1>35. QED
  BY <1>1, <1>2, <1>3, <1>4, <1>5, <1>6, <1>7, <1>8, <1>9, <1>10, <1>11, <1>12, <1>13,
     <1>14, <1>15, <1>16, <1>17, <1>18, <1>19, <1>20, <1>21, <1>22, <1>23, <1>24, <1>25,
     <1>26, <1>27, <1>28, <1>29, <1>30, <1>31, <1>32, <1>33, <1>34 DEF Next, Step, Main,
     Thread

\* What has been forked stays so, and nothing else is ever listed or sampled.
LEMMA GrownStep ==
  ASSUME TypeOK, BornInv, Step
  PROVE  born \subseteq born' /\ view' \subseteq born' /\ sview' \subseteq born' /\ seen' \subseteq born'
<1> DEFINE Goal == born \subseteq born' /\ view' \subseteq born' /\ sview' \subseteq born' /\ seen' \subseteq born'
<1> USE DEF TypeOK, WorkloadTypeOK, BornInv, Group, Tree, vars, workloadVars, stepVars, viewVars,
            threadVars, waitVars, leftVars, scopeVars, supervisorVars, scanElseVars,
            signalElseVars, reapElseVars, resultElseVars, threadElseVars, Goto, Advance,
            Found, ReadFails
<1>1. ASSUME Work
      PROVE  Goal
  BY <1>1 DEF Work, Fork, Escape, Exit
<1>2. ASSUME ReuseGroupId
      PROVE  Goal
  BY <1>2 DEF ReuseGroupId, Squat
<1>3. ASSUME Tick
      PROVE  Goal
  BY <1>3 DEF Tick
<1>4. ASSUME ListTree
      PROVE  Goal
  BY <1>4 DEF ListTree
<1>5. ASSUME StartSampler
      PROVE  Goal
  BY <1>5 DEF StartSampler, CaptureSample
<1>6. ASSUME WaitReaps
      PROVE  Goal
  BY <1>6 DEF WaitReaps, WaitOver
<1>7. ASSUME WaitTimesOut
      PROVE  Goal
  BY <1>7 DEF WaitTimesOut, WaitOver
<1>8. ASSUME EdgeSample
      PROVE  Goal
  BY <1>8 DEF EdgeSample, CaptureSample
<1>9. ASSUME ListGroup
      PROVE  Goal
  BY <1>9 DEF ListGroup
<1>10. ASSUME StopSampler
      PROVE  Goal
  BY <1>10 DEF StopSampler
<1>11. ASSUME Join
      PROVE  Goal
  BY <1>11 DEF Join
<1>12. ASSUME DeadlinePasses
      PROVE  Goal
  BY <1>12 DEF DeadlinePasses
<1>13. ASSUME PollRoot
      PROVE  Goal
  BY <1>13 DEF PollRoot
<1>14. ASSUME KillGroup
      PROVE  Goal
  BY <1>14 DEF KillGroup, Deliver, AfterSignal
<1>15. ASSUME ListTargets
      PROVE  Goal
  BY <1>15 DEF ListTargets
<1>16. ASSUME FindTargets
      PROVE  Goal
  BY <1>16 DEF FindTargets
<1>17. ASSUME SeenTargets
      PROVE  Goal
  BY <1>17 DEF SeenTargets
<1>18. ASSUME Sent
      PROVE  Goal
  BY <1>18 DEF Sent, AfterSignal
<1>19. ASSUME Reap
      PROVE  Goal
  BY <1>19 DEF Reap, reapElseVars
<1>20. ASSUME ReapTimesOut
      PROVE  Goal
  BY <1>20 DEF ReapTimesOut, reapElseVars
<1>21. ASSUME ReadCpu
      PROVE  Goal
  BY <1>21 DEF ReadCpu
<1>22. ASSUME CloseScope
      PROVE  Goal
  BY <1>22 DEF CloseScope
<1>23. ASSUME NEW p \in Everyone, Send(p)
      PROVE  Goal
  BY <1>23 DEF Send, Deliver
<1>24. ASSUME NEW L \in SUBSET Everyone, RecordBoundary(L)
      PROVE  Goal
  BY <1>24 DEF RecordBoundary, LiveIds
<1>25. ASSUME NEW L \in SUBSET Everyone, Check(L)
      PROVE  Goal
  BY <1>25 DEF Check, Decide, LiveIds
<1>26. ASSUME NEW L \in SUBSET Everyone, Grace(L)
      PROVE  Goal
  BY <1>26 DEF Grace, LiveIds
<1>27. ASSUME NEW L \in SUBSET Everyone, Still(L)
      PROVE  Goal
  BY <1>27 DEF Still, Decide, LiveIds
<1>28. ASSUME NEW L \in SUBSET Everyone, Drain(L)
      PROVE  Goal
  BY <1>28 DEF Drain, LiveIds
<1>29. ASSUME NEW L \in SUBSET Everyone, Remaining(L)
      PROVE  Goal
  BY <1>29 DEF Remaining, LiveIds
<1>30. ASSUME Interrupt
      PROVE  Goal
  BY <1>30 DEF Interrupt
<1>31. ASSUME ThreadLists
      PROVE  Goal
  BY <1>31 DEF ThreadLists
<1>32. ASSUME ThreadSamples
      PROVE  Goal
  BY <1>32 DEF ThreadSamples
<1>33. ASSUME ThreadEnds
      PROVE  Goal
  BY <1>33 DEF ThreadEnds
<1>34. QED
  BY <1>1, <1>2, <1>3, <1>4, <1>5, <1>6, <1>7, <1>8, <1>9, <1>10, <1>11, <1>12, <1>13,
     <1>14, <1>15, <1>16, <1>17, <1>18, <1>19, <1>20, <1>21, <1>22, <1>23, <1>24, <1>25,
     <1>26, <1>27, <1>28, <1>29, <1>30, <1>31, <1>32, <1>33 DEF Step, Main, Thread

LEMMA BornStep ==
  ASSUME TypeOK, BornInv, [Next]_vars PROVE BornInv'
<1>1. ASSUME Step, History
      PROVE  BornInv'
  <2>1. born \subseteq born' /\ view' \subseteq born' /\ sview' \subseteq born' /\ seen' \subseteq born'
    BY <1>1, GrownStep
  <2>2. running' \subseteq born /\ \A k \in Looks : known'[k] \subseteq born
    BY <1>1 DEF History, BornInv, TypeOK, WorkloadTypeOK
  <2>3. QED
    BY <2>1, <2>2 DEF BornInv
<1>2. ASSUME UNCHANGED vars
      PROVE  BornInv'
  BY <1>2 DEF BornInv, vars, workloadVars, viewVars, threadVars
<1>3. QED
  BY <1>1, <1>2 DEF Next

LEMMA InitIInv == Init => IInv
<1> SUFFICES ASSUME Init PROVE IInv
  OBVIOUS
<1>1. StepInv
  BY DEF Init, StepInv
<1>2. JoinInv
  BY DEF Init, JoinInv, Early
<1>3. RootInv
  BY DEF Init, WorkloadInit, RootInv, RootReaped
<1>4. ScopeInv /\ BornInv
  BY DEF Init, WorkloadInit, ScopeInv, BornInv
<1>5. StrangerInv
  BY DEF Init, WorkloadInit, StrangerInv
<1>6. QED
  BY TypeInit, <1>1, <1>2, <1>3, <1>4, <1>5 DEF IInv

\* IInv is inductive, with no assumption on the workload.
THEOREM Inductive == Spec => []IInv
<1>1. IInv /\ [Next]_vars => IInv'
  <2> SUFFICES ASSUME IInv, [Next]_vars PROVE IInv'
    OBVIOUS
  <2> USE DEF IInv
  <2>1. TypeOK'
    BY TypeStep
  <2>2. StepInv'
    BY StepStep
  <2>3. JoinInv'
    BY JoinStep
  <2>4. RootInv'
    BY RootStep
  <2>5. ScopeInv'
    BY ScopeStep
  <2>6. StrangerInv'
    BY StrangerStep
  <2>7. BornInv'
    BY BornStep
  <2>8. QED
    BY <2>1, <2>2, <2>3, <2>4, <2>5, <2>6, <2>7
<1>2. QED
  BY InitIInv, <1>1, PTL DEF Spec

\* wait4, poll or the last wait has reaped the root when wait goes on to its result.
THEOREM RootIsReaped == Spec => []RootReaped
<1>1. IInv => RootReaped
  BY DEF IInv, RootInv
<1>2. QED
  BY Inductive, <1>1, PTL

\* The sampling thread is joined before the first signal (lines 490 and 492).
THEOREM SamplesEnd == Spec => []SamplesEndFirst
<1>1. IInv => SamplesEndFirst
  BY DEF IInv, JoinInv, SamplesEndFirst
<1>2. QED
  BY Inductive, <1>1, PTL

\* poll reaps the root or says that its zombie still holds the group id (line 704).
THEOREM KillpgIsOurs == Spec => []KillpgHitsOwnGroup
<1>1. IInv => KillpgHitsOwnGroup
  BY DEF IInv, TypeOK, WorkloadTypeOK, StrangerInv, KillpgHitsOwnGroup, Group
<1>2. QED
  BY Inductive, <1>1, PTL

-----------------------------------------------------------------------------
(* What holds when /proc can be read *)

\* What a step adds to the history of the looks.
LEMMA LookStep ==
  ASSUME History
  PROVE  /\ known'["boundary"] = IF step = "begin" /\ step' = "read" /\ phase = "left"
                                   THEN born ELSE known["boundary"]
         /\ known'["kill"] = IF \/ step = "begin" /\ step' = "read" /\ phase = "still"
                                \/ phase = "kill" /\ step \in {"killpg", "list"} /\ step' # step
                               THEN born ELSE known["kill"]
         /\ known'["final"] = IF step = "begin" /\ step' = "read" /\ phase = "final"
                                THEN born ELSE known["final"]
         /\ running' = IF phase = "snapshot" /\ phase' # phase
                         THEN alive \intersect Procs ELSE running
  BY DEF History, Looks, LookNow

\* Each look was at processes already forked.
LEMMA BornKnown ==
  ASSUME BornInv
  PROVE  /\ known["boundary"] \subseteq born
         /\ known["kill"] \subseteq born
         /\ known["final"] \subseteq born
  BY DEF BornInv, Looks

LEMMA CleanupStepped ==
  ASSUME MaxFailures = 0, IInv, CleanupInv, Step, History PROVE CleanupInv'
<1> USE LookStep, BornKnown
    DEF IInv, BornInv, TypeOK, WorkloadTypeOK, StepInv, JoinInv, Early, CleanupInv, Left, Due, Old,
            Group, AfterSignal, vars, workloadVars, stepVars, viewVars, threadVars,
            waitVars, leftVars, scopeVars, supervisorVars, scanElseVars, signalElseVars,
            reapElseVars, resultElseVars, threadElseVars, Goto, Advance, Found,
            ReadFails
<1>1. ASSUME Work
      PROVE  CleanupInv'
  BY <1>1 DEF Work, Fork, Escape, Exit
<1>2. ASSUME ReuseGroupId
      PROVE  CleanupInv'
  BY <1>2 DEF ReuseGroupId, Squat
<1>3. ASSUME Tick
      PROVE  CleanupInv'
  BY <1>3 DEF Tick
<1>4. ASSUME ListTree
      PROVE  CleanupInv'
  BY <1>4 DEF ListTree
<1>5. ASSUME StartSampler
      PROVE  CleanupInv'
  BY <1>5 DEF StartSampler, CaptureSample
<1>6. ASSUME WaitReaps
      PROVE  CleanupInv'
  BY <1>6 DEF WaitReaps, WaitOver
<1>7. ASSUME WaitTimesOut
      PROVE  CleanupInv'
  BY <1>7 DEF WaitTimesOut, WaitOver
<1>8. ASSUME EdgeSample
      PROVE  CleanupInv'
  BY <1>8 DEF EdgeSample, CaptureSample
<1>9. ASSUME ListGroup
      PROVE  CleanupInv'
  BY <1>9 DEF ListGroup
<1>10. ASSUME StopSampler
      PROVE  CleanupInv'
  BY <1>10 DEF StopSampler
<1>11. ASSUME Join
      PROVE  CleanupInv'
  BY <1>11 DEF Join
<1>12. ASSUME DeadlinePasses
      PROVE  CleanupInv'
  BY <1>12 DEF DeadlinePasses
<1>13. ASSUME PollRoot
      PROVE  CleanupInv'
  BY <1>13 DEF PollRoot
<1>14. ASSUME KillGroup
      PROVE  CleanupInv'
  BY <1>14 DEF KillGroup, Deliver, AfterSignal
<1>15. ASSUME ListTargets
      PROVE  CleanupInv'
  BY <1>15 DEF ListTargets
<1>16. ASSUME FindTargets
      PROVE  CleanupInv'
  BY <1>16 DEF FindTargets
<1>17. ASSUME SeenTargets
      PROVE  CleanupInv'
  BY <1>17 DEF SeenTargets
<1>18. ASSUME Sent
      PROVE  CleanupInv'
  BY <1>18 DEF Sent, AfterSignal
<1>19. ASSUME Reap
      PROVE  CleanupInv'
  BY <1>19 DEF Reap, reapElseVars
<1>20. ASSUME ReapTimesOut
      PROVE  CleanupInv'
  BY <1>20 DEF ReapTimesOut, reapElseVars
<1>21. ASSUME ReadCpu
      PROVE  CleanupInv'
  BY <1>21 DEF ReadCpu
<1>22. ASSUME CloseScope
      PROVE  CleanupInv'
  BY <1>22 DEF CloseScope
<1>23. ASSUME NEW p \in Everyone, Send(p)
      PROVE  CleanupInv'
  BY <1>23 DEF Send, Deliver
<1>24. ASSUME NEW L \in SUBSET Everyone, RecordBoundary(L)
      PROVE  CleanupInv'
  BY <1>24 DEF RecordBoundary, LiveIds
<1>25. ASSUME NEW L \in SUBSET Everyone, Check(L)
      PROVE  CleanupInv'
  BY <1>25 DEF Check, Decide, LiveIds
<1>26. ASSUME NEW L \in SUBSET Everyone, Grace(L)
      PROVE  CleanupInv'
  BY <1>26 DEF Grace, LiveIds
<1>27. ASSUME NEW L \in SUBSET Everyone, Still(L)
      PROVE  CleanupInv'
  BY <1>27 DEF Still, Decide, LiveIds
<1>28. ASSUME NEW L \in SUBSET Everyone, Drain(L)
      PROVE  CleanupInv'
  BY <1>28 DEF Drain, LiveIds
<1>29. ASSUME NEW L \in SUBSET Everyone, Remaining(L)
      PROVE  CleanupInv'
  BY <1>29 DEF Remaining, LiveIds
<1>30. ASSUME Interrupt
      PROVE  CleanupInv'
  BY <1>30 DEF Interrupt
<1>31. ASSUME ThreadLists
      PROVE  CleanupInv'
  BY <1>31 DEF ThreadLists
<1>32. ASSUME ThreadSamples
      PROVE  CleanupInv'
  BY <1>32 DEF ThreadSamples
<1>33. ASSUME ThreadEnds
      PROVE  CleanupInv'
  BY <1>33 DEF ThreadEnds
<1>34. QED
  BY <1>1, <1>2, <1>3, <1>4, <1>5, <1>6, <1>7, <1>8, <1>9, <1>10, <1>11, <1>12, <1>13,
     <1>14, <1>15, <1>16, <1>17, <1>18, <1>19, <1>20, <1>21, <1>22, <1>23, <1>24, <1>25,
     <1>26, <1>27, <1>28, <1>29, <1>30, <1>31, <1>32, <1>33 DEF Step, Main, Thread

LEMMA CleanupStep ==
  ASSUME MaxFailures = 0, IInv, CleanupInv, [Next]_vars PROVE CleanupInv'
<1>1. ASSUME UNCHANGED vars
      PROVE  CleanupInv'
  BY <1>1 DEF CleanupInv, Left, Due, Old, Group, vars, workloadVars, stepVars, viewVars, leftVars
<1>2. QED
  BY <1>1, CleanupStepped DEF Next

\* With the reads of /proc reliable and no new process, the cleanup misses nobody.
THEOREM CleanupInductive ==
  ASSUME MaxFailures = 0 PROVE Spec => [](IInv /\ CleanupInv)
<1>1. Init => CleanupInv
  BY DEF Init, CleanupInv
<1>2. IInv /\ CleanupInv /\ [Next]_vars => CleanupInv'
  BY CleanupStep
<1>3. QED
  BY Inductive, <1>1, <1>2, PTL DEF Spec

\* cleanup_complete is true only of an empty group, with nobody seen before left.
THEOREM CleanupIsHonest ==
  ASSUME MaxFailures = 0 PROVE Spec => []CleanupHonest
<1>1. CleanupInv => CleanupHonest
  BY DEF CleanupInv, CleanupHonest
<1>2. QED
  BY CleanupInductive, <1>1, PTL

\* Whatever is left when wait returns has SIGKILL pending.
THEOREM SurvivorsAreKilled ==
  ASSUME MaxFailures = 0 PROVE Spec => []SurvivorsKilled
<1>1. CleanupInv => SurvivorsKilled
  BY DEF CleanupInv, Due, SurvivorsKilled
<1>2. QED
  BY CleanupInductive, <1>1, PTL

LEMMA QuietStepped ==
  ASSUME MaxFailures = 0, IInv, QuietInv, Step, History PROVE QuietInv'
<1> USE LookStep, BornKnown
    DEF IInv, BornInv, TypeOK, WorkloadTypeOK, StepInv, JoinInv, RootInv, Early, QuietInv, Old,
            Group, AfterSignal, vars, workloadVars, stepVars, viewVars, threadVars,
            waitVars, leftVars, scopeVars, supervisorVars, scanElseVars, signalElseVars,
            reapElseVars, resultElseVars, threadElseVars, Goto, Advance, Found,
            ReadFails
<1>1. ASSUME Work
      PROVE  QuietInv'
  BY <1>1 DEF Work, Fork, Escape, Exit
<1>2. ASSUME ReuseGroupId
      PROVE  QuietInv'
  BY <1>2 DEF ReuseGroupId, Squat
<1>3. ASSUME Tick
      PROVE  QuietInv'
  BY <1>3 DEF Tick
<1>4. ASSUME ListTree
      PROVE  QuietInv'
  BY <1>4 DEF ListTree
<1>5. ASSUME StartSampler
      PROVE  QuietInv'
  BY <1>5 DEF StartSampler, CaptureSample
<1>6. ASSUME WaitReaps
      PROVE  QuietInv'
  BY <1>6 DEF WaitReaps, WaitOver
<1>7. ASSUME WaitTimesOut
      PROVE  QuietInv'
  BY <1>7 DEF WaitTimesOut, WaitOver
<1>8. ASSUME EdgeSample
      PROVE  QuietInv'
  BY <1>8 DEF EdgeSample, CaptureSample
<1>9. ASSUME ListGroup
      PROVE  QuietInv'
  BY <1>9 DEF ListGroup
<1>10. ASSUME StopSampler
      PROVE  QuietInv'
  BY <1>10 DEF StopSampler
<1>11. ASSUME Join
      PROVE  QuietInv'
  BY <1>11 DEF Join
<1>12. ASSUME DeadlinePasses
      PROVE  QuietInv'
  BY <1>12 DEF DeadlinePasses
<1>13. ASSUME PollRoot
      PROVE  QuietInv'
  BY <1>13 DEF PollRoot
<1>14. ASSUME KillGroup
      PROVE  QuietInv'
  BY <1>14 DEF KillGroup, Deliver, AfterSignal
<1>15. ASSUME ListTargets
      PROVE  QuietInv'
  BY <1>15 DEF ListTargets
<1>16. ASSUME FindTargets
      PROVE  QuietInv'
  BY <1>16 DEF FindTargets
<1>17. ASSUME SeenTargets
      PROVE  QuietInv'
  BY <1>17 DEF SeenTargets
<1>18. ASSUME Sent
      PROVE  QuietInv'
  BY <1>18 DEF Sent, AfterSignal
<1>19. ASSUME Reap
      PROVE  QuietInv'
  BY <1>19 DEF Reap, reapElseVars
<1>20. ASSUME ReapTimesOut
      PROVE  QuietInv'
  BY <1>20 DEF ReapTimesOut, reapElseVars
<1>21. ASSUME ReadCpu
      PROVE  QuietInv'
  BY <1>21 DEF ReadCpu
<1>22. ASSUME CloseScope
      PROVE  QuietInv'
  BY <1>22 DEF CloseScope
<1>23. ASSUME NEW p \in Everyone, Send(p)
      PROVE  QuietInv'
  BY <1>23 DEF Send, Deliver
<1>24. ASSUME NEW L \in SUBSET Everyone, RecordBoundary(L)
      PROVE  QuietInv'
  BY <1>24 DEF RecordBoundary, LiveIds
<1>25. ASSUME NEW L \in SUBSET Everyone, Check(L)
      PROVE  QuietInv'
  BY <1>25 DEF Check, Decide, LiveIds
<1>26. ASSUME NEW L \in SUBSET Everyone, Grace(L)
      PROVE  QuietInv'
  BY <1>26 DEF Grace, LiveIds
<1>27. ASSUME NEW L \in SUBSET Everyone, Still(L)
      PROVE  QuietInv'
  BY <1>27 DEF Still, Decide, LiveIds
<1>28. ASSUME NEW L \in SUBSET Everyone, Drain(L)
      PROVE  QuietInv'
  BY <1>28 DEF Drain, LiveIds
<1>29. ASSUME NEW L \in SUBSET Everyone, Remaining(L)
      PROVE  QuietInv'
  BY <1>29 DEF Remaining, LiveIds
<1>30. ASSUME Interrupt
      PROVE  QuietInv'
  BY <1>30 DEF Interrupt
<1>31. ASSUME ThreadLists
      PROVE  QuietInv'
  BY <1>31 DEF ThreadLists
<1>32. ASSUME ThreadSamples
      PROVE  QuietInv'
  BY <1>32 DEF ThreadSamples
<1>33. ASSUME ThreadEnds
      PROVE  QuietInv'
  BY <1>33 DEF ThreadEnds
<1>34. QED
  BY <1>1, <1>2, <1>3, <1>4, <1>5, <1>6, <1>7, <1>8, <1>9, <1>10, <1>11, <1>12, <1>13,
     <1>14, <1>15, <1>16, <1>17, <1>18, <1>19, <1>20, <1>21, <1>22, <1>23, <1>24, <1>25,
     <1>26, <1>27, <1>28, <1>29, <1>30, <1>31, <1>32, <1>33 DEF Step, Main, Thread

LEMMA QuietStep ==
  ASSUME MaxFailures = 0, IInv, QuietInv, [Next]_vars PROVE QuietInv'
<1>1. ASSUME UNCHANGED vars
      PROVE  QuietInv'
  BY <1>1 DEF QuietInv, Old, Group, vars, workloadVars, stepVars, viewVars, threadVars,
              waitVars, leftVars, scopeVars
<1>2. QED
  BY <1>1, QuietStepped DEF Next

\* A command that ended by itself, and left nothing at the boundary, is not touched.
THEOREM TreeWasAlwaysOver ==
  ASSUME MaxFailures = 0 PROVE Spec => []TreeWasOver
<1>1. Init => QuietInv
  BY DEF Init, QuietInv
<1>2. IInv /\ QuietInv /\ [Next]_vars => QuietInv'
  BY QuietStep
<1>3. IInv /\ CleanupInv /\ QuietInv => TreeWasOver
  BY DEF IInv, TypeOK, ScopeInv, CleanupInv, QuietInv, TreeWasOver, Coverage, TreeCounted
<1>4. QED
  BY Inductive, CleanupInductive, <1>1, <1>2, <1>3, PTL DEF Spec
=============================================================================
