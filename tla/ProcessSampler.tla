--------------------------- MODULE ProcessSampler ---------------------------
(***************************************************************************)
(* src/benchmarks/harness/process.py on Linux: ProcessSampler from start   *)
(* to the result of wait, that is run_command.  The main thread waits for  *)
(* the root, records the boundary, stops the sampling thread and then      *)
(* terminates what is left; the sampling thread reads /proc all along, and *)
(* the workload's processes fork, leave the group and die meanwhile.       *)
(*                                                                         *)
(* Reading /proc is not atomic (_proc_table): the pids are listed first,   *)
(* then each is read.  view holds what the listing would select; a process *)
(* of it that is still there when the reads end was found, one that is not *)
(* may have been found or missed, and one forked since was missed.         *)
(*                                                                         *)
(* Not modelled: a second call of wait, mark_phase and the context         *)
(* manager, which run_command does not use; output files and memory        *)
(* figures.  A kill that follows the second look at a pid is one step with *)
(* it: a pid is not reused between two consecutive system calls.           *)
(***************************************************************************)
EXTENDS Workload

CONSTANTS Passes,       \* "memory": sample_interval_seconds is set; "timing": it is None
          HasTimeout,   \* timeout is not None
          Interrupts,   \* may an exception, as KeyboardInterrupt, cut the waiting short?
          GroupIdReuse, \* may the group's id be used again while wait runs?
          MaxFailures   \* bound: reads of /proc that fail

ASSUME SamplerAssumption ==
  /\ Passes \subseteq {"memory", "timing"}
  /\ HasTimeout \in BOOLEAN /\ Interrupts \in BOOLEAN
  /\ GroupIdReuse \in BOOLEAN
  /\ MaxFailures \in Nat

VARIABLES phase,       \* where the main thread is
          step,        \* where it is in this phase's reads and signals
          view,        \* the processes its listing of /proc selects
          targets,     \* the processes it still has to signal one by one
          expired,     \* the deadline of this phase has passed
          spc,         \* the sampling thread
          sview,       \* the processes its listing selects
          stop,        \* _stop_sampler
          seen,        \* _collected.seen
          reaped,      \* the root has been waited for: returncode is set
          timedOut,    \* wait_result.timed_out
          raised,      \* an exception is on its way through wait
          boundary,    \* boundary_remaining
          remaining,   \* _remaining_pids
          scope,       \* the command runs in a CPU cgroup of its own
          snapshot,    \* _final_cpu_snapshot was read
          scopeError,  \* the cgroup could not be removed
          failures,    \* reads of /proc that failed
          signalled,   \* history: the processes a signal was sent to
          known,       \* history: those forked when a look at the group was taken
          running      \* history: those of the command alive when its CPU time was read

stepVars == <<phase, step, expired>>
viewVars == <<view, targets>>
threadVars == <<spc, sview, stop>>
waitVars == <<reaped, timedOut, raised>>
leftVars == <<boundary, remaining>>
scopeVars == <<scope, snapshot, scopeError>>
vars == <<workloadVars, stepVars, viewVars, threadVars, seen, waitVars, leftVars, scopeVars,
          failures, signalled, known, running>>

SamplePhases == {"start", "edge"}
ScanPhases == {"left", "check", "grace", "still", "drain", "final"}
GroupPhases == {"term", "kill", "last"}
SeenPhases == {"term_seen", "kill_seen"}
Phases == SamplePhases \union ScanPhases \union GroupPhases \union SeenPhases
            \union {"wait", "stop", "join", "reap", "block", "snapshot", "close", "done"}

\* The looks that decide what wait does and says: the boundary, the last one before or
\* with SIGKILL, the final one.
Looks == {"boundary", "kill", "final"}

HistoryTypeOK == known \in [Looks -> SUBSET Everyone] /\ running \subseteq Procs

TypeOK ==
  /\ WorkloadTypeOK
  /\ phase \in Phases
  /\ step \in {"begin", "killpg", "list", "read", "send"}
  /\ view \subseteq Everyone
  /\ targets \subseteq Everyone
  /\ expired \in BOOLEAN
  /\ spc \in {"off", "idle", "read", "ended"}
  /\ sview \subseteq Everyone
  /\ stop \in BOOLEAN
  /\ seen \subseteq Everyone
  /\ reaped \in BOOLEAN /\ timedOut \in BOOLEAN /\ raised \in BOOLEAN
  /\ scope \in BOOLEAN /\ snapshot \in BOOLEAN /\ scopeError \in BOOLEAN
  /\ boundary \subseteq Everyone
  /\ remaining \subseteq Everyone
  /\ failures \in Nat
  /\ signalled \subseteq Everyone
  /\ HistoryTypeOK

\* The root runs; a timing pass has created and joined a cgroup, or there is none.
Init ==
  /\ WorkloadInit
  /\ \/ "memory" \in Passes /\ phase = "start" /\ scope = FALSE
     \/ "timing" \in Passes /\ phase = "wait" /\ scope \in BOOLEAN
  /\ step = "begin"
  /\ view = {}
  /\ targets = {}
  /\ expired = FALSE
  /\ spc = "off"
  /\ sview = {}
  /\ stop = FALSE
  /\ seen = {}
  /\ reaped = FALSE
  /\ timedOut = FALSE
  /\ raised = FALSE
  /\ boundary = {}
  /\ remaining = {}
  /\ snapshot = FALSE
  /\ scopeError = FALSE
  /\ failures = 0
  /\ signalled = {}
  /\ known = [k \in Looks |-> {}]
  /\ running = {}

-----------------------------------------------------------------------------
(* The workload, the kernel and the clock *)

supervisorVars == <<stepVars, viewVars, threadVars, seen, waitVars, leftVars, scopeVars,
                    failures, signalled>>

Work ==
  /\ \/ \E p, c \in Procs : Fork(p, c)
     \/ \E p \in Procs : Escape(p)
     \/ \E p \in Everyone : Exit(p)
  /\ UNCHANGED supervisorVars

\* The root's zombie keeps the id until it is reaped.
ReuseGroupId == GroupIdReuse /\ reaped /\ Squat /\ UNCHANGED supervisorVars

Timed == {"grace", "drain", "reap"} \union (IF HasTimeout THEN {"wait"} ELSE {})

Tick ==
  /\ phase \in Timed
  /\ expired' = TRUE
  /\ UNCHANGED <<workloadVars, phase, step, viewVars, threadVars, seen, waitVars, leftVars,
                 scopeVars, failures, signalled>>

-----------------------------------------------------------------------------
(* Steps of the main thread *)

Goto(from, to) ==
  /\ phase = from
  /\ phase' = to
  /\ step' = "begin"
  /\ expired' = FALSE

\* In a phase: from one of its steps to another.
Advance(from, to) ==
  /\ step = from
  /\ step' = to
  /\ UNCHANGED <<phase, expired>>

\* What a reading of /proc that listed V may find of the processes that are now N.
Found(V, N, M) == V \intersect N \subseteq M /\ M \subseteq V

ReadFails == failures < MaxFailures /\ failures' = failures + 1

\* _capture_sample by the main thread.
ListTree ==
  /\ phase \in SamplePhases
  /\ Advance("begin", "read")
  /\ view' = Tree
  /\ UNCHANGED <<workloadVars, targets, threadVars, seen, waitVars, leftVars, scopeVars,
                 failures, signalled>>

CaptureSample ==
  /\ step = "read"
  /\ \/ UNCHANGED failures /\ \E M \in SUBSET view : Found(view, Tree, M) /\ seen' = seen \union M
     \/ ReadFails /\ UNCHANGED seen
  /\ view' = {}
  /\ UNCHANGED <<workloadVars, targets, sview, stop, waitVars, leftVars, scopeVars, signalled>>

\* start: a first sample, then the sampling thread.
StartSampler ==
  /\ Goto("start", "wait")
  /\ CaptureSample
  /\ spc' = "idle"

\* Only a memory pass has a thread, and samples once more.
WaitOver == IF spc = "off" THEN "left" ELSE "edge"

\* wait4 returns the root.
WaitReaps ==
  /\ Goto("wait", WaitOver)
  /\ Root \notin alive
  /\ reaped' = TRUE
  /\ UNCHANGED <<workloadVars, viewVars, threadVars, seen, timedOut, raised, leftVars, scopeVars,
                 failures, signalled>>

\* wait4 returned nothing, and the deadline has passed.
WaitTimesOut ==
  /\ Goto("wait", WaitOver)
  /\ expired
  /\ timedOut' = TRUE
  /\ UNCHANGED <<workloadVars, viewVars, threadVars, seen, reaped, raised, leftVars, scopeVars,
                 failures, signalled>>

\* An exception in the try block of wait: its finally block still runs.
Interrupt ==
  /\ Interrupts
  /\ \E from \in {"wait", "edge", "left"} : Goto(from, "stop")
  /\ raised' = TRUE
  /\ view' = {}
  /\ UNCHANGED <<workloadVars, targets, threadVars, seen, reaped, timedOut, leftVars, scopeVars,
                 failures, signalled>>

EdgeSample ==
  /\ Goto("edge", "left")
  /\ CaptureSample
  /\ UNCHANGED spc

\* _live_process_ids lists the pids ...
ListGroup ==
  /\ phase \in ScanPhases
  /\ ~(phase \in {"grace", "drain"} /\ expired)
  /\ Advance("begin", "read")
  /\ view' = Group
  /\ UNCHANGED <<workloadVars, targets, threadVars, seen, waitVars, leftVars, scopeVars,
                 failures, signalled>>

\* Mutant: processes seen before are not looked at.
GroupIsLive(L) ==
  /\ step = "read"
  /\ Found(view, Group, L)
  /\ view' = {}
  /\ UNCHANGED failures

\* ... and returns those of the group and those seen before that it finds alive.  With
\* the table unavailable it goes on as if there were no process (infos = {}).
LiveIds(L) ==
  /\ step = "read"
  /\ \/ /\ \E M \in SUBSET view : Found(view, Group, M) /\ L = M \union (seen \intersect alive)
        /\ UNCHANGED failures
     \/ L \subseteq seen \intersect alive /\ ReadFails
  /\ view' = {}

scanElseVars == <<workloadVars, targets, threadVars, seen, timedOut, raised, scopeVars, signalled>>

\* Mutant: the boundary is what the samples have shown.
SeenAtBoundary(L) ==
  /\ Goto("left", "stop")
  /\ LiveIds(L)
  /\ boundary' = L \intersect seen
  /\ UNCHANGED <<scanElseVars, reaped, remaining>>

\* boundary_remaining, before the sampler is stopped and anything is signalled.
RecordBoundary(L) ==
  /\ Goto("left", "stop")
  /\ LiveIds(L)
  /\ boundary' = L
  /\ UNCHANGED <<scanElseVars, reaped, remaining>>

StopSampler ==
  /\ Goto("stop", "join")
  /\ stop' = TRUE
  /\ UNCHANGED <<workloadVars, viewVars, spc, sview, seen, waitVars, leftVars, scopeVars,
                 failures, signalled>>

\* Mutant: the thread is told to stop and not joined.
NoJoin ==
  /\ Goto("join", "check")
  /\ UNCHANGED <<workloadVars, viewVars, threadVars, seen, waitVars, leftVars, scopeVars,
                 failures, signalled>>

Join ==
  /\ Goto("join", "check")
  /\ spc \in {"off", "ended"}
  /\ UNCHANGED <<workloadVars, viewVars, threadVars, seen, waitVars, leftVars, scopeVars,
                 failures, signalled>>

-----------------------------------------------------------------------------
(* _terminate_process_group *)

\* A scan that decides where to go on.
Decide(from, whenNone, whenSome, L) ==
  /\ Goto(from, IF L = {} THEN whenNone ELSE whenSome)
  /\ LiveIds(L)
  /\ UNCHANGED <<scanElseVars, reaped, leftVars>>

Check(L) == Decide("check", "term_seen", "term", L)

\* Nobody is left before the deadline, or it passes; each turn polls the root.
Grace(L) ==
  /\ IF L = {} THEN Goto("grace", "still") ELSE phase = "grace" /\ Advance("read", "begin")
  /\ LiveIds(L)
  /\ reaped' = (reaped \/ (L # {} /\ Root \notin alive))
  /\ UNCHANGED <<scanElseVars, leftVars>>

Still(L) == Decide("still", "reap", "kill", L)

Drain(L) ==
  /\ IF L = {} THEN Goto("drain", "reap") ELSE phase = "drain" /\ Advance("read", "begin")
  /\ LiveIds(L)
  /\ UNCHANGED <<scanElseVars, reaped, leftVars>>

DeadlinePasses ==
  /\ step = "begin"
  /\ expired
  /\ Goto("grace", "still") \/ Goto("drain", "reap")
  /\ UNCHANGED <<workloadVars, viewVars, threadVars, seen, waitVars, leftVars, scopeVars,
                 failures, signalled>>

\* A mutant of Deliver: the last resort sends SIGTERM.
DeliverTerm(T) ==
  /\ signalled' = signalled \union T
  /\ IF phase \notin {"kill", "kill_seen"}
       THEN \E D \in SUBSET T : doomed' = doomed \union D
       ELSE doomed' = doomed \union T
  /\ UNCHANGED <<born, alive, own, ancestors>>

\* SIGTERM may be handled or ignored, SIGKILL not.
Deliver(T) ==
  /\ signalled' = signalled \union T
  /\ IF phase \in {"term", "term_seen"}
       THEN \E D \in SUBSET T : doomed' = doomed \union D
       ELSE doomed' = doomed \union T
  /\ UNCHANGED <<born, alive, own, ancestors>>

signalElseVars == <<threadVars, seen, timedOut, raised, leftVars, scopeVars>>

\* Mutant: the group is always signalled by its id.
PollNothing ==
  /\ phase \in GroupPhases
  /\ Advance("begin", "killpg")
  /\ reaped' = (reaped \/ Root \notin alive)
  /\ UNCHANGED <<workloadVars, viewVars, signalElseVars, failures, signalled>>

\* _signal_process_group: poll says whether the root is still to be reaped.
PollRoot ==
  /\ phase \in GroupPhases
  /\ Advance("begin", IF Root \in alive THEN "killpg" ELSE "list")
  /\ reaped' = (reaped \/ Root \notin alive)
  /\ UNCHANGED <<workloadVars, viewVars, signalElseVars, failures, signalled>>

AfterSignal ==
  CASE phase = "term" -> "term_seen"
    [] phase = "kill" -> "kill_seen"
    [] phase = "last" -> "block"
    [] phase = "term_seen" -> "grace"
    [] OTHER -> "drain"

KillGroup ==
  /\ phase \in GroupPhases
  /\ step = "killpg"
  /\ Deliver(Group)
  /\ Goto(phase, AfterSignal)
  /\ UNCHANGED <<viewVars, signalElseVars, reaped, failures>>

ListTargets ==
  /\ phase \in GroupPhases
  /\ Advance("list", "read")
  /\ view' = Group
  /\ UNCHANGED <<workloadVars, targets, signalElseVars, reaped, failures, signalled>>

FindTargets ==
  /\ phase \in GroupPhases
  /\ Advance("read", "send")
  /\ \/ targets' \in SUBSET view /\ Found(view, Group, targets') /\ UNCHANGED failures
     \/ targets' = {} /\ ReadFails
  /\ view' = {}
  /\ UNCHANGED <<workloadVars, signalElseVars, reaped, signalled>>

\* Mutant: SIGKILL is not sent to those seen before.
TermTargets ==
  /\ phase \in SeenPhases
  /\ Advance("begin", "send")
  /\ targets' = {p \in seen : phase = "term_seen"}
  /\ UNCHANGED <<workloadVars, view, signalElseVars, reaped, failures, signalled>>

\* _signal_seen_processes.
SeenTargets ==
  /\ phase \in SeenPhases
  /\ Advance("begin", "send")
  /\ targets' = seen
  /\ UNCHANGED <<workloadVars, view, signalElseVars, reaped, failures, signalled>>

\* Mutant: the pid is not looked at again.
SendBlindly(p) ==
  /\ step = "send"
  /\ p \in targets
  /\ targets' = targets \ {p}
  /\ Deliver({p})
  /\ UNCHANGED <<stepVars, view, signalElseVars, reaped, failures>>

\* The pid is looked at again: the same process, still alive, gets the signal.
Send(p) ==
  /\ step = "send"
  /\ p \in targets
  /\ targets' = targets \ {p}
  /\ Deliver({p} \intersect alive)
  /\ UNCHANGED <<stepVars, view, signalElseVars, reaped, failures>>

Sent ==
  /\ step = "send"
  /\ targets = {}
  /\ Goto(phase, AfterSignal)
  /\ UNCHANGED <<workloadVars, viewVars, signalElseVars, reaped, failures, signalled>>

reapElseVars == <<workloadVars, viewVars, threadVars, seen, timedOut, raised, leftVars, scopeVars,
                  failures, signalled>>

\* The root is polled, then waited for with a timeout, then killed and waited for.
Reap ==
  /\ Root \notin alive
  /\ Goto("reap", "final") \/ Goto("block", "final")
  /\ reaped' = TRUE
  /\ UNCHANGED reapElseVars

\* Mutant: the wait after the last SIGKILL is left out.
GiveUp ==
  /\ expired
  /\ Goto("reap", "final")
  /\ UNCHANGED <<reapElseVars, reaped>>

ReapTimesOut ==
  /\ expired
  /\ Goto("reap", "last")
  /\ UNCHANGED <<reapElseVars, reaped>>

Remaining(L) ==
  /\ Goto("final", "snapshot")
  /\ LiveIds(L)
  /\ remaining' = L
  /\ UNCHANGED <<scanElseVars, reaped, boundary>>

-----------------------------------------------------------------------------
(* The cgroup, and the result *)

resultElseVars == <<workloadVars, viewVars, threadVars, seen, waitVars, leftVars, scope,
                    failures, signalled>>

\* The counters may be unreadable.
ReadCpu ==
  /\ Goto("snapshot", "close")
  /\ snapshot' \in {FALSE, scope}
  /\ UNCHANGED <<resultElseVars, scopeError>>

\* A process leaves its group, never its cgroup; rmdir fails while one lives in it.
CloseScope ==
  /\ Goto("close", "done")
  /\ scopeError' = (scope /\ alive \intersect Procs # {})
  /\ UNCHANGED <<resultElseVars, snapshot>>

TreeCounted == snapshot /\ boundary = {} /\ remaining = {} /\ ~scopeError

\* cpu_coverage of the result.
Coverage == CASE timedOut -> "unsupported"
              [] ~timedOut /\ TreeCounted -> "tree"
              [] ~timedOut /\ boundary # {} -> "incomplete"
              [] OTHER -> "root"

CleanupComplete == remaining = {}

-----------------------------------------------------------------------------
(* The sampling thread *)

threadElseVars == <<workloadVars, stepVars, viewVars, stop, waitVars, leftVars, scopeVars,
                    signalled>>

ThreadLists ==
  /\ spc = "idle"
  /\ ~stop
  /\ spc' = "read"
  /\ sview' = Tree
  /\ UNCHANGED <<threadElseVars, seen, failures>>

ThreadSamples ==
  /\ spc = "read"
  /\ spc' = "idle"
  /\ \/ UNCHANGED failures /\ \E M \in SUBSET sview : Found(sview, Tree, M) /\ seen' = seen \union M
     \/ ReadFails /\ UNCHANGED seen
  /\ sview' = {}
  /\ UNCHANGED threadElseVars

ThreadEnds ==
  /\ spc = "idle"
  /\ stop
  /\ spc' = "ended"
  /\ UNCHANGED <<threadElseVars, sview, seen, failures>>

Thread == ThreadLists \/ ThreadSamples \/ ThreadEnds

-----------------------------------------------------------------------------
Main ==
  \/ ListTree \/ StartSampler \/ WaitReaps \/ WaitTimesOut \/ EdgeSample \/ ListGroup
  \/ StopSampler \/ Join \/ DeadlinePasses
  \/ PollRoot \/ KillGroup \/ ListTargets \/ FindTargets \/ SeenTargets \/ Sent
  \/ Reap \/ ReapTimesOut \/ ReadCpu \/ CloseScope
  \/ \E p \in Everyone : Send(p)
  \/ \E L \in SUBSET Everyone :
       RecordBoundary(L) \/ Check(L) \/ Grace(L) \/ Still(L) \/ Drain(L) \/ Remaining(L)

\* A look is taken when /proc is listed, or with killpg.
LookNow(k) ==
  \/ /\ step = "begin" /\ step' = "read"
     /\ phase = (CASE k = "boundary" -> "left" [] k = "kill" -> "still" [] OTHER -> "final")
  \/ /\ k = "kill" /\ phase = "kill"
     /\ step \in {"killpg", "list"} /\ step' # step

History ==
  /\ known' = [k \in Looks |-> IF LookNow(k) THEN born ELSE known[k]]
  /\ running' = IF phase = "snapshot" /\ phase' # phase THEN alive \intersect Procs ELSE running

Step == Work \/ ReuseGroupId \/ Tick \/ Main \/ Interrupt \/ Thread

Next == Step /\ History

Spec == Init /\ [][Next]_vars

\* Both threads are scheduled, time passes, and a process with a fatal signal dies.
Fairness ==
  /\ WF_vars(Main /\ History)
  /\ WF_vars(Thread /\ History)
  /\ WF_vars(Tick /\ History)
  /\ \A p \in Procs : WF_vars(p \in doomed /\ Exit(p) /\ UNCHANGED supervisorVars /\ History)

FairSpec == Spec /\ Fairness

-----------------------------------------------------------------------------
(* Properties *)

\* What the cleanup is about: the processes of the group, and those a sample has shown.
Left == (own \union seen) \intersect alive \intersect Procs

\* "Never report an empty tree" (line 496): whatever outlives wait, in the group or of what
\* a sample has shown, is reported, unless it was forked after the last look began.
CleanupHonest == phase = "done" => Left \intersect known["final"] \subseteq remaining

\* "Terminates any process-group descendants the command left behind" (line 293): what
\* outlives wait in the group, or of what was seen outside it, has been killed and is only
\* slow to die, unless it was forked after the look that SIGKILL followed.
SurvivorsKilled == phase = "done" => Left \intersect known["kill"] \subseteq doomed

\* The same without exception, of a cleanup that is called complete.
NobodyLeft == phase = "done" /\ CleanupComplete => Left \subseteq doomed

\* wait returns a return code and leaves no zombie, however the root ended; a missing
\* code would be reported as 0 (line 558).
RootReaped == phase \in {"final", "snapshot", "close", "done"} => reaped /\ Root \notin alive

\* "Cleanup time is not command time" (line 484): no sample is under way, and none is
\* added, once the first signal has been sent.
SamplesEndFirst == signalled # {} => spc \in {"off", "ended"}

\* CPU time is said to be that of the whole tree only when the command ended by itself:
\* nothing of the group that was there at the boundary was signalled, and nothing that the
\* last look could find still ran when the counters were read.
TreeWasOver ==
  phase = "done" /\ ~raised /\ Coverage = "tree" =>
    /\ ~timedOut
    /\ signalled \intersect known["boundary"] \intersect Procs = {}
    /\ running \intersect own \intersect known["final"] = {}

\* "Including descendants" (line 48): all of them, those that left the group included, had
\* ended when the counters were read.
TreeCountsAll == phase = "done" /\ Coverage = "tree" => running = {}

\* wait returns, whatever the workload does with its signals.
WaitReturns == phase = "wait" ~> phase = "done"

\* "This avoids a late killpg racing with reuse of the former process-group ID" (lines
\* 714-716): whoever exits between poll and killpg, the id is still that of the command.
KillpgHitsOwnGroup == phase \in GroupPhases /\ step = "killpg" => Stranger \notin Group
=============================================================================
