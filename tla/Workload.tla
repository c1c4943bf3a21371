------------------------------ MODULE Workload ------------------------------
(***************************************************************************)
(* What src/benchmarks/harness/process.py supervises: the processes of one *)
(* benchmark command, as the Linux kernel keeps them.  The root leads a    *)
(* session and a process group of its own (start_new_session); the others  *)
(* are forked from it, and may leave the group by setsid or setpgid.       *)
(*                                                                         *)
(* A process stands for a pid with its start time, so it is never reused;  *)
(* what can be used again is the group's id, once it names no process.     *)
(* Zombies count as dead (_process_is_live): only the root's, which the    *)
(* supervisor must reap, matters, and the supervisor records it.           *)
(***************************************************************************)
EXTENDS Naturals, FiniteSets

CONSTANTS Procs,     \* the processes the command may have
          Root,      \* the process that is launched
          Stranger   \* a process of someone else that leads a group with the id of ours

ASSUME ProcsAssumption ==
  /\ IsFiniteSet(Procs)
  /\ Root \in Procs
  /\ Stranger \notin Procs

VARIABLES born,       \* the processes forked so far
          alive,      \* those that neither exited nor are zombies
          own,        \* those whose process group is, or was at death, the root's
          ancestors,  \* the processes each descends from
          doomed      \* the live ones a fatal signal is pending for

workloadVars == <<born, alive, own, ancestors, doomed>>

Everyone == Procs \union {Stranger}

WorkloadTypeOK ==
  /\ born \subseteq Everyone
  /\ alive \subseteq born
  /\ own \subseteq born
  /\ ancestors \in [Everyone -> SUBSET Procs]
  /\ doomed \subseteq alive

\* Popen returned.
WorkloadInit ==
  /\ born = {Root}
  /\ alive = {Root}
  /\ own = {Root}
  /\ ancestors = [p \in Everyone |-> {}]
  /\ doomed = {}

\* The kernel restarts a fork that finds a fatal signal pending.
Fork(p, c) ==
  /\ p \in (alive \ doomed) \intersect Procs
  /\ c \in Procs \ born
  /\ born' = born \union {c}
  /\ alive' = alive \union {c}
  /\ own' = IF p \in own THEN own \union {c} ELSE own
  /\ ancestors' = [ancestors EXCEPT ![c] = ancestors[p] \union {p}]
  /\ UNCHANGED doomed

\* setsid or setpgid; a session leader can do neither.
Escape(p) ==
  /\ p \in (alive \ doomed) \intersect own
  /\ p \notin {Root, Stranger}
  /\ own' = own \ {p}
  /\ UNCHANGED <<born, alive, ancestors, doomed>>

\* By itself, or by a signal; its children become those of init.
Exit(p) ==
  /\ p \in alive
  /\ alive' = alive \ {p}
  /\ doomed' = doomed \ {p}
  /\ UNCHANGED <<born, own, ancestors>>

\* No process has the group's id any more, and a new process of someone else gets it.
Squat ==
  /\ own \intersect alive = {}
  /\ Stranger \notin born
  /\ born' = born \union {Stranger}
  /\ alive' = alive \union {Stranger}
  /\ own' = own \union {Stranger}
  /\ UNCHANGED <<ancestors, doomed>>

\* What /proc shows at one instant: the live members of the group, and the tree,
\* which loses a descendant when one of its ancestors dies.
Group == own \intersect alive
Tree == Group \union {p \in alive : Root \in ancestors[p] /\ ancestors[p] \subseteq alive}
=============================================================================
