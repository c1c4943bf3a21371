-------------------------- MODULE GenerationStore --------------------------
(***************************************************************************)
(* What src/buildsys/generations.py promises its callers, without files,   *)
(* directories, locks or fsync: one current content, replaced as a whole,  *)
(* and readers that keep what they opened until it has been replaced       *)
(* twice.  Killing a publisher is not an action here: it must be invisible.*)
(***************************************************************************)
EXTENDS Naturals

CONSTANTS Contents,     \* the sets of files that may be published
          Readers,      \* callers of active_generation
          None          \* no content

VARIABLES current,      \* what a reader opens now
          later,        \* the last acknowledged content and those selected since
          available,    \* contents that are on disk as a whole
          view,         \* the content each reader opened
          age,          \* contents selected since the reader opened, at most 2
          out,          \* the state of the reader's call
          kept          \* a power loss cannot take the store as a whole

contentVars == <<current, later, available, view, age, out>>
vars == <<contentVars, kept>>

Outcomes == {"idle", "open", "holding", "failed"}

TypeOK ==
  /\ current \in Contents \union {None}
  /\ later \subseteq Contents \union {None}
  /\ available \subseteq Contents
  /\ view \in [Readers -> Contents \union {None}]
  /\ age \in [Readers -> 0..2]
  /\ out \in [Readers -> Outcomes]
  /\ kept \in BOOLEAN

Init ==
  /\ current = None
  /\ later = {None}
  /\ available = {}
  /\ view = [r \in Readers |-> None]
  /\ age = [r \in Readers |-> 0]
  /\ out = [r \in Readers |-> "idle"]
  /\ kept \in BOOLEAN

\* A reader's content is still owed to it while at most one has been selected since.
Owed == {view[r] : r \in {q \in Readers : age[q] <= 1}}

\* The files of c become complete; nothing refers to them yet.
Store(c) ==
  /\ available' = available \union {c}
  /\ UNCHANGED <<current, later, view, age, out>>

\* The one instant at which a publication takes effect.
Select(c) ==
  /\ c \in available
  /\ current' = c
  /\ later' = later \union {c}
  /\ age' = [r \in Readers |-> IF view[r] = None \/ age[r] = 2 THEN age[r] ELSE age[r] + 1]
  /\ UNCHANGED <<available, view, out>>

\* publish_generation returns: nothing older may ever come back.
Acknowledge ==
  /\ later' = {current}
  /\ UNCHANGED <<current, available, view, age, out>>

\* Space is reclaimed only from a content nobody is owed.
Drop(c) ==
  /\ c \in available
  /\ c # current
  /\ c \notin Owed
  /\ available' = available \ {c}
  /\ UNCHANGED <<current, later, view, age, out>>

\* The machine stops: an unacknowledged selection may be undone, an acknowledged one
\* may not, and what is current afterwards is complete.  Until a store has outlived a
\* power loss, or is known to be kept, it may also be gone.
PowerLoss ==
  /\ \/ current' \in later /\ kept' = TRUE /\ UNCHANGED later
     \/ ~kept /\ current' = None /\ later' = {None} /\ UNCHANGED kept
  /\ available' \in SUBSET Contents
  /\ current' # None => current' \in available'
  /\ view' = [r \in Readers |-> None]
  /\ age' = [r \in Readers |-> 0]
  /\ out' = [r \in Readers |-> "idle"]

Open(r) ==
  /\ out[r] = "idle"
  /\ current # None
  /\ view' = [view EXCEPT ![r] = current]
  /\ age' = [age EXCEPT ![r] = 0]
  /\ out' = [out EXCEPT ![r] = "open"]
  /\ UNCHANGED <<current, later, available>>

Return(r) ==
  /\ out[r] = "open"
  /\ out' = [out EXCEPT ![r] = "holding"]
  /\ UNCHANGED <<current, later, available, view, age>>

\* A call may fail only after two selections overtook it.
Fail(r) ==
  /\ out[r] = "open"
  /\ age[r] = 2
  /\ out' = [out EXCEPT ![r] = "failed"]
  /\ UNCHANGED <<current, later, available, view, age>>

Close(r) ==
  /\ out[r] \in {"holding", "failed"}
  /\ view' = [view EXCEPT ![r] = None]
  /\ age' = [age EXCEPT ![r] = 0]
  /\ out' = [out EXCEPT ![r] = "idle"]
  /\ UNCHANGED <<current, later, available>>

\* What publishers and readers do.
Operate ==
  \/ \E c \in Contents : Store(c) \/ Select(c) \/ Drop(c)
  \/ Acknowledge
  \/ \E r \in Readers : Open(r) \/ Return(r) \/ Fail(r) \/ Close(r)

Next == (Operate /\ UNCHANGED kept) \/ PowerLoss

Spec == Init /\ [][Next]_vars
=============================================================================
