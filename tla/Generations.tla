---------------------------- MODULE Generations ----------------------------
(***************************************************************************)
(* src/buildsys/generations.py: publish_generation and active_generation   *)
(* on one target directory, with concurrent publishers and readers,        *)
(* publishers that are killed (or raise: no handler between lines 47 and   *)
(* 66 undoes anything) and power losses.                                   *)
(*                                                                         *)
(* A content stands for the files of one publication; a generation id is   *)
(* the hash of their record, so the id is the content (the model has no    *)
(* collision of the 64-bit ids).  A file of generations/<id> holds the     *)
(* bytes of that content or is missing.  A directory is the set of its     *)
(* entries, with SELF for the directory's own name, which rmtree removes   *)
(* last.                                                                   *)
(*                                                                         *)
(* Disk: a process sees gens and active.  A power loss leaves each         *)
(* directory, and ACTIVE, in a state it had since the last fsync of the    *)
(* directory that names it: mayGens and mayActive hold those states.  The  *)
(* target directory and generations/ have names too: mkdir made them, and  *)
(* only fsync of the directory above makes a name durable.                 *)
(***************************************************************************)
EXTENDS Naturals, FiniteSets

CONSTANTS Publishers,       \* processes that call publish_generation
          Readers,          \* processes that call active_generation
          Contents,         \* sets of files that may be published
          Files,            \* the names in every content
          RECORD, SELF,     \* GENERATION.json; the directory itself
          None,             \* no content, no process
          PublishOverTorn,  \* may a content be published whose directory is on disk in part?
          MaxCalls,         \* bound: calls of publish_generation
          MaxKills,         \* bound: publishers killed
          MaxLosses         \* bound: power losses

ASSUME NamesAssumption ==
  /\ RECORD \notin Files
  /\ SELF \notin Files \union {RECORD}
  /\ None \notin Contents \union Publishers
  /\ PublishOverTorn \in BOOLEAN

ASSUME BoundsAssumption == MaxCalls \in Nat /\ MaxKills \in Nat /\ MaxLosses \in Nat

VARIABLES gens,       \* the entries of generations/<id>, {} when it does not exist
          mayGens,    \* the states of generations/<id> a power loss may leave
          active,     \* the id in ACTIVE
          mayActive,  \* the ids ACTIVE may hold after a power loss
          rooted,     \* the name of the target directory is durable
          linked,     \* so is the name of generations/ in it
          lock,       \* the process that holds .publish.lock
          staged,     \* the entries of the lock holder's staging directory
          sealed,     \* that directory has been fsynced
          litter,     \* a staging directory of a dead publisher is left
          stale,      \* an .active-* file of a dead publisher is left
          pc,         \* the next step of each publisher
          content,    \* what it publishes
          previous,   \* the active id it read under the lock
          rpc,        \* the next step of each reader
          view,       \* the id it read from ACTIVE
          checked,    \* the files it has verified
          age,        \* history: selections since it read ACTIVE, at most 2
          later,      \* history: the last acknowledged id and those selected since
          calls, kills, losses

nameVars == <<rooted, linked>>
diskVars == <<gens, mayGens, active, mayActive, nameVars>>
stageVars == <<staged, sealed>>
leftVars == <<litter, stale>>
jobVars == <<content, previous>>
readVars == <<rpc, view, checked, age>>
countVars == <<calls, kills, losses>>
elseVars == <<jobVars, readVars, later, countVars>>
vars == <<diskVars, lock, stageVars, leftVars, pc, elseVars>>

Listed == Files \union {RECORD}
Whole == Listed \union {SELF}
Exists(c) == SELF \in gens[c]
Torn(c) == gens[c] \notin {{}, Whole}

Staging == {"copy", "recorded", "sealed"}
Holding == Staging \union {"installed", "settled", "pending", "selected", "pruning", "done"}
PCs == Holding \union {"idle", "waiting"}
ReaderPCs == {"idle", "record", "list", "files", "holding", "failed"}

TypeOK ==
  /\ gens \in [Contents -> SUBSET Whole]
  /\ mayGens \in [Contents -> SUBSET SUBSET Whole]
  /\ active \in Contents \union {None}
  /\ mayActive \subseteq Contents \union {None}
  /\ rooted \in BOOLEAN
  /\ linked \in BOOLEAN
  /\ lock \in Publishers \union {None}
  /\ staged \subseteq Listed
  /\ sealed \in BOOLEAN
  /\ litter \in BOOLEAN
  /\ stale \in BOOLEAN
  /\ pc \in [Publishers -> PCs]
  /\ content \in [Publishers -> Contents \union {None}]
  /\ previous \in [Publishers -> Contents \union {None}]
  /\ rpc \in [Readers -> ReaderPCs]
  /\ view \in [Readers -> Contents \union {None}]
  /\ checked \in [Readers -> SUBSET Files]
  /\ age \in [Readers -> 0..2]
  /\ later \subseteq Contents \union {None}
  /\ calls \in Nat
  /\ kills \in Nat
  /\ losses \in Nat

\* The target directory is there from before, or is made by the first call.
Init ==
  /\ gens = [c \in Contents |-> {}]
  /\ mayGens = [c \in Contents |-> {{}}]
  /\ active = None
  /\ mayActive = {None}
  /\ rooted \in BOOLEAN
  /\ linked = rooted
  /\ lock = None
  /\ staged = {}
  /\ sealed = FALSE
  /\ litter = FALSE
  /\ stale = FALSE
  /\ pc = [p \in Publishers |-> "idle"]
  /\ content = [p \in Publishers |-> None]
  /\ previous = [p \in Publishers |-> None]
  /\ rpc = [r \in Readers |-> "idle"]
  /\ view = [r \in Readers |-> None]
  /\ checked = [r \in Readers |-> {}]
  /\ age = [r \in Readers |-> 0]
  /\ later = {None}
  /\ calls = 0
  /\ kills = 0
  /\ losses = 0

-----------------------------------------------------------------------------
(* publish_generation *)

Goto(p, from, to) == pc[p] = from /\ pc' = [pc EXCEPT ![p] = to]

\* Names and sources have been validated, the target directory and generations/ exist
\* (made by mkdir if need be, which fsyncs nothing), the lock file is open.
Begin(p) ==
  /\ Goto(p, "idle", "waiting")
  /\ calls < MaxCalls
  /\ calls' = calls + 1
  /\ UNCHANGED <<diskVars, lock, stageVars, leftVars, jobVars, readVars, later, kills, losses>>

\* What the call does first under the lock (a mutant of Acquire: no flock).
Enter(p, c) ==
  /\ Goto(p, "waiting", "copy")
  /\ PublishOverTorn \/ ~Torn(c)
  /\ lock' = p
  /\ content' = [content EXCEPT ![p] = c]
  /\ previous' = [previous EXCEPT ![p] = active]
  /\ UNCHANGED <<diskVars, stageVars, leftVars, readVars, later, countVars>>

\* flock returns; ACTIVE is read and the staging directory made.  The sources are
\* read only from here on, so this is where the content is decided.
Acquire(p, c) == lock = None /\ Enter(p, c)

\* Mutant: a temporary name stays beside the copy.
CopyKeepsTemporary(p, name) ==
  /\ Goto(p, "copy", "copy")
  /\ name \in Files \ staged
  /\ staged' = staged \union {name, None}
  /\ UNCHANGED <<diskVars, lock, sealed, leftVars, elseVars>>

\* The digest in the record is that of the bytes copied; each copy is fsynced.
CopySynced(p, name) ==
  /\ Goto(p, "copy", "copy")
  /\ name \in Files \ staged
  /\ staged' = staged \union {name}
  /\ UNCHANGED <<diskVars, lock, sealed, leftVars, elseVars>>

WriteRecord(p) ==
  /\ Goto(p, "copy", "recorded")
  /\ Files \subseteq staged
  /\ staged' = staged \union {RECORD}
  /\ UNCHANGED <<diskVars, lock, sealed, leftVars, elseVars>>

SyncStaging(p) ==
  /\ Goto(p, "recorded", "sealed")
  /\ sealed' = TRUE
  /\ UNCHANGED <<diskVars, lock, staged, leftVars, elseVars>>

\* What a power loss may make of a staging directory that has been renamed.
StagedOutcomes == IF sealed THEN {staged \union {SELF}}
                            ELSE {S \union {SELF} : S \in SUBSET staged}

\* A generation of that id is trusted as it is; otherwise staging becomes it.
Install(p) ==
  /\ Goto(p, "sealed", "installed")
  /\ \/ Exists(content[p]) /\ UNCHANGED <<gens, mayGens>>
     \/ /\ ~Exists(content[p])
        /\ gens' = [gens EXCEPT ![content[p]] = staged \union {SELF}]
        /\ mayGens' = [mayGens EXCEPT ![content[p]] = @ \union StagedOutcomes]
  /\ staged' = {}
  /\ sealed' = FALSE
  /\ UNCHANGED <<active, mayActive, nameVars, lock, leftVars, elseVars>>

\* Mutant: the rename into generations/ is not fsynced.
GenerationsUnsynced(p) ==
  /\ Goto(p, "installed", "settled")
  /\ UNCHANGED <<diskVars, lock, stageVars, leftVars, elseVars>>

SyncGenerations(p) ==
  /\ Goto(p, "installed", "settled")
  /\ mayGens' = [c \in Contents |-> {gens[c]}]
  /\ UNCHANGED <<gens, active, mayActive, nameVars, lock, stageVars, leftVars, elseVars>>

\* An .active-* file with the id is written and fsynced.
WritePending(p) ==
  /\ Goto(p, "settled", "pending")
  /\ UNCHANGED <<diskVars, lock, stageVars, leftVars, elseVars>>

Older(n) == IF n = 2 THEN 2 ELSE n + 1

ReplaceActive(p) ==
  /\ Goto(p, "pending", "selected")
  /\ active' = content[p]
  /\ mayActive' = mayActive \union {content[p]}
  /\ later' = later \union {content[p]}
  /\ age' = [r \in Readers |-> IF view[r] = None THEN age[r] ELSE Older(age[r])]
  /\ UNCHANGED <<gens, mayGens, nameVars, lock, stageVars, leftVars, jobVars, rpc, view, checked,
                 countVars>>

\* Mutant: the rename over ACTIVE is not fsynced.
TargetUnsynced(p) ==
  /\ Goto(p, "selected", "pruning")
  /\ UNCHANGED <<diskVars, lock, stageVars, leftVars, elseVars>>

\* ACTIVE and generations/ are now durable in the target directory; its own name is not.
SyncTarget(p) ==
  /\ Goto(p, "selected", "pruning")
  /\ mayActive' = {active}
  /\ linked' = TRUE
  /\ UNCHANGED <<gens, mayGens, active, rooted, lock, stageVars, leftVars, elseVars>>

\* Mutant: the generation just replaced is not kept.
KeepNew(p) == {content[p]}

Keep(p) == {content[p], previous[p]}

\* Mutant: only complete generations are seen.
VictimsWhole(p) == {c \in Contents \ Keep(p) : gens[c] = Whole}

\* The generations _prune still has to remove.
Victims(p) == {c \in Contents \ Keep(p) : Exists(c)}

\* One unlink of rmtree, or its final rmdir; nothing fsyncs the removal.
RemoveEntry(p, c, e) ==
  /\ Goto(p, "pruning", "pruning")
  /\ c \in Victims(p)
  /\ e \in gens[c]
  /\ e = SELF => gens[c] = {SELF}
  /\ gens' = [gens EXCEPT ![c] = @ \ {e}]
  /\ mayGens' = [mayGens EXCEPT ![c] = @ \union {gens[c] \ {e}}]
  /\ UNCHANGED <<active, mayActive, nameVars, lock, stageVars, leftVars, elseVars>>

RemoveLitter(p) ==
  /\ Goto(p, "pruning", "pruning")
  /\ litter
  /\ litter' = FALSE
  /\ UNCHANGED <<diskVars, lock, stageVars, stale, elseVars>>

\* The second loop of _prune, after the first has emptied generations/.
UnlinkPending(p) ==
  /\ Goto(p, "pruning", "done")
  /\ Victims(p) = {}
  /\ ~litter
  /\ stale' = FALSE
  /\ UNCHANGED <<diskVars, lock, stageVars, litter, elseVars>>

Forget(p) ==
  /\ content' = [content EXCEPT ![p] = None]
  /\ previous' = [previous EXCEPT ![p] = None]

\* The lock file is closed and the caller gets the id.
Return(p) ==
  /\ Goto(p, "done", "idle")
  /\ lock' = None
  /\ later' = {active}
  /\ Forget(p)
  /\ UNCHANGED <<diskVars, stageVars, leftVars, readVars, countVars>>

\* Mutant: the lock outlives its holder.
KillKeepsLock(p) ==
  /\ pc[p] # "idle"
  /\ Goto(p, pc[p], "idle")
  /\ kills < MaxKills
  /\ kills' = kills + 1
  /\ litter' = (litter \/ pc[p] \in Staging)
  /\ stale' = (stale \/ pc[p] = "pending")
  /\ Forget(p)
  /\ UNCHANGED <<diskVars, lock, stageVars, readVars, later, calls, losses>>

\* The process dies, or an error leaves the function: the kernel drops the lock and
\* whatever the call had made stays.
Kill(p) ==
  /\ pc[p] # "idle"
  /\ Goto(p, pc[p], "idle")
  /\ kills < MaxKills
  /\ kills' = kills + 1
  /\ lock' = IF lock = p THEN None ELSE lock
  /\ staged' = IF lock = p THEN {} ELSE staged
  /\ sealed' = (sealed /\ lock # p)
  /\ litter' = (litter \/ pc[p] \in Staging)
  /\ stale' = (stale \/ pc[p] = "pending")
  /\ Forget(p)
  /\ UNCHANGED <<diskVars, readVars, later, calls, losses>>

-----------------------------------------------------------------------------
(* active_generation; with no ACTIVE it raises and changes nothing *)

publishVars == <<diskVars, lock, stageVars, leftVars, pc, jobVars, later, countVars>>

ReadActive(r) ==
  /\ rpc[r] = "idle"
  /\ active # None
  /\ rpc' = [rpc EXCEPT ![r] = "record"]
  /\ view' = [view EXCEPT ![r] = active]
  /\ age' = [age EXCEPT ![r] = 0]
  /\ UNCHANGED <<publishVars, checked>>

\* GENERATION.json is read; it lists Files.
ReadRecord(r) ==
  /\ rpc[r] = "record"
  /\ rpc' = [rpc EXCEPT ![r] = IF RECORD \in gens[view[r]] THEN "list" ELSE "failed"]
  /\ UNCHANGED <<publishVars, view, checked, age>>

\* Mutant: the record itself is not expected in the directory.
ListFiles(r) ==
  /\ rpc[r] = "list"
  /\ rpc' = [rpc EXCEPT ![r] = IF gens[view[r]] \ {SELF} = Files THEN "files" ELSE "failed"]
  /\ UNCHANGED <<publishVars, view, checked, age>>

\* The directory must hold the listed files and the record, nothing else.
ListEntries(r) ==
  /\ rpc[r] = "list"
  /\ rpc' = [rpc EXCEPT ![r] = IF gens[view[r]] = Whole THEN "files" ELSE "failed"]
  /\ UNCHANGED <<publishVars, view, checked, age>>

\* The file is there and matches (a mutant of VerifyFile: a missing one is waited for).
VerifyPresent(r, f) ==
  /\ rpc[r] = "files"
  /\ f \in (Files \ checked[r]) \intersect gens[view[r]]
  /\ checked' = [checked EXCEPT ![r] = @ \union {f}]
  /\ UNCHANGED <<publishVars, rpc, view, age>>

VerifyFile(r, f) ==
  \/ VerifyPresent(r, f)
  \/ /\ rpc[r] = "files"
     /\ f \in Files \ (checked[r] \union gens[view[r]])
     /\ rpc' = [rpc EXCEPT ![r] = "failed"]
     /\ UNCHANGED <<publishVars, view, checked, age>>

\* The directory is returned, and its caller goes on using it.
ReturnDirectory(r) ==
  /\ rpc[r] = "files"
  /\ checked[r] = Files
  /\ rpc' = [rpc EXCEPT ![r] = "holding"]
  /\ UNCHANGED <<publishVars, view, checked, age>>

\* The caller is done with the directory, or with the exception.
Close(r) ==
  /\ rpc[r] \in {"holding", "failed"}
  /\ rpc' = [rpc EXCEPT ![r] = "idle"]
  /\ view' = [view EXCEPT ![r] = None]
  /\ checked' = [checked EXCEPT ![r] = {}]
  /\ age' = [age EXCEPT ![r] = 0]
  /\ UNCHANGED publishVars

-----------------------------------------------------------------------------
\* Each unsynced change has reached the disk or has not.
ChangesLost ==
  /\ gens' \in [Contents -> UNION {mayGens[c] : c \in Contents}]
  /\ \A c \in Contents : gens'[c] \in mayGens[c]
  /\ active' \in mayActive
  /\ rooted' = TRUE
  /\ linked' = TRUE
  /\ litter' \in BOOLEAN
  /\ stale' \in BOOLEAN
  /\ UNCHANGED later

GenerationsGone ==
  /\ gens' = [c \in Contents |-> {}]
  /\ active' = None
  /\ linked' = FALSE
  /\ litter' = FALSE

\* The target directory is as it was before generations/ was made, or is itself gone.
NamesLost ==
  /\ GenerationsGone
  /\ \/ ~linked /\ rooted' = TRUE /\ stale' \in BOOLEAN /\ UNCHANGED later
     \/ ~rooted /\ rooted' = FALSE /\ stale' = FALSE /\ later' = {None}

\* Every process stops.
PowerLoss ==
  /\ losses < MaxLosses
  /\ losses' = losses + 1
  /\ ChangesLost \/ NamesLost
  /\ mayGens' = [c \in Contents |-> {gens'[c]}]
  /\ mayActive' = {active'}
  /\ lock' = None
  /\ staged' = {}
  /\ sealed' = FALSE
  /\ pc' = [p \in Publishers |-> "idle"]
  /\ content' = [p \in Publishers |-> None]
  /\ previous' = [p \in Publishers |-> None]
  /\ rpc' = [r \in Readers |-> "idle"]
  /\ view' = [r \in Readers |-> None]
  /\ checked' = [r \in Readers |-> {}]
  /\ age' = [r \in Readers |-> 0]
  /\ UNCHANGED <<calls, kills>>

\* Everything a publisher does by itself once it has been called.
Step(p) ==
  \/ \E c \in Contents : Acquire(p, c)
  \/ \E name \in Files : CopySynced(p, name)
  \/ WriteRecord(p)
  \/ SyncStaging(p)
  \/ Install(p)
  \/ SyncGenerations(p)
  \/ WritePending(p)
  \/ ReplaceActive(p)
  \/ SyncTarget(p)
  \/ \E c \in Contents, e \in Whole : RemoveEntry(p, c, e)
  \/ RemoveLitter(p)
  \/ UnlinkPending(p)
  \/ Return(p)

\* Everything active_generation does once it has read ACTIVE.
Read(r) ==
  \/ ReadRecord(r)
  \/ ListEntries(r)
  \/ \E f \in Files : VerifyFile(r, f)
  \/ ReturnDirectory(r)

Next ==
  \/ \E p \in Publishers : Begin(p) \/ Step(p) \/ Kill(p)
  \/ \E r \in Readers : ReadActive(r) \/ Read(r) \/ Close(r)
  \/ PowerLoss

Spec == Init /\ [][Next]_vars

\* A publisher that can take a step takes it: the kernel schedules it, and grants
\* the lock to some waiter.
Fairness == \A p \in Publishers : WF_vars(Step(p))

FairSpec == Spec /\ Fairness

-----------------------------------------------------------------------------
(* Properties *)

\* "At every instant, and after a kill at any step, active_generation returns one
\* complete, verified generation" (lines 7-8): what ACTIVE names, and whatever it may
\* name after a power loss, is on disk with every file and the record.
ActiveVerifies ==
  /\ active # None => gens[active] = Whole
  /\ \A a \in mayActive \ {None} : mayGens[a] = {Whole}

\* The directory a reader resolved stays whole until a second selection, while it is
\* being verified and while its caller copies from it: _prune spares the generation
\* that was active before (line 65), and no other rule protects a reader.
ReaderKeepsFiles ==
  \A r \in Readers : view[r] # None /\ age[r] <= 1 => gens[view[r]] = Whole

\* A verification that was not overtaken by two selections does not fail.
FailsOnlyWhenOvertaken ==
  \A r \in Readers : rpc[r] = "failed" => age[r] = 2

\* What a process may find ACTIVE to name after a power loss.
Survivors == mayActive \union (IF rooted /\ linked THEN {} ELSE {None})

\* A publication that returned is never undone, in a target directory whose own name is
\* durable: after any kill or power loss ACTIVE names it or a generation selected since.
AcknowledgedSurvives == rooted => Survivors \subseteq later

\* "Crash-consistent publication" (line 1), of the first generation too: a publication
\* that returned is never undone, whoever made the target directory.
FirstSurvives == Survivors \subseteq later

\* A publication that returns has removed every generation but its own and the one
\* it replaced, and all that dead publishers left behind.
Tidy ==
  \A p \in Publishers :
    pc[p] = "done" => /\ \A c \in Contents \ Keep(p) : gens[c] = {}
                      /\ ~litter
                      /\ ~stale

\* A call gets the lock and comes to an end, whoever dies around it.
EveryCallEnds == \A p \in Publishers : pc[p] = "waiting" ~> pc[p] = "idle"

\* The promise of the module to its callers.
Outcome(r) == IF rpc[r] \in {"record", "list", "files"} THEN "open" ELSE rpc[r]

Store == INSTANCE GenerationStore
  WITH current <- active,
       kept <- rooted,
       available <- {c \in Contents : gens[c] = Whole},
       out <- [r \in Readers |-> Outcome(r)]

\* Seen through complete generations only, publishers and readers behave as the
\* atomic store: a generation becomes current in one step, is dropped only when no
\* reader is owed it, and a killed publisher changes nothing a reader can see.
ImplementsStore == Store!Spec

=============================================================================
