--------------------------- MODULE ReleaseProofs ---------------------------
(***************************************************************************)
(* The safety of Release for any number of revisions, packagers,           *)
(* assemblies and test cases: what is active was built from the revision   *)
(* that it names unless there was a commit between the reading of the      *)
(* inputs and of the revision; no failed test is forgiven that failed      *)
(* again; a release is whole; an assembly loses files only when it has     *)
(* been overtaken twice.                                                   *)
(***************************************************************************)
EXTENDS Release, TLAPS

WorkSteps == {"idle", "validated", "copied", "verified", "identified", "qualified", "stored",
              "pruning"}
AssemblySteps == Targets \union {"idle", "checking", "copying", "failed", "lost"}

\* A package in the making, and the files of a release.
Drafts == [built : Revisions \union {None}, moved : BOOLEAN, revision : Revisions,
           failures : Verdicts, execution : {"none", "emulated", "native"}]
Assets == [target : Targets, part : Parts, content : Contents]

Works == [at : WorkSteps, target : Targets \union {None}, flags : Revisions \union {None},
          content : Drafts \union {None}]

TInv ==
  /\ head \in Revisions
  /\ stage \in {"gone", "installing", "recorded"}
  /\ tree \in [from : Revisions, noted : Revisions \union {None}, moved : BOOLEAN]
  /\ work \in [Packagers -> Works]
  /\ assembly \in [Assemblers -> [at : AssemblySteps, want : Revisions \union {None},
                                  copies : SUBSET Assets]]
  /\ release \in SUBSET Assets
  /\ undoable = Contents

\* The revision that the stage names is the one that was built, unless there was a
\* commit before it was noted.
TreeInv ==
  /\ stage # "gone" => tree.noted \in Revisions
  /\ ~tree.moved => tree.from = IF stage = "gone" THEN head ELSE tree.noted

\* What is true of the package a packager holds, by how far it is.
WorkOf(p) ==
  /\ work[p].at # "idle" => work[p].target \in Targets /\ work[p].content \in Drafts
  /\ work[p].at # "idle" => work[p].content.failures # "shown"
  /\ work[p].at # "idle" /\ work[p].target = "macos" => work[p].content.execution = "none"
  /\ work[p].at \in {"stored", "pruning"} /\ work[p].target = "musl" =>
       work[p].content.execution # "none"
  /\ work[p].at \in {"copied", "verified", "qualified", "stored", "pruning"} =>
       work[p].content.built \in Revisions
  /\ work[p].at = "copied" /\ ~work[p].content.moved => work[p].content.built = work[p].flags
  /\ work[p].at \in {"verified", "qualified", "stored", "pruning"} /\ ~work[p].content.moved =>
       work[p].content.built = work[p].content.revision
  /\ work[p].at = "identified" /\ ~work[p].content.moved => work[p].content.revision = head

WorkInv == \A p \in Packagers : WorkOf(p)

\* A content that may be active.
Good(c) ==
  /\ ~c.moved => c.built = c.revision
  /\ c.failures # "shown"

\* What a store holds, and what its readers hold of it.
MacInv ==
  /\ macAvailable \in SUBSET Contents
  /\ \A c \in macAvailable : Good(c) /\ c.execution = "none"
  /\ macCurrent # None => macCurrent \in macAvailable
  /\ macView \in [Assemblers -> Contents \union {None}]
  /\ macAge \in [Assemblers -> 0..2]
  /\ macOut \in [Assemblers -> {"idle", "open", "holding", "failed"}]
  /\ \A a \in Assemblers : macOut[a] # "idle" => macView[a] \in Contents \ {None} /\ Good(macView[a])
  /\ \A a \in Assemblers : macView[a] # None /\ macAge[a] <= 1 => macView[a] \in macAvailable

MuslInv ==
  /\ muslAvailable \in SUBSET Contents
  /\ \A c \in muslAvailable : Good(c) /\ c.execution # "none"
  /\ muslCurrent # None => muslCurrent \in muslAvailable
  /\ muslView \in [Assemblers -> Contents \union {None}]
  /\ muslAge \in [Assemblers -> 0..2]
  /\ muslOut \in [Assemblers -> {"idle", "open", "holding", "failed"}]
  /\ \A a \in Assemblers : muslOut[a] # "idle" => muslView[a] \in Contents \ {None} /\ Good(muslView[a])
  /\ \A a \in Assemblers : muslView[a] # None /\ muslAge[a] <= 1 => muslView[a] \in muslAvailable

\* What an assembly has verified by its step, and what it has copied.
Kept(a) ==
  /\ assembly[a].at \in {"macos", "checking", "copying"} =>
       /\ muslOut[a] = "holding"
       /\ muslView[a].revision = assembly[a].want
       /\ muslView[a].execution = "native"
  /\ assembly[a].at \in {"checking", "copying"} =>
       /\ macOut[a] = "holding"
       /\ macView[a].revision = assembly[a].want
  /\ assembly[a].at # "copying" => assembly[a].copies = {}
  /\ \A x \in assembly[a].copies : x = Asset(x.target, x.part, Seen(x.target, a))
  /\ assembly[a].at = "lost" => macAge[a] = 2 \/ muslAge[a] = 2

AssemblyInv == \A a \in Assemblers : Kept(a)

\* The release is whole, whatever was built from what.
WholeInv ==
  release # {} =>
    \E mac, musl \in Contents :
      /\ release = {Asset("macos", part, mac) : part \in Parts}
                     \union {Asset("musl", part, musl) : part \in Parts}
      /\ mac.revision = musl.revision
      /\ musl.execution = "native"

IInv == TInv /\ TreeInv /\ WorkInv /\ MacInv /\ MuslInv /\ AssemblyInv /\ WholeInv

USE ReleaseAssumption
    DEF stageVars, macVars, muslVars, vars, Targets, Parts, Contents, Drafts, Verdicts, Works, WorkOf

-----------------------------------------------------------------------------
(* Which steps touch what *)

Stores == <<macVars, muslVars>>

\* The stores change only by the steps that say so.
LEMMA StoreFrame ==
  ASSUME [Next]_vars
  PROVE  \/ UNCHANGED Stores
         \/ \E p \in Packagers : StoreContent(p) \/ SelectContent(p)
         \/ \E p \in Packagers : \E c \in Available(work[p].target) : PruneContent(p, c)
         \/ \E a \in Assemblers : OpenTarget(a) \/ VerifyTarget(a) \/ CheckOutput(a)
                                    \/ PublishRelease(a) \/ EndAssembly(a) \/ KillAssembly(a)
<1> USE DEF Stores
<1>1. CASE Commit \/ Wipe \/ InstallStage \/ RecordStage \/ UNCHANGED vars
  BY <1>1 DEF Commit, Wipe, InstallStage, RecordStage
<1>2. ASSUME NEW p \in Packagers, Package(p)
      PROVE  \/ UNCHANGED Stores \/ StoreContent(p) \/ SelectContent(p)
             \/ \E c \in Available(work[p].target) : PruneContent(p, c)
  BY <1>2 DEF Package, BeginPackage, CopyStage, VerifyInstall, Qualify, IdentifySource,
              BuildInContainer, RecordRuntime, Promote, FinishPackage, KillPackager
<1>3. ASSUME NEW a \in Assemblers, Assemble(a)
      PROVE  \/ UNCHANGED Stores \/ OpenTarget(a) \/ VerifyTarget(a) \/ CheckOutput(a)
             \/ PublishRelease(a) \/ EndAssembly(a) \/ KillAssembly(a)
  BY <1>3 DEF Assemble, StartAssembly, CopyAsset, CopyFails
<1>4. QED
  BY <1>1, <1>2, <1>3 DEF Next

\* The packages change only by packagers, and the checkout only by a commit.
LEMMA WorkFrame ==
  ASSUME [Next]_vars
  PROVE  \/ UNCHANGED <<head, work>>
         \/ Commit
         \/ \E p \in Packagers : Package(p) /\ ~\E c \in Available(work[p].target) : PruneContent(p, c)
<1>1. CASE Wipe \/ InstallStage \/ RecordStage \/ UNCHANGED vars
  BY <1>1 DEF Wipe, InstallStage, RecordStage
<1>2. ASSUME NEW p \in Packagers, NEW c \in Available(work[p].target), PruneContent(p, c)
      PROVE  UNCHANGED <<head, work>>
  BY <1>2 DEF PruneContent
<1>3. ASSUME NEW a \in Assemblers, Assemble(a)
      PROVE  UNCHANGED <<head, work>>
  BY <1>3 DEF Assemble, StartAssembly, OpenTarget, VerifyTarget, CheckOutput, CopyAsset, CopyFails,
              PublishRelease, EndAssembly, KillAssembly
<1>4. QED
  BY <1>1, <1>2, <1>3 DEF Next

-----------------------------------------------------------------------------
(* The verdict of the suite *)

\* No failure that counts is met by a package that passes.
LEMMA PassingKept ==
  ASSUME NEW verdict \in Passing
  PROVE  verdict \in Verdicts /\ verdict # "shown"
<1>1. PICK failed \in SUBSET Cases, attempts \in Attempts :
        verdict = Verdict(failed, attempts) /\ ~Unexpected(failed, attempts)
  BY DEF Passing
<1>2. failed \subseteq Registered \/ failed \ Registered \subseteq Others \ UNION attempts
  <2> SUFFICES ASSUME ~(failed \subseteq Registered), NEW x \in failed \ Registered
               PROVE  x \in Others \ UNION attempts
    OBVIOUS
  <2>1. failed \intersect Elsewhere = {}
    BY <1>1 DEF Unexpected, OtherFileFails
  <2>2. x \in Others
    BY <1>1, <2>1 DEF Cases
  <2>3. Accepted(attempts)
    BY <1>1, <2>2 DEF Unexpected, FileFails
  <2>4. QED
    BY <2>2, <2>3 DEF Accepted
<1>3. QED
  BY <1>1, <1>2 DEF Verdict

-----------------------------------------------------------------------------
(* The stage *)

LEMMA TreeStep == TInv /\ TreeInv /\ [Next]_vars => TreeInv'
<1> SUFFICES ASSUME TInv, TreeInv, [Next]_vars PROVE TreeInv'
  OBVIOUS
<1> USE DEF TInv, TreeInv
<1>1. CASE UNCHANGED <<head, stage, tree>>
  BY <1>1
<1>2. CASE Commit
  BY <1>2 DEF Commit
<1>3. CASE Wipe
  BY <1>3 DEF Wipe
<1>4. CASE InstallStage
  BY <1>4 DEF InstallStage
<1>5. CASE RecordStage
  BY <1>5 DEF RecordStage
<1>6. ASSUME NEW p \in Packagers, Package(p) PROVE UNCHANGED <<head, stage, tree>>
  BY <1>6 DEF Package, BeginPackage, CopyStage, VerifyInstall, Qualify, IdentifySource,
              BuildInContainer, RecordRuntime, Promote, FinishPackage, KillPackager,
              StoreContent, SelectContent, PruneContent
<1>7. ASSUME NEW a \in Assemblers, Assemble(a) PROVE UNCHANGED <<head, stage, tree>>
  BY <1>7 DEF Assemble, StartAssembly, OpenTarget, VerifyTarget, CheckOutput, CopyAsset, CopyFails,
              PublishRelease, EndAssembly, KillAssembly
<1>8. QED
  BY <1>1, <1>2, <1>3, <1>4, <1>5, <1>6, <1>7 DEF Next

-----------------------------------------------------------------------------
(* The packages *)

LEMMA WorkStep == TInv /\ TreeInv /\ WorkInv /\ [Next]_vars => WorkInv'
<1> SUFFICES ASSUME TInv, TreeInv, WorkInv, [Next]_vars PROVE WorkInv'
  OBVIOUS
<1> USE DEF TInv, WorkInv, WorkSteps, Artifact, NoWork
<1>1. CASE UNCHANGED <<head, work>>
  BY <1>1
<1>2. CASE Commit
  <2> SUFFICES ASSUME NEW p \in Packagers PROVE WorkOf(p)'
    BY DEF WorkInv
  <2>1. WorkOf(p)
    BY DEF WorkInv
  <2>2. work'[p] = IF work[p].at = "identified"
                     THEN [work[p] EXCEPT !.content.moved = TRUE] ELSE work[p]
    BY <1>2 DEF Commit
  <2>3. CASE work[p].at = "identified"
    <3>1. work[p] \in Works /\ work[p].content \in Drafts
      BY <2>1, <2>3
    <3>2. /\ work'[p].at = "identified" /\ work'[p].target = work[p].target
          /\ work'[p].content = [work[p].content EXCEPT !.moved = TRUE]
      BY <2>2, <2>3, <3>1
    <3>3. /\ work'[p].content \in Drafts /\ work'[p].content.moved
          /\ work'[p].content.failures = work[p].content.failures
          /\ work'[p].content.execution = work[p].content.execution
      BY <3>1, <3>2
    <3>4. QED
      BY <2>1, <2>3, <3>2, <3>3
  <2>4. CASE work[p].at # "identified"
    BY <2>1, <2>2, <2>4
  <2>5. QED
    BY <2>3, <2>4
<1>3. ASSUME NEW p \in Packagers, BeginPackage(p) PROVE WorkInv'
  BY <1>3 DEF BeginPackage
<1>4. ASSUME NEW p \in Packagers, CopyStage(p) PROVE WorkInv'
  BY <1>4 DEF CopyStage, TreeInv
<1>5. ASSUME NEW p \in Packagers, VerifyInstall(p) PROVE WorkInv'
  BY <1>5 DEF VerifyInstall, FlagsMatch
<1>6. ASSUME NEW p \in Packagers, Qualify(p) PROVE WorkInv'
  <2>1. CASE work' = [work EXCEPT ![p] = NoWork]
    <3>1. head' = head /\ \A q \in Packagers : work'[q] = IF q = p THEN NoWork ELSE work[q]
      BY <1>6, <2>1 DEF Qualify
    <3>2. QED
      BY <3>1
  <2>2. ASSUME NEW verdict \in Passing,
               work' = [work EXCEPT ![p].at = "qualified", ![p].content.failures = verdict]
        PROVE  WorkInv'
    <3>1. verdict \in Verdicts /\ verdict # "shown"
      BY PassingKept
    <3>2. work[p].at = "verified" /\ work[p].content \in Drafts /\ head' = head
      BY <1>6 DEF Qualify
    <3>3. QED
      BY <2>2, <3>1, <3>2
  <2>3. QED
    BY <1>6, <2>1, <2>2 DEF Qualify
<1>7. ASSUME NEW p \in Packagers, IdentifySource(p) PROVE WorkInv'
  BY <1>7 DEF IdentifySource
<1>8. ASSUME NEW p \in Packagers, BuildInContainer(p) PROVE WorkInv'
  BY <1>8 DEF BuildInContainer
<1>9. ASSUME NEW p \in Packagers, RecordRuntime(p) PROVE WorkInv'
  BY <1>9 DEF RecordRuntime
<1>10. ASSUME NEW p \in Packagers, Promote(p) PROVE WorkInv'
  <2>1. PICK t \in Targets, revision \in Revisions :
          work' = [work EXCEPT ![p] = [at |-> "qualified", target |-> t, flags |-> None, content |->
            [Artifact(revision) EXCEPT !.built = revision,
                                       !.execution = IF t = "musl" THEN "native" ELSE "none"]]]
    BY <1>10 DEF Promote
  <2> DEFINE c == [Artifact(revision) EXCEPT !.built = revision,
                                     !.execution = IF t = "musl" THEN "native" ELSE "none"]
  <2>2. /\ c \in Drafts /\ c.built = revision /\ c.revision = revision
        /\ c.failures = "registered" /\ (t = "macos" => c.execution = "none")
    OBVIOUS
  <2> HIDE DEF c
  <2>3. work' = [work EXCEPT ![p] = [at |-> "qualified", target |-> t, flags |-> None, content |-> c]]
    BY <2>1 DEF c
  <2>4. head' = head
    BY <1>10 DEF Promote
  <2>5. QED
    BY <2>2, <2>3, <2>4
<1>11. ASSUME NEW p \in Packagers, StoreContent(p) PROVE WorkInv'
  BY <1>11 DEF StoreContent, Complete
<1>12. ASSUME NEW p \in Packagers, SelectContent(p) PROVE WorkInv'
  BY <1>12 DEF SelectContent
<1>13. ASSUME NEW p \in Packagers, FinishPackage(p) PROVE WorkInv'
  BY <1>13 DEF FinishPackage
<1>14. ASSUME NEW p \in Packagers, KillPackager(p) PROVE WorkInv'
  BY <1>14 DEF KillPackager
<1>15. QED
  BY <1>1, <1>2, <1>3, <1>4, <1>5, <1>6, <1>7, <1>8, <1>9, <1>10, <1>11, <1>12, <1>13, <1>14,
     WorkFrame DEF Package

-----------------------------------------------------------------------------
(* The store of the macos target *)

LEMMA MacStep == TInv /\ WorkInv /\ MacInv /\ [Next]_vars => MacInv'
<1> SUFFICES ASSUME TInv, WorkInv, MacInv, [Next]_vars PROVE MacInv'
  OBVIOUS
<1> USE DEF MacInv, Good, At
<1>1. CASE UNCHANGED macVars
  BY <1>1
<1>2. ASSUME NEW p \in Packagers, StoreContent(p) PROVE MacInv'
  <2>1. CASE work[p].target = "macos"
    <3>1. Mac!Store(work[p].content) /\ undoable' = undoable
      BY <1>2, <2>1 DEF StoreContent, Mac!Store
    <3>2. work[p].content \in Contents /\ Good(work[p].content)
      BY <1>2, <2>1 DEF StoreContent, Complete, WorkInv
    <3>3. work[p].content.execution = "none"
      BY <1>2, <2>1 DEF StoreContent, Complete, WorkInv
    <3>4. QED
      BY <3>1, <3>2, <3>3 DEF Mac!Store
  <2>2. QED
    BY <1>1, <1>2, <2>1 DEF StoreContent, Complete, WorkInv
<1>3. ASSUME NEW p \in Packagers, SelectContent(p) PROVE MacInv'
  <2>1. CASE work[p].target = "macos"
    <3>1. Mac!Select(work[p].content)
      BY <1>3, <2>1 DEF SelectContent
    <3>2. \A a \in Assemblers : macAge'[a] =
            IF macView[a] = None \/ macAge[a] = 2 THEN macAge[a] ELSE macAge[a] + 1
      BY <3>1 DEF Mac!Select
    <3>3. macAge' \in [Assemblers -> 0..2]
      BY <3>1 DEF Mac!Select
    <3>4. QED
      BY <3>1, <3>2, <3>3 DEF Mac!Select
  <2>2. QED
    BY <1>1, <1>3, <2>1 DEF SelectContent, WorkInv
<1>4. ASSUME NEW p \in Packagers, NEW c \in Available(work[p].target), PruneContent(p, c)
      PROVE  MacInv'
  <2>1. CASE work[p].target = "macos"
    <3>1. Mac!Drop(c)
      BY <1>4, <2>1 DEF PruneContent
    <3>2. \A a \in Assemblers : macAge[a] <= 1 => macView[a] # c
      BY <3>1 DEF Mac!Drop, Mac!Owed
    <3>3. QED
      BY <3>1, <3>2 DEF Mac!Drop
  <2>2. QED
    BY <1>1, <1>4, <2>1 DEF PruneContent, WorkInv
<1>5. ASSUME NEW a \in Assemblers, Leave(a) PROVE MacInv'
  BY <1>1, <1>5 DEF Leave, Mac!Close
<1>6. ASSUME NEW a \in Assemblers, OpenTarget(a) PROVE MacInv'
  <2>1. CASE UNCHANGED macVars \/ Leave(a)
    BY <1>1, <1>5, <2>1
  <2>2. CASE Current("macos") # None /\ Mac!Open(a)
    BY <2>2 DEF Mac!Open, Current
  <2>3. QED
    BY <1>6, <2>1, <2>2 DEF OpenTarget
<1>7. ASSUME NEW a \in Assemblers, VerifyTarget(a) PROVE MacInv'
  <2>1. CASE UNCHANGED macVars
    BY <1>1, <2>1
  <2>2. CASE Mac!Return(a) \/ Mac!Fail(a)
    BY <2>2 DEF Mac!Return, Mac!Fail
  <2>3. QED
    BY <1>7, <2>1, <2>2 DEF VerifyTarget
<1>8. ASSUME NEW a \in Assemblers, CheckOutput(a) PROVE MacInv'
  BY <1>1, <1>5, <1>8 DEF CheckOutput
<1>9. ASSUME NEW a \in Assemblers, PublishRelease(a) \/ EndAssembly(a) \/ KillAssembly(a)
      PROVE  MacInv'
  BY <1>5, <1>9 DEF PublishRelease, EndAssembly, KillAssembly
<1>10. QED
  BY <1>1, <1>2, <1>3, <1>4, <1>6, <1>7, <1>8, <1>9, StoreFrame DEF Stores

-----------------------------------------------------------------------------
(* The store of the musl target *)

LEMMA MuslStep == TInv /\ WorkInv /\ MuslInv /\ [Next]_vars => MuslInv'
<1> SUFFICES ASSUME TInv, WorkInv, MuslInv, [Next]_vars PROVE MuslInv'
  OBVIOUS
<1> USE DEF MuslInv, Good, At
<1>1. CASE UNCHANGED muslVars
  BY <1>1
<1>2. ASSUME NEW p \in Packagers, StoreContent(p) PROVE MuslInv'
  <2>1. CASE work[p].target = "musl"
    <3>1. Musl!Store(work[p].content) /\ undoable' = undoable
      BY <1>2, <2>1 DEF StoreContent, Musl!Store
    <3>2. work[p].content \in Contents /\ Good(work[p].content)
      BY <1>2, <2>1 DEF StoreContent, Complete, WorkInv
    <3>3. work[p].content.execution # "none"
      BY <1>2, <2>1 DEF StoreContent, Complete, WorkInv
    <3>4. QED
      BY <3>1, <3>2, <3>3 DEF Musl!Store
  <2>2. QED
    BY <1>1, <1>2, <2>1 DEF StoreContent, Complete, WorkInv
<1>3. ASSUME NEW p \in Packagers, SelectContent(p) PROVE MuslInv'
  <2>1. CASE work[p].target = "musl"
    <3>1. Musl!Select(work[p].content)
      BY <1>3, <2>1 DEF SelectContent
    <3>2. \A a \in Assemblers : muslAge'[a] =
            IF muslView[a] = None \/ muslAge[a] = 2 THEN muslAge[a] ELSE muslAge[a] + 1
      BY <3>1 DEF Musl!Select
    <3>3. muslAge' \in [Assemblers -> 0..2]
      BY <3>1 DEF Musl!Select
    <3>4. QED
      BY <3>1, <3>2, <3>3 DEF Musl!Select
  <2>2. QED
    BY <1>1, <1>3, <2>1 DEF SelectContent, WorkInv
<1>4. ASSUME NEW p \in Packagers, NEW c \in Available(work[p].target), PruneContent(p, c)
      PROVE  MuslInv'
  <2>1. CASE work[p].target = "musl"
    <3>1. Musl!Drop(c)
      BY <1>4, <2>1 DEF PruneContent
    <3>2. \A a \in Assemblers : muslAge[a] <= 1 => muslView[a] # c
      BY <3>1 DEF Musl!Drop, Musl!Owed
    <3>3. QED
      BY <3>1, <3>2 DEF Musl!Drop
  <2>2. QED
    BY <1>1, <1>4, <2>1 DEF PruneContent, WorkInv
<1>5. ASSUME NEW a \in Assemblers, Leave(a) PROVE MuslInv'
  BY <1>1, <1>5 DEF Leave, Musl!Close
<1>6. ASSUME NEW a \in Assemblers, OpenTarget(a) PROVE MuslInv'
  <2>1. CASE UNCHANGED muslVars \/ Leave(a)
    BY <1>1, <1>5, <2>1
  <2>2. CASE Current("musl") # None /\ Musl!Open(a)
    BY <2>2 DEF Musl!Open, Current
  <2>3. QED
    BY <1>6, <2>1, <2>2 DEF OpenTarget
<1>7. ASSUME NEW a \in Assemblers, VerifyTarget(a) PROVE MuslInv'
  <2>1. CASE UNCHANGED muslVars
    BY <1>1, <2>1
  <2>2. CASE Musl!Return(a) \/ Musl!Fail(a)
    BY <2>2 DEF Musl!Return, Musl!Fail
  <2>3. QED
    BY <1>7, <2>1, <2>2 DEF VerifyTarget
<1>8. ASSUME NEW a \in Assemblers, CheckOutput(a) PROVE MuslInv'
  BY <1>1, <1>5, <1>8 DEF CheckOutput
<1>9. ASSUME NEW a \in Assemblers, PublishRelease(a) \/ EndAssembly(a) \/ KillAssembly(a)
      PROVE  MuslInv'
  BY <1>5, <1>9 DEF PublishRelease, EndAssembly, KillAssembly
<1>10. QED
  BY <1>1, <1>2, <1>3, <1>4, <1>6, <1>7, <1>8, <1>9, StoreFrame DEF Stores

-----------------------------------------------------------------------------
(* The assemblies *)

\* What an assembly depends on.
Mine(a) == <<assembly[a], macView[a], macOut[a], muslView[a], muslOut[a]>>
Overtaken(a) == macAge[a] = 2 \/ muslAge[a] = 2

\* A step of anybody else leaves it alone, and does not make an age smaller.
LEMMA OthersKeep ==
  ASSUME TInv, WorkInv, MacInv, MuslInv, [Next]_vars, NEW a \in Assemblers, ~Assemble(a)
  PROVE  UNCHANGED Mine(a) /\ (Overtaken(a) => Overtaken(a)')
<1> USE DEF TInv, MacInv, MuslInv, Mine, Overtaken
<1>1. CASE UNCHANGED Stores
  <2>1. CASE UNCHANGED assembly
    BY <1>1, <2>1 DEF Stores
  <2>2. ASSUME NEW b \in Assemblers \ {a}, Assemble(b) PROVE assembly'[a] = assembly[a]
    BY <2>2
   DEF Assemble, StartAssembly, OpenTarget, VerifyTarget, CheckOutput, CopyAsset, CopyFails,
                PublishRelease, EndAssembly, KillAssembly, Leave, Gone, Goto, Assembled
  <2>3. ASSUME NEW p \in Packagers, Package(p) PROVE UNCHANGED assembly
    BY <2>3 DEF Package, BeginPackage, CopyStage, VerifyInstall, Qualify, IdentifySource,
                BuildInContainer, RecordRuntime, Promote, FinishPackage, KillPackager,
                StoreContent, SelectContent, PruneContent
  <2>4. CASE Commit \/ Wipe \/ InstallStage \/ RecordStage \/ UNCHANGED vars
    BY <2>1, <2>4 DEF Commit, Wipe, InstallStage, RecordStage
  <2>5. QED
    BY <1>1, <2>1, <2>2, <2>3, <2>4 DEF Next, Stores
<1>2. ASSUME NEW p \in Packagers, StoreContent(p)
      PROVE  UNCHANGED Mine(a) /\ (Overtaken(a) => Overtaken(a)')
  BY <1>2 DEF StoreContent, At, Mac!Store, Musl!Store
<1>3. ASSUME NEW p \in Packagers, SelectContent(p)
      PROVE  UNCHANGED Mine(a) /\ (Overtaken(a) => Overtaken(a)')
  BY <1>3 DEF SelectContent, At, Mac!Select, Musl!Select
<1>4. ASSUME NEW p \in Packagers, NEW c \in Available(work[p].target), PruneContent(p, c)
      PROVE  UNCHANGED Mine(a) /\ (Overtaken(a) => Overtaken(a)')
  BY <1>4 DEF PruneContent, At, Mac!Drop, Musl!Drop
<1>5. ASSUME NEW b \in Assemblers \ {a}, Leave(b)
      PROVE  UNCHANGED Mine(a) /\ (Overtaken(a) => Overtaken(a)')
  BY <1>5 DEF Leave, Gone, Mac!Close, Musl!Close
<1>6. ASSUME NEW b \in Assemblers \ {a}, OpenTarget(b)
      PROVE  UNCHANGED Mine(a) /\ (Overtaken(a) => Overtaken(a)')
  BY <1>5, <1>6 DEF OpenTarget, At, Mac!Open, Musl!Open
<1>7. ASSUME NEW b \in Assemblers \ {a}, VerifyTarget(b)
      PROVE  UNCHANGED Mine(a) /\ (Overtaken(a) => Overtaken(a)')
  BY <1>7 DEF VerifyTarget, At, Gone, Goto, Mac!Return, Musl!Return, Mac!Fail, Musl!Fail
<1>8. ASSUME NEW b \in Assemblers \ {a}, CheckOutput(b)
      PROVE  UNCHANGED Mine(a) /\ (Overtaken(a) => Overtaken(a)')
  BY <1>5, <1>8 DEF CheckOutput, Goto
<1>9. ASSUME NEW b \in Assemblers \ {a}, PublishRelease(b) \/ EndAssembly(b) \/ KillAssembly(b)
      PROVE  UNCHANGED Mine(a) /\ (Overtaken(a) => Overtaken(a)')
  BY <1>5, <1>9 DEF PublishRelease, EndAssembly, KillAssembly
<1>10. QED
  BY <1>1, <1>2, <1>3, <1>4, <1>6, <1>7, <1>8, <1>9, StoreFrame DEF Assemble

\* After a call is over nothing is remembered.
LEMMA LeaveKept ==
  ASSUME TInv, NEW a \in Assemblers, Leave(a)
  PROVE  Kept(a)'
BY DEF TInv, Leave, Gone, Kept, NoAssembly

LEMMA AssemblyStep ==
  TInv /\ WorkInv /\ MacInv /\ MuslInv /\ AssemblyInv /\ [Next]_vars => AssemblyInv'
<1> SUFFICES ASSUME TInv, WorkInv, MacInv, MuslInv, AssemblyInv, [Next]_vars, NEW a \in Assemblers
             PROVE  Kept(a)'
  BY DEF AssemblyInv
<1> USE DEF TInv
<1>1. Kept(a)
  BY DEF AssemblyInv
<1>2. CASE ~Assemble(a)
  <2>1. UNCHANGED Mine(a) /\ (Overtaken(a) => Overtaken(a)')
    BY <1>2, OthersKeep
  <2>2. QED
    BY <1>1, <2>1 DEF Kept, Mine, Overtaken, Seen, Asset
<1>3. CASE StartAssembly(a)
  BY <1>3 DEF StartAssembly, Kept
<1>4. CASE OpenTarget(a)
  <2>1. CASE Leave(a)
    BY <2>1, LeaveKept
  <2>2. CASE assembly[a].at = "musl" /\ Musl!Open(a) /\ UNCHANGED <<assembly, macVars>>
    BY <1>1, <2>2 DEF Kept, Musl!Open, AssemblySteps
  <2>3. CASE assembly[a].at = "macos" /\ Mac!Open(a) /\ UNCHANGED <<assembly, muslVars>>
    BY <1>1, <2>3 DEF Kept, Mac!Open, AssemblySteps
  <2>4. QED
    BY <1>4, <2>1, <2>2, <2>3 DEF OpenTarget, At
<1>5. CASE VerifyTarget(a)
  <2>1. CASE Gone(a, "failed")
    BY <2>1 DEF Gone, Kept, NoAssembly
  <2>2. CASE /\ assembly[a].at = "musl" /\ Musl!Return(a) /\ UNCHANGED macVars
             /\ Goto(a, "musl", IF Acceptable(a, "musl") THEN After("musl") ELSE "failed")
    BY <1>1, <2>2 DEF Kept, Musl!Return, Goto, Acceptable, After, Seen, MuslInv
  <2>3. CASE /\ assembly[a].at = "macos" /\ Mac!Return(a) /\ UNCHANGED muslVars
             /\ Goto(a, "macos", IF Acceptable(a, "macos") THEN After("macos") ELSE "failed")
    BY <1>1, <2>3 DEF Kept, Mac!Return, Goto, Acceptable, After, Seen, MacInv
  <2>4. QED
    BY <1>5, <2>1, <2>2, <2>3 DEF VerifyTarget, At
<1>6. CASE CheckOutput(a)
  <2>1. CASE Goto(a, "checking", "copying") /\ UNCHANGED <<macVars, muslVars>>
    BY <1>1, <2>1 DEF Goto, Kept
  <2>2. QED
    BY <1>6, <2>1, LeaveKept DEF CheckOutput
<1>7. CASE CopyAsset(a)
  <2>1. PICK tp \in Wanted(a) :
          Assembled(a, {Asset(tp[1], tp[2], Source(a, tp[1], tp[2]))})
    BY <1>7 DEF CopyAsset
  <2>2. UNCHANGED <<macVars, muslVars>> /\ assembly[a].at = "copying"
    BY <1>7 DEF CopyAsset
  <2>3. assembly'[a] = [assembly[a] EXCEPT !.copies = @ \union {Asset(tp[1], tp[2], Seen(tp[1], a))}]
    BY <2>1 DEF Assembled, Source
  <2>4. QED
    BY <1>1, <2>2, <2>3 DEF Kept, Asset, Seen
<1>8. CASE CopyFails(a)
  <2>1. PICK tp \in Wanted(a) : ~OnDisk(tp[1], Source(a, tp[1], tp[2]))
    BY <1>8 DEF CopyFails
  <2>2. Gone(a, "lost") /\ UNCHANGED <<macVars, muslVars>> /\ assembly[a].at = "copying"
    BY <1>8 DEF CopyFails
  <2>3. macOut[a] = "holding" /\ muslOut[a] = "holding"
    BY <1>1, <2>2 DEF Kept
  <2>4. CASE macView[a] \notin macAvailable
    BY <2>2, <2>3, <2>4 DEF Gone, Kept, NoAssembly, MacInv
  <2>5. CASE muslView[a] \notin muslAvailable
    BY <2>2, <2>3, <2>5 DEF Gone, Kept, NoAssembly, MuslInv
  <2>6. QED
    BY <2>1, <2>4, <2>5 DEF OnDisk, Source, Seen, Available
<1>9. CASE PublishRelease(a) \/ EndAssembly(a) \/ KillAssembly(a)
  BY <1>9, LeaveKept DEF PublishRelease, EndAssembly, KillAssembly
<1>10. QED
  BY <1>2, <1>3, <1>4, <1>5, <1>6, <1>7, <1>8, <1>9 DEF Assemble

-----------------------------------------------------------------------------
(* Types and the release directory *)

LEMMA MovedType ==
  ASSUME NEW w \in Works, w.content \in Drafts
  PROVE  [w EXCEPT !.content.moved = TRUE] \in Works
<1>1. [w.content EXCEPT !.moved = TRUE] \in Drafts
  OBVIOUS
<1>2. [w EXCEPT !.content = [w.content EXCEPT !.moved = TRUE]] \in Works
  <2> HIDE DEF Drafts
  <2>1. QED
    BY <1>1
<1>3. QED
  BY <1>2

LEMMA TypeStep == TInv /\ WorkInv /\ MacInv /\ MuslInv /\ AssemblyInv /\ [Next]_vars => TInv'
<1> SUFFICES ASSUME TInv, WorkInv, MacInv, MuslInv, AssemblyInv, [Next]_vars PROVE TInv'
  OBVIOUS
<1> USE DEF TInv, WorkSteps, AssemblySteps, NoWork, NoAssembly, Artifact
<1>1. CASE Wipe \/ InstallStage \/ RecordStage \/ UNCHANGED vars
  <2>1. CASE Wipe
    BY <2>1 DEF Wipe
  <2>2. CASE InstallStage
    BY <2>2 DEF InstallStage
  <2>3. CASE RecordStage
    BY <2>3 DEF RecordStage
  <2>4. CASE UNCHANGED vars
    BY <2>4
  <2>5. QED
    BY <1>1, <2>1, <2>2, <2>3, <2>4
<1>0. CASE Commit
  <2>1. work' \in [Packagers -> Works]
    <3> SUFFICES ASSUME NEW p \in Packagers
                 PROVE  (IF work[p].at = "identified"
                           THEN [work[p] EXCEPT !.content.moved = TRUE] ELSE work[p]) \in Works
      BY <1>0 DEF Commit
    <3>1. CASE work[p].at = "identified"
      <4>1. work[p].content \in Drafts
        BY <3>1 DEF WorkInv
      <4>2. QED
        BY <3>1, <4>1, MovedType
    <3>2. QED
      BY <3>1
  <2>2. /\ head' \in Revisions
        /\ tree' \in [from : Revisions, noted : Revisions \union {None}, moved : BOOLEAN]
    BY <1>0 DEF Commit
  <2>3. UNCHANGED <<stage, assembly, release, undoable>>
    BY <1>0 DEF Commit
  <2>4. QED
    BY <2>1, <2>2, <2>3
<1>2. ASSUME NEW p \in Packagers, StoreContent(p) \/ SelectContent(p) PROVE TInv'
  <2>1. UNCHANGED <<stageVars, assembly, release>>
    BY <1>2 DEF StoreContent, SelectContent
  <2>2. work' \in [Packagers -> Works]
    BY <1>2 DEF StoreContent, SelectContent
  <2>3. work[p].content \in Contents /\ work[p].target \in Targets
    BY <1>2 DEF StoreContent, SelectContent, Complete, WorkInv
  <2>4. undoable' = undoable
    BY <1>2, <2>3
   DEF StoreContent, SelectContent, At, Mac!Store, Musl!Store, Mac!Select, Musl!Select
  <2>5. QED
    BY <2>1, <2>2, <2>4
<1>3. ASSUME NEW p \in Packagers, NEW c \in Available(work[p].target), PruneContent(p, c)
      PROVE  TInv'
  BY <1>3 DEF PruneContent, At, Mac!Drop, Musl!Drop

<1>4. ASSUME NEW p \in Packagers, BeginPackage(p) PROVE TInv'
  BY <1>4 DEF BeginPackage, WorkInv
<1>5. ASSUME NEW p \in Packagers, CopyStage(p) PROVE TInv'
  BY <1>5 DEF CopyStage, WorkInv
<1>6. ASSUME NEW p \in Packagers, VerifyInstall(p) PROVE TInv'
  BY <1>6 DEF VerifyInstall, WorkInv
<1>7. ASSUME NEW p \in Packagers, Qualify(p) PROVE TInv'
  BY <1>7, PassingKept DEF Qualify, WorkInv
<1>8. ASSUME NEW p \in Packagers, IdentifySource(p) PROVE TInv'
  BY <1>8 DEF IdentifySource, WorkInv
<1>9. ASSUME NEW p \in Packagers, BuildInContainer(p) PROVE TInv'
  BY <1>9 DEF BuildInContainer, WorkInv
<1>10. ASSUME NEW p \in Packagers, RecordRuntime(p) PROVE TInv'
  BY <1>10 DEF RecordRuntime, WorkInv
<1>11. ASSUME NEW p \in Packagers, Promote(p) PROVE TInv'
  <2>1. PICK t \in Targets, revision \in Revisions :
          work' = [work EXCEPT ![p] = [at |-> "qualified", target |-> t, flags |-> None, content |->
            [Artifact(revision) EXCEPT !.built = revision,
                                       !.execution = IF t = "musl" THEN "native" ELSE "none"]]]
    BY <1>11 DEF Promote
  <2>2. [Artifact(revision) EXCEPT !.built = revision,
           !.execution = IF t = "musl" THEN "native" ELSE "none"] \in Drafts
    OBVIOUS
  <2>3. QED
    BY <1>11, <2>1, <2>2 DEF Promote
<1>12. ASSUME NEW p \in Packagers, FinishPackage(p) PROVE TInv'
  BY <1>12 DEF FinishPackage, WorkInv
<1>13. ASSUME NEW p \in Packagers, KillPackager(p) PROVE TInv'
  BY <1>13 DEF KillPackager, WorkInv
<1>14. ASSUME NEW a \in Assemblers, Leave(a)
      PROVE  assembly' \in [Assemblers -> [at : AssemblySteps, want : Revisions \union {None},
                                           copies : SUBSET Assets]] /\ undoable' = undoable
  BY <1>14 DEF Leave, Gone, Mac!Close, Musl!Close
<1>15. ASSUME NEW a \in Assemblers, StartAssembly(a) PROVE TInv'
  BY <1>15 DEF StartAssembly
<1>16. ASSUME NEW a \in Assemblers, OpenTarget(a) PROVE TInv'
  BY <1>16, <1>14 DEF OpenTarget, At, Mac!Open, Musl!Open
<1>17. ASSUME NEW a \in Assemblers, VerifyTarget(a) PROVE TInv'
  BY <1>17 DEF VerifyTarget, At, Goto, Gone, After, Mac!Return, Musl!Return, Mac!Fail, Musl!Fail
<1>18. ASSUME NEW a \in Assemblers, CheckOutput(a) PROVE TInv'
  <2>1. CASE Leave(a)
    BY <1>18, <2>1, <1>14 DEF CheckOutput
  <2>2. CASE Goto(a, "checking", "copying") /\ UNCHANGED <<macVars, muslVars>>
    BY <1>18, <2>2 DEF CheckOutput, Goto
  <2>3. QED
    BY <1>18, <2>1, <2>2 DEF CheckOutput
<1>19. ASSUME NEW a \in Assemblers, CopyAsset(a) PROVE TInv'
  <2>1. PICK tp \in Wanted(a) :
          assembly' = [assembly EXCEPT ![a].copies = @ \union {Asset(tp[1], tp[2], Seen(tp[1], a))}]
    BY <1>19 DEF CopyAsset, Assembled, Source
  <2>2. macView[a] \in Contents /\ muslView[a] \in Contents
    BY <1>19 DEF CopyAsset, AssemblyInv, Kept, MacInv, MuslInv
  <2>3. Asset(tp[1], tp[2], Seen(tp[1], a)) \in Assets
    BY <2>2 DEF Wanted, Left, Seen, Asset, Assets
  <2>4. QED
    BY <1>19, <2>1, <2>3 DEF CopyAsset
<1>20. ASSUME NEW a \in Assemblers, CopyFails(a) PROVE TInv'
  BY <1>20 DEF CopyFails, Gone
<1>21. ASSUME NEW a \in Assemblers, PublishRelease(a) \/ EndAssembly(a) \/ KillAssembly(a)
       PROVE  TInv'
  BY <1>21, <1>14 DEF PublishRelease, EndAssembly, KillAssembly
<1>22. QED
  BY <1>0, <1>1, <1>2, <1>3, <1>4, <1>5, <1>6, <1>7, <1>8, <1>9, <1>10, <1>11, <1>12, <1>13, <1>14,
     <1>15, <1>16, <1>17, <1>18, <1>19, <1>20, <1>21
  DEF Next, Package, Assemble

\* The next copy is always defined while one is left.
LEMMA WantedNothing ==
  ASSUME NEW a \in Assemblers, Wanted(a) = {}
  PROVE  Left(a) = {}
<1>1. <<"musl", "archive">> \notin Left(a)
  BY DEF Wanted, Left
<1>2. <<"musl", "manifest">> \notin Left(a)
  BY <1>1 DEF Wanted, Left
<1>3. <<"macos", "archive">> \notin Left(a)
  BY <1>1, <1>2 DEF Wanted, Left
<1>4. <<"macos", "manifest">> \notin Left(a)
  BY <1>1, <1>2, <1>3 DEF Wanted, Left
<1>5. QED
  BY <1>1, <1>2, <1>3, <1>4 DEF Left

\* Only a finished assembly touches the release directory.
LEMMA ReleaseFrame ==
  ASSUME [Next]_vars
  PROVE  UNCHANGED release \/ \E a \in Assemblers : PublishRelease(a)
<1>1. ASSUME NEW p \in Packagers, Package(p) PROVE UNCHANGED release
  BY <1>1 DEF Package, BeginPackage, CopyStage, VerifyInstall, Qualify, IdentifySource,
              BuildInContainer, RecordRuntime, Promote, FinishPackage, KillPackager,
              StoreContent, SelectContent, PruneContent
<1>2. ASSUME NEW a \in Assemblers, Assemble(a), ~PublishRelease(a) PROVE UNCHANGED release
  BY <1>2 DEF Assemble, StartAssembly, OpenTarget, VerifyTarget, CheckOutput, CopyAsset, CopyFails,
              EndAssembly, KillAssembly
<1>3. CASE Commit \/ Wipe \/ InstallStage \/ RecordStage \/ UNCHANGED vars
  BY <1>3 DEF Commit, Wipe, InstallStage, RecordStage
<1>4. QED
  BY <1>1, <1>2, <1>3 DEF Next

LEMMA WholeStep == TInv /\ MacInv /\ MuslInv /\ AssemblyInv /\ WholeInv /\ [Next]_vars => WholeInv'
<1> SUFFICES ASSUME TInv, MacInv, MuslInv, AssemblyInv, WholeInv, [Next]_vars PROVE WholeInv'
  OBVIOUS
<1>1. CASE UNCHANGED release
  BY <1>1 DEF WholeInv
<1>2. ASSUME NEW a \in Assemblers, PublishRelease(a) PROVE WholeInv'
  <2> DEFINE mac == macView[a]
             musl == muslView[a]
  <2>1. assembly[a].at = "copying" /\ Left(a) = {}
    BY <1>2, WantedNothing DEF PublishRelease
  <2>2. /\ mac \in Contents
        /\ musl \in Contents /\ musl.execution = "native"
        /\ mac.revision = musl.revision
    BY <2>1 DEF AssemblyInv, Kept, MacInv, MuslInv
  <2>3. \A x \in assembly[a].copies : x = Asset(x.target, x.part, Seen(x.target, a))
    BY DEF AssemblyInv, Kept
  <2>4. \A x \in assembly[a].copies : x.target \in Targets /\ x.part \in Parts
    BY DEF TInv, Assets
  <2>5. \A t \in Targets, part \in Parts : Asset(t, part, Seen(t, a)) \in assembly[a].copies
    <3>1. TAKE t \in Targets, part \in Parts
    <3>2. <<t, part>> \in Targets \X Parts /\ <<t, part>>[1] = t /\ <<t, part>>[2] = part
      OBVIOUS
    <3>3. Has(a, t, part)
      BY <2>1, <3>2 DEF Left
    <3>4. QED
      BY <2>3, <3>3 DEF Has
  <2>6. assembly[a].copies = {Asset("macos", part, mac) : part \in Parts}
                               \union {Asset("musl", part, musl) : part \in Parts}
    BY <2>3, <2>4, <2>5 DEF Seen
  <2>7. release' = release \/ release' = assembly[a].copies
    BY <1>2 DEF PublishRelease
  <2>8. CASE release' = assembly[a].copies
    BY <2>2, <2>6, <2>8 DEF WholeInv
  <2>9. QED
    BY <1>1, <2>7, <2>8
<1>3. QED
  BY <1>1, <1>2, ReleaseFrame

-----------------------------------------------------------------------------
(* Theorems *)

LEMMA Initially == Init => IInv
<1> SUFFICES ASSUME Init PROVE IInv
  OBVIOUS
<1> USE DEF Init, NoWork, NoAssembly, Artifact, Good
<1>1. TInv
  BY DEF TInv, WorkSteps, AssemblySteps
<1>2. TreeInv /\ WorkInv
  BY DEF TreeInv, WorkInv
<1>3. MacInv
  <2>1. macCurrent # None => macCurrent =
          [built |-> head, moved |-> FALSE, revision |-> head, failures |-> "registered",
           execution |-> "none"]
    OBVIOUS
  <2>2. /\ macAvailable = {macCurrent} \ {None} /\ macView = [a \in Assemblers |-> None]
        /\ macAge = [a \in Assemblers |-> 0] /\ macOut = [a \in Assemblers |-> "idle"]
        /\ head \in Revisions
    OBVIOUS
  <2>3. macCurrent # None => macCurrent \in Contents /\ Good(macCurrent) /\ macCurrent.execution = "none"
    BY <2>1, <2>2
  <2> HIDE DEF Contents, Good
  <2>4. QED
    BY <2>2, <2>3 DEF MacInv
<1>4. MuslInv
  <2>1. muslCurrent # None => muslCurrent =
          [built |-> head, moved |-> FALSE, revision |-> head, failures |-> "registered",
           execution |-> "native"]
    OBVIOUS
  <2>2. /\ muslAvailable = {muslCurrent} \ {None} /\ muslView = [a \in Assemblers |-> None]
        /\ muslAge = [a \in Assemblers |-> 0] /\ muslOut = [a \in Assemblers |-> "idle"]
        /\ head \in Revisions
    OBVIOUS
  <2>3. muslCurrent # None =>
          muslCurrent \in Contents /\ Good(muslCurrent) /\ muslCurrent.execution # "none"
    <3> SUFFICES ASSUME muslCurrent # None
                 PROVE  muslCurrent \in Contents /\ Good(muslCurrent) /\ muslCurrent.execution # "none"
      OBVIOUS
    <3> DEFINE c == [built |-> head, moved |-> FALSE, revision |-> head, failures |-> "registered",
                     execution |-> "native"]
    <3>1. c \in Contents /\ Good(c) /\ c.execution # "none"
      BY <2>2
    <3>2. QED
      BY <2>1, <3>1
  <2> HIDE DEF Contents, Good
  <2>4. QED
    BY <2>2, <2>3 DEF MuslInv
<1>5. AssemblyInv
  BY DEF AssemblyInv, Kept
<1>6. WholeInv
  BY DEF WholeInv
<1>7. QED
  BY <1>1, <1>2, <1>3, <1>4, <1>5, <1>6 DEF IInv

LEMMA Inductive == Spec => []IInv
<1>1. IInv /\ [Next]_vars => IInv'
  BY TypeStep, TreeStep, WorkStep, MacStep, MuslStep, AssemblyStep, WholeStep DEF IInv
<1>2. QED
  BY Initially, <1>1, PTL DEF Spec

\* Every variable keeps its type; what runs natively is musl's.
THEOREM TypeCorrect == Spec => []TypeOK
<1>1. ASSUME IInv PROVE TypeOK
  <2>1. TInv /\ WorkInv /\ MacInv /\ MuslInv
    BY <1>1 DEF IInv
  <2>2. Mac!TypeOK
    BY <2>1 DEF TInv, MacInv, Mac!TypeOK, Mac!Outcomes
  <2>3. Musl!TypeOK
    BY <2>1 DEF TInv, MuslInv, Musl!TypeOK, Musl!Outcomes
  <2>4. QED
    BY <2>1, <2>2, <2>3 DEF TInv, MacInv, MuslInv, Assets, TypeOK
<1>2. IInv => TypeOK
  BY <1>1
<1>3. QED
  BY Inductive, <1>2, PTL

\* However builds, commits and packagings overlap, whatever is active was built from
\* the revision its manifest names, unless there was a commit between the reading of the
\* inputs of its build and the reading of that revision.
THEOREM ActiveIsFromItsRevision == Spec => []BuiltFromItsRevision
<1>1. IInv => BuiltFromItsRevision
  BY DEF IInv, MacInv, MuslInv, Good, BuiltFromItsRevision, Current
<1>2. QED
  BY Inductive, <1>1, PTL

\* A failed test that is not registered keeps its package out of dist/ if any solo attempt
\* fails in it again, whatever the other attempts show, and always if its file has no
\* registered case.
THEOREM FailuresAreKept == Spec => []ShownFailuresCount
<1>1. IInv => ShownFailuresCount
  BY DEF IInv, MacInv, MuslInv, Good, ShownFailuresCount, Current
<1>2. QED
  BY Inductive, <1>1, PTL

\* A release is whole: for every target the archive and the manifest of one generation,
\* all of one revision, Linux run natively.
THEOREM ReleasesAreWhole == Spec => []ReleaseIsWhole
<1>1. ASSUME IInv PROVE ReleaseIsWhole
  <2>1. CASE release = {}
    BY <2>1 DEF ReleaseIsWhole
  <2>2. CASE release # {}
    <3>1. PICK mac, musl \in Contents :
            /\ release = {Asset("macos", part, mac) : part \in Parts}
                           \union {Asset("musl", part, musl) : part \in Parts}
            /\ mac.revision = musl.revision
            /\ musl.execution = "native"
      BY <1>1, <2>2 DEF IInv, WholeInv
    <3>2. mac.revision \in Revisions
      BY <3>1
    <3>3. {x \in release : x.target = "macos"} = {Asset("macos", part, mac) : part \in Parts}
      BY <3>1 DEF Asset
    <3>4. {x \in release : x.target = "musl"} = {Asset("musl", part, musl) : part \in Parts}
      BY <3>1 DEF Asset
    <3>5. mac \in {x.content : x \in release} /\ musl \in {x.content : x \in release}
      <4>1. Asset("macos", "archive", mac) \in release /\ Asset("musl", "archive", musl) \in release
        BY <3>1
      <4>2. /\ Asset("macos", "archive", mac).content = mac
            /\ Asset("musl", "archive", musl).content = musl
        BY DEF Asset
      <4>3. QED
        BY <4>1, <4>2
    <3>6. QED
      BY <3>1, <3>2, <3>3, <3>4, <3>5 DEF ReleaseIsWhole
  <2>3. QED
    BY <2>1, <2>2
<1>2. IInv => ReleaseIsWhole
  BY <1>1
<1>3. QED
  BY Inductive, <1>2, PTL

\* An assembly loses files it had verified only when two publications of one target
\* have overtaken it.
THEOREM LostIsOvertaken == Spec => []LostOnlyWhenOvertaken
<1>1. IInv => LostOnlyWhenOvertaken
  BY DEF IInv, AssemblyInv, Kept, LostOnlyWhenOvertaken, Age
<1>2. QED
  BY Inductive, <1>1, PTL
=============================================================================
