------------------------- MODULE GenerationsProofs -------------------------
(***************************************************************************)
(* The safety of Generations for any number of publishers, readers,        *)
(* contents and files, with any number of calls, kills and power losses,   *)
(* provided no content is published over a directory of it that is on disk *)
(* only in part.                                                           *)
(***************************************************************************)
EXTENDS Generations, TLAPS

PreSelect == Staging \union {"installed", "settled", "pending"}
PostSelect == {"selected", "pruning", "done"}

\* Exactly the lock holder is between flock and return.
LockInv == \A p \in Publishers : pc[p] \in Holding <=> lock = p

\* The staging directory is filled, then sealed, then renamed, by the lock holder.
StageInv ==
  /\ lock = None => staged = {}
  /\ \A p \in Publishers :
       /\ pc[p] = "copy" => staged \subseteq Files
       /\ pc[p] \in {"recorded", "sealed"} => staged = Listed
       /\ pc[p] = "sealed" => sealed
       /\ pc[p] \in Holding \ Staging => staged = {}

\* What is visible is among what may survive; no entry without its directory, and no
\* durable ACTIVE without a durable generations/ beside it.
DiskInv ==
  /\ \A c \in Contents : gens[c] \in mayGens[c]
  /\ \A c \in Contents : \A S \in mayGens[c] : S = {} \/ SELF \in S
  /\ active \in mayActive
  /\ ~linked => None \in mayActive

\* The generation being published is not torn, then whole, then durable.
TargetInv ==
  \A p \in Publishers :
    /\ pc[p] \in Holding => content[p] \in Contents
    /\ pc[p] \in Staging => gens[content[p]] \in {{}, Whole}
    /\ pc[p] = "installed" => gens[content[p]] = Whole
    /\ pc[p] \in {"settled", "pending"} \union PostSelect => mayGens[content[p]] = {Whole}

\* How ACTIVE relates to the ids the lock holder remembers.
SelectInv ==
  \A p \in Publishers :
    /\ pc[p] \in PreSelect => previous[p] = active
    /\ pc[p] \in PostSelect => active = content[p]
    /\ pc[p] \in {"pruning", "done"} => mayActive = {content[p]}

\* A reader overtaken at most once reads a generation the lock holder keeps.
ReaderInv ==
  \A r \in Readers :
    /\ rpc[r] # "idle" => view[r] # None
    /\ view[r] # None /\ age[r] = 0 => view[r] = active
    /\ \A p \in Publishers :
         view[r] # None /\ age[r] <= 1 /\ pc[p] \in PostSelect => view[r] \in Keep(p)

\* No id ACTIVE may survive with is older than the last acknowledged one.
NothingOlder == mayActive \subseteq later

IInv ==
  /\ TypeOK
  /\ LockInv
  /\ StageInv
  /\ DiskInv
  /\ TargetInv
  /\ SelectInv
  /\ ReaderInv
  /\ ActiveVerifies
  /\ ReaderKeepsFiles
  /\ FailsOnlyWhenOvertaken
  /\ NothingOlder
  /\ Tidy
-----------------------------------------------------------------------------
(* Type correctness *)

USE NamesAssumption DEF Listed, Whole, Staging, Holding, PCs, ReaderPCs, nameVars

LEMMA TypeStep == TypeOK /\ [Next]_vars => TypeOK'
<1> SUFFICES ASSUME TypeOK, [Next]_vars PROVE TypeOK'
  OBVIOUS
<1> USE DEF TypeOK, diskVars, stageVars, leftVars, jobVars, readVars, countVars, elseVars,
            publishVars, Goto
<1>1. ASSUME NEW p \in Publishers, Begin(p)
      PROVE  TypeOK'
  BY <1>1 DEF Begin
<1>2. ASSUME NEW p \in Publishers, NEW c \in Contents, Acquire(p, c)
      PROVE  TypeOK'
  BY <1>2 DEF Enter, Acquire
<1>3. ASSUME NEW p \in Publishers, NEW name \in Files, CopySynced(p, name)
      PROVE  TypeOK'
  BY <1>3 DEF CopySynced
<1>4. ASSUME NEW p \in Publishers, WriteRecord(p)
      PROVE  TypeOK'
  BY <1>4 DEF WriteRecord
<1>5. ASSUME NEW p \in Publishers, SyncStaging(p)
      PROVE  TypeOK'
  BY <1>5 DEF SyncStaging
<1>6. ASSUME NEW p \in Publishers, Install(p)
      PROVE  TypeOK'
  <2>1. StagedOutcomes \subseteq SUBSET Whole
    BY DEF StagedOutcomes
  <2>2. gens' \in [Contents -> SUBSET Whole]
    BY <1>6 DEF Install
  <2>3. mayGens' \in [Contents -> SUBSET SUBSET Whole]
    BY <1>6, <2>1 DEF Install
  <2>4. QED
    BY <1>6, <2>2, <2>3 DEF Install
<1>7. ASSUME NEW p \in Publishers, SyncGenerations(p)
      PROVE  TypeOK'
  BY <1>7 DEF SyncGenerations
<1>8. ASSUME NEW p \in Publishers, WritePending(p)
      PROVE  TypeOK'
  BY <1>8 DEF WritePending
<1>9. ASSUME NEW p \in Publishers, ReplaceActive(p)
      PROVE  TypeOK'
  BY <1>9 DEF Older, ReplaceActive
<1>10. ASSUME NEW p \in Publishers, SyncTarget(p)
      PROVE  TypeOK'
  BY <1>10 DEF SyncTarget
<1>11. ASSUME NEW p \in Publishers, NEW c \in Contents, NEW e \in Whole, RemoveEntry(p, c, e)
      PROVE  TypeOK'
  BY <1>11 DEF RemoveEntry
<1>12. ASSUME NEW p \in Publishers, RemoveLitter(p)
      PROVE  TypeOK'
  BY <1>12 DEF RemoveLitter
<1>13. ASSUME NEW p \in Publishers, UnlinkPending(p)
      PROVE  TypeOK'
  BY <1>13 DEF UnlinkPending
<1>14. ASSUME NEW p \in Publishers, Return(p)
      PROVE  TypeOK'
  BY <1>14 DEF Forget, Return
<1>15. ASSUME NEW p \in Publishers, Kill(p)
      PROVE  TypeOK'
  BY <1>15 DEF Forget, Kill
<1>16. ASSUME NEW r \in Readers, ReadActive(r)
      PROVE  TypeOK'
  BY <1>16 DEF ReadActive
<1>17. ASSUME NEW r \in Readers, ReadRecord(r)
      PROVE  TypeOK'
  BY <1>17 DEF ReadRecord
<1>18. ASSUME NEW r \in Readers, ListEntries(r)
      PROVE  TypeOK'
  BY <1>18 DEF ListEntries
<1>19. ASSUME NEW r \in Readers, NEW f \in Files, VerifyFile(r, f)
      PROVE  TypeOK'
  BY <1>19 DEF VerifyPresent, VerifyFile
<1>20. ASSUME NEW r \in Readers, ReturnDirectory(r)
      PROVE  TypeOK'
  BY <1>20 DEF ReturnDirectory
<1>21. ASSUME NEW r \in Readers, Close(r)
      PROVE  TypeOK'
  BY <1>21 DEF Close
<1>22. ASSUME PowerLoss
      PROVE  TypeOK'
  <2>1. UNION {mayGens[c] : c \in Contents} \subseteq SUBSET Whole
    OBVIOUS
  <2>2. gens' \in [Contents -> SUBSET Whole]
    BY <1>22, <2>1 DEF PowerLoss, ChangesLost, NamesLost, GenerationsGone
  <2>3. mayGens' \in [Contents -> SUBSET SUBSET Whole]
    BY <1>22, <2>2 DEF PowerLoss, ChangesLost, NamesLost, GenerationsGone
  <2>4. active' \in Contents \union {None} /\ mayActive' \subseteq Contents \union {None}
    BY <1>22 DEF PowerLoss, ChangesLost, NamesLost, GenerationsGone
  <2>5. /\ lock' \in Publishers \union {None}
        /\ staged' \subseteq Listed
        /\ rooted' \in BOOLEAN /\ linked' \in BOOLEAN
        /\ sealed' \in BOOLEAN /\ litter' \in BOOLEAN /\ stale' \in BOOLEAN
        /\ pc' \in [Publishers -> PCs]
        /\ content' \in [Publishers -> Contents \union {None}]
        /\ previous' \in [Publishers -> Contents \union {None}]
    BY <1>22 DEF PowerLoss, ChangesLost, NamesLost, GenerationsGone
  <2>6. /\ rpc' \in [Readers -> ReaderPCs]
        /\ view' \in [Readers -> Contents \union {None}]
        /\ checked' \in [Readers -> SUBSET Files]
        /\ age' \in [Readers -> 0..2]
        /\ later' \subseteq Contents \union {None}
        /\ calls' \in Nat /\ kills' \in Nat /\ losses' \in Nat
    BY <1>22 DEF PowerLoss, ChangesLost, NamesLost, GenerationsGone
  <2>7. QED
    BY <2>2, <2>3, <2>4, <2>5, <2>6
<1>23. ASSUME UNCHANGED vars
      PROVE  TypeOK'
  BY <1>23 DEF vars
<1>24. QED
  BY <1>1, <1>2, <1>3, <1>4, <1>5, <1>6, <1>7, <1>8, <1>9, <1>10, <1>11, <1>12, <1>13, <1>14, <1>15, <1>16, <1>17, <1>18, <1>19, <1>20, <1>21, <1>22, <1>23 DEF Next, Step, Read

LEMMA TypeInit == Init => TypeOK
<1> SUFFICES ASSUME Init PROVE TypeOK
  OBVIOUS
<1>1. {{}} \in SUBSET SUBSET Whole
  OBVIOUS
<1>2. /\ gens \in [Contents -> SUBSET Whole]
      /\ mayGens \in [Contents -> SUBSET SUBSET Whole]
      /\ active \in Contents \union {None}
      /\ mayActive \subseteq Contents \union {None}
  BY <1>1 DEF Init
<1>3. /\ lock \in Publishers \union {None}
      /\ staged \subseteq Listed
      /\ rooted \in BOOLEAN /\ linked \in BOOLEAN
      /\ sealed \in BOOLEAN /\ litter \in BOOLEAN /\ stale \in BOOLEAN
      /\ pc \in [Publishers -> PCs]
      /\ content \in [Publishers -> Contents \union {None}]
      /\ previous \in [Publishers -> Contents \union {None}]
  BY DEF Init
<1>4. /\ rpc \in [Readers -> ReaderPCs]
      /\ view \in [Readers -> Contents \union {None}]
      /\ checked \in [Readers -> SUBSET Files]
      /\ age \in [Readers -> 0..2]
      /\ later \subseteq Contents \union {None}
      /\ calls \in Nat /\ kills \in Nat /\ losses \in Nat
  BY DEF Init
<1>5. QED
  BY <1>2, <1>3, <1>4 DEF TypeOK

\* Every variable keeps its type.
THEOREM TypeCorrect == Spec => []TypeOK
BY TypeInit, TypeStep, PTL DEF Spec

-----------------------------------------------------------------------------
(* The inductive invariant, part by part *)

LEMMA ReadersOnlyRead ==
  ASSUME NEW r \in Readers, ReadActive(r) \/ Read(r) \/ Close(r)
  PROVE  UNCHANGED publishVars
BY DEF Read, ReadActive, ReadRecord, ListEntries, VerifyFile, VerifyPresent, ReturnDirectory, Close

\* flock admits one process at a time, and a dead one no longer holds it.
LEMMA LockStep ==
  ASSUME TypeOK, LockInv, [Next]_vars PROVE LockInv'
<1> USE DEF TypeOK, LockInv, diskVars, stageVars, leftVars, jobVars, readVars, countVars, elseVars,
            publishVars, Goto
<1>1. ASSUME NEW p \in Publishers, Begin(p)
      PROVE  LockInv'
  BY <1>1 DEF Begin
<1>2. ASSUME NEW p \in Publishers, NEW c \in Contents, Acquire(p, c)
      PROVE  LockInv'
  BY <1>2 DEF Enter, Acquire
<1>3. ASSUME NEW p \in Publishers, NEW name \in Files, CopySynced(p, name)
      PROVE  LockInv'
  BY <1>3 DEF CopySynced
<1>4. ASSUME NEW p \in Publishers, WriteRecord(p)
      PROVE  LockInv'
  BY <1>4 DEF WriteRecord
<1>5. ASSUME NEW p \in Publishers, SyncStaging(p)
      PROVE  LockInv'
  BY <1>5 DEF SyncStaging
<1>6. ASSUME NEW p \in Publishers, Install(p)
      PROVE  LockInv'
  BY <1>6 DEF StagedOutcomes, Exists, Install
<1>7. ASSUME NEW p \in Publishers, SyncGenerations(p)
      PROVE  LockInv'
  BY <1>7 DEF SyncGenerations
<1>8. ASSUME NEW p \in Publishers, WritePending(p)
      PROVE  LockInv'
  BY <1>8 DEF WritePending
<1>9. ASSUME NEW p \in Publishers, ReplaceActive(p)
      PROVE  LockInv'
  BY <1>9 DEF Older, ReplaceActive
<1>10. ASSUME NEW p \in Publishers, SyncTarget(p)
      PROVE  LockInv'
  BY <1>10 DEF SyncTarget
<1>11. ASSUME NEW p \in Publishers, NEW c \in Contents, NEW e \in Whole, RemoveEntry(p, c, e)
      PROVE  LockInv'
  BY <1>11 DEF RemoveEntry
<1>12. ASSUME NEW p \in Publishers, RemoveLitter(p)
      PROVE  LockInv'
  BY <1>12 DEF RemoveLitter
<1>13. ASSUME NEW p \in Publishers, UnlinkPending(p)
      PROVE  LockInv'
  BY <1>13 DEF UnlinkPending
<1>14. ASSUME NEW p \in Publishers, Return(p)
      PROVE  LockInv'
  BY <1>14 DEF Forget, Return
<1>15. ASSUME NEW p \in Publishers, Kill(p)
      PROVE  LockInv'
  BY <1>15 DEF Forget, Kill
<1>16. ASSUME NEW r \in Readers, ReadActive(r) \/ Read(r) \/ Close(r)
      PROVE  LockInv'
  BY <1>16, ReadersOnlyRead
<1>17. ASSUME PowerLoss
      PROVE  LockInv'
  BY <1>17 DEF PowerLoss, ChangesLost, NamesLost, GenerationsGone
<1>18. ASSUME UNCHANGED vars
      PROVE  LockInv'
  BY <1>18 DEF vars
<1>19. QED
  BY <1>1, <1>2, <1>3, <1>4, <1>5, <1>6, <1>7, <1>8, <1>9, <1>10, <1>11, <1>12, <1>13,
     <1>14, <1>15, <1>16, <1>17, <1>18 DEF Next, Step

\* Only the lock holder has a staging directory, filled in the order of the code.
LEMMA StageStep ==
  ASSUME TypeOK, LockInv, StageInv, [Next]_vars PROVE StageInv'
<1> USE DEF TypeOK, LockInv, StageInv, diskVars, stageVars, leftVars, jobVars, readVars, countVars, elseVars,
            publishVars, Goto
<1>1. ASSUME NEW p \in Publishers, Begin(p)
      PROVE  StageInv'
  BY <1>1 DEF Begin
<1>2. ASSUME NEW p \in Publishers, NEW c \in Contents, Acquire(p, c)
      PROVE  StageInv'
  BY <1>2 DEF Enter, Acquire
<1>3. ASSUME NEW p \in Publishers, NEW name \in Files, CopySynced(p, name)
      PROVE  StageInv'
  BY <1>3 DEF CopySynced
<1>4. ASSUME NEW p \in Publishers, WriteRecord(p)
      PROVE  StageInv'
  BY <1>4 DEF WriteRecord
<1>5. ASSUME NEW p \in Publishers, SyncStaging(p)
      PROVE  StageInv'
  BY <1>5 DEF SyncStaging
<1>6. ASSUME NEW p \in Publishers, Install(p)
      PROVE  StageInv'
  BY <1>6 DEF StagedOutcomes, Exists, Install
<1>7. ASSUME NEW p \in Publishers, SyncGenerations(p)
      PROVE  StageInv'
  BY <1>7 DEF SyncGenerations
<1>8. ASSUME NEW p \in Publishers, WritePending(p)
      PROVE  StageInv'
  BY <1>8 DEF WritePending
<1>9. ASSUME NEW p \in Publishers, ReplaceActive(p)
      PROVE  StageInv'
  BY <1>9 DEF Older, ReplaceActive
<1>10. ASSUME NEW p \in Publishers, SyncTarget(p)
      PROVE  StageInv'
  BY <1>10 DEF SyncTarget
<1>11. ASSUME NEW p \in Publishers, NEW c \in Contents, NEW e \in Whole, RemoveEntry(p, c, e)
      PROVE  StageInv'
  BY <1>11 DEF RemoveEntry
<1>12. ASSUME NEW p \in Publishers, RemoveLitter(p)
      PROVE  StageInv'
  BY <1>12 DEF RemoveLitter
<1>13. ASSUME NEW p \in Publishers, UnlinkPending(p)
      PROVE  StageInv'
  BY <1>13 DEF UnlinkPending
<1>14. ASSUME NEW p \in Publishers, Return(p)
      PROVE  StageInv'
  BY <1>14 DEF Forget, Return
<1>15. ASSUME NEW p \in Publishers, Kill(p)
      PROVE  StageInv'
  BY <1>15 DEF Forget, Kill
<1>16. ASSUME NEW r \in Readers, ReadActive(r) \/ Read(r) \/ Close(r)
      PROVE  StageInv'
  BY <1>16, ReadersOnlyRead
<1>17. ASSUME PowerLoss
      PROVE  StageInv'
  BY <1>17 DEF PowerLoss, ChangesLost, NamesLost, GenerationsGone
<1>18. ASSUME UNCHANGED vars
      PROVE  StageInv'
  BY <1>18 DEF vars
<1>19. QED
  BY <1>1, <1>2, <1>3, <1>4, <1>5, <1>6, <1>7, <1>8, <1>9, <1>10, <1>11, <1>12, <1>13,
     <1>14, <1>15, <1>16, <1>17, <1>18 DEF Next, Step

\* What is visible may survive, and rmtree takes the directory last.
LEMMA DiskStep ==
  ASSUME TypeOK, DiskInv, [Next]_vars PROVE DiskInv'
<1> USE DEF TypeOK, DiskInv, diskVars, stageVars, leftVars, jobVars, readVars, countVars, elseVars,
            publishVars, Goto
<1>1. ASSUME NEW p \in Publishers, Begin(p)
      PROVE  DiskInv'
  BY <1>1 DEF Begin
<1>2. ASSUME NEW p \in Publishers, NEW c \in Contents, Acquire(p, c)
      PROVE  DiskInv'
  BY <1>2 DEF Enter, Acquire
<1>3. ASSUME NEW p \in Publishers, NEW name \in Files, CopySynced(p, name)
      PROVE  DiskInv'
  BY <1>3 DEF CopySynced
<1>4. ASSUME NEW p \in Publishers, WriteRecord(p)
      PROVE  DiskInv'
  BY <1>4 DEF WriteRecord
<1>5. ASSUME NEW p \in Publishers, SyncStaging(p)
      PROVE  DiskInv'
  BY <1>5 DEF SyncStaging
<1>6. ASSUME NEW p \in Publishers, Install(p)
      PROVE  DiskInv'
  <2>1. CASE Exists(content[p])
    BY <1>6, <2>1 DEF Install
  <2>2. CASE ~Exists(content[p])
    <3>1. staged \in SUBSET staged
      OBVIOUS
    <3>2. staged \union {SELF} \in StagedOutcomes
      BY <3>1 DEF StagedOutcomes
    <3>3. \A S \in StagedOutcomes : SELF \in S
      BY DEF StagedOutcomes
    <3>4. \A c \in Contents : gens'[c] \in mayGens'[c]
      <4> SUFFICES ASSUME NEW c \in Contents PROVE gens'[c] \in mayGens'[c]
        OBVIOUS
      <4>1. CASE c = content[p]
        <5>1. gens'[c] = staged \union {SELF}
          BY <1>6, <2>2, <4>1 DEF Install
        <5>2. mayGens'[c] = mayGens[c] \union StagedOutcomes
          BY <1>6, <2>2, <4>1 DEF Install
        <5>3. QED
          BY <3>2, <5>1, <5>2
      <4>2. CASE c # content[p]
        BY <1>6, <2>2, <4>2 DEF Install
      <4>3. QED
        BY <4>1, <4>2
    <3>5. \A c \in Contents : \A S \in mayGens'[c] : S = {} \/ SELF \in S
      BY <1>6, <2>2, <3>3 DEF Install
    <3>6. QED
      BY <1>6, <3>4, <3>5 DEF Install
  <2>3. QED
    BY <2>1, <2>2
<1>7. ASSUME NEW p \in Publishers, SyncGenerations(p)
      PROVE  DiskInv'
  BY <1>7 DEF SyncGenerations
<1>8. ASSUME NEW p \in Publishers, WritePending(p)
      PROVE  DiskInv'
  BY <1>8 DEF WritePending
<1>9. ASSUME NEW p \in Publishers, ReplaceActive(p)
      PROVE  DiskInv'
  BY <1>9 DEF Older, ReplaceActive
<1>10. ASSUME NEW p \in Publishers, SyncTarget(p)
      PROVE  DiskInv'
  BY <1>10 DEF SyncTarget
<1>11. ASSUME NEW p \in Publishers, NEW c \in Contents, NEW e \in Whole, RemoveEntry(p, c, e)
      PROVE  DiskInv'
  BY <1>11 DEF RemoveEntry, Victims, Exists
<1>12. ASSUME NEW p \in Publishers, RemoveLitter(p)
      PROVE  DiskInv'
  BY <1>12 DEF RemoveLitter
<1>13. ASSUME NEW p \in Publishers, UnlinkPending(p)
      PROVE  DiskInv'
  BY <1>13 DEF UnlinkPending
<1>14. ASSUME NEW p \in Publishers, Return(p)
      PROVE  DiskInv'
  BY <1>14 DEF Forget, Return
<1>15. ASSUME NEW p \in Publishers, Kill(p)
      PROVE  DiskInv'
  BY <1>15 DEF Forget, Kill
<1>16. ASSUME NEW r \in Readers, ReadActive(r) \/ Read(r) \/ Close(r)
      PROVE  DiskInv'
  BY <1>16, ReadersOnlyRead
<1>17. ASSUME PowerLoss
      PROVE  DiskInv'
  BY <1>17 DEF PowerLoss, ChangesLost, NamesLost, GenerationsGone
<1>18. ASSUME UNCHANGED vars
      PROVE  DiskInv'
  BY <1>18 DEF vars
<1>19. QED
  BY <1>1, <1>2, <1>3, <1>4, <1>5, <1>6, <1>7, <1>8, <1>9, <1>10, <1>11, <1>12, <1>13,
     <1>14, <1>15, <1>16, <1>17, <1>18 DEF Next, Step

\* The generation of the lock holder is whole from Install on, durable from SyncGenerations on.
LEMMA TargetStep ==
  ASSUME PublishOverTorn = FALSE, TypeOK, LockInv, StageInv, DiskInv, TargetInv, [Next]_vars PROVE TargetInv'
<1> USE DEF TypeOK, LockInv, StageInv, DiskInv, TargetInv, Torn, PreSelect, PostSelect, diskVars, stageVars, leftVars, jobVars, readVars, countVars, elseVars,
            publishVars, Goto
<1>1. ASSUME NEW p \in Publishers, Begin(p)
      PROVE  TargetInv'
  BY <1>1 DEF Begin
<1>2. ASSUME NEW p \in Publishers, NEW c \in Contents, Acquire(p, c)
      PROVE  TargetInv'
  BY <1>2 DEF Enter, Acquire
<1>3. ASSUME NEW p \in Publishers, NEW name \in Files, CopySynced(p, name)
      PROVE  TargetInv'
  BY <1>3 DEF CopySynced
<1>4. ASSUME NEW p \in Publishers, WriteRecord(p)
      PROVE  TargetInv'
  BY <1>4 DEF WriteRecord
<1>5. ASSUME NEW p \in Publishers, SyncStaging(p)
      PROVE  TargetInv'
  BY <1>5 DEF SyncStaging
<1>6. ASSUME NEW p \in Publishers, Install(p)
      PROVE  TargetInv'
  BY <1>6 DEF StagedOutcomes, Exists, Install
<1>7. ASSUME NEW p \in Publishers, SyncGenerations(p)
      PROVE  TargetInv'
  <2>1. content[p] \in Contents /\ mayGens'[content[p]] = {Whole}
    BY <1>7 DEF SyncGenerations
  <2>2. \A q \in Publishers : q # p => pc[q] \notin Holding
    BY <1>7 DEF SyncGenerations
  <2>3. QED
    BY <1>7, <2>1, <2>2 DEF SyncGenerations
<1>8. ASSUME NEW p \in Publishers, WritePending(p)
      PROVE  TargetInv'
  BY <1>8 DEF WritePending
<1>9. ASSUME NEW p \in Publishers, ReplaceActive(p)
      PROVE  TargetInv'
  BY <1>9 DEF Older, ReplaceActive
<1>10. ASSUME NEW p \in Publishers, SyncTarget(p)
      PROVE  TargetInv'
  BY <1>10 DEF SyncTarget
<1>11. ASSUME NEW p \in Publishers, NEW c \in Contents, NEW e \in Whole, RemoveEntry(p, c, e)
      PROVE  TargetInv'
  BY <1>11 DEF RemoveEntry, Victims, Exists, Keep
<1>12. ASSUME NEW p \in Publishers, RemoveLitter(p)
      PROVE  TargetInv'
  BY <1>12 DEF RemoveLitter
<1>13. ASSUME NEW p \in Publishers, UnlinkPending(p)
      PROVE  TargetInv'
  BY <1>13 DEF UnlinkPending
<1>14. ASSUME NEW p \in Publishers, Return(p)
      PROVE  TargetInv'
  BY <1>14 DEF Forget, Return
<1>15. ASSUME NEW p \in Publishers, Kill(p)
      PROVE  TargetInv'
  BY <1>15 DEF Forget, Kill
<1>16. ASSUME NEW r \in Readers, ReadActive(r) \/ Read(r) \/ Close(r)
      PROVE  TargetInv'
  BY <1>16, ReadersOnlyRead
<1>17. ASSUME PowerLoss
      PROVE  TargetInv'
  BY <1>17 DEF PowerLoss, ChangesLost, NamesLost, GenerationsGone
<1>18. ASSUME UNCHANGED vars
      PROVE  TargetInv'
  BY <1>18 DEF vars
<1>19. QED
  BY <1>1, <1>2, <1>3, <1>4, <1>5, <1>6, <1>7, <1>8, <1>9, <1>10, <1>11, <1>12, <1>13,
     <1>14, <1>15, <1>16, <1>17, <1>18 DEF Next, Step

\* ACTIVE changes only at the lock holder's rename.
LEMMA SelectStep ==
  ASSUME TypeOK, LockInv, SelectInv, [Next]_vars PROVE SelectInv'
<1> USE DEF TypeOK, LockInv, SelectInv, PreSelect, PostSelect, diskVars, stageVars, leftVars, jobVars, readVars, countVars, elseVars,
            publishVars, Goto
<1>1. ASSUME NEW p \in Publishers, Begin(p)
      PROVE  SelectInv'
  BY <1>1 DEF Begin
<1>2. ASSUME NEW p \in Publishers, NEW c \in Contents, Acquire(p, c)
      PROVE  SelectInv'
  BY <1>2 DEF Enter, Acquire
<1>3. ASSUME NEW p \in Publishers, NEW name \in Files, CopySynced(p, name)
      PROVE  SelectInv'
  BY <1>3 DEF CopySynced
<1>4. ASSUME NEW p \in Publishers, WriteRecord(p)
      PROVE  SelectInv'
  BY <1>4 DEF WriteRecord
<1>5. ASSUME NEW p \in Publishers, SyncStaging(p)
      PROVE  SelectInv'
  BY <1>5 DEF SyncStaging
<1>6. ASSUME NEW p \in Publishers, Install(p)
      PROVE  SelectInv'
  BY <1>6 DEF StagedOutcomes, Exists, Install
<1>7. ASSUME NEW p \in Publishers, SyncGenerations(p)
      PROVE  SelectInv'
  BY <1>7 DEF SyncGenerations
<1>8. ASSUME NEW p \in Publishers, WritePending(p)
      PROVE  SelectInv'
  BY <1>8 DEF WritePending
<1>9. ASSUME NEW p \in Publishers, ReplaceActive(p)
      PROVE  SelectInv'
  BY <1>9 DEF Older, ReplaceActive
<1>10. ASSUME NEW p \in Publishers, SyncTarget(p)
      PROVE  SelectInv'
  BY <1>10 DEF SyncTarget
<1>11. ASSUME NEW p \in Publishers, NEW c \in Contents, NEW e \in Whole, RemoveEntry(p, c, e)
      PROVE  SelectInv'
  BY <1>11 DEF RemoveEntry
<1>12. ASSUME NEW p \in Publishers, RemoveLitter(p)
      PROVE  SelectInv'
  BY <1>12 DEF RemoveLitter
<1>13. ASSUME NEW p \in Publishers, UnlinkPending(p)
      PROVE  SelectInv'
  BY <1>13 DEF UnlinkPending
<1>14. ASSUME NEW p \in Publishers, Return(p)
      PROVE  SelectInv'
  BY <1>14 DEF Forget, Return
<1>15. ASSUME NEW p \in Publishers, Kill(p)
      PROVE  SelectInv'
  BY <1>15 DEF Forget, Kill
<1>16. ASSUME NEW r \in Readers, ReadActive(r) \/ Read(r) \/ Close(r)
      PROVE  SelectInv'
  BY <1>16, ReadersOnlyRead
<1>17. ASSUME PowerLoss
      PROVE  SelectInv'
  BY <1>17 DEF PowerLoss, ChangesLost, NamesLost, GenerationsGone
<1>18. ASSUME UNCHANGED vars
      PROVE  SelectInv'
  BY <1>18 DEF vars
<1>19. QED
  BY <1>1, <1>2, <1>3, <1>4, <1>5, <1>6, <1>7, <1>8, <1>9, <1>10, <1>11, <1>12, <1>13,
     <1>14, <1>15, <1>16, <1>17, <1>18 DEF Next, Step

\* A reader not overtaken twice holds one of the two generations that survive pruning.
LEMMA ReaderStep ==
  ASSUME TypeOK, LockInv, SelectInv, ReaderInv, [Next]_vars PROVE ReaderInv'
<1> USE DEF TypeOK, LockInv, SelectInv, ReaderInv, Keep, PreSelect, PostSelect, diskVars, stageVars, leftVars, jobVars, readVars, countVars, elseVars,
            publishVars, Goto
<1>1. ASSUME NEW p \in Publishers, Begin(p)
      PROVE  ReaderInv'
  BY <1>1 DEF Begin
<1>2. ASSUME NEW p \in Publishers, NEW c \in Contents, Acquire(p, c)
      PROVE  ReaderInv'
  BY <1>2 DEF Enter, Acquire
<1>3. ASSUME NEW p \in Publishers, NEW name \in Files, CopySynced(p, name)
      PROVE  ReaderInv'
  BY <1>3 DEF CopySynced
<1>4. ASSUME NEW p \in Publishers, WriteRecord(p)
      PROVE  ReaderInv'
  BY <1>4 DEF WriteRecord
<1>5. ASSUME NEW p \in Publishers, SyncStaging(p)
      PROVE  ReaderInv'
  BY <1>5 DEF SyncStaging
<1>6. ASSUME NEW p \in Publishers, Install(p)
      PROVE  ReaderInv'
  BY <1>6 DEF StagedOutcomes, Exists, Install
<1>7. ASSUME NEW p \in Publishers, SyncGenerations(p)
      PROVE  ReaderInv'
  BY <1>7 DEF SyncGenerations
<1>8. ASSUME NEW p \in Publishers, WritePending(p)
      PROVE  ReaderInv'
  BY <1>8 DEF WritePending
<1>9. ASSUME NEW p \in Publishers, ReplaceActive(p)
      PROVE  ReaderInv'
  BY <1>9 DEF Older, ReplaceActive
<1>10. ASSUME NEW p \in Publishers, SyncTarget(p)
      PROVE  ReaderInv'
  BY <1>10 DEF SyncTarget
<1>11. ASSUME NEW p \in Publishers, NEW c \in Contents, NEW e \in Whole, RemoveEntry(p, c, e)
      PROVE  ReaderInv'
  BY <1>11 DEF RemoveEntry, Victims, Exists
<1>12. ASSUME NEW p \in Publishers, RemoveLitter(p)
      PROVE  ReaderInv'
  BY <1>12 DEF RemoveLitter
<1>13. ASSUME NEW p \in Publishers, UnlinkPending(p)
      PROVE  ReaderInv'
  BY <1>13 DEF UnlinkPending
<1>14. ASSUME NEW p \in Publishers, Return(p)
      PROVE  ReaderInv'
  BY <1>14 DEF Forget, Return
<1>15. ASSUME NEW p \in Publishers, Kill(p)
      PROVE  ReaderInv'
  BY <1>15 DEF Forget, Kill
<1>16. ASSUME NEW r \in Readers, ReadActive(r) \/ Read(r) \/ Close(r)
      PROVE  ReaderInv'
  BY <1>16 DEF Read, ReadActive, ReadRecord, ListEntries, VerifyFile, VerifyPresent,
            ReturnDirectory, Close
<1>17. ASSUME PowerLoss
      PROVE  ReaderInv'
  BY <1>17 DEF PowerLoss, ChangesLost, NamesLost, GenerationsGone
<1>18. ASSUME UNCHANGED vars
      PROVE  ReaderInv'
  BY <1>18 DEF vars
<1>19. QED
  BY <1>1, <1>2, <1>3, <1>4, <1>5, <1>6, <1>7, <1>8, <1>9, <1>10, <1>11, <1>12, <1>13,
     <1>14, <1>15, <1>16, <1>17, <1>18 DEF Next, Step

\* ACTIVE, and what it may be after a power loss, stays complete.
LEMMA ActiveStep ==
  ASSUME TypeOK, LockInv, DiskInv, TargetInv, SelectInv, ActiveVerifies, [Next]_vars PROVE ActiveVerifies'
<1> USE DEF TypeOK, LockInv, DiskInv, TargetInv, SelectInv, ActiveVerifies, PreSelect, PostSelect, diskVars, stageVars, leftVars, jobVars, readVars, countVars, elseVars,
            publishVars, Goto
<1>1. ASSUME NEW p \in Publishers, Begin(p)
      PROVE  ActiveVerifies'
  BY <1>1 DEF Begin
<1>2. ASSUME NEW p \in Publishers, NEW c \in Contents, Acquire(p, c)
      PROVE  ActiveVerifies'
  BY <1>2 DEF Enter, Acquire
<1>3. ASSUME NEW p \in Publishers, NEW name \in Files, CopySynced(p, name)
      PROVE  ActiveVerifies'
  BY <1>3 DEF CopySynced
<1>4. ASSUME NEW p \in Publishers, WriteRecord(p)
      PROVE  ActiveVerifies'
  BY <1>4 DEF WriteRecord
<1>5. ASSUME NEW p \in Publishers, SyncStaging(p)
      PROVE  ActiveVerifies'
  BY <1>5 DEF SyncStaging
<1>6. ASSUME NEW p \in Publishers, Install(p)
      PROVE  ActiveVerifies'
  BY <1>6 DEF StagedOutcomes, Exists, Install
<1>7. ASSUME NEW p \in Publishers, SyncGenerations(p)
      PROVE  ActiveVerifies'
  BY <1>7 DEF SyncGenerations
<1>8. ASSUME NEW p \in Publishers, WritePending(p)
      PROVE  ActiveVerifies'
  BY <1>8 DEF WritePending
<1>9. ASSUME NEW p \in Publishers, ReplaceActive(p)
      PROVE  ActiveVerifies'
  BY <1>9 DEF Older, ReplaceActive
<1>10. ASSUME NEW p \in Publishers, SyncTarget(p)
      PROVE  ActiveVerifies'
  BY <1>10 DEF SyncTarget
<1>11. ASSUME NEW p \in Publishers, NEW c \in Contents, NEW e \in Whole, RemoveEntry(p, c, e)
      PROVE  ActiveVerifies'
  BY <1>11 DEF RemoveEntry, Victims, Exists, Keep
<1>12. ASSUME NEW p \in Publishers, RemoveLitter(p)
      PROVE  ActiveVerifies'
  BY <1>12 DEF RemoveLitter
<1>13. ASSUME NEW p \in Publishers, UnlinkPending(p)
      PROVE  ActiveVerifies'
  BY <1>13 DEF UnlinkPending
<1>14. ASSUME NEW p \in Publishers, Return(p)
      PROVE  ActiveVerifies'
  BY <1>14 DEF Forget, Return
<1>15. ASSUME NEW p \in Publishers, Kill(p)
      PROVE  ActiveVerifies'
  BY <1>15 DEF Forget, Kill
<1>16. ASSUME NEW r \in Readers, ReadActive(r) \/ Read(r) \/ Close(r)
      PROVE  ActiveVerifies'
  BY <1>16, ReadersOnlyRead
<1>17. ASSUME PowerLoss
      PROVE  ActiveVerifies'
  <2>1. active' # None => active' \in mayActive
    BY <1>17 DEF PowerLoss, ChangesLost, NamesLost, GenerationsGone
  <2>2. ASSUME active' # None
        PROVE  gens'[active'] = Whole /\ mayGens'[active'] = {Whole}
    <3>1. active' \in Contents /\ mayGens[active'] = {Whole}
      BY <2>1, <2>2
    <3>2. gens'[active'] \in mayGens[active'] /\ mayGens'[active'] = {gens'[active']}
      BY <1>17, <3>1 DEF PowerLoss, ChangesLost, NamesLost, GenerationsGone
    <3>3. QED
      BY <3>1, <3>2
  <2>3. mayActive' = {active'}
    BY <1>17 DEF PowerLoss
  <2>4. QED
    BY <2>2, <2>3
<1>18. ASSUME UNCHANGED vars
      PROVE  ActiveVerifies'
  BY <1>18 DEF vars
<1>19. QED
  BY <1>1, <1>2, <1>3, <1>4, <1>5, <1>6, <1>7, <1>8, <1>9, <1>10, <1>11, <1>12, <1>13,
     <1>14, <1>15, <1>16, <1>17, <1>18 DEF Next, Step

\* No step takes a file from a reader that was not overtaken twice.
LEMMA KeepsFilesStep ==
  ASSUME TypeOK, LockInv, StageInv, ReaderInv, ActiveVerifies, ReaderKeepsFiles, [Next]_vars PROVE ReaderKeepsFiles'
<1> USE DEF TypeOK, ReaderInv, ActiveVerifies, ReaderKeepsFiles, diskVars, stageVars, leftVars, jobVars, readVars, countVars, elseVars,
            publishVars, Goto
<1>1. ASSUME NEW p \in Publishers, Begin(p)
      PROVE  ReaderKeepsFiles'
  BY <1>1 DEF Begin
<1>2. ASSUME NEW p \in Publishers, NEW c \in Contents, Acquire(p, c)
      PROVE  ReaderKeepsFiles'
  BY <1>2 DEF Enter, Acquire
<1>3. ASSUME NEW p \in Publishers, NEW name \in Files, CopySynced(p, name)
      PROVE  ReaderKeepsFiles'
  BY <1>3 DEF CopySynced
<1>4. ASSUME NEW p \in Publishers, WriteRecord(p)
      PROVE  ReaderKeepsFiles'
  BY <1>4 DEF WriteRecord
<1>5. ASSUME NEW p \in Publishers, SyncStaging(p)
      PROVE  ReaderKeepsFiles'
  BY <1>5 DEF SyncStaging
<1>6. ASSUME NEW p \in Publishers, Install(p)
      PROVE  ReaderKeepsFiles'
  BY <1>6 DEF StagedOutcomes, Exists, Install
<1>7. ASSUME NEW p \in Publishers, SyncGenerations(p)
      PROVE  ReaderKeepsFiles'
  BY <1>7 DEF SyncGenerations
<1>8. ASSUME NEW p \in Publishers, WritePending(p)
      PROVE  ReaderKeepsFiles'
  BY <1>8 DEF WritePending
<1>9. ASSUME NEW p \in Publishers, ReplaceActive(p)
      PROVE  ReaderKeepsFiles'
  BY <1>9 DEF Older, ReplaceActive
<1>10. ASSUME NEW p \in Publishers, SyncTarget(p)
      PROVE  ReaderKeepsFiles'
  BY <1>10 DEF SyncTarget
<1>11. ASSUME NEW p \in Publishers, NEW c \in Contents, NEW e \in Whole, RemoveEntry(p, c, e)
      PROVE  ReaderKeepsFiles'
  BY <1>11 DEF RemoveEntry, Victims, Exists, PostSelect
<1>12. ASSUME NEW p \in Publishers, RemoveLitter(p)
      PROVE  ReaderKeepsFiles'
  BY <1>12 DEF RemoveLitter
<1>13. ASSUME NEW p \in Publishers, UnlinkPending(p)
      PROVE  ReaderKeepsFiles'
  BY <1>13 DEF UnlinkPending
<1>14. ASSUME NEW p \in Publishers, Return(p)
      PROVE  ReaderKeepsFiles'
  BY <1>14 DEF Forget, Return
<1>15. ASSUME NEW p \in Publishers, Kill(p)
      PROVE  ReaderKeepsFiles'
  BY <1>15 DEF Forget, Kill
<1>16. ASSUME NEW r \in Readers, ReadActive(r) \/ Read(r) \/ Close(r)
      PROVE  ReaderKeepsFiles'
  BY <1>16 DEF Read, ReadActive, ReadRecord, ListEntries, VerifyFile, VerifyPresent,
            ReturnDirectory, Close
<1>17. ASSUME PowerLoss
      PROVE  ReaderKeepsFiles'
  BY <1>17 DEF PowerLoss, ChangesLost, NamesLost, GenerationsGone
<1>18. ASSUME UNCHANGED vars
      PROVE  ReaderKeepsFiles'
  BY <1>18 DEF vars
<1>19. QED
  BY <1>1, <1>2, <1>3, <1>4, <1>5, <1>6, <1>7, <1>8, <1>9, <1>10, <1>11, <1>12, <1>13,
     <1>14, <1>15, <1>16, <1>17, <1>18 DEF Next, Step

\* A reader fails only over a generation that pruning was free to remove.
LEMMA FailStep ==
  ASSUME TypeOK, ReaderInv, ReaderKeepsFiles, FailsOnlyWhenOvertaken, [Next]_vars PROVE FailsOnlyWhenOvertaken'
<1> USE DEF TypeOK, ReaderInv, ReaderKeepsFiles, FailsOnlyWhenOvertaken, diskVars, stageVars, leftVars, jobVars, readVars, countVars, elseVars,
            publishVars, Goto
<1>1. ASSUME NEW p \in Publishers, Begin(p)
      PROVE  FailsOnlyWhenOvertaken'
  BY <1>1 DEF Begin
<1>2. ASSUME NEW p \in Publishers, NEW c \in Contents, Acquire(p, c)
      PROVE  FailsOnlyWhenOvertaken'
  BY <1>2 DEF Enter, Acquire
<1>3. ASSUME NEW p \in Publishers, NEW name \in Files, CopySynced(p, name)
      PROVE  FailsOnlyWhenOvertaken'
  BY <1>3 DEF CopySynced
<1>4. ASSUME NEW p \in Publishers, WriteRecord(p)
      PROVE  FailsOnlyWhenOvertaken'
  BY <1>4 DEF WriteRecord
<1>5. ASSUME NEW p \in Publishers, SyncStaging(p)
      PROVE  FailsOnlyWhenOvertaken'
  BY <1>5 DEF SyncStaging
<1>6. ASSUME NEW p \in Publishers, Install(p)
      PROVE  FailsOnlyWhenOvertaken'
  BY <1>6 DEF StagedOutcomes, Exists, Install
<1>7. ASSUME NEW p \in Publishers, SyncGenerations(p)
      PROVE  FailsOnlyWhenOvertaken'
  BY <1>7 DEF SyncGenerations
<1>8. ASSUME NEW p \in Publishers, WritePending(p)
      PROVE  FailsOnlyWhenOvertaken'
  BY <1>8 DEF WritePending
<1>9. ASSUME NEW p \in Publishers, ReplaceActive(p)
      PROVE  FailsOnlyWhenOvertaken'
  BY <1>9 DEF Older, ReplaceActive
<1>10. ASSUME NEW p \in Publishers, SyncTarget(p)
      PROVE  FailsOnlyWhenOvertaken'
  BY <1>10 DEF SyncTarget
<1>11. ASSUME NEW p \in Publishers, NEW c \in Contents, NEW e \in Whole, RemoveEntry(p, c, e)
      PROVE  FailsOnlyWhenOvertaken'
  BY <1>11 DEF RemoveEntry
<1>12. ASSUME NEW p \in Publishers, RemoveLitter(p)
      PROVE  FailsOnlyWhenOvertaken'
  BY <1>12 DEF RemoveLitter
<1>13. ASSUME NEW p \in Publishers, UnlinkPending(p)
      PROVE  FailsOnlyWhenOvertaken'
  BY <1>13 DEF UnlinkPending
<1>14. ASSUME NEW p \in Publishers, Return(p)
      PROVE  FailsOnlyWhenOvertaken'
  BY <1>14 DEF Forget, Return
<1>15. ASSUME NEW p \in Publishers, Kill(p)
      PROVE  FailsOnlyWhenOvertaken'
  BY <1>15 DEF Forget, Kill
<1>16. ASSUME NEW r \in Readers, ReadActive(r) \/ Read(r) \/ Close(r)
      PROVE  FailsOnlyWhenOvertaken'
  BY <1>16 DEF Read, ReadActive, ReadRecord, ListEntries, VerifyFile, VerifyPresent,
            ReturnDirectory, Close
<1>17. ASSUME PowerLoss
      PROVE  FailsOnlyWhenOvertaken'
  BY <1>17 DEF PowerLoss, ChangesLost, NamesLost, GenerationsGone
<1>18. ASSUME UNCHANGED vars
      PROVE  FailsOnlyWhenOvertaken'
  BY <1>18 DEF vars
<1>19. QED
  BY <1>1, <1>2, <1>3, <1>4, <1>5, <1>6, <1>7, <1>8, <1>9, <1>10, <1>11, <1>12, <1>13,
     <1>14, <1>15, <1>16, <1>17, <1>18 DEF Next, Step

\* No state ACTIVE may survive in is older than the last acknowledged publication.
LEMMA OlderStep ==
  ASSUME TypeOK, DiskInv, SelectInv, NothingOlder, [Next]_vars PROVE NothingOlder'
<1> USE DEF TypeOK, DiskInv, SelectInv, NothingOlder, PostSelect, diskVars, stageVars, leftVars, jobVars, readVars, countVars, elseVars,
            publishVars, Goto
<1>1. ASSUME NEW p \in Publishers, Begin(p)
      PROVE  NothingOlder'
  BY <1>1 DEF Begin
<1>2. ASSUME NEW p \in Publishers, NEW c \in Contents, Acquire(p, c)
      PROVE  NothingOlder'
  BY <1>2 DEF Enter, Acquire
<1>3. ASSUME NEW p \in Publishers, NEW name \in Files, CopySynced(p, name)
      PROVE  NothingOlder'
  BY <1>3 DEF CopySynced
<1>4. ASSUME NEW p \in Publishers, WriteRecord(p)
      PROVE  NothingOlder'
  BY <1>4 DEF WriteRecord
<1>5. ASSUME NEW p \in Publishers, SyncStaging(p)
      PROVE  NothingOlder'
  BY <1>5 DEF SyncStaging
<1>6. ASSUME NEW p \in Publishers, Install(p)
      PROVE  NothingOlder'
  BY <1>6 DEF StagedOutcomes, Exists, Install
<1>7. ASSUME NEW p \in Publishers, SyncGenerations(p)
      PROVE  NothingOlder'
  BY <1>7 DEF SyncGenerations
<1>8. ASSUME NEW p \in Publishers, WritePending(p)
      PROVE  NothingOlder'
  BY <1>8 DEF WritePending
<1>9. ASSUME NEW p \in Publishers, ReplaceActive(p)
      PROVE  NothingOlder'
  BY <1>9 DEF Older, ReplaceActive
<1>10. ASSUME NEW p \in Publishers, SyncTarget(p)
      PROVE  NothingOlder'
  BY <1>10 DEF SyncTarget
<1>11. ASSUME NEW p \in Publishers, NEW c \in Contents, NEW e \in Whole, RemoveEntry(p, c, e)
      PROVE  NothingOlder'
  BY <1>11 DEF RemoveEntry
<1>12. ASSUME NEW p \in Publishers, RemoveLitter(p)
      PROVE  NothingOlder'
  BY <1>12 DEF RemoveLitter
<1>13. ASSUME NEW p \in Publishers, UnlinkPending(p)
      PROVE  NothingOlder'
  BY <1>13 DEF UnlinkPending
<1>14. ASSUME NEW p \in Publishers, Return(p)
      PROVE  NothingOlder'
  BY <1>14 DEF Forget, Return
<1>15. ASSUME NEW p \in Publishers, Kill(p)
      PROVE  NothingOlder'
  BY <1>15 DEF Forget, Kill
<1>16. ASSUME NEW r \in Readers, ReadActive(r) \/ Read(r) \/ Close(r)
      PROVE  NothingOlder'
  BY <1>16, ReadersOnlyRead
<1>17. ASSUME PowerLoss
      PROVE  NothingOlder'
  BY <1>17 DEF PowerLoss, ChangesLost, NamesLost, GenerationsGone
<1>18. ASSUME UNCHANGED vars
      PROVE  NothingOlder'
  BY <1>18 DEF vars
<1>19. QED
  BY <1>1, <1>2, <1>3, <1>4, <1>5, <1>6, <1>7, <1>8, <1>9, <1>10, <1>11, <1>12, <1>13,
     <1>14, <1>15, <1>16, <1>17, <1>18 DEF Next, Step

\* Nobody adds to generations/ between the end of _prune and the return.
LEMMA TidyStep ==
  ASSUME TypeOK, LockInv, DiskInv, Tidy, [Next]_vars PROVE Tidy'
<1> USE DEF TypeOK, LockInv, DiskInv, Tidy, Keep, diskVars, stageVars, leftVars, jobVars, readVars, countVars, elseVars,
            publishVars, Goto
<1>1. ASSUME NEW p \in Publishers, Begin(p)
      PROVE  Tidy'
  BY <1>1 DEF Begin
<1>2. ASSUME NEW p \in Publishers, NEW c \in Contents, Acquire(p, c)
      PROVE  Tidy'
  BY <1>2 DEF Enter, Acquire
<1>3. ASSUME NEW p \in Publishers, NEW name \in Files, CopySynced(p, name)
      PROVE  Tidy'
  BY <1>3 DEF CopySynced
<1>4. ASSUME NEW p \in Publishers, WriteRecord(p)
      PROVE  Tidy'
  BY <1>4 DEF WriteRecord
<1>5. ASSUME NEW p \in Publishers, SyncStaging(p)
      PROVE  Tidy'
  BY <1>5 DEF SyncStaging
<1>6. ASSUME NEW p \in Publishers, Install(p)
      PROVE  Tidy'
  BY <1>6 DEF StagedOutcomes, Exists, Install
<1>7. ASSUME NEW p \in Publishers, SyncGenerations(p)
      PROVE  Tidy'
  BY <1>7 DEF SyncGenerations
<1>8. ASSUME NEW p \in Publishers, WritePending(p)
      PROVE  Tidy'
  BY <1>8 DEF WritePending
<1>9. ASSUME NEW p \in Publishers, ReplaceActive(p)
      PROVE  Tidy'
  BY <1>9 DEF Older, ReplaceActive
<1>10. ASSUME NEW p \in Publishers, SyncTarget(p)
      PROVE  Tidy'
  BY <1>10 DEF SyncTarget
<1>11. ASSUME NEW p \in Publishers, NEW c \in Contents, NEW e \in Whole, RemoveEntry(p, c, e)
      PROVE  Tidy'
  BY <1>11 DEF RemoveEntry
<1>12. ASSUME NEW p \in Publishers, RemoveLitter(p)
      PROVE  Tidy'
  BY <1>12 DEF RemoveLitter
<1>13. ASSUME NEW p \in Publishers, UnlinkPending(p)
      PROVE  Tidy'
  BY <1>13 DEF UnlinkPending, Victims, Exists
<1>14. ASSUME NEW p \in Publishers, Return(p)
      PROVE  Tidy'
  BY <1>14 DEF Forget, Return
<1>15. ASSUME NEW p \in Publishers, Kill(p)
      PROVE  Tidy'
  BY <1>15 DEF Forget, Kill
<1>16. ASSUME NEW r \in Readers, ReadActive(r) \/ Read(r) \/ Close(r)
      PROVE  Tidy'
  BY <1>16, ReadersOnlyRead
<1>17. ASSUME PowerLoss
      PROVE  Tidy'
  BY <1>17 DEF PowerLoss, ChangesLost, NamesLost, GenerationsGone
<1>18. ASSUME UNCHANGED vars
      PROVE  Tidy'
  BY <1>18 DEF vars
<1>19. QED
  BY <1>1, <1>2, <1>3, <1>4, <1>5, <1>6, <1>7, <1>8, <1>9, <1>10, <1>11, <1>12, <1>13,
     <1>14, <1>15, <1>16, <1>17, <1>18 DEF Next, Step

-----------------------------------------------------------------------------
(* The theorems *)

LEMMA InitIInv == Init => IInv
<1> SUFFICES ASSUME Init PROVE IInv
  OBVIOUS
<1>1. TypeOK
  BY TypeInit
<1>2. LockInv /\ StageInv /\ DiskInv /\ TargetInv /\ SelectInv /\ Tidy
  BY DEF Init, LockInv, StageInv, DiskInv, TargetInv, SelectInv, Tidy, PreSelect, PostSelect
<1>3. ReaderInv /\ ReaderKeepsFiles /\ FailsOnlyWhenOvertaken
  BY DEF Init, ReaderInv, ReaderKeepsFiles, FailsOnlyWhenOvertaken
<1>4. ActiveVerifies /\ NothingOlder
  BY DEF Init, ActiveVerifies, NothingOlder
<1>5. QED
  BY <1>1, <1>2, <1>3, <1>4 DEF IInv

LEMMA StepIInv == ASSUME PublishOverTorn = FALSE, IInv, [Next]_vars PROVE IInv'
BY TypeStep, LockStep, StageStep, DiskStep, TargetStep, SelectStep, ReaderStep, ActiveStep,
   KeepsFilesStep, FailStep, OlderStep, TidyStep DEF IInv

THEOREM Inductive == ASSUME PublishOverTorn = FALSE PROVE Spec => []IInv
<1>1. IInv /\ [Next]_vars => IInv'
  BY StepIInv
<1>2. QED
  BY InitIInv, <1>1, PTL DEF Spec

\* However many publishers and readers run and whatever is killed or loses power,
\* ACTIVE names a complete generation and can only survive as one (lines 7-8).
THEOREM ActiveAlwaysVerifies == ASSUME PublishOverTorn = FALSE PROVE Spec => []ActiveVerifies
<1>1. IInv => ActiveVerifies
  BY DEF IInv
<1>2. QED
  BY Inductive, <1>1, PTL

\* What active_generation returned stays readable until ACTIVE has changed twice.
THEOREM ReadersKeepFiles == ASSUME PublishOverTorn = FALSE PROVE Spec => []ReaderKeepsFiles
<1>1. IInv => ReaderKeepsFiles
  BY DEF IInv
<1>2. QED
  BY Inductive, <1>1, PTL

\* active_generation raises over an existing ACTIVE only if two selections overtook it.
THEOREM ReadersFailOnlyOvertaken ==
  ASSUME PublishOverTorn = FALSE PROVE Spec => []FailsOnlyWhenOvertaken
<1>1. IInv => FailsOnlyWhenOvertaken
  BY DEF IInv
<1>2. QED
  BY Inductive, <1>1, PTL

\* A returned publication survives every later kill and power loss, where the target
\* directory's own name is durable.
THEOREM AcknowledgedAlwaysSurvives ==
  ASSUME PublishOverTorn = FALSE PROVE Spec => []AcknowledgedSurvives
<1>1. IInv => AcknowledgedSurvives
  BY DEF IInv, DiskInv, NothingOlder, AcknowledgedSurvives, Survivors
<1>2. QED
  BY Inductive, <1>1, PTL

\* A publication that returns leaves at most two generations and no leftovers.
THEOREM AlwaysTidy == ASSUME PublishOverTorn = FALSE PROVE Spec => []Tidy
<1>1. IInv => Tidy
  BY DEF IInv
<1>2. QED
  BY Inductive, <1>1, PTL
=============================================================================
