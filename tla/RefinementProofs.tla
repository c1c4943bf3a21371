-------------------------- MODULE RefinementProofs --------------------------
(***************************************************************************)
(* Generations implements GenerationStore: the initial states are initial  *)
(* there, and each system call of publish_generation, each read of         *)
(* active_generation, a kill and a power loss are one step of the store,   *)
(* or none.  For any number of publishers, readers, contents and files.    *)
(***************************************************************************)
EXTENDS GenerationsProofs

Present == {c \in Contents : gens[c] = Whole}
Outcomes == [r \in Readers |-> Outcome(r)]
storeVars == <<active, later, Present, view, age, Outcomes, rooted>>

USE NamesAssumption DEF Listed, Whole, Staging, Holding, PCs, ReaderPCs, nameVars

-----------------------------------------------------------------------------
\* What leaves the directories, ACTIVE and the readers alone is no step of the store.
LEMMA NoStep ==
  ASSUME UNCHANGED <<gens, active, later, readVars, rooted>>
  PROVE  UNCHANGED storeVars
BY DEF readVars, storeVars, Present, Outcomes, Outcome

\* A generation appears only whole: staging has every file and the record by then.
LEMMA InstallStores ==
  ASSUME IInv, NEW p \in Publishers, Install(p)
  PROVE  UNCHANGED storeVars \/ (UNCHANGED rooted /\ \E c \in Contents : Store!Store(c))
<1> USE DEF diskVars, elseVars, readVars, Goto
<1>1. content[p] \in Contents /\ staged = Listed
  BY DEF IInv, TargetInv, StageInv, Install
<1>2. CASE Exists(content[p])
  <2>1. UNCHANGED <<gens, active, later, readVars, rooted>>
    BY <1>2 DEF Install
  <2>2. QED
    BY <2>1, NoStep
<1>3. CASE ~Exists(content[p])
  <2>1. gens' = [gens EXCEPT ![content[p]] = Whole]
    BY <1>1, <1>3 DEF Install
  <2>2. Present' = Present \union {content[p]}
    BY <1>1, <2>1 DEF IInv, TypeOK, Present
  <2>3. UNCHANGED <<active, later, view, age, Outcomes>>
    BY DEF Install, Outcomes, Outcome
  <2>4. PICK c \in Contents : c = content[p]
    BY <1>1
  <2>5. Store!Store(c)
    BY <2>2, <2>3, <2>4 DEF Store!Store, Present, Outcomes
  <2>6. QED
    BY <2>5 DEF Install
<1>4. QED
  BY <1>2, <1>3

\* What ACTIVE comes to name is complete.
LEMMA ReplaceSelects ==
  ASSUME IInv, NEW p \in Publishers, ReplaceActive(p)
  PROVE  UNCHANGED rooted /\ \E c \in Contents : Store!Select(c)
<1>1. content[p] \in Contents /\ mayGens[content[p]] = {Whole}
  BY DEF IInv, TargetInv, ReplaceActive, Goto
<1>2. content[p] \in Present
  BY <1>1 DEF IInv, DiskInv, Present
<1>3. /\ active' = content[p] /\ later' = later \union {content[p]}
      /\ UNCHANGED <<Present, view, Outcomes>>
  BY DEF ReplaceActive, Present, Outcomes, Outcome
<1>4. age' = [r \in Readers |-> IF view[r] = None \/ age[r] = 2 THEN age[r] ELSE age[r] + 1]
  BY DEF ReplaceActive, Older, IInv, TypeOK
<1>5. PICK c \in Contents : c = content[p]
  BY <1>1
<1>6. Store!Select(c)
  BY <1>2, <1>3, <1>4, <1>5 DEF Store!Select, Present, Outcomes
<1>7. QED
  BY <1>6 DEF ReplaceActive

\* The first entry rmtree removes drops the generation, which nobody is owed; the
\* others change nothing a reader may rely on.
LEMMA RemovalDrops ==
  ASSUME IInv, NEW p \in Publishers, NEW c \in Contents, NEW e \in Whole, RemoveEntry(p, c, e)
  PROVE  UNCHANGED rooted /\ (UNCHANGED storeVars \/ Store!Drop(c))
<1>1. /\ pc[p] = "pruning" /\ c \notin Keep(p) /\ e \in gens[c]
      /\ gens' = [gens EXCEPT ![c] = @ \ {e}]
      /\ UNCHANGED <<active, later, view, age, rpc, rooted>>
  BY DEF RemoveEntry, Victims, Goto, elseVars, readVars
<1>2. UNCHANGED Outcomes
  BY <1>1 DEF Outcomes, Outcome
<1>3. gens'[c] # Whole /\ \A d \in Contents \ {c} : gens'[d] = gens[d]
  BY <1>1 DEF IInv, TypeOK
<1>4. CASE gens[c] # Whole
  <2>1. Present' = Present
    BY <1>3, <1>4 DEF Present
  <2>2. QED
    BY <1>1, <1>2, <2>1 DEF storeVars
<1>5. CASE gens[c] = Whole
  <2>1. c \in Present /\ Present' = Present \ {c}
    BY <1>3, <1>5 DEF Present
  <2>2. c # active
    BY <1>1 DEF IInv, SelectInv, PostSelect, Keep
  <2>3. \A r \in Readers : age[r] <= 1 => view[r] # c
    BY <1>1 DEF IInv, ReaderInv, PostSelect
  <2>4. c \notin Store!Owed
    BY <2>3 DEF Store!Owed
  <2>5. Store!Drop(c)
    BY <1>1, <1>2, <2>1, <2>2, <2>4 DEF Store!Drop, Present, Outcomes
  <2>6. QED
    BY <1>1, <2>5
<1>6. QED
  BY <1>4, <1>5

\* A power loss leaves an acknowledged content, or a later one, and that complete; or
\* no target directory, if nothing had made its name durable.
LEMMA LossIsLoss ==
  ASSUME IInv, PowerLoss
  PROVE  Store!PowerLoss
<1>1. \/ active' \in later /\ rooted' = TRUE /\ UNCHANGED later
      \/ ~rooted /\ active' = None /\ later' = {None} /\ UNCHANGED rooted
  BY DEF PowerLoss, ChangesLost, NamesLost, GenerationsGone, IInv, TypeOK, DiskInv, NothingOlder
<1>2. Present' \in SUBSET Contents
  BY DEF Present
<1>3. active' # None => active' \in Present'
  <2> SUFFICES ASSUME active' # None PROVE active' \in Present'
    OBVIOUS
  <2>1. ChangesLost
    BY DEF PowerLoss, NamesLost, GenerationsGone
  <2>2. active' \in Contents /\ mayGens[active'] = {Whole}
    BY <2>1 DEF ChangesLost, IInv, TypeOK, ActiveVerifies
  <2>3. gens'[active'] \in mayGens[active']
    BY <2>1, <2>2 DEF ChangesLost
  <2>4. QED
    BY <2>2, <2>3 DEF Present
<1>4. /\ view' = [r \in Readers |-> None] /\ age' = [r \in Readers |-> 0]
      /\ Outcomes' = [r \in Readers |-> "idle"]
  BY DEF PowerLoss, Outcomes, Outcome
<1>5. QED
  BY <1>1, <1>2, <1>3, <1>4 DEF Store!PowerLoss, Present, Outcomes

-----------------------------------------------------------------------------
(* Readers *)

\* How a reader's step shows in the store.
LEMMA Shown ==
  ASSUME IInv, NEW r \in Readers, NEW place \in ReaderPCs, rpc' = [rpc EXCEPT ![r] = place]
  PROVE  Outcomes' = [Outcomes EXCEPT ![r] =
                        IF place \in {"record", "list", "files"} THEN "open" ELSE place]
BY DEF IInv, TypeOK, Outcomes, Outcome

LEMMA NothingWritten ==
  ASSUME UNCHANGED publishVars
  PROVE  UNCHANGED <<active, later, Present, rooted>>
BY DEF publishVars, diskVars, Present

\* A reader that has read ACTIVE goes on, or fails when it has been overtaken.
LEMMA OpenReader ==
  ASSUME IInv, IInv', NEW r \in Readers, rpc[r] \in {"record", "list", "files"},
         NEW place \in {"list", "files", "failed"}, rpc' = [rpc EXCEPT ![r] = place],
         UNCHANGED <<publishVars, view, age>>
  PROVE  UNCHANGED storeVars \/ Store!Fail(r)
<1>1. Outcomes[r] = "open" /\ UNCHANGED <<active, later, Present, view, age, rooted>>
  BY NothingWritten DEF Outcomes, Outcome
<1>2. CASE place = "failed"
  <2>1. Outcomes' = [Outcomes EXCEPT ![r] = "failed"]
    BY <1>2, Shown
  <2>2. rpc'[r] = "failed"
    BY <1>2 DEF IInv, TypeOK
  <2>3. age[r] = 2
    BY <2>2, <1>1 DEF IInv, FailsOnlyWhenOvertaken
  <2>4. QED
    BY <1>1, <2>1, <2>3 DEF Store!Fail, Present, Outcomes
<1>3. CASE place # "failed"
  <2>1. Outcomes' = [Outcomes EXCEPT ![r] = "open"]
    BY <1>3, Shown
  <2>2. Outcomes' = Outcomes
    BY <1>1, <2>1 DEF Outcomes
  <2>3. QED
    BY <1>1, <2>2 DEF storeVars
<1>4. QED
  BY <1>2, <1>3

LEMMA ReaderActs ==
  ASSUME IInv, IInv', NEW r \in Readers, ReadActive(r) \/ Read(r) \/ Close(r)
  PROVE  \/ UNCHANGED storeVars
         \/ Store!Open(r) \/ Store!Return(r) \/ Store!Fail(r) \/ Store!Close(r)
<1>1. CASE ReadActive(r)
  <2>1. Outcomes' = [Outcomes EXCEPT ![r] = "open"]
    BY <1>1, Shown DEF ReadActive
  <2>2. Outcomes[r] = "idle"
    BY <1>1 DEF ReadActive, Outcomes, Outcome
  <2>3. UNCHANGED <<active, later, Present>>
    BY <1>1, NothingWritten DEF ReadActive
  <2>4. Store!Open(r)
    BY <1>1, <2>1, <2>2, <2>3 DEF ReadActive, Store!Open, Present, Outcomes
  <2>5. QED
    BY <2>4
<1>2. CASE ReadRecord(r)
  BY <1>2, OpenReader DEF ReadRecord
<1>3. CASE ListEntries(r)
  BY <1>3, OpenReader DEF ListEntries
<1>4. ASSUME NEW f \in Files, VerifyFile(r, f)
      PROVE  UNCHANGED storeVars \/ Store!Fail(r)
  <2>1. CASE VerifyPresent(r, f)
    <3>1. UNCHANGED <<publishVars, rpc, view, age>>
      BY <2>1 DEF VerifyPresent
    <3>2. QED
      BY <3>1, NothingWritten DEF storeVars, Outcomes, Outcome
  <2>2. CASE ~VerifyPresent(r, f)
    BY <1>4, <2>2, OpenReader DEF VerifyFile
  <2>3. QED
    BY <2>1, <2>2
<1>5. CASE ReturnDirectory(r)
  <2>1. Outcomes' = [Outcomes EXCEPT ![r] = "holding"]
    BY <1>5, Shown DEF ReturnDirectory
  <2>2. Outcomes[r] = "open"
    BY <1>5 DEF ReturnDirectory, Outcomes, Outcome
  <2>3. UNCHANGED <<active, later, Present, view, age, rooted>>
    BY <1>5, NothingWritten DEF ReturnDirectory
  <2>4. Store!Return(r)
    BY <2>1, <2>2, <2>3 DEF Store!Return, Present, Outcomes
  <2>5. QED
    BY <2>4
<1>6. CASE Close(r)
  <2>1. Outcomes' = [Outcomes EXCEPT ![r] = "idle"]
    BY <1>6, Shown DEF Close
  <2>2. Outcomes[r] \in {"holding", "failed"}
    BY <1>6 DEF Close, Outcomes, Outcome
  <2>3. UNCHANGED <<active, later, Present>>
    BY <1>6, NothingWritten DEF Close
  <2>4. Store!Close(r)
    BY <1>6, <2>1, <2>2, <2>3 DEF Close, Store!Close, Present, Outcomes
  <2>5. QED
    BY <2>4
<1>7. QED
  BY <1>1, <1>2, <1>3, <1>4, <1>5, <1>6 DEF Read

-----------------------------------------------------------------------------
LEMMA StoreStep ==
  ASSUME IInv, IInv', [Next]_vars
  PROVE  [Store!Next]_(Store!vars)
<1> USE DEF diskVars, elseVars, Goto
<1>0. SUFFICES UNCHANGED storeVars \/ Store!Next
  BY DEF Store!vars, Store!contentVars, storeVars, Present, Outcomes
<1>1. ASSUME NEW p \in Publishers,
             \/ Begin(p) \/ Kill(p) \/ WriteRecord(p) \/ SyncStaging(p) \/ SyncGenerations(p)
             \/ WritePending(p) \/ SyncTarget(p) \/ RemoveLitter(p) \/ UnlinkPending(p)
      PROVE  UNCHANGED storeVars
  <2>1. UNCHANGED <<gens, active, later, readVars, rooted>>
    BY <1>1 DEF Begin, Kill, WriteRecord, SyncStaging, SyncGenerations, WritePending, SyncTarget,
                RemoveLitter, UnlinkPending
  <2>2. QED
    BY <2>1, NoStep
<1>2. ASSUME NEW p \in Publishers, NEW c \in Contents, Acquire(p, c)
      PROVE  UNCHANGED storeVars
  BY <1>2, NoStep DEF Acquire, Enter
<1>3. ASSUME NEW p \in Publishers, NEW name \in Files, CopySynced(p, name)
      PROVE  UNCHANGED storeVars
  BY <1>3, NoStep DEF CopySynced
<1>4. ASSUME NEW p \in Publishers, Install(p)
      PROVE  UNCHANGED storeVars \/ Store!Next
  BY <1>4, InstallStores DEF Store!Next, Store!Operate
<1>5. ASSUME NEW p \in Publishers, ReplaceActive(p)
      PROVE  Store!Next
  BY <1>5, ReplaceSelects DEF Store!Next, Store!Operate
<1>6. ASSUME NEW p \in Publishers, NEW c \in Contents, NEW e \in Whole, RemoveEntry(p, c, e)
      PROVE  UNCHANGED storeVars \/ Store!Next
  BY <1>6, RemovalDrops DEF Store!Next, Store!Operate
<1>7. ASSUME NEW p \in Publishers, Return(p)
      PROVE  Store!Next
  <2>1. later' = {active} /\ UNCHANGED <<active, view, age, Present, Outcomes, rooted>>
    BY <1>7 DEF Return, readVars, Present, Outcomes, Outcome
  <2>2. Store!Acknowledge
    BY <2>1 DEF Store!Acknowledge, Present, Outcomes
  <2>3. QED
    BY <2>1, <2>2 DEF Store!Next, Store!Operate
<1>8. ASSUME NEW r \in Readers, ReadActive(r) \/ Read(r) \/ Close(r)
      PROVE  UNCHANGED storeVars \/ Store!Next
  <2>1. UNCHANGED rooted
    BY <1>8, ReadersOnlyRead DEF publishVars
  <2>2. QED
    BY <1>8, <2>1, ReaderActs DEF Store!Next, Store!Operate
<1>9. ASSUME PowerLoss
      PROVE  Store!Next
  BY <1>9, LossIsLoss DEF Store!Next
<1>10. ASSUME UNCHANGED vars
       PROVE  UNCHANGED storeVars
  BY <1>10, NoStep DEF vars
<1>11. QED
  BY <1>1, <1>2, <1>3, <1>4, <1>5, <1>6, <1>7, <1>8, <1>9, <1>10 DEF Next, Step

LEMMA StoreInit == Init => Store!Init
BY DEF Init, Store!Init, Outcome

\* Seen through complete generations only, publishers and readers, killed or cut off at
\* any step, behave as the atomic store (generations.py:7-8).
THEOREM ImplementsTheStore == ASSUME PublishOverTorn = FALSE PROVE Spec => ImplementsStore
<1>1. IInv /\ IInv' /\ [Next]_vars => [Store!Next]_(Store!vars)
  BY StoreStep
<1>2. QED
  BY StoreInit, Inductive, <1>1, PTL DEF Spec, ImplementsStore, Store!Spec
=============================================================================
