-------------------------- MODULE ToolchainProofs --------------------------
(***************************************************************************)
(* The safety of Toolchain for any number of processes, libraries and      *)
(* faults: nobody goes on with an archive that is not the locked one, a    *)
(* prefix that was installed is never lost but to a kill, and a build that *)
(* nobody overlaps has the tools it needs from its first step to its last. *)
(***************************************************************************)
EXTENDS Toolchain, TLAPS

\* What is published was verified, and what was verified stays while anybody works.
InputInv ==
  /\ \A p \in Processes : pc[p] = "publish" => got[p] = "good"
  /\ OnlyVerifiedInputs

\* A prefix is set aside only between the two renames.
AsideInv ==
  /\ \A p \in Processes : pc[p] \notin {"install", "restore"} => aside[p] = None
  /\ PrefixOwed

\* What a process alone has made of the prefix so far.
Progress(p) ==
  /\ pc[p] \notin {"copy", "mark", "using"} => copied[p] = {}
  /\ pc[p] = "icu" => prefix = Extracted
  /\ pc[p] = "copy" => linux /\ prefix = Extracted \union copied[p]
  /\ pc[p] = "mark" => linux /\ prefix = Extracted \union Libraries
  /\ pc[p] = "using" => prefix = Complete

\* The steps that extract the prefix again.
Renewing == {"stage", "look", "move", "install", "restore"}

\* Who may work beside whom: on macOS many may use a prefix nobody renews.
ApartInv ==
  \A p, q \in Processes : p # q =>
    /\ pc[p] \notin Quiet => pc[q] \in Quiet \union {"using"} \/ pc[p] = "using"
    /\ linux /\ pc[p] \notin Quiet => pc[q] \in Quiet
    /\ pc[p] \in Renewing => pc[q] # "using"

ToolsInv == alone => ApartInv /\ \A p \in Processes : Progress(p)

IInv == TypeOK /\ InputInv /\ AsideInv /\ ToolsInv

USE ToolchainAssumption
    DEF fixed, procVars, vars, Steps, Parts, Extracted, Quiet, Goto, Fault, Raise, Verified

-----------------------------------------------------------------------------
(* Initial states *)

LEMMA Initially == Init => IInv
<1> SUFFICES ASSUME Init PROVE IInv
  OBVIOUS
<1> USE DEF Init
<1>1. TypeOK
  <2>1. linux \in BOOLEAN /\ alone \in BOOLEAN /\ had \in BOOLEAN
    OBVIOUS
  <2>2. online \in [Processes -> BOOLEAN]
    OBVIOUS
  <2>3. blob \in {"absent", "bad", "good"} /\ prefix \in {None} \union SUBSET Parts /\ faults \in 0..MaxFaults
    OBVIOUS
  <2>4. /\ pc \in [Processes -> Steps]
        /\ got \in [Processes -> {"nothing", "bad", "good"}]
        /\ aside \in [Processes -> {None} \union SUBSET Parts]
        /\ copied \in [Processes -> SUBSET Libraries]
    OBVIOUS
  <2>5. QED
    BY <2>1, <2>2, <2>3, <2>4 DEF TypeOK
<1>2. InputInv
  BY DEF InputInv, OnlyVerifiedInputs
<1>3. AsideInv
  BY DEF AsideInv, PrefixOwed
<1>4. ToolsInv
  BY DEF ToolsInv, ApartInv, Progress, Renewing
<1>5. QED
  BY <1>1, <1>2, <1>3, <1>4 DEF IInv

-----------------------------------------------------------------------------
(* Type correctness *)

LEMMA TypeStep == TypeOK /\ InputInv /\ [Next]_vars => TypeOK'
<1> SUFFICES ASSUME TypeOK, InputInv, [Next]_vars PROVE TypeOK'
  OBVIOUS
<1> USE DEF TypeOK
<1>1. ASSUME NEW p \in Processes, Require(p) PROVE TypeOK'
  BY <1>1 DEF Require
<1>2. ASSUME NEW p \in Processes, Download(p) PROVE TypeOK'
  BY <1>2 DEF Download
<1>3. ASSUME NEW p \in Processes, Store(p) PROVE TypeOK'
  BY <1>3 DEF Store
<1>4. ASSUME NEW p \in Processes, Publish(p) PROVE TypeOK'
  BY <1>4 DEF Publish, InputInv
<1>5. ASSUME NEW p \in Processes, Reread(p) PROVE TypeOK'
  BY <1>5 DEF Reread
<1>6. ASSUME NEW p \in Processes, Match(p) PROVE TypeOK'
  BY <1>6 DEF Match, Matches, AnyPrefix
<1>7. ASSUME NEW p \in Processes, Stage(p) PROVE TypeOK'
  BY <1>7 DEF Stage
<1>8. ASSUME NEW p \in Processes, Look(p) PROVE TypeOK'
  BY <1>8 DEF Look
<1>9. ASSUME NEW p \in Processes, MoveAside(p) PROVE TypeOK'
  BY <1>9 DEF MoveAside
<1>10. ASSUME NEW p \in Processes, Install(p) PROVE TypeOK'
  <2>1. CASE prefix' = Extracted
    BY <1>10, <2>1 DEF Install
  <2>2. CASE UNCHANGED <<prefix, had, online, got, aside, copied>>
    BY <1>10, <2>2 DEF Install
  <2>3. QED
    BY <1>10, <2>1, <2>2 DEF Install
<1>11. ASSUME NEW p \in Processes, Restore(p) PROVE TypeOK'
  BY <1>11 DEF Restore
<1>12. ASSUME NEW p \in Processes, Icu(p) PROVE TypeOK'
  BY <1>12 DEF Icu
<1>13. ASSUME NEW p \in Processes, CopyLibrary(p) PROVE TypeOK'
  BY <1>13 DEF CopyLibrary
<1>14. ASSUME NEW p \in Processes, Mark(p) PROVE TypeOK'
  BY <1>14 DEF Mark
<1>15. ASSUME NEW p \in Processes, Finish(p) PROVE TypeOK'
  BY <1>15 DEF Finish
<1>16. ASSUME NEW p \in Processes, Kill(p) PROVE TypeOK'
  BY <1>16 DEF Kill
<1>17. ASSUME NEW p \in Processes, NEW may \in BOOLEAN, Start(p, may) PROVE TypeOK'
  BY <1>17 DEF Start
<1>18. CASE Damage
  BY <1>18 DEF Damage
<1>19. CASE UNCHANGED vars
  BY <1>19
<1>20. QED
  BY <1>1, <1>2, <1>3, <1>4, <1>5, <1>6, <1>7, <1>8, <1>9, <1>10, <1>11, <1>12, <1>13, <1>14,
     <1>15, <1>16, <1>17, <1>18, <1>19 DEF Next, Provision

-----------------------------------------------------------------------------
(* The cache *)

LEMMA InputStep == TypeOK /\ InputInv /\ [Next]_vars => InputInv'
<1> SUFFICES ASSUME TypeOK, InputInv, [Next]_vars PROVE InputInv'
  OBVIOUS
<1> USE DEF TypeOK, InputInv, OnlyVerifiedInputs
<1>1. ASSUME NEW p \in Processes, Require(p) PROVE InputInv'
  BY <1>1 DEF Require
<1>2. ASSUME NEW p \in Processes, Download(p) PROVE InputInv'
  BY <1>2 DEF Download
<1>3. ASSUME NEW p \in Processes, Store(p) PROVE InputInv'
  BY <1>3 DEF Store
<1>4. ASSUME NEW p \in Processes, Publish(p) PROVE InputInv'
  BY <1>4 DEF Publish
<1>5. ASSUME NEW p \in Processes, Reread(p) PROVE InputInv'
  BY <1>5 DEF Reread
<1>6. ASSUME NEW p \in Processes, Match(p) PROVE InputInv'
  BY <1>6 DEF Match, Matches, AnyPrefix
<1>7. ASSUME NEW p \in Processes, Stage(p) PROVE InputInv'
  BY <1>7 DEF Stage
<1>8. ASSUME NEW p \in Processes, Look(p) PROVE InputInv'
  BY <1>8 DEF Look
<1>9. ASSUME NEW p \in Processes, MoveAside(p) PROVE InputInv'
  BY <1>9 DEF MoveAside
<1>10. ASSUME NEW p \in Processes, Install(p) PROVE InputInv'
  BY <1>10 DEF Install
<1>11. ASSUME NEW p \in Processes, Restore(p) PROVE InputInv'
  BY <1>11 DEF Restore
<1>12. ASSUME NEW p \in Processes, Icu(p) PROVE InputInv'
  BY <1>12 DEF Icu
<1>13. ASSUME NEW p \in Processes, CopyLibrary(p) PROVE InputInv'
  BY <1>13 DEF CopyLibrary
<1>14. ASSUME NEW p \in Processes, Mark(p) PROVE InputInv'
  BY <1>14 DEF Mark
<1>15. ASSUME NEW p \in Processes, Finish(p) PROVE InputInv'
  BY <1>15 DEF Finish
<1>16. ASSUME NEW p \in Processes, Kill(p) PROVE InputInv'
  BY <1>16 DEF Kill
<1>17. ASSUME NEW p \in Processes, NEW may \in BOOLEAN, Start(p, may) PROVE InputInv'
  BY <1>17 DEF Start
<1>18. CASE Damage
  BY <1>18 DEF Damage
<1>19. CASE UNCHANGED vars
  BY <1>19
<1>20. QED
  BY <1>1, <1>2, <1>3, <1>4, <1>5, <1>6, <1>7, <1>8, <1>9, <1>10, <1>11, <1>12, <1>13, <1>14,
     <1>15, <1>16, <1>17, <1>18, <1>19 DEF Next, Provision

-----------------------------------------------------------------------------
(* The two renames *)

LEMMA AsideStep == TypeOK /\ AsideInv /\ [Next]_vars => AsideInv'
<1> SUFFICES ASSUME TypeOK, AsideInv, [Next]_vars PROVE AsideInv'
  OBVIOUS
<1> USE DEF TypeOK, AsideInv, PrefixOwed
<1>1. ASSUME NEW p \in Processes, Require(p) PROVE AsideInv'
  BY <1>1 DEF Require
<1>2. ASSUME NEW p \in Processes, Download(p) PROVE AsideInv'
  BY <1>2 DEF Download
<1>3. ASSUME NEW p \in Processes, Store(p) PROVE AsideInv'
  BY <1>3 DEF Store
<1>4. ASSUME NEW p \in Processes, Publish(p) PROVE AsideInv'
  BY <1>4 DEF Publish
<1>5. ASSUME NEW p \in Processes, Reread(p) PROVE AsideInv'
  BY <1>5 DEF Reread
<1>6. ASSUME NEW p \in Processes, Match(p) PROVE AsideInv'
  BY <1>6 DEF Match, Matches, AnyPrefix
<1>7. ASSUME NEW p \in Processes, Stage(p) PROVE AsideInv'
  BY <1>7 DEF Stage
<1>8. ASSUME NEW p \in Processes, Look(p) PROVE AsideInv'
  BY <1>8 DEF Look
<1>9. ASSUME NEW p \in Processes, MoveAside(p) PROVE AsideInv'
  BY <1>9 DEF MoveAside
<1>10. ASSUME NEW p \in Processes, Install(p) PROVE AsideInv'
  BY <1>10 DEF Install
<1>11. ASSUME NEW p \in Processes, Restore(p) PROVE AsideInv'
  BY <1>11 DEF Restore
<1>12. ASSUME NEW p \in Processes, Icu(p) PROVE AsideInv'
  BY <1>12 DEF Icu
<1>13. ASSUME NEW p \in Processes, CopyLibrary(p) PROVE AsideInv'
  BY <1>13 DEF CopyLibrary
<1>14. ASSUME NEW p \in Processes, Mark(p) PROVE AsideInv'
  BY <1>14 DEF Mark
<1>15. ASSUME NEW p \in Processes, Finish(p) PROVE AsideInv'
  BY <1>15 DEF Finish
<1>16. ASSUME NEW p \in Processes, Kill(p) PROVE AsideInv'
  BY <1>16 DEF Kill
<1>17. ASSUME NEW p \in Processes, NEW may \in BOOLEAN, Start(p, may) PROVE AsideInv'
  BY <1>17 DEF Start
<1>18. CASE Damage
  BY <1>18 DEF Damage
<1>19. CASE UNCHANGED vars
  BY <1>19
<1>20. QED
  BY <1>1, <1>2, <1>3, <1>4, <1>5, <1>6, <1>7, <1>8, <1>9, <1>10, <1>11, <1>12, <1>13, <1>14,
     <1>15, <1>16, <1>17, <1>18, <1>19 DEF Next, Provision

-----------------------------------------------------------------------------
(* What a build gets *)

LEMMA ToolsStep == TypeOK /\ ToolsInv /\ [Next]_vars => ToolsInv'
<1> SUFFICES ASSUME TypeOK, ToolsInv, [Next]_vars PROVE ToolsInv'
  OBVIOUS
<1> USE DEF TypeOK, ToolsInv, ApartInv, Progress, Complete, Renewing
<1>1. ASSUME NEW p \in Processes, Require(p) PROVE ToolsInv'
  BY <1>1 DEF Require
<1>2. ASSUME NEW p \in Processes, Download(p) PROVE ToolsInv'
  BY <1>2 DEF Download
<1>3. ASSUME NEW p \in Processes, Store(p) PROVE ToolsInv'
  BY <1>3 DEF Store
<1>4. ASSUME NEW p \in Processes, Publish(p) PROVE ToolsInv'
  BY <1>4 DEF Publish
<1>5. ASSUME NEW p \in Processes, Reread(p) PROVE ToolsInv'
  BY <1>5 DEF Reread
<1>6. ASSUME NEW p \in Processes, Match(p) PROVE ToolsInv'
  BY <1>6 DEF Match, Matches, AnyPrefix
<1>7. ASSUME NEW p \in Processes, Stage(p) PROVE ToolsInv'
  BY <1>7 DEF Stage
<1>8. ASSUME NEW p \in Processes, Look(p) PROVE ToolsInv'
  BY <1>8 DEF Look
<1>9. ASSUME NEW p \in Processes, MoveAside(p) PROVE ToolsInv'
  BY <1>9 DEF MoveAside
<1>10. ASSUME NEW p \in Processes, Install(p) PROVE ToolsInv'
  BY <1>10 DEF Install
<1>11. ASSUME NEW p \in Processes, Restore(p) PROVE ToolsInv'
  BY <1>11 DEF Restore
<1>12. ASSUME NEW p \in Processes, Icu(p) PROVE ToolsInv'
  BY <1>12 DEF Icu
<1>13. ASSUME NEW p \in Processes, CopyLibrary(p) PROVE ToolsInv'
  BY <1>13 DEF CopyLibrary
<1>14. ASSUME NEW p \in Processes, Mark(p) PROVE ToolsInv'
  BY <1>14 DEF Mark
<1>15. ASSUME NEW p \in Processes, Finish(p) PROVE ToolsInv'
  BY <1>15 DEF Finish
<1>16. ASSUME NEW p \in Processes, Kill(p) PROVE ToolsInv'
  BY <1>16 DEF Kill
<1>17. ASSUME NEW p \in Processes, NEW may \in BOOLEAN, Start(p, may) PROVE ToolsInv'
  BY <1>17 DEF Start
<1>18. CASE Damage
  BY <1>18 DEF Damage
<1>19. CASE UNCHANGED vars
  BY <1>19
<1>20. QED
  BY <1>1, <1>2, <1>3, <1>4, <1>5, <1>6, <1>7, <1>8, <1>9, <1>10, <1>11, <1>12, <1>13, <1>14,
     <1>15, <1>16, <1>17, <1>18, <1>19 DEF Next, Provision

-----------------------------------------------------------------------------
(* Theorems *)

LEMMA Inductive == Spec => []IInv
<1>1. IInv /\ [Next]_vars => IInv'
  BY TypeStep, InputStep, AsideStep, ToolsStep DEF IInv
<1>2. QED
  BY Initially, <1>1, PTL DEF Spec

\* Every variable keeps its type.
THEOREM TypeCorrect == Spec => []TypeOK
<1>1. IInv => TypeOK
  BY DEF IInv
<1>2. QED
  BY Inductive, <1>1, PTL

\* However many processes download, publish and repair the object at once, die or
\* fail, nobody goes on with an archive that is not the locked one.
THEOREM InputsAreVerified == Spec => []OnlyVerifiedInputs
<1>1. IInv => OnlyVerifiedInputs
  BY DEF IInv, InputInv
<1>2. QED
  BY Inductive, <1>1, PTL

\* However many processes move prefixes aside and back, one that was installed is in
\* its place or in the hands of a process that owes it, unless a kill lost it.
THEOREM PrefixIsOwed == Spec => []PrefixOwed
<1>1. IInv => PrefixOwed
  BY DEF IInv, AsideInv
<1>2. QED
  BY Inductive, <1>1, PTL

\* A build that overlaps with no other provisioning has its tools while it runs.
THEOREM BuildHasTools == Spec => []ToolsInUse
<1>1. IInv => ToolsInUse
  BY DEF IInv, ToolsInv, Progress, ToolsInUse
<1>2. QED
  BY Inductive, <1>1, PTL
=============================================================================
