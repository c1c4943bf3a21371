----------------------------- MODULE Toolchain -----------------------------
(***************************************************************************)
(* How a build gets its compiler: the content-addressed cache of locked    *)
(* inputs (src/buildsys/inputs.py), the LLVM prefix extracted from one of  *)
(* them (src/buildsys/llvm.py) and, on Linux, the ICU libraries copied     *)
(* into that prefix (src/rust-cpython/lane_linux.py), as                   *)
(* src/rust-cpython/build.py puts them together in _fetch_llvm (online)    *)
(* and _llvm_ready (offline).  Nothing here takes a lock.  A process may   *)
(* be killed at any step, an operation of the system may fail, and what    *)
(* is on disk may be damaged while nobody runs.                            *)
(***************************************************************************)
EXTENDS Naturals, FiniteSets

CONSTANTS Processes,    \* callers that need the toolchain
          Libraries,    \* the ICU libraries
          None,
          MaxFaults     \* bound: kills, damages and failed operations

\* "rot" is anything the archive does not have there.
Parts == {"tools", "rot", "marker"} \union Libraries

ASSUME ToolchainAssumption ==
  /\ MaxFaults \in Nat
  /\ {"tools", "rot", "marker"} \intersect Libraries = {}
  /\ \A tree \in SUBSET Parts : tree # None

VARIABLES
  linux,                \* the lane with the ICU libraries
  alone,                \* nobody provisions while another provisions, or uses on Linux
  blob,                 \* the archive in the cache
  prefix,               \* what the LLVM prefix holds, or None
  pc, online, got,      \* each process: its step, whether it may download, what it got
  aside,                \* the previous prefix it has moved into its own directory
  copied,               \* the ICU libraries it has copied
  had,                  \* a prefix is owed: one was installed and no kill has lost it
  faults

fixed == <<linux, alone>>
procVars == <<pc, online, got, aside, copied>>
vars == <<fixed, blob, prefix, procVars, had, faults>>

Steps == {"idle", "require", "download", "store", "publish", "reread", "match", "stage",
          "look", "move", "install", "restore", "icu", "copy", "mark", "using", "done"}

\* What the archive puts there, and what a build needs.
Extracted == {"tools"}
Complete == IF linux THEN Extracted \union Libraries \union {"marker"} ELSE Extracted

Init ==
  /\ linux \in BOOLEAN /\ alone \in BOOLEAN
  /\ blob = "absent"
  /\ prefix = None
  /\ pc = [p \in Processes |-> "idle"]
  /\ online = [p \in Processes |-> FALSE]
  /\ got = [p \in Processes |-> "nothing"]
  /\ aside = [p \in Processes |-> None]
  /\ copied = [p \in Processes |-> {}]
  /\ had = FALSE
  /\ faults = 0

Goto(p, from, to) == pc[p] = from /\ pc' = [pc EXCEPT ![p] = to]
Fault == faults < MaxFaults /\ faults' = faults + 1

\* An exception ends the call; its temporary directories go with what is in them.
Raise(p, from) ==
  /\ Goto(p, from, "idle")
  /\ got' = [got EXCEPT ![p] = "nothing"]
  /\ aside' = [aside EXCEPT ![p] = None]
  /\ copied' = [copied EXCEPT ![p] = {}]
  /\ UNCHANGED online

Quiet == {"idle", "done"}

Start(p, may) ==
  /\ Goto(p, "idle", "require")
  /\ alone => \A q \in Processes \ {p} : pc[q] \in Quiet \union (IF linux THEN {} ELSE {"using"})
  /\ online' = [online EXCEPT ![p] = may]
  /\ UNCHANGED <<fixed, blob, prefix, got, aside, copied, had, faults>>

-----------------------------------------------------------------------------
(* The cache *)

\* The object's digest is that of the locked input.
Verified == blob = "good"

\* Mutant: a damaged object stays where it is and is reported for ever.
RequireOrAbsent(p) ==
  /\ \/ Verified /\ Goto(p, "require", "match") /\ UNCHANGED <<online, got, aside, copied>>
     \/ /\ blob = "absent" /\ online[p]
        /\ Goto(p, "require", "download") /\ UNCHANGED <<online, got, aside, copied>>
     \/ ~Verified /\ (blob = "absent" => ~online[p]) /\ Raise(p, "require")
  /\ UNCHANGED <<fixed, blob, prefix, had, faults>>

\* fetch goes on to download when the object is absent or damaged; require raises.
Require(p) ==
  /\ \/ Verified /\ Goto(p, "require", "match") /\ UNCHANGED <<online, got, aside, copied>>
     \/ /\ ~Verified /\ online[p]
        /\ Goto(p, "require", "download") /\ UNCHANGED <<online, got, aside, copied>>
     \/ ~Verified /\ ~online[p] /\ Raise(p, "require")
  /\ UNCHANGED <<fixed, blob, prefix, had, faults>>

\* Mutant: what a broken download has written is kept.
DownloadPartly(p) ==
  /\ Goto(p, "download", "store")
  /\ got' = [got EXCEPT ![p] = "partial"] /\ Fault
  /\ UNCHANGED <<fixed, blob, prefix, online, aside, copied, had>>

\* The network gives the file, or something else, or nothing.
Download(p) ==
  /\ \/ /\ Goto(p, "download", "store")
        /\ \/ got' = [got EXCEPT ![p] = "good"] /\ UNCHANGED faults
           \/ got' = [got EXCEPT ![p] = "bad"] /\ Fault
        /\ UNCHANGED <<online, aside, copied>>
     \/ Raise(p, "download") /\ Fault
  /\ UNCHANGED <<fixed, blob, prefix, had>>

\* Mutant: the digest of what was downloaded is not compared.
StoreUnseen(p) ==
  /\ Goto(p, "store", IF Verified THEN "match" ELSE "publish")
  /\ UNCHANGED <<online, got, aside, copied>>
  /\ UNCHANGED <<fixed, blob, prefix, had, faults>>

\* The digest is compared; somebody else may have published the object meanwhile.
Store(p) ==
  /\ \/ got[p] = "bad" /\ Raise(p, "store")
     \/ /\ got[p] = "good"
        /\ Goto(p, "store", IF Verified THEN "match" ELSE "publish")
        /\ UNCHANGED <<online, got, aside, copied>>
  /\ UNCHANGED <<fixed, blob, prefix, had, faults>>

\* The copy beside the object is compared with the download, then replaces the object.
Publish(p) ==
  /\ \/ Goto(p, "publish", "reread") /\ blob' = got[p] /\ UNCHANGED <<online, got, aside, copied, faults>>
     \/ Raise(p, "publish") /\ Fault /\ UNCHANGED blob
  /\ UNCHANGED <<fixed, prefix, had>>

Reread(p) ==
  /\ \/ Verified /\ Goto(p, "reread", "match") /\ UNCHANGED <<online, got, aside, copied>>
     \/ ~Verified /\ Raise(p, "reread")
  /\ UNCHANGED <<fixed, blob, prefix, had, faults>>

-----------------------------------------------------------------------------
(* The LLVM prefix *)

\* Mutant: a prefix that is there is used.
AnyPrefix == prefix # None

\* The tree has what the archive has, and nothing else.
Matches == prefix = Extracted

\* The archive's digest is taken again, then its members are compared with the prefix.
Match(p) ==
  /\ \/ Verified /\ Goto(p, "match", IF Matches THEN "icu" ELSE "stage")
        /\ UNCHANGED <<online, got, aside, copied>>
     \/ ~Verified /\ Raise(p, "match")
  /\ UNCHANGED <<fixed, blob, prefix, had, faults>>

\* The archive is extracted beside the prefix and compared, or that fails.
Stage(p) ==
  /\ \/ Goto(p, "stage", "look") /\ UNCHANGED <<online, got, aside, copied, faults>>
     \/ Raise(p, "stage") /\ Fault
  /\ UNCHANGED <<fixed, blob, prefix, had>>

Look(p) ==
  /\ Goto(p, "look", IF prefix = None THEN "install" ELSE "move")
  /\ UNCHANGED <<fixed, blob, prefix, online, got, aside, copied, had, faults>>

\* The first rename; somebody else may have made it.
MoveAside(p) ==
  /\ \/ /\ prefix # None
        /\ Goto(p, "move", "install")
        /\ aside' = [aside EXCEPT ![p] = prefix]
        /\ prefix' = None
        /\ UNCHANGED <<online, got, copied>>
     \/ prefix = None /\ Raise(p, "move") /\ UNCHANGED prefix
  /\ UNCHANGED <<fixed, blob, had, faults>>

\* The second: it fails when there is a prefix again, or for a reason of its own.
Install(p) ==
  /\ \/ /\ prefix = None
        /\ Goto(p, "install", "icu")
        /\ prefix' = Extracted
        /\ had' = TRUE
        /\ aside' = [aside EXCEPT ![p] = None]
        /\ UNCHANGED <<online, got, copied, faults>>
     \/ /\ Goto(p, "install", "restore")
        /\ IF prefix = None THEN Fault ELSE UNCHANGED faults
        /\ UNCHANGED <<prefix, had, online, got, aside, copied>>
  /\ UNCHANGED <<fixed, blob>>

\* Mutant: the previous prefix is not put back.
RestoreNothing(p) ==
  /\ Raise(p, "restore")
  /\ UNCHANGED <<fixed, blob, prefix, had, faults>>

\* The previous prefix goes back where there is none; the exception goes on.
Restore(p) ==
  /\ Raise(p, "restore")
  /\ prefix' = IF prefix = None /\ aside[p] # None THEN aside[p] ELSE prefix
  /\ UNCHANGED <<fixed, blob, had, faults>>

-----------------------------------------------------------------------------
(* The ICU libraries, copied into whatever is the prefix by then *)

Icu(p) ==
  /\ \/ /\ ~linux \/ (prefix # None /\ "marker" \in prefix)
        /\ Goto(p, "icu", "using") /\ UNCHANGED <<online, got, aside, copied>>
     \/ /\ linux /\ prefix # None /\ "marker" \notin prefix
        /\ Goto(p, "icu", "copy") /\ UNCHANGED <<online, got, aside, copied>>
     \/ linux /\ prefix = None /\ Raise(p, "icu")
  /\ UNCHANGED <<fixed, blob, prefix, had, faults>>

CopyLibrary(p) ==
  /\ \/ /\ prefix # None
        /\ \E l \in Libraries \ copied[p] :
             /\ prefix' = prefix \union {l}
             /\ copied' = [copied EXCEPT ![p] = @ \union {l}]
        /\ Goto(p, "copy", IF Libraries = copied'[p] THEN "mark" ELSE "copy")
        /\ UNCHANGED <<online, got, aside, faults>>
     \/ /\ Raise(p, "copy") /\ UNCHANGED prefix
        /\ IF prefix = None THEN UNCHANGED faults ELSE Fault
  /\ UNCHANGED <<fixed, blob, had>>

Mark(p) ==
  /\ \/ /\ prefix # None
        /\ Goto(p, "mark", "using")
        /\ prefix' = prefix \union {"marker"}
        /\ UNCHANGED <<online, got, aside, copied>>
     \/ prefix = None /\ Raise(p, "mark") /\ UNCHANGED prefix
  /\ UNCHANGED <<fixed, blob, had, faults>>

\* The build is over.
Finish(p) ==
  /\ Goto(p, "using", "done")
  /\ got' = [got EXCEPT ![p] = "nothing"]
  /\ copied' = [copied EXCEPT ![p] = {}]
  /\ UNCHANGED <<fixed, blob, prefix, online, aside, had, faults>>

-----------------------------------------------------------------------------
(* What goes wrong *)

\* A killed process leaves its directory, and in it the prefix it had moved there.
Kill(p) ==
  /\ pc[p] \notin Quiet
  /\ Raise(p, pc[p])
  /\ Fault
  /\ had' = (had /\ (prefix # None \/ \E q \in Processes \ {p} : aside[q] # None))
  /\ UNCHANGED <<fixed, blob, prefix>>

Damage ==
  /\ \A p \in Processes : pc[p] \in Quiet
  /\ Fault
  /\ \/ blob' \in {"absent", "bad"} /\ UNCHANGED prefix
     \/ prefix # None /\ prefix' = prefix \union {"rot"} /\ UNCHANGED blob
     \/ prefix # None /\ prefix' = prefix \ {"tools"} /\ UNCHANGED blob
  /\ UNCHANGED <<fixed, procVars, had>>

Provision(p) ==
  \/ Require(p) \/ Download(p) \/ Store(p) \/ Publish(p) \/ Reread(p)
  \/ Match(p) \/ Stage(p) \/ Look(p) \/ MoveAside(p) \/ Install(p) \/ Restore(p)
  \/ Icu(p) \/ CopyLibrary(p) \/ Mark(p) \/ Finish(p)

Next ==
  \/ \E p \in Processes : Provision(p) \/ Kill(p) \/ \E may \in BOOLEAN : Start(p, may)
  \/ Damage

Spec == Init /\ [][Next]_vars

\* The processes run, and a caller that is refused asks again, at times online.
FairSpec ==
  /\ Spec
  /\ \A p \in Processes : WF_vars(Provision(p)) /\ SF_vars(Start(p, TRUE))

-----------------------------------------------------------------------------
TypeOK ==
  /\ linux \in BOOLEAN /\ alone \in BOOLEAN /\ had \in BOOLEAN
  /\ blob \in {"absent", "bad", "good"}
  /\ prefix \in {None} \union SUBSET Parts
  /\ pc \in [Processes -> Steps]
  /\ online \in [Processes -> BOOLEAN]
  /\ got \in [Processes -> {"nothing", "bad", "good"}]
  /\ aside \in [Processes -> {None} \union SUBSET Parts]
  /\ copied \in [Processes -> SUBSET Libraries]
  /\ faults \in 0..MaxFaults

\* What a caller has been given out of the cache is the locked input, however many
\* downloads of it run and whatever was in its place (buildsys/inputs.py:132-190).
OnlyVerifiedInputs == \A p \in Processes : pc[p] \in {"match", "stage"} => blob = "good"

\* The prefix is missing only while somebody is between the two renames and has the
\* previous one to put back, or after a kill there (buildsys/llvm.py:438-451).
PrefixOwed == had => prefix # None \/ \E p \in Processes : aside[p] # None

\* With one process provisioning at a time, a build has all the tools it needs, and
\* nothing else, from its first step to its last (rust-cpython/build.py:677-702).
ToolsInUse == alone => \A p \in Processes : pc[p] = "using" => prefix = Complete

\* Whatever was killed, damaged or failed, callers that keep asking get their
\* toolchain: no state on disk is beyond repair (buildsys/llvm.py:411-452).  Without
\* alone two provisioners may move the prefix away from each other for ever.
Heals == alone => \A p \in Processes : <>(pc[p] = "done")
=============================================================================
