------------------------------ MODULE Release ------------------------------
(***************************************************************************)
(* From a build to a release: src/build/package.py copies the staged       *)
(* install, qualifies the copy and publishes it; src/build.py and          *)
(* src/build/promote_openssl_free.py publish what a container built and    *)
(* ran; src/buildsys/uvmirror.py assembles one release out of the active   *)
(* generation of every target.  Builds, packagings and assemblies run at   *)
(* the same time and may be killed; the only thing they share besides the  *)
(* staged install is one GenerationStore per target.                       *)
(*                                                                         *)
(* A Linux package is built in a container of its own; the macOS one is    *)
(* the build host's stage, which the next build replaces.                  *)
(***************************************************************************)
EXTENDS Naturals, FiniteSets

CONSTANTS Revisions,    \* source revisions
          Packagers,    \* processes that package or promote
          Assemblers,   \* processes that assemble the release
          Registered,   \* cases of one test file that may fail (CASE_EXCLUSIONS)
          Others,       \* the other cases of that file
          Elsewhere,    \* cases of files without a registered case
          None,
          MaxCommits, MaxBuilds, MaxPackages  \* bounds

ASSUME ReleaseAssumption ==
  /\ {MaxCommits, MaxBuilds, MaxPackages} \subseteq Nat
  /\ Registered \intersect (Others \union Elsewhere) = {}
  /\ None \notin Revisions

VARIABLES
  head,                 \* the revision checked out
  stage, tree,          \* the staged install: how far it is, and from what it comes
  work,                 \* what each packager does, and with what
  undoable,             \* what a power loss may bring back: not followed, anything
  macCurrent, macAvailable, macView, macAge, macOut,
  muslCurrent, muslAvailable, muslView, muslAge, muslOut,
  assembly,             \* each assembly: where it is, the revision wanted, the copies
  release,              \* the assets in the release directory
  count                 \* of what the bounds bound

stageVars == <<head, stage, tree>>
macVars == <<undoable, macCurrent, macAvailable, macView, macAge, macOut>>
muslVars == <<undoable, muslCurrent, muslAvailable, muslView, muslAge, muslOut>>
vars == <<stageVars, work, macVars, muslVars, assembly, release, count>>

Targets == {"musl", "macos"}
Cases == Registered \union Others \union Elsewhere

\* What failed in the suite of a package: registered cases at most; another case too
\* that no solo attempt showed again; or one that counts against the package.
Verdicts == {"registered", "erased", "shown"}

\* An archive and its manifest: the revision that was built, whether there was a
\* commit before it was built (history), the revision that the manifest names, what
\* failed in the suite, the runtime check.
Contents == [built : Revisions, moved : BOOLEAN, revision : Revisions, failures : Verdicts,
             execution : {"none", "emulated", "native"}]

Mac == INSTANCE GenerationStore WITH Readers <- Assemblers, current <- macCurrent,
         later <- undoable, available <- macAvailable, view <- macView, age <- macAge, out <- macOut,
         kept <- TRUE
Musl == INSTANCE GenerationStore WITH Readers <- Assemblers, current <- muslCurrent,
         later <- undoable, available <- muslAvailable, view <- muslView, age <- muslAge, out <- muslOut,
         kept <- TRUE

\* A step of one store.
At(t, mac, musl) == IF t = "macos" THEN mac /\ UNCHANGED muslVars
                                   ELSE musl /\ UNCHANGED macVars

Seen(t, a) == IF t = "macos" THEN macView[a] ELSE muslView[a]
Outcome(t, a) == IF t = "macos" THEN macOut[a] ELSE muslOut[a]
Age(t, a) == IF t = "macos" THEN macAge[a] ELSE muslAge[a]
Current(t) == IF t = "macos" THEN macCurrent ELSE muslCurrent
Owed(t) == IF t = "macos" THEN Mac!Owed ELSE Musl!Owed
Available(t) == IF t = "macos" THEN macAvailable ELSE muslAvailable

NoWork == [at |-> "idle", target |-> None, flags |-> None, content |-> None]
NoAssembly == [at |-> "idle", want |-> None, copies |-> {}]

Artifact(revision) ==
  [built |-> None, moved |-> FALSE, revision |-> revision, failures |-> "registered",
   execution |-> "none"]

\* A build is done; dist/ is empty or as earlier work left it.
Init ==
  /\ head \in Revisions
  /\ stage = "recorded" /\ tree = [from |-> head, noted |-> head, moved |-> FALSE]
  /\ work = [p \in Packagers |-> NoWork]
  /\ undoable = Contents
  /\ macCurrent \in {None, [Artifact(head) EXCEPT !.built = head]}
  /\ muslCurrent \in {None, [Artifact(head) EXCEPT !.built = head, !.execution = "native"]}
  /\ macAvailable = {macCurrent} \ {None} /\ muslAvailable = {muslCurrent} \ {None}
  /\ macView = [a \in Assemblers |-> None] /\ muslView = macView
  /\ macAge = [a \in Assemblers |-> 0] /\ muslAge = macAge
  /\ macOut = [a \in Assemblers |-> "idle"] /\ muslOut = macOut
  /\ assembly = [a \in Assemblers |-> NoAssembly]
  /\ release = {}
  /\ count = [commits |-> 0, builds |-> 0, packages |-> 0]

Counted(what, bound) ==
  /\ count[what] < bound
  /\ count' = [count EXCEPT ![what] = @ + 1]

-----------------------------------------------------------------------------
(* The checkout and the build of the staged install *)

\* At any time: also while a build has read its inputs and not yet noted a revision,
\* and while a container's build has noted one and not yet read its inputs.
Commit ==
  /\ Counted("commits", MaxCommits)
  /\ head' \in Revisions \ {head}
  /\ tree' = [tree EXCEPT !.moved = @ \/ stage = "gone"]
  /\ work' = [p \in Packagers |-> IF work[p].at = "identified"
                                  THEN [work[p] EXCEPT !.content.moved = TRUE] ELSE work[p]]
  /\ UNCHANGED <<stage, macVars, muslVars, assembly, release>>

\* A build removes the recipe and the old stage, and reads the lock and the patches.
Wipe ==
  /\ Counted("builds", MaxBuilds)
  /\ stage' = "gone"
  /\ tree' = [from |-> head, noted |-> None, moved |-> FALSE]
  /\ UNCHANGED <<head, work, macVars, muslVars, assembly, release>>

\* The revision is read now and becomes one of the flags; configure to make install follow.
InstallStage ==
  /\ stage = "gone"
  /\ stage' = "installing"
  /\ tree' = [tree EXCEPT !.noted = head]
  /\ UNCHANGED <<head, work, macVars, muslVars, assembly, release, count>>

\* The tree is finished, and build-record.json beside it and in the logs.
RecordStage ==
  /\ stage = "installing"
  /\ stage' = "recorded"
  /\ UNCHANGED <<head, tree, work, macVars, muslVars, assembly, release, count>>

-----------------------------------------------------------------------------
(* Packaging *)

\* The record is there and names the checkout's revision.  Its lock and its patches must
\* be the checkout's too, but other revisions may have the same.
BeginPackage(p) ==
  /\ work[p].at = "idle"
  /\ Counted("packages", MaxPackages)
  /\ stage = "recorded"
  /\ tree.noted = head
  /\ work' = [work EXCEPT ![p] = [at |-> "validated", target |-> "macos", flags |-> None,
                                  content |-> Artifact(tree.noted)]]
  /\ UNCHANGED <<stageVars, macVars, muslVars, assembly, release>>

\* The stage is copied whatever it is by now.  With nothing there copytree raises; what
\* is not complete yet fails the checks of the copy.
CopyStage(p) ==
  /\ work[p].at = "validated"
  /\ \/ stage # "recorded" /\ work' = [work EXCEPT ![p] = NoWork]
     \/ /\ stage # "gone"
        /\ work' = [work EXCEPT ![p].at = "copied", ![p].flags = tree.noted,
                               ![p].content.built = tree.from, ![p].content.moved = tree.moved]
  /\ UNCHANGED <<stageVars, macVars, muslVars, assembly, release, count>>

\* Mutant: the copy's flags are not compared with the record.
FlagsIgnored(p) == TRUE

\* The copied interpreter reports the flags it was built with, the revision among them.
FlagsMatch(p) == work[p].flags = work[p].content.revision

VerifyInstall(p) ==
  /\ work[p].at = "copied"
  /\ work' = [work EXCEPT ![p] = IF FlagsMatch(p) THEN [@ EXCEPT !.at = "verified"] ELSE NoWork]
  /\ UNCHANGED <<stageVars, macVars, muslVars, assembly, release, count>>

\* Failed files with a registered case, and those without.
FileFails(failed) == failed \intersect (Registered \union Others) # {}
OtherFileFails(failed) == failed \intersect Elsewhere # {}

\* What the solo attempts of that file may report: incomplete, or the cases that
\* fail; none of them is a pass.
Reports == SUBSET (Registered \union Others) \union {{None}}

\* Mutant: one attempt with only registered failures is enough.
AcceptedOnce(attempts) == \E report \in attempts : report # {} /\ report \subseteq Registered

\* classify: every attempt failed, in registered cases only.
Accepted(attempts) == \A report \in attempts : report # {} /\ report \subseteq Registered

\* What its three or four attempts may show, whatever failed in the suite.
Attempts == {S \in SUBSET Reports : S # {} /\ Cardinality(S) <= 4}

Unexpected(failed, attempts) ==
  OtherFileFails(failed) \/ (FileFails(failed) /\ ~Accepted(attempts))

\* A case that is not registered counts if an attempt shows it again, and always in a
\* file without a registered case.
Verdict(failed, attempts) ==
  CASE failed \subseteq Registered -> "registered"
    [] ~(failed \subseteq Registered) /\ failed \ Registered \subseteq Others \ UNION attempts -> "erased"
    [] OTHER -> "shown"

\* What a package that passes may have met.
Passing == {Verdict(f[1], f[2]) : f \in {fa \in (SUBSET Cases) \X Attempts : ~Unexpected(fa[1], fa[2])}}

\* The suite, the solo attempts of what failed, then the checks of the extracted
\* archive, which may fail; only a clean verdict goes on to be published.
Qualify(p) ==
  /\ work[p].at = "verified"
  /\ \/ work' = [work EXCEPT ![p] = NoWork]
     \/ \E verdict \in Passing :
          work' = [work EXCEPT ![p].at = "qualified", ![p].content.failures = verdict]
  /\ UNCHANGED <<stageVars, macVars, muslVars, assembly, release, count>>

\* build.py qualify: the checkout is clean and its revision is noted.
IdentifySource(p) ==
  /\ work[p].at = "idle"
  /\ Counted("packages", MaxPackages)
  /\ work' = [work EXCEPT ![p] = [at |-> "identified", target |-> "musl", flags |-> None,
                                  content |-> Artifact(head)]]
  /\ UNCHANGED <<stageVars, macVars, muslVars, assembly, release>>

\* After the fetch the checkout as it is then goes into the container's build, which
\* takes the revision from its caller.
BuildInContainer(p) ==
  /\ work[p].at = "identified"
  /\ \/ work' = [work EXCEPT ![p] = NoWork]
     \/ work' = [work EXCEPT ![p].at = "verified", ![p].content.built = head]
  /\ UNCHANGED <<stageVars, macVars, muslVars, assembly, release, count>>

\* The smoke test in the clean container, on this machine or on an emulated one.
RecordRuntime(p) ==
  /\ work[p].at = "qualified"
  /\ work[p].target = "musl"
  /\ work[p].content.execution = "none"
  /\ \/ work' = [work EXCEPT ![p] = NoWork]
     \/ \E execution \in {"native", "emulated"} :
          work' = [work EXCEPT ![p].content.execution = execution]
  /\ UNCHANGED <<stageVars, macVars, muslVars, assembly, release, count>>

\* promote_openssl_free.py: what the drivers of backend/ have built at some revision and
\* qualified, if its manifest names the revision asked for; they refuse a foreign machine.
Promote(p) ==
  /\ work[p].at = "idle"
  /\ Counted("packages", MaxPackages)
  /\ \E t \in Targets, revision \in Revisions :
       work' = [work EXCEPT ![p] = [at |-> "qualified", target |-> t, flags |-> None, content |->
         [Artifact(revision) EXCEPT !.built = revision,
                                    !.execution = IF t = "musl" THEN "native" ELSE "none"]]]
  /\ UNCHANGED <<stageVars, macVars, muslVars, assembly, release>>

\* Mutant: the package is published before its runtime check.
CompleteAtOnce(p) == work[p].at = "qualified"

Complete(p) ==
  /\ work[p].at = "qualified"
  /\ work[p].target = "musl" => work[p].content.execution # "none"

\* publish_generation, one process per target at a time.
Publishing(t) == \E p \in Packagers : work[p].target = t /\ work[p].at \in {"stored", "pruning"}

StoreContent(p) ==
  /\ Complete(p)
  /\ ~Publishing(work[p].target)
  /\ work' = [work EXCEPT ![p].at = "stored"]
  /\ At(work[p].target, Mac!Store(work[p].content), Musl!Store(work[p].content))
  /\ UNCHANGED <<stageVars, assembly, release, count>>

SelectContent(p) ==
  /\ work[p].at = "stored"
  /\ work' = [work EXCEPT ![p].at = "pruning"]
  /\ At(work[p].target, Mac!Select(work[p].content), Musl!Select(work[p].content))
  /\ UNCHANGED <<stageVars, assembly, release, count>>

PruneContent(p, c) ==
  /\ work[p].at = "pruning"
  /\ At(work[p].target, Mac!Drop(c), Musl!Drop(c))
  /\ UNCHANGED <<stageVars, work, assembly, release, count>>

\* Nothing is left that may go.
FinishPackage(p) ==
  /\ work[p].at = "pruning"
  /\ Available(work[p].target) \ {Current(work[p].target)} \subseteq Owed(work[p].target)
  /\ work' = [work EXCEPT ![p] = NoWork]
  /\ UNCHANGED <<stageVars, macVars, muslVars, assembly, release, count>>

\* A process dies, or is interrupted; what it made in its own directory is lost.
KillPackager(p) ==
  /\ work[p].at # "idle"
  /\ work' = [work EXCEPT ![p] = NoWork]
  /\ UNCHANGED <<stageVars, macVars, muslVars, assembly, release, count>>

-----------------------------------------------------------------------------
(* Assembly: the Linux targets come first *)

Assembled(a, copies) == assembly' = [assembly EXCEPT ![a].copies = @ \union copies]
Goto(a, from, to) == assembly[a].at = from /\ assembly' = [assembly EXCEPT ![a].at = to]
Gone(a, at) == assembly' = [assembly EXCEPT ![a] = [NoAssembly EXCEPT !.at = at]]

\* The call is over, by an exception too: the files are not used any more.
Leave(a) ==
  /\ Gone(a, "idle")
  /\ IF macOut[a] = "idle" THEN UNCHANGED macVars ELSE Mac!Close(a)
  /\ IF muslOut[a] = "idle" THEN UNCHANGED muslVars ELSE Musl!Close(a)

StartAssembly(a) ==
  /\ assembly[a].at = "idle"
  /\ assembly' = [assembly EXCEPT ![a] = [at |-> "musl", want |-> head, copies |-> {}]]
  /\ UNCHANGED <<stageVars, work, macVars, muslVars, release, count>>

\* active_generation of the target the assembly has come to; with none it raises.
OpenTarget(a) ==
  /\ assembly[a].at \in Targets
  /\ LET t == assembly[a].at IN
       /\ Outcome(t, a) = "idle"
       /\ IF Current(t) = None THEN Leave(a)
                               ELSE At(t, Mac!Open(a), Musl!Open(a)) /\ UNCHANGED assembly
  /\ UNCHANGED <<stageVars, work, release, count>>

\* _load_manifest_from, and the runtime check of the Linux targets.
Acceptable(a, t) ==
  /\ Seen(t, a).revision = assembly[a].want
  /\ t = "musl" => Seen(t, a).execution = "native"

After(t) == IF t = "musl" THEN "macos" ELSE "checking"

\* The generation verifies, or has been taken away twice over.
VerifyTarget(a) ==
  /\ assembly[a].at \in Targets
  /\ LET t == assembly[a].at IN
       \/ /\ At(t, Mac!Return(a), Musl!Return(a))
          /\ Goto(a, t, IF Acceptable(a, t) THEN After(t) ELSE "failed")
       \/ At(t, Mac!Fail(a), Musl!Fail(a)) /\ Gone(a, "failed")
  /\ UNCHANGED <<stageVars, work, release, count>>

CheckOutput(a) ==
  /\ assembly[a].at = "checking"
  /\ IF release = {} THEN Goto(a, "checking", "copying") /\ UNCHANGED <<macVars, muslVars>>
                     ELSE Leave(a)
  /\ UNCHANGED <<stageVars, work, release, count>>

Parts == {"archive", "manifest"}
Asset(t, part, content) == [target |-> t, part |-> part, content |-> content]
Has(a, t, part) == \E c \in assembly[a].copies : c.target = t /\ c.part = part

\* The next copy to be made, of each target the archive first.
Left(a) == {tp \in Targets \X Parts : ~Has(a, tp[1], tp[2])}
Wanted(a) == {tp \in Left(a) : \A other \in Left(a) : <<tp[1], other[1]>> # <<"macos", "musl">>
                  /\ (tp[1] = other[1] => <<tp[2], other[2]>> # <<"manifest", "archive">>)}

\* Mutant: the manifest is copied from the generation active by then.
SourceNow(a, t, part) == IF part = "manifest" THEN Current(t) ELSE Seen(t, a)

\* The files remembered when the target was verified.
Source(a, t, part) == Seen(t, a)

\* Mutant: they count as lost once another generation is active.
StillActive(t, content) == content = Current(t)

OnDisk(t, content) == content \in Available(t)

CopyAsset(a) ==
  /\ assembly[a].at = "copying"
  /\ \E tp \in Wanted(a) :
       LET content == Source(a, tp[1], tp[2]) IN
       /\ OnDisk(tp[1], content)
       /\ Assembled(a, {Asset(tp[1], tp[2], content)})
  /\ UNCHANGED <<stageVars, work, macVars, muslVars, release, count>>

\* copyfile finds the file gone.
CopyFails(a) ==
  /\ assembly[a].at = "copying"
  /\ \E tp \in Wanted(a) : ~OnDisk(tp[1], Source(a, tp[1], tp[2]))
  /\ Gone(a, "lost")
  /\ UNCHANGED <<stageVars, work, macVars, muslVars, release, count>>

\* The staging directory becomes the release directory, unless another one is there by now.
PublishRelease(a) ==
  /\ assembly[a].at = "copying"
  /\ Wanted(a) = {}
  /\ release' = IF release = {} THEN assembly[a].copies ELSE release
  /\ Leave(a)
  /\ UNCHANGED <<stageVars, work, count>>

EndAssembly(a) ==
  /\ assembly[a].at \in {"failed", "lost"}
  /\ Leave(a)
  /\ UNCHANGED <<stageVars, work, release, count>>

\* Killed, or failing to write, while it copies: only its hidden directory is left.
KillAssembly(a) ==
  /\ assembly[a].at = "copying"
  /\ Leave(a)
  /\ UNCHANGED <<stageVars, work, release, count>>

-----------------------------------------------------------------------------
Package(p) ==
  \/ BeginPackage(p) \/ CopyStage(p) \/ VerifyInstall(p) \/ Qualify(p)
  \/ IdentifySource(p) \/ BuildInContainer(p) \/ RecordRuntime(p) \/ Promote(p)
  \/ StoreContent(p) \/ SelectContent(p) \/ FinishPackage(p) \/ KillPackager(p)
  \/ \E c \in Available(work[p].target) : PruneContent(p, c)

Assemble(a) ==
  \/ StartAssembly(a) \/ OpenTarget(a) \/ VerifyTarget(a) \/ CheckOutput(a)
  \/ CopyAsset(a) \/ CopyFails(a) \/ PublishRelease(a)
  \/ EndAssembly(a) \/ KillAssembly(a)

Next ==
  \/ Commit \/ Wipe \/ InstallStage \/ RecordStage
  \/ \E p \in Packagers : Package(p)
  \/ \E a \in Assemblers : Assemble(a)

Spec == Init /\ [][Next]_vars

-----------------------------------------------------------------------------
TypeOK ==
  /\ head \in Revisions
  /\ stage \in {"gone", "installing", "recorded"}
  /\ tree \in [from : Revisions, noted : Revisions \union {None}, moved : BOOLEAN]
  /\ \A p \in Packagers : work[p].target \in Targets \union {None}
  /\ Mac!TypeOK /\ Musl!TypeOK
  /\ \A c \in macAvailable : c.execution = "none"
  /\ \A c \in muslAvailable : c.execution # "none"
  /\ \A a \in Assemblers : assembly[a].want \in Revisions \union {None}
  /\ \A c \in release : c.target \in Targets /\ c.part \in Parts /\ c.content \in Contents

\* A manifest names the revision that was built: an artifact "does not match built
\* revision" if it names another one (buildsys/uvmirror.py:146-150, build.py:273-274).
NamesWhatWasBuilt == \A t \in Targets : Current(t) # None => Current(t).built = Current(t).revision

\* It does so however builds, commits and packagings overlap, a stage replaced while it is
\* packaged included, except for a commit between the reading of the inputs of a build and
\* the reading of the revision that it names (build/cpython.py:117-158 and
\* build/package.py:571-591; build.py:262-307).
BuiltFromItsRevision ==
  \A t \in Targets :
    Current(t) # None /\ ~Current(t).moved => Current(t).built = Current(t).revision

\* "Retries are bounded diagnostics and cannot erase the initial failure"
\* (docs/qualification-and-packaging.md:6-8).
NoFailureErased == \A t \in Targets : Current(t) # None => Current(t).failures = "registered"

\* A test that failed in the suite, is not a registered exclusion and failed in any retry,
\* or has no registered exclusion in its file, keeps its package out of dist/ whatever the
\* other retries showed (buildsys/testsuite.py:402-450).
ShownFailuresCount == \A t \in Targets : Current(t) # None => Current(t).failures # "shown"

\* A release directory holds archive and manifest of every target, the two from
\* one generation, all targets of one revision and Linux run natively, whatever was
\* published while the assembly copied (buildsys/uvmirror.py:294-351).
ReleaseIsWhole ==
  release # {} =>
    \E r \in Revisions : \A t \in Targets : \E c \in {x.content : x \in release} :
      /\ {x \in release : x.target = t} = {Asset(t, part, c) : part \in Parts}
      /\ c.revision = r
      /\ t = "musl" => c.execution = "native"

\* An assembly loses files it had verified only when two publications have
\* overtaken it at one target (buildsys/uvmirror.py:329-331 on generations.py:66).
LostOnlyWhenOvertaken ==
  \A a \in Assemblers : assembly[a].at = "lost" => \E t \in Targets : Age(t, a) = 2
=============================================================================
