# TLA+ specifications of python-build

python-build compiles a relocatable CPython for three targets (macOS aarch64, Linux musl
aarch64 and x86-64), qualifies it, packages it, assembles releases from the packages and
measures them. Most of it runs external tools in sequence. What can go subtly wrong sits in
a few places: directories that several processes publish into and read from without a
lock on the reading side, transactions made of renames, verdicts drawn from several
attempts, and the supervision of processes that fork, ignore signals and outlive their
parents. These specifications are about those places.

All paths below are relative to `src/` unless they name a file of this directory.

## How to read and run this

| Module | What it is |
| --- | --- |
| `GenerationStore` | abstract: a store of complete generations, one of them active |
| `Generations` | `buildsys/generations.py`, file by file, with kills and power losses; shown to implement `GenerationStore` |
| `Release` | packaging, container builds, promotion and release assembly, over one `GenerationStore` per target |
| `Toolchain` | the cache of locked inputs, the LLVM prefix extracted from it and the ICU libraries copied into that |
| `Workload` | environment: the processes of one benchmark command, as the Linux kernel keeps them |
| `ProcessSampler` | `benchmarks/harness/process.py` on Linux, beside a `Workload` |
| `TlsStream` | abstract: what an application may expect of the receiving side of a TLS connection |
| `TlsConnection` | that side, from the transport to the application; shown to implement `TlsStream` |
| `TlsFlush` | the sending side of a `TLSSocket` used by several threads |
| `MCGenerations`, `MCRelease`, `MCProcessSampler`, `MCTlsConnection` | symmetry and constants of the configurations |
| `GenerationsProofs`, `RefinementProofs`, `ReleaseProofs`, `ToolchainProofs`, `SamplerProofs`, `TlsFlushProofs`, `TlsConnectionProofs` | TLAPS proofs, about the module each is named for; `RefinementProofs` is about `Generations` |
| `TlsRecordsProofs` | lemmas `TlsConnectionProofs` rests on: where the records of a script end, runs of numbered cells, what can be decrypted of them |

    tlc -workers 2 -config Generations.cfg MCGenerations
    tlc -workers 2 -config Toolchain.cfg Toolchain
    tlapm GenerationsProofs.tla

`PROJECT.json` lists the runs with their module and configuration, the hazards of the code
with the properties that watch them, the lines every definition models (`map`), the
theorems, and for every property a *mutant*: a definition of the same module, kept beside
the one it imitates, that makes the mistake a plausible bug would make. Replacing the
definition by its mutant must break the property. The comments in the modules call them so.

## Inventory

Each component: its state, its operations, what is hard, and what makes it correct.

**Generation publication** (`buildsys/generations.py`; `Generations`, `GenerationStore`).
State: `<target>/generations/<id>/` directories, where `id` is the digest of the files'
hashes, the pointer file `<target>/ACTIVE`, an `flock` on `.lock`, hidden staging
directories and pending pointer files. Operations: `publish_generation` (under the lock:
stage, rename into place, replace `ACTIVE`, prune all but the new and the previous
generation) and `active_generation` (no lock: read `ACTIVE`, verify every file). Hard:
readers run beside pruning; a publisher may be killed at any system call; a power loss
forgets what was not fsynced; removing a directory is not atomic. Correct when `ACTIVE`
always names a complete generation, a reader that was not overtaken keeps its files, a
publication that returned survives, litter does not accumulate and no publisher waits
forever. The very first publication also makes the directory it publishes into.

**Packaging pipeline** (`build/package.py`; `Release`). State: the stage left by the build
and its record, a private copy, the archive, the qualification. `_package` validates the
record, copies the stage, verifies the copy, runs the suites, archives, checks the
extraction, qualifies and publishes. Hard: a build may replace the stage between
validation and copy (lines 571, 590), while commits change what the record is compared
with. Correct when what is published was built from the revision its manifest names.

**Regression verdict** (`buildsys/testsuite.py`; `Release`). Each file that failed in the
suite is run alone up to three times and once in a fresh tree; `classify` decides whether
the failures are registered exclusions. Correct when no package
passes with a failure that is not registered, and a later success erases none.

**Release assembly and promotion** (`buildsys/uvmirror.py`, `build/uvmirror.py`,
`build/promote_openssl_free.py`, `build/record_runtime.py`, `build.py`; `Release`). Reads
and verifies the active generation of every target, checks revisions and the runtime
check, then copies archives and manifests from remembered paths and renames the result.
Hard: publications go on meanwhile and prune; the checkout moves between the reading of
its revision and its use. Correct when a release directory is whole and names one
revision, the one that was built.

**Locked input cache** (`buildsys/inputs.py`; `Toolchain`). Content-addressed objects:
`require` verifies, `store` copies and renames, `fetch` downloads and stores. Hard:
concurrent fetches of one input, damaged objects, kills. Correct when what a caller got
has the pinned digest, and damage heals.

**LLVM prefix** (`buildsys/llvm.py`, `rust-cpython/lane_linux.py`, `rust-cpython/build.py`;
`Toolchain`). Extracts a pinned archive beside the prefix, verifies it, moves the old
prefix aside, moves the new one in, restores on failure; on Linux copies ICU libraries
into it. Hard: no lock; kills between the renames. Correct when a prefix is not lost but
by a kill, builds have exactly their tools, and callers that ask again get them.

**Benchmark process supervision** (`benchmarks/harness/process.py`, the cgroup scope of
`memory.py`; `ProcessSampler`, `Workload`). State: the child and its process group, the
sampling thread and its stop event, the processes the samples have shown, the cgroup,
what was alive at the boundary and at the end. Operations: `start`, `wait` with
`_wait4`, `_capture_sample`, `_stop_and_join_sampler`, `_terminate_process_group`,
`_live_process_ids`; called by `run_command` for every benchmark. Hard: a thread and the
main thread read `/proc`, not atomically, while the workload forks, leaves the group,
ignores SIGTERM and dies; timeouts race with exits; group ids are reused. Correct when the
cleanup it reports is the one that happened, what survives has been killed, no sample is
taken during the cleanup, the root is reaped, CPU time is attributed to the whole tree
only when that is known, and `wait` returns.

**TLS connection** (`rust-cpython/overlay/Lib/rtls/_object.py`, `_bio.py`, `_socket.py`,
`_native.py`; `TlsConnection`, `TlsStream`, `TlsFlush`). A rustls connection between two
memory BIOs, under a socket or alone. Hard: plaintext and ciphertext rest in four buffers
between the transport and the program; handshake, data, close_notify and end of file come
in any grouping; threads share the sending side. Correct when plaintext is delivered once
and in order, then how the stream ended, and ciphertext leaves once and in order.

Not modelled, see the end: sealed build and sandbox, dependency and interpreter build,
reproduction comparison, binary inspection and relocation, product validation and scope,
OpenSSL-free backend qualification, benchmark statistics and reports, and the rest of the
Rust CPython overlay.

## Runs

| Run | Configuration | States | Question | Answer |
| --- | --- | --- | --- | --- |
| `generations` | `Generations.cfg` | 640 412 | does `ACTIVE` name a complete generation, now and after a power loss (`ActiveVerifies`); do readers keep what they resolved until two selections overtook them (`ReaderKeepsFiles`) and fail only then (`FailsOnlyWhenOvertaken`); does a returned publication survive once the target directory's name is durable (`AcknowledgedSurvives`); is the litter of the dead removed (`Tidy`); is it all the atomic store (`ImplementsStore`); does every call end, with holders of the lock killed (`EveryCallEnds`)? | yes, given `PublishOverTorn = FALSE` |
| `generations_torn` | `GenerationsTorn.cfg` | | `ActiveVerifies` with `PublishOverTorn = TRUE` | no: finding |
| `release` | `Release.cfg` | 1 030 993 | is what is active built from the revision it names, unless there was a commit between that build's inputs and its revision (`BuiltFromItsRevision`); does a failure that any attempt shows again count (`ShownFailuresCount`); is a release whole (`ReleaseIsWhole`); are files lost only to two publications (`LostOnlyWhenOvertaken`)? | yes |
| `release_erased` | `ReleaseErased.cfg` | | are registered failures the only ones a package passes with (`NoFailureErased`)? | no: finding |
| `toolchain` | `Toolchain.cfg` | 55 426 | are inputs verified (`OnlyVerifiedInputs`), is the prefix kept (`PrefixOwed`), have builds their tools (`ToolsInUse`), does everything heal (`Heals`)? | yes, the last two when processes do not overlap |
| `sampler_tame` | `SamplerTame.cfg` | 1 836 589 | of those the last looks could know: is everybody left reported (`CleanupHonest`), and killed (`SurvivorsKilled`); is no sample taken during the cleanup (`SamplesEndFirst`); is CPU time of the whole tree claimed only for a command that ended by itself (`TreeWasOver`)? | yes, with `/proc` readable |
| `sampler_hostile` | `SamplerHostile.cfg` | 514 713 | with failing reads and a reused group id: is the root reaped (`RootReaped`), does `killpg` go to the command's own group (`KillpgHitsOwnGroup`), does `wait` return (`WaitReturns`)? | yes |
| `sampler_no_table` | `SamplerNoTable.cfg` | | `CleanupHonest` when reads of `/proc` may fail | no: finding |
| `tls_stream` | `TlsStreaming.cfg` | 98 654 | does the application get the stream and its end (`ImplementsStream`), without waiting for what is buffered (`DrainedFirst`), and always (`StreamEnds`)? | yes; of a `MemoryBIO`, given `Apart` and `Burst` |
| `tls_lost` | `TlsLost.cfg` | | `AllConsumedAtClose` with `Apart = FALSE` | no: finding |
| `tls_flush` | `TlsFlush.cfg` | 237 342 | does what is put into the BIO reach the peer once and in order (`FlushKeepsOrder`), by one thread at a time (`OneFlush`); until two threads have crossed: does ciphertext leave in the order of encryption (`WireInOrder`), is `sendall` complete (`SendAllCompletes`), is what a thread buffers bounded (`OneRecordEach`); do calls end (`CallsEnd`)? | yes |
| `tls_flush_race` | `TlsFlushRace.cfg` | | does `sendall` always send its data (`SendAllBlocks`)? | no: finding |

Some properties except a case that the code permits, named by a history variable (`rooted`,
`moved`, `known`, `crossed`) or a constant (`Apart`, `Burst`). For each there is the
property without the exception, and a configuration under which TLC refutes it: a run above,
or one of the first six here, to be run by hand. The other configurations are larger
instances than the runs, without liveness or with fewer threads, which pass.

| Configuration | Module | What it shows |
| --- | --- | --- |
| `GenerationsFirst.cfg` | `MCGenerations` | refutes `FirstSurvives`: the first publication goes with its directory |
| `ReleaseMoved.cfg` | `MCRelease` | refutes `NamesWhatWasBuilt`: a commit between inputs and revision |
| `SamplerLateForks.cfg`, `SamplerUncounted.cfg` | `MCProcessSampler` | refute `NobodyLeft` and `TreeCountsAll`: a process forked during a look; one that left the group |
| `TlsFull.cfg`, `TlsEof.cfg` | `MCTlsConnection` | refute `ReadNeverFails`: three records in the BIO; an early `write_eof` |
| `GenerationsCrash.cfg` | `MCGenerations` | the safety of `generations` for four publications of contents of two files, with symmetry (894 366 states) |
| `SamplerReuse.cfg` | `MCProcessSampler` | the safety of `sampler_hostile` for three processes (2 895 950 states) |
| `TlsFlushWide.cfg` | `TlsFlush` | the safety of `tls_flush` with records of two cells and timeouts too (1 227 294 states) |
| `TlsFlushLive.cfg` | `TlsFlush` | `CallsEnd` with timeouts, for a sender and a receiver (112 713 states) |

Each run's `TypeOK` is checked once per module. Deadlock is not checked: in every system
here there comes a point where the bounded calls, publications, faults or records are
used up, or where `wait` has returned.

## Generations

### State and steps

A content is its id: two contents with one digest are left out. A directory is the set of
its entries: the files, the `RECORD` that `active_generation` reads first, and `SELF` for
the directory itself, so that one emptied by `rmtree` differs from one removed. A process is
a program counter with the locals of the call. The file system keeps, beside what processes
see (`gens`, `active`, ...), what a power loss may leave: `mayGens` and `mayActive` collect
the states since the last fsync that covers them, and `PowerLoss` picks one of each. A
rename becomes durable only with the fsync of its directory; `SyncStaging`,
`SyncGenerations` and `SyncTarget` are the three the code makes. Names made by `mkdir` are
no different: `linked` says that the name of `generations/` is durable in the target
directory, which `SyncTarget` sees to, and `rooted` that the name of the target directory is
durable in the one above, which nothing in the code does. A target directory is there from
an earlier day (`rooted`) or made by the first call; while a name is not durable,
`PowerLoss` may take everything below it.

| Action | Code (`generations.py`) |
| --- | --- |
| `Begin`, `Enter`, `Acquire` | the call, `mkdir`, `flock`; the content is chosen here, where the sources are read |
| `CopySynced`, `WriteRecord`, `SyncStaging`, `Install`, `SyncGenerations` | staging and its rename, or its removal when the id exists already (line 59) |
| `WritePending`, `ReplaceActive`, `SyncTarget` | `_select` |
| `RemoveEntry`, `RemoveLitter`, `UnlinkPending` | `_prune`: `rmtree` removes one entry at a time, in any order |
| `Return`, `Kill` | the end of the call; `Kill` also stands for an exception that leaves it |
| `ReadActive`, `ReadRecord`, `ListEntries`, `VerifyPresent`, `VerifyFile`, `ReturnDirectory`, `Close` | `active_generation`; `Close` ends the use its caller makes of the directory, as `assemble` does with its copies (`uvmirror.py:326-352`) |

A reader that finds no `ACTIVE` raises, which changes nothing.

`PublishOverTorn` says whether a content may be published over a directory of that content
that a kill inside `rmtree` left in part. FALSE is an *assumption* about the environment,
under which the code keeps its promises; TRUE is what the code permits, and a finding.

### Bounds and fairness

`generations` has two publishers, one reader, three contents of a file and its record, three
calls, one kill and one power loss. Two publications beyond the first are the fewest that
prune what a reader holds; a third content is the fewest for a prune that removes anything;
with a file and the record a directory can be there in part; the third call cleans up what a
kill in the second left. `GenerationsCrash.cfg` has a second file and a fourth call.

Fairness is weak fairness of each publisher's own steps: a live process goes on. `flock`
gives no order to those waiting, but the number of calls is bounded, so a free lock is
taken by everyone in the end.

### Findings

* *A torn directory is selected* (`generations_torn`; line 59). A publisher killed inside
  `rmtree` leaves a generation with some files gone. When that content is published again,
  `final.exists()` is true, the staged copy is thrown away and the torn directory becomes
  active: `active_generation` raises, against lines 7-8. Replayed against the code, it
  raises `GenerationError: generation files differ from its record`.
* *The first publication goes with its directory* (`GenerationsFirst.cfg`; line 46).
  `mkdir(parents=True)` makes the target directory, and the directory above it is never
  fsynced: a power loss after the call has returned may leave neither, though the module
  calls itself crash-consistent (line 1). `AcknowledgedSurvives` is what holds.
* A consequence that is no run: a reader overtaken by two publications between reading
  `ACTIVE` and verifying is refused (line 72), though `ACTIVE` names a complete generation
  all along and the docstring (lines 7-8) has no reservation. `FailsOnlyWhenOvertaken` is
  what does hold.

### Proofs

`GenerationsProofs` proves for any sets of publishers, readers, contents and files, and any
number of calls, kills and power losses, given `PublishOverTorn = FALSE` (except
`TypeCorrect`, which needs nothing): `TypeCorrect`, `ActiveAlwaysVerifies`,
`ReadersKeepFiles`, `ReadersFailOnlyOvertaken`, `AcknowledgedAlwaysSurvives`, `AlwaysTidy`.
None of the properties is inductive: each depends on what the holder of the lock has done so
far. `IInv` says that one process is between `Acquire` and its end, what the staging
directory holds at each of its steps, which generations are complete on every disk a power
loss may leave, which of them `ACTIVE` may name, that pruning touches only the others, how
many selections a reader has seen, and that as long as a directory's name is not durable no
id is known to outlive a power loss (`NothingOlder`). `Inductive` proves it, one lemma per
part, one step per action. `RefinementProofs` builds on it: `ImplementsTheStore` shows that
`Init` maps to the store's `Init` and every step to one of its steps or none (an install to
`Store`, the rename over `ACTIVE` to `Select`, the first entry removed from a whole
generation to `Drop`, a return to `Acknowledge`). The store's `kept`, mapped to `rooted`,
says that a power loss cannot take the store as a whole. Only model-checked: the liveness
property.

## Release

### State and steps

`head` is the checkout's revision, `stage` and `tree` the staged install, the revision its
inputs come from (`from`) and the one noted for it (`noted`). `work[p]` is what one packager
does, for which target, and with what content: a record of the revision whose build is in
the archive (`built`), the one the manifest names (`revision`), what failed in the suite,
and the runtime check. Two parts are history: `moved`, there was a commit between the inputs
and the revision of this build, and `failures`: registered cases only, one that no attempt
showed again (`erased`), or one that an attempt did show (`shown`). Everything else of an
artifact (sizes, digests, metadata files) is left out; a check that may fail for reasons of
its own is a choice. `macos` stands for the target packaged from the stage, `musl` for a
Linux one, which a container builds and runs. Their `dist/<target>` are two instances of
`GenerationStore`, so what `Generations` is shown to implement is what is relied on here; of
a power loss nothing is modelled here.

| Action | Code |
| --- | --- |
| `Commit` | the checkout moves |
| `Wipe`, `InstallStage`, `RecordStage` | `build/cpython.py`: the old stage is removed, lock and patches are read (109-127), the revision is noted and `make install` runs (153-190), the record |
| `BeginPackage`, `CopyStage`, `VerifyInstall`, `Qualify` | `_package`: validation of the record, `copytree`, the copy's own flags, suite, solo attempts and archive |
| `Attempts`, `Reports`, `Accepted`, `Unexpected` | `verify_excluded_failures` and `classify` (`buildsys/testsuite.py`) |
| `IdentifySource`, `BuildInContainer`, `RecordRuntime` | `qualify_linux` (`build.py`), `record_runtime_container` |
| `Promote` | `promote_openssl_free.py` |
| `StoreContent`, `SelectContent`, `PruneContent`, `FinishPackage`, `KillPackager` | `publish_generation`, one holder of a target's lock at a time |
| `StartAssembly`, `OpenTarget`, `VerifyTarget`, `CheckOutput` | `assemble` up to the copies, with `active_generation` per target |
| `CopyAsset`, `CopyFails`, `PublishRelease`, `EndAssembly`, `KillAssembly` | the copies, from paths remembered at verification, and `os.replace` |

What `Promote` is given is taken as built from the revision it names: the drivers under
`backend/` that built it are not modelled.

### Bounds

Two revisions, one commit, one build, two packagings by one packager, one assembly; more of
any of these takes TLC beyond some minutes, and the theorems hold for every number. The one
commit and the one build suffice to change the stage between any two steps of a packaging;
with what may be active at first, two publications overtake an assembly. One registered
case, one other case in its file and one elsewhere are what `classify` tells apart. Only
safety is checked.

An assembly may be overtaken: it raises, and leaves nothing behind. Two assemblies may race
for one destination, but `os.replace` onto a directory that is not empty is refused by the
kernel, so no property speaks of it.

### Findings

* *A manifest names what was not built* (`ReleaseMoved.cfg`). `qualify` notes the revision
  and finds the checkout clean (`build.py:262-274`), fetches, and only then hands the
  checkout to the container (295-307). A macOS build reads lock and patches
  (`build/cpython.py:117-127`) before it asks for the revision (153-158). A commit in
  between gives a package of the one under the name of the other, and nothing later compares
  the two. `BuiltFromItsRevision` says that this is the only way: in particular a copy of
  the stage that races with a build is caught, because the flags of the copied interpreter
  carry the revision (`-DPYB_SRC_REV`, `build/cpython.py:166`).
* *A failure is erased* (`release_erased`; `testsuite.py:424-446`). In a file with a
  registered case only the solo attempts count: another case of that file that failed in the
  suite and not in them leaves no trace, against `docs/qualification-and-packaging.md:7-8`.
  `ShownFailuresCount` is what holds.

### Proofs

`ReleaseProofs`, for any sets of revisions, packagers, assemblies and cases and any bounds,
with no assumption on commits or on what recurs: `TypeCorrect`, `ActiveIsFromItsRevision`,
`FailuresAreKept`, `ReleasesAreWhole`, `LostIsOvertaken`. `WorkInv` says what each packager
has established at each step, `MacInv` and `MuslInv` that it holds of everything available in
a store and that what a reader was given is available until it was overtaken, `AssemblyInv`
that copies so far come from what the reader was given, `WholeInv` that the release is what
some assembly had copied.

## Toolchain

### State and steps

`blob` is the archive in the cache: absent, bad or good. `prefix` is what the LLVM prefix
holds: tools, files that do not belong, ICU libraries and the marker written after them.
Each process has its step, what it downloaded (`got`), the old prefix in its temporary
directory (`aside`) and the libraries it has copied.

| Action | Code |
| --- | --- |
| `Start` | `_fetch_llvm` (online) or `_llvm_ready` (offline), `rust-cpython/build.py` |
| `Require`, `Download`, `Store`, `Publish`, `Reread` | `Cache.require`, `fetch`, `store` (`buildsys/inputs.py`) |
| `Match`, `Stage`, `Look`, `MoveAside`, `Install`, `Restore` | `extract_llvm_archive` (`buildsys/llvm.py`): comparison, extraction beside, the two renames, the rollback |
| `Icu`, `CopyLibrary`, `Mark` | `provision_icu_runtime` (`rust-cpython/lane_linux.py`) |
| `Kill`, `Damage` | a kill at any step; damage to the object or the prefix while nobody runs |

`alone` distinguishes, within one run, behaviours in which callers do not overlap:
nobody provisions beside another, and on Linux nobody beside a build. `had` says that a
prefix was installed and no kill has taken it away since.

### Bounds and fairness

Two processes, two libraries, two faults (kills, damages, failed operations): the second
can hit the repair of the first. Both lanes, overlapping or not, are explored. Fairness: a
process goes on (weak), and a caller that was refused asks again, at times online (strong,
since `Start` may wait for others); faults are bounded, so this is what a user who repeats
the command provides.

### What the model shows beside its properties

* `PrefixOwed` cannot be stronger: a kill between the two renames loses the old prefix
  (`llvm.py:441-443`), which stays in a temporary directory nobody looks at. The next
  provisioning installs a new one, which is what `Heals` needs.
* Overlapping callers may move each other's prefix aside, also while a build uses it, and in
  theory for ever; this is why `ToolsInUse` and `Heals` assume `alone`. Nothing in the code
  provides it: there is no lock.
* On Linux the ICU libraries make every comparison with the archive fail, so each
  `_llvm_ready` extracts again.

### Proofs

`ToolchainProofs`, for any processes, libraries and faults: `TypeCorrect`,
`InputsAreVerified` (an object once good can be damaged only when nobody runs, so it stays
good for those who verified it), `PrefixIsOwed` and `BuildHasTools`.

## ProcessSampler

### State and steps

`Workload` has the processes born and alive, those in the root's group, their ancestors,
and those with a fatal signal pending (`doomed`). A process is a pid *with its start time*,
so none is reused; what may be reused is the id of the group, by the `Stranger`
(`GroupIdReuse`), once no process of the command has it and the root's zombie is reaped.
Processes fork, leave the group and exit when they like. A doomed one neither forks nor
leaves, and dies arbitrarily late: a process in uninterruptible sleep does.

`phase` is where the main thread is in `start`, `wait` and `_terminate_process_group`,
`step` where it is within a scan or a round of signals. Reading `/proc` takes two steps.
The listing selects `view`; the reads then find every process of it that still qualifies,
may or may not find one that died or left in between, and miss what was forked since
(`Found`). A read of the whole table may fail (`ReadFails`), up to `MaxFailures` times.
Zombies count as dead, as `_process_is_live` says; the root's is tracked by `reaped`.

| Action | Code (`process.py`) |
| --- | --- |
| `ListTree`, `StartSampler`, `EdgeSample` | `_capture_sample` by the main thread, in `start` and at the end of the command |
| `ThreadLists`, `ThreadSamples`, `ThreadEnds` | `_sample_loop` |
| `WaitReaps`, `WaitTimesOut`, `Interrupt` | `_wait4`; an exception in the `try` of `wait` |
| `ListGroup` with `RecordBoundary`, `Check`, `Grace`, `Still`, `Drain`, `Remaining` | `_live_process_ids`, at each of its six callers |
| `StopSampler`, `Join` | `_stop_and_join_sampler` |
| `PollRoot`, `KillGroup`, `ListTargets`, `FindTargets`, `Send`, `Sent` | `_signal_process_group`: `killpg` while the root is unreaped, else one by one from a scan |
| `SeenTargets`, `Send`, `Sent` | `_signal_seen_processes` |
| `DeadlinePasses`, `Reap`, `ReapTimesOut` | the loops' deadlines, the last waits |
| `ReadCpu`, `CloseScope`, `Coverage` | the cgroup snapshot, its `rmdir` (which fails while a process lives in it, whatever its group), the label |

`Deliver`: SIGTERM may be handled, ignored or fatal; SIGKILL dooms. `killpg` is atomic in the
kernel. The second look at a pid and its `kill` are one step, as two consecutive system
calls between which a pid is not reused. The workload runs under the user of the
supervisor, so signals are permitted.

History: `known` is who had been forked when each of three looks began, the one at the
boundary, the last before SIGKILL and the final one; `running` is who was alive when the CPU
counters were read.

Parameters: `Passes` (memory passes sample; timing passes may have a CPU cgroup),
`HasTimeout`, `Interrupts`, `GroupIdReuse`, `MaxFailures`. The workload forks at any time,
during the cleanup too.

### Bounds and fairness

The root and two more processes, interchangeable: one can stay in the group while the
other leaves it, or one can be the parent whose death hides the other. `sampler_hostile`
has the root and one more, with the forks and failures that could keep a loop going;
`SamplerReuse.cfg` two more.

Fairness (`FairSpec`): both threads are scheduled, the clock reaches each deadline, and a
process with a fatal signal pending dies. Nothing is assumed of the workload otherwise. A
command without a timeout that never ends keeps `wait` waiting, as it should: the run has a
timeout.

### Findings

* *An unreadable table passes for an empty one* (`sampler_no_table`; lines 757-758). The
  handler in `wait` (lines 493-501) is there because "an unavailable process table cannot
  prove cleanup ... never report an empty tree"; on Linux `_live_process_ids` swallows the
  error before, so nothing is signalled and `cleanup_complete` is true. Replayed against the
  code with a `/proc` that fails: complete, with a live child. The test of it
  (`benchmarks/tests/test_process.py:134`) patches the macOS table only.
* *A late fork outlives a complete cleanup* (`SamplerLateForks.cfg`; line 694). A scan lists
  `/proc` and then reads what it listed. A process forked after the listing by a parent that
  is gone when it is read is in no scan: SIGKILL is not sent, `cleanup_complete` is true and
  a descendant lives, against the docstring at lines 292-294. `CleanupHonest` and
  `SurvivorsKilled` are what holds, of everybody a look could know.
* *CPU time of the whole tree lacks a part of it* (`SamplerUncounted.cfg`; lines 505-510). A
  descendant that left the group unseen may still run when `cpu.stat` is read and end before
  the cgroup is removed, so that the label (line 48, "including descendants") promises more
  than the figure has. `TreeWasOver` is what holds.
* A consequence that is no run: after the root is reaped, live processes of any group with
  the old id are signalled (`GroupIdReuse`; lines 721-728: the comparison of start times
  protects each pid between two reads, not the group).

### Proofs

`SamplerProofs`, for any finite set of processes that fork when they like:

* With no assumption on the workload or on `/proc`: `TypeCorrect`; `RootIsReaped`;
  `SamplesEnd`; `KillpgIsOurs`. The inductive `IInv` adds to the types that reads and signals
  happen only in their phases (`StepInv`), that the thread has ended from `Join` on and
  signals come later (`JoinInv`), that a reaped root is dead and stays so (`RootInv`), that
  the id is taken only after that (`StrangerInv`), and that what was listed, sampled or
  looked at had been forked (`BornInv`).
* When `MaxFailures = 0`: `CleanupIsHonest` and `SurvivorsAreKilled`. `CleanupInv` follows
  the cleanup: a scan's `view` contains those of the group that were there when it began,
  the targets found from it contain all of them that SIGKILL has not reached, and after both
  rounds everything alive of them and of the processes seen is doomed. `sampler_no_table`
  shows that readable tables cannot be dropped as a hypothesis.
* Under the same hypothesis: `TreeWasAlwaysOver`. `QuietInv` says that of a command which
  ended by itself with nothing left at the boundary, nothing that was there then is
  signalled, whoever has its group id by now.

Only model-checked: `WaitReturns` (liveness is beyond the prover).

The macOS branches (another process table, other signals), `mark_phase`, `__exit__` and a
second `wait` (`run_command` uses none of them), failures to launch, output files and the
memory figures themselves are not modelled.

## TlsConnection

### State and steps

The peer's records are a sequence of *cells*, one for a header and one for each unit of
the body; buffers hold the numbers of cells and of units of plaintext, so that a loss, a
repetition or a change of order shows. From the transport to the program there are
`piece`/`body` (the record a socket is receiving), `incoming` (the BIO), `pendingCt`,
`deframer` and `plain` (in rustls), and `ct`/`out` (in a call). rustls is an external
component, modelled from how `_native.py` and `_object.py` use it: it takes at most
`ReadSize` cells at a time, decrypts whole records in order, stops after close_notify, and
refuses input while it holds more than `Limit` units.

| Action | Code |
| --- | --- |
| `RecvCall`, `Drain`, `Receive`, `WouldBlock`, `TcpEof`, `Ended` | `_recv_tls` and `_read_tls_record` (`_socket.py`), `feed_decrypt` (`_object.py`) |
| `BioWrite`, `BioEof`, `ReadCall`, `Read` | `MemoryBIO` (`_bio.py`) and `read` |
| `DecryptIncoming` (`DecryptTurn`, `DecryptFails`, `DecryptCloses`) | `decrypt_incoming` (`_native.py`), one turn of its loop |
| `Handshake`, `Pump` | `do_handshake`, `_pump_incoming` |
| `UnwrapCall`, `Unwrap` | `unwrap` |
| `PeerSends`, `PeerCuts` | the peer, and the end of the transport at any cell |

`Stream == INSTANCE TlsStream WITH sent <- SentText, bye <- SentClose`: `ImplementsStream`
says that what the program gets is a prefix of what was sent, each byte once, and then one
word. `recv` asks `_recv_tls` to suppress ragged ends unless the socket was made otherwise
(`ragged`), and then a cut gives `b""` as close_notify does: `closed` comes after
close_notify and the last byte or, with `ragged`, after a cut and the last byte, and
`truncated` only of a cut. `suppress` says that the exception of the present call will be
caught (`RaggedEof`).

### Bounds and fairness

Four scripts (handshake of one or two flights, one to three data records, a ticket between
them, with close_notify or without), cut at any cell; reads of one to three units; buffers
of two to four cells, so that each of them fills. Fairness: a call that was begun goes on
(weak), the program does not stop reading (strong: it cannot read while it has to wait).
Nothing is assumed of the peer: `StreamEnds` speaks of peers that have ended.

### Findings

* *Data lost at close_notify* (`tls_lost`; `_native.py:264-274`): plaintext gathered by
  earlier turns of one call is dropped when a later turn raises `SSLZeroReturnError`, and
  `read` returns a clean end of file. The comment at `_object.py:141` says that
  `_peer_closed` is set "only once the peer's close_notify and all plaintext are consumed".
* *No room for the next record* (`TlsFull.cfg`; `_native.py:267`). `decrypt_incoming` gives
  rustls more ciphertext before it takes plaintext out: after small reads what is left fills
  the limit, the read raises, and the ciphertext it had taken from the BIO is gone, against
  the docstring of `read` ("handling buffer-full looping internally", `_object.py:333-335`).
* *Nothing can be put back after the end* (`TlsEof.cfg`; `_object.py:381`). Ciphertext that
  `read` did not consume is written back to the BIO, which refuses it after `write_eof`: the
  call fails and the records are lost.
* So `tls_stream` and the theorems assume of a program with a `MemoryBIO` that it feeds
  close_notify, and the end of file, apart from other records (`Apart = TRUE`), and two
  records at a time (`Burst = 2`). A `TLSSocket` feeds one record and needs neither.
* `DrainedFirst` excludes connections that have sent close_notify: `unwrap` decrypts without
  setting `_maybe_buffered`, so `recv` after it may go to the network though rustls holds
  data.
* `RecordsAssumption` says which scripts a peer may follow: the handshake first, nothing
  after close_notify (the order of TLS), records rustls has room for, and no more plaintext
  in one than its limit for received plaintext (16 KiB in a record; the limit holds one).

### Proofs

`TlsConnectionProofs`, for any scripts of such a peer, any sizes of reads, buffers and
limits:

* `TypeCorrect`, for every program.
* `DrainsFirst`, for every program: only sockets reach `net`.
* `ImplementsTheStream`, for sockets, and for a `MemoryBIO` if `Apart` and `Burst <= 2`:
  `Init` maps to the stream's `Init`, what the peer does to `Send` and `Cut`, and every
  other step to `Deliver` (perhaps of nothing), `Close` or `Truncate`, ragged ends
  suppressed or not.
* `ConsumedAtClose`, under the same hypothesis: the comment that `tls_lost` refutes is true
  where `Apart` is kept.

The inductive invariant is `IInv`. `CallInv` says where a call may be in each use and what
it holds there. `Strong` holds until the program is told of the end, and only for programs
that keep to the hypothesis (`Kept`): afterwards, and for others, buffers may be lost.
`RunInv` says that from the transport to rustls each buffer goes on where the next one
ends, and `PlainInv` the same from rustls to the program, so that what the program got and
what is buffered are together exactly the plaintext of the records decrypted. Neither is
inductive alone, for decryption may fail: `FedInv` says that what is not yet in rustls
cannot make its plaintext exceed the limit, `FlagInv` and `BioInv` that close_notify
reaches rustls alone, with nothing left to read, and `SocketInv` that a socket reads the
next record only when rustls has decrypted the last and, but for `unwrap`, given its data.
TLC checked `IInv` before, with all scripts of `MCTlsConnection`.

The steps need facts about sums over a script (`End`, `Text`): that they grow, that the
record of a cell is the one that ends at or after it. `TlsRecordsProofs` gets these by
taking the least record for which the claim would fail, since the induction theorems of
the library take operators, which the provers cannot instantiate; that the recursive
functions satisfy their equations is `EndExists` and `TextExists`.

Only model-checked: `StreamEnds`.

## TlsFlush

### State and steps

Ciphertext moves from `engine` (rustls) to a thread's hands (`held`), to the outgoing `bio`,
to `pending` (what one `send` is given) and onto the `wire`, which has room for `Room` cells
until the peer reads. Each thread has its place, its call, and which flush of the call it is
in (`stage`). Two variables are history: `order` is the ciphertext in the order in which it
was put into the BIO, and `crossed` says that two threads have been between rustls and the
BIO at once.

| Action | Code |
| --- | --- |
| `Call` | `send`, `sendall`, `recv` (`_socket.py`) |
| `Enter`, `Block`, `Refused`, `Leave` | `_flush_outgoing` of the socket: the flag under the condition variable, by timeout |
| `Load`, `SocketSend`, `SocketFull`, `DeleteSent` | its loop |
| `Engine`, `WriteTls`, `OutgoingWrite` | `write`, `feed_decrypt` and `_flush_outgoing` of the connection (`_object.py:178-180`) |
| `PeerReads` | the peer |

`made` is bounded by `MaxCells`; `Reserved` keeps room for calls under way.

### Bounds and fairness

Two senders, one receiver, two records of one cell, a write buffer of two and a network of
one, so that a send can be partial; sockets that block or do not. Two senders and a receiver
are the fewest where one flushes, one waits and one encrypts. A socket with a timeout does
what a blocking one does, or raises; `TlsFlushWide.cfg` and `TlsFlushLive.cfg` have one.
Fairness: the peer reads (weak), and
no thread is passed over for ever by others that find the flag clear before it (strong:
`notify_all` wakes every waiter, and the model lets any of them go first any number of
times; that the lock of the condition lets each in at some time is assumed).

### Finding

*`sendall` returns with its data unsent* (`tls_flush_race`). The loop
`while wants_write: outgoing.write(write_tls())` (`_object.py:178-180`) holds no lock, and
ctypes releases the GIL in the call. A thread between its two halves holds the other's
ciphertext; that one finds rustls, BIO and pending ciphertext empty, and its `sendall`, which
promises to be "blocking until complete" (`_socket.py:411`), returns. By the same race two
pieces enter the BIO in the other order, which ends the connection. `WireInOrder`,
`SendAllCompletes` and `OneRecordEach` are what holds until two threads have crossed.

### Proofs

`TlsFlushProofs`, for any threads, sizes and bounds: `OrderIsKept` and `FlushIsOne` without
condition; `WireIsInOrder`, `SendAllIsComplete` and `OneRecordPerThread` until two threads
have crossed. `OrderInv` says that wire, pending, BIO, hands and engine together hold every
cell in order, corrected by the count of the send that has not yet been deleted; `DoneInv`
that a flush which ended without an exception left nothing of the thread's unsent.
`TypeCorrect` needs no order, only that the senders are finitely many: `BoundInv` says that
who is about to encrypt has reserved its cells, `CellsInv` that every cell anywhere was
made. Only model-checked: `CallsEnd`.

## Not modelled

* *Sealed build and sandbox*: the profile is text for the macOS kernel, and the self-test
  joins its one thread before it gives a verdict.
* *Dependency and interpreter build*: external compilers one after another, each in a
  directory of its own; the order of dependencies is a search over a fixed table. What
  others share of it, the staged install, is in `Release`.
* *Reproduction comparison, binary inspection and relocation, product validation and scope*:
  sequential functions of file contents.
* *OpenSSL-free backend qualification*: drives containers.
* *Benchmark statistics and reports*: floating point and formatting.
* *The rest of the Rust CPython overlay*: vendored or generated code, with its build drivers.
* `publish_files` (`buildsys/package.py`) writes two parity reports nothing reads back.
* In the TLS modules: the server's acceptor, callbacks, sessions, certificates; a `sendall`
  of more than one record; `recv` and `send` that race inside the engine.

Most of the repository's 119 000 lines are the vendored standard library under
`rust-cpython/overlay/Lib` and sequential drivers of the kinds above; the modules cover
what keeps state that others see. The share of lines covered is small for that reason.
