# TLA+ verification of OPEMOS.EXE

OPEMOS.EXE is a desktop application (Rust, Tauri) that takes an official SteamOS
recovery image, resolves or builds the NVIDIA driver for exactly its kernel,
installs it inside QEMU appliances, validates the result, and exports an image
or writes it to a USB device. Beside that it keeps a channel of signed core
generations, which it acquires, caches, activates and hands to its appliances.
This directory holds TLA+ models of the concurrent and crash-sensitive parts,
TLC configurations that check them on small instances, and TLAPS proofs.

Source paths below are relative to `src/src-tauri/src/` unless they start with
`src/`.

## 1. The system

| Component (files) | State it keeps | What is hard | What makes it correct |
|---|---|---|---|
| **Output publication** (`output_transaction.rs`) | two artifacts (image, manifest), a stage name and a final name each; a chain of durable receipts | a crash between any two system calls; a name that is not durable; errors that are retried; other programs in the output directory | the manifest never appears without its image; a completion is durable; a receipt means what it says; foreign files are not touched |
| **Reservations** (`output_transaction.rs`) | lock files held with `flock`; one durable record per output | several processes; renamed sources; replaced lock files; overlapping names of images and manifests | one consumer per image; one writer per name; one source per pair; no waiting cycle |
| **Generation cache** (`core_generation_cache.rs`) | candidates and generations, commit markers, leases; two alternating state slots, a marker, a legacy file | a crash at every sync; several processes; residue that must be reclaimed, but never a live candidate | the state always loads; what it names stays whole; a commit is durable; a marker means a verified generation |
| **Activation** (`core_generation_cache/activation.rs`) | active, pending, last known good, high-water sequence, operation | repeated and stale calls; replay; trust and files that change between check and save | only what descends from an installed checkpoint becomes active, and each save was justified |
| **Appliance staging** (`core_generation_cache/appliance_staging.rs`) | a handoff directory and a lease of up to five records | a crash between any two steps; interrupted removals; replaced files | a sealed handoff is whole; a returned one is durable; a restart recovers; foreign files stay |
| **Acquisition** (`core_generation_acquisition.rs`) | one attempt: documents, candidate, stream | a server that answers each request anew; cancellation; a candidate that is meddled with | what is committed was signed and is exact; a failure leaves nothing |
| **Verifier child** (`core_generation_verifier/owned_child.rs`) | a process group, two pipes, a private copy, a deadline | an exit racing a deadline, a cancellation and an overrun; descendants that keep the pipes | the group is reaped, threads end, a verdict is of the pinned bytes, the call returns |
| **Installed trust** (`core_generation_bootstrap.rs`, `.../installed_trust.rs`) | a directory of three files and their identities | changes while it is inspected | a revalidation is as good as an atomic one |
| **Guest runtimes** (`appliance.rs`) | QEMU, its watchdog, the runtime directories | instances that die at any step, beside others that clean up | no guest without an owner; disks of a guest that a watchdog still has to stop are not removed |
| **Builds** (`src/build.js`, `src/main.js`, `appliance.rs`, `installer.rs`, `image.rs`) | the progress window, the native and the x86_64 manager | coroutines of cancelled builds; cancellations racing starts; the working image passed from guest to guest | what is exported was installed; one writer per image; a confirmed cancellation is one |
| **Guest scripts** (`installer.rs`, `image.rs`) | the image's root, mounts, flags | any command may fail, a signal may stop the shell anywhere, in a cleanup too | what is changed to write is restored, or the failure is reported |
| **NVIDIA inputs** (`nvidia.rs`, `appliance.rs`, `core_contracts.rs`) | releases, archives, installer bundle, packages, and what a session records of them | commands that overlap; files that change after they were verified | what is installed is what was resolved, prepared and reviewed |
| **Maintainer worktree** (`nvidia.rs`) | a git worktree and what the user was shown of it | an editor, other maintainers, a moved HEAD | what was confirmed is what is done; nobody's commit is lost |
| **Image expansion and export** (`appliance.rs`, `image.rs`) | a tool, a pipe, a channel; partial and final files | short and long streams, full channels, two renames of which one may fail | an accepted image is whole; a manifest describes the image beside it |
| **USB writer, Linux** (`image.rs`, `app.rs`) | a prepared disk with a token and expiry, a worker, a retry | expiry, cancellation and closing racing a worker; swapped disks | one operation at a time; revoked rights stay revoked; only the confirmed disk |
| **USB writer, Windows** (`image.rs`) | an exchange directory, an elevated helper | either side dies or outlives the other; disk numbers that are reused | only the confirmed disk; an attempt reported to have ended has |
| **Settings** (`settings.rs`) | a settings file and its lock | two processes, a replaced lock, a crash in a migration | a reported change is not lost |
| **Contracts and request planning** (`core_contracts.rs`, `core_generation_contracts.rs`, `core_generation_request_plan.rs`) | none | conditions across documents | part of the acquisition's guards; single documents are unit-tested pure functions |
| **Host probes, appliance builder, CI control** | little or none | – | not modelled |

Interactions. The acquisition asks the verifier child for a verdict and commits
the verified candidate to the cache, whose activation state decides which
generation the staging hands to an appliance. A build drives the two managers,
whose guests run the scripts on the working image with the NVIDIA inputs; the
image is then exported and written to USB. All of this is by direct calls
within one process; the interleavings come from threads and coroutines of it,
from several processes of the application, and from other programs of the user,
which share the file system. The output transaction is complete and tested in
the source, but not connected to the production export yet
(`src/TODO.md:2839-2990`); `ImageExport` is the production export.

## 2. Modules

| Module | Models |
|---|---|
| `OutputPublication` | the publication of one pair: staging, receipts, renames, recovery, acceptance, with errors, kills, power losses and an interfering program |
| `OutputPair` | what a caller may rely on: image first, then manifest, then the acknowledgement, none of it taken back once acknowledged |
| `OutputReservation` | the locks and the record that allow only one attempt at a time |
| `ActivationState` | the activation state as data: what is valid, and what begin, acknowledge, reject and roll back do to it |
| `ActivationRegister` | what a caller may rely on of that state: one register, changed by whole transitions |
| `StateSlots` | how the cache keeps the state in two slots, a marker and a legacy file, under its lock |
| `GenerationCache` | candidates, leases, generations, markers, activation and reconciliation of several processes |
| `GenerationContracts` | the documents of the channel as values, and the conditions between them |
| `GenerationAcquisition` | one acquisition against a server that answers anything |
| `OwnedChild` | the supervised verifier: its group, pipes, readers, deadline and private copy |
| `GenerationChannel` | the acquisition beside the verifier child that it starts, and the fairness of its threads |
| `GenerationActivation` | authenticated activations of several callers while trust and files change |
| `InstalledTrust` | one revalidation of the trust directory, step by step, against every change of it |
| `GenerationHandoff` | staging, recovery and retirement of a handoff to an appliance |
| `GuestRuntime` | runtime directories, QEMU, watchdogs, and the cleanup of abandoned ones |
| `BuildFlow` | the builds of the progress window, its commands, and the two managers |
| `GuestScripts` | the shell scripts of the guests, one command per step, with their traps |
| `NvidiaInputs` | the commands from the resolution of a release to its installation, overlapping |
| `MaintainerWorktree` | the reviewed git operations, one git command per step |
| `ParallelDecompression` | the expansion of a compressed image: tool, pipe, reader, channel |
| `ImageExport` | names, partial files, the two renames and the rollback of an export |
| `HostImages` | the expansion and the export together: an image that is accepted or exported is whole |
| `UsbPreparation` | the USB writer on Linux, the retry of a removal, and the closing of the application |
| `WindowsUsbWriter` | the application, its elevated helper and the disks on Windows |
| `SettingsFile` | lock, migration and atomic replacement of the settings |
| `*Proofs` | theorems about the module, or the group of modules, that they are named for (section 4) |
| `MC*` | instances for TLC: the definition of small sets, symmetry, and which components share a run |

A composed instance (`MCHostFiles`, `MCOutputReservation`, `MCGenerationCache`,
`MCGenerationChannel`, `MCGenerationHandoff`, `MCWindows`) puts components in one
run that do not touch each other's state, by extending their modules: `focus` picks the one that a behaviour
runs, and the others stay as they began. It stands for as many runs; none of
its properties relates two of them. A property that the instance conjoins from
several parts is written as one action property `[][...]_vars`: it is then
checked at every step, and in the initial states it holds by the types.

### OutputPublication

* `dir`, `inode` and `root` are what system calls observe: the stage and the
  final name of each artifact, the bytes and times of each file, the record (0)
  and the four receipts (1 to 4) in the private lock directory.
* `disk`, `idisk` and `rdisk` hold every value the same object may have after a
  power loss. A change extends such a set, a `sync_all` of the file or of its
  directory shrinks it, and a power loss picks one value from each.
* `cap` is the identity held in an `ArtifactCapability`, `seen` what
  `verify_complete_pair` observed. `own`, `witness` and `complete` are history:
  files the transaction created, an instant at which the pair was whole, and a
  returned `PublicationRecovery::Complete`.
* `pc` walks through `publish_bytes` and `recover`; there is one step per system
  call whose order matters, and a step may fail at each of them. An
  error returns to the caller, which may try again within the same process
  or a new one.
* The cleanup of a stage without a receipt has two steps, the comparison of the
  name with the open descriptor and the `unlinkat`, because the code has no
  atomic form of it.

Abstracted: file contents are one of "the right bytes, partly written,
foreign"; hashing is a comparison of these. A lock or reservation check is the
assumption that only one attempt runs at a time, which is what
`OutputReservation` shows.

`OutputPair` is its abstract specification; `OutputPublication` implements it
under a refinement mapping: what is visible under the final names is `out`, a
returned completion is `acked`. Every crash, error and retry is a stutter or one
of the abstract steps.

### OutputReservation

A process takes four locks in this order: pathname of the source, inode of the
source, name of the output, name of the manifest beside it. The last two are
keys in a common namespace. One action per system call (open, flock, verify)
for each lock; then the record is inspected, created with `O_EXCL`, synced and
compared; each phase of the publication verifies the guards anew. A failing
check and a kill drop every lock. Another program renames or rewrites a source
and replaces lock files. `fresh` is history: the processes that verified their
locks since a lock file was last replaced.

Abstracted: `verify` reads a few files that the model reads in one step; a
source is its inode and a version, standing for times, size and digest. All
processes use one lock root, which the code requires. Dropping the record is
never done by the code, so a record stays for ever.

### ActivationState, StateSlots and ActivationRegister

`ActivationState` translates the state (`CoreGenerationCacheState`), its
`validate`, and the guard and the effect of each transition; the next two
modules and `GenerationCache` extend it, `GenerationActivation` instantiates it.

`StateSlots` is `load_state_unlocked`, `save_next_state` and what they call:

* `root` is what system calls observe of the four entries `state-a.json`,
  `state-b.json`, `state-required` and the legacy file, and `files` every content
  that a power loss may leave. Either changes become durable in their order
  (`inOrder`), or each on its own until the next `sync_directory`.
* One caller holds the lock of the cache from the load to the return. A call loads
  (creating or migrating what is missing, one file and one sync at a time),
  decides, renames a new slot into place, syncs and returns.
* A caller knows the revision that it was last told, so a call may be
  stale; `promised` is history: the last change that was reported.
* `SlotsFail` stands for an error of any system call, with the cleanup of the
  code; `SlotsKill` and `SlotsPowerLoss` may come between any two.

`ActivationRegister` is its abstract specification: a register `cur` and the
values `recent` that a power loss may take it back to. `StateSlots` implements
it with `cur` the state that loads, and `recent` what loads from each possible
content of the disk.

Abstracted: a temporary file is not an entry (no property tells it from none,
and reconciliation removes it); the closed JSON form is the record itself; a
generation is a name with a sequence.

### GenerationCache

* `store` has the directories `candidates`, `leases`, `generations`, `commits`
  and the state as one entry; `disk` is what a power loss may leave of it. A
  generation is "new" until it has been verified in its final place. A lease is
  "torn" between its creation and the write of its document.
* `held` is the lease that a process holds between its calls. `owner`, `pc`,
  `job` and `token` are the call that holds the lock of the cache; the directories
  in `todo` are those it syncs before it goes on (`SyncDirectories`), so every
  change and every sync is a step that may fail or be cut short.
* One action per step of `create_candidate_with_prepare`, `commit_candidate`,
  `abort_candidate` and `reconcile_locked`; `Recovery` says what each of them does
  after an error. Reconciliation works on what it inspected under the lock,
  which no one else changes; it removes abandoned candidates, then orphaned
  leases, stale markers, unmarked generations, and the oldest unprotected ones.
* `Activate` is a whole call of `save_next_state`, which `StateSlots` shows to
  be one register; the evidence that begin, acknowledge and roll back require
  of a generation is its guard.

Abstracted: bytes and file nodes are counted as generations and live
candidates (`MaxFootprint`); a name that was drawn is not drawn again; moving a
directory to the trash is its removal; the verification of a tree succeeds or
the call discards the candidate.

### GenerationContracts, GenerationAcquisition, OwnedChild

`GenerationContracts` holds the documents (discovery, manifest, signature status
lines) as records, and the conditions of the code that compare fields of one or
of two documents. A document is its own hash.

`GenerationAcquisition` has one step per fetch, authentication, admission, file,
chunk of a stream, verification and commit of `acquire_inactive_generation`. Each
request is answered with any document or signature of a small set, among them
signed ones of another authority, target or generation, doubled signatures, and
payload names that collide with evidence. `dir` is the candidate directory,
`admitted` the reservation. The verifier's verdict is its abstract result.

`OwnedChild` is the supervision: `pc` walks through copy, spawn, the poll loop,
termination (`TERM`, grace, `KILL`), reaping, the readers and the removal of the
private directory. `proc`, `group`, `attached` and `deaf` are the verifier and a
helper it forks, which may ignore `TERM`, keep the pipes or leave the group. `due`
says that the deadline in force has passed.

### GenerationActivation, InstalledTrust, GenerationHandoff

`GenerationActivation` has callers with capabilities (a verified generation, its
lineage, the trust it was verified under). `call` is each caller's step in
`begin_authenticated_activation_inner` and its siblings: validation, lock, checks of
the cached files and the trust, save. `root` and `damaged` are what another program
changes meanwhile. `saw` is history: which evidence was good at an instant since the
call decided. A revalidation of the trust is one step there; `InstalledTrust` is that
step in detail: the path, the directory, and each file by descriptor and by name,
with a program that renames, rewrites, removes and puts back between any two.

`GenerationHandoff` has for each lease its directory, its records
(`none`, `tmp`, `final`), where its handoff is (`stage`, `published`) and its
files. `routine` and `pc` walk through staging, the reconciliation of leases,
the removal of a handoff and the retirement. `fs` is what system calls observe,
`disk` what a power failure leaves; `cut` is history: leases whose removal was
interrupted.

### GuestRuntime

`guestAt` is the step of each instance: cleanup of abandoned directories (`todo`,
`doomed`), `prepare_session_with_output` (directory, staging, QEMU, `qemu.pid`,
watchdog), holding, stopping, handing on and archiving. `guest`, `watchdog` and
`pid` are what the operating system knows. An instance may die at any step; its
watchdog then stops the guest. The x86_64 sessions follow the same steps.

### BuildFlow, GuestScripts

`BuildFlow` has for each build the place of `runBuild`, and for each manager what
its mutex protects: the session, `preparing` or `starting`, the cancellation flag.
A section under a lock is one action. A command that was issued reaches its first
section before a later action of the user (`Begun`); what runs between two sections
ends in any way the next section allows. `disk` and `exported` are history: what
the working image holds, and what was published. `outcome` is the completion that
the main window accepted, and whose it was.

`GuestScripts` interprets three scripts (the marker, the validation, the
installation) as sequences of commands, in the order of the source, under
`set -e`, with their traps; each command may fail, and a signal may reach the shell in a body or
in a cleanup. A signal cuts short the cleanup of the installation, which begins with `trap -`
(`installer.rs:3449`), and that of the marker, an EXIT trap (`image.rs:755-766`); the validation
keeps its trap, and its cleanup starts anew.
`fs` is the root's Btrfs (seeding flag, default subvolume, read-only property, and
what subvolumes hold), `at` the mounts, `host` what the builder concludes from exit
status and document.

### NvidiaInputs, MaintainerWorktree

`NvidiaInputs` has the commands in slots (`cmd`): resolve, stage the published archive,
stage the bundle, resolve the packages, build on demand, start, validate and install. No command excludes
another one: each takes what it needs of the session under the lock, works without
it, and records its result in the session it finds. A file is what it is of (a
version, an edition) and whether it is as it was verified. The choice of a release
is an operator, compared with its definition over listings of up to two of the
sixteen kinds of release by an `ASSUME` (`SelectionRight`).

`MaintainerWorktree` has git's objects as far as the operations look at them
(commits with a parent and a content, branches, index, worktree, the remote). Each
git command is a step, and between any two an editor or another maintainer works: what
an operation reads of one worktree, its branch, HEAD, index and files, and what it reads to verify
its result, it reads one after the other. `still` is history: whether others have left HEAD where it was since
the review, and since the reported commit was read.

### ImageExport, ParallelDecompression, SettingsFile

`ImageExport`: a step is a system call on a final name; partial files have names
of their own. `ParallelDecompression` counts data in buffers; the reader thread, the
tool and the preparation are three processes. `SettingsFile`: the contents are
the set of changes they take into account; `settingsDisk` is what a power loss may
leave; `disturbed` and `lied` are history about a process that was not excluded,
which only a lock file replaced by another program makes possible.

### UsbPreparation

* `generation`, `armed`, `activeToken`, `activeWrite`, `activeRemoval` and
  `pending` are the fields of `UsbPreparationManager`. The code keeps in the
  two active fields a flag that it shares with the worker; the model keeps
  the worker, whose flag is `op[w].cancelled`. A token is its number,
  1 to `issued`. Each action on the manager is one critical section of its mutex.
* `op[w]` is what a thread is at: `validate` to `recheck` in
  `write_image_to_usb` and `copy_and_verify_usb_image`, `locate` to `powering`
  in `safely_remove_linux_usb`, and then `kept`, `removed` or `done` until it
  reports to the manager. There is one step between two points at which the
  flag, the clock or the disk may change, so a check and the call it
  guards are two steps (`open`/`opening`, `unmount`/`unmounting`, `power`/`powering`).
* The node is one name. `disk` is what is behind it, `plug` the kernel's
  device, which an open descriptor is bound to, `mounted` whether the
  desktop has mounted it, `media` what each disk holds. The user swaps disks,
  and the desktop mounts them unless they are open exclusively, at any time.
* The application closes as in `app.rs`: the handler looks at the manager
  (`RequestClose`), cleans up in a later critical section (`CleanUp`) and ends the
  process (`Exit`); the application may then be used again.
* `revoked`, `retained` and `op[w].late` are history: tokens that were cancelled or
  replaced, when a right to retry was obtained, and what an operation did to
  the disk after it had been told to stop.

Abstracted: progress; the identity of a disk is one token, which the code
computes from the topology, serial and size; what is read back is
compared block by block, where the code compares one digest when the last one
is in; UDisks and the kernel do what is asked, to what is there, or
fail. `Unmount` is by the name of the node, so after a swap it unmounts another
disk; no property speaks of that, and `DiskSafe` is about writing and
powering off.

### WindowsUsbWriter

`app` is the polling loop of `launch_elevated_windows_usb_writer`, `helper[n]` the
elevated process of attempt `n`, `files[n]` its exchange directory. The number names
whatever disk is there (`at`). Rules of the operating system are assumed: raw writes
to mounted volumes are refused, and unplugging a disk invalidates its handles.

## 3. Runs

| Run | Bounds | Shows |
|---|---|---|
| `HostFiles_crash` | publication: 3 inodes, 1 error or kill, 1 power loss; guests: 2 instances, 2 sessions; expansion: streams up to 5 buffers, a limit of 4, a pipe of 1; export: 2 exporters, 2 numbers, 3 outside steps; settings: 2 processes, 2 changes, 2 lock files, 1 kill, power loss or replaced lock; NVIDIA inputs: 2 commands at a time, 4 commands and changed files in all (1 changed file at most), 2 versions, 2 stamps | `ImageBeforeManifest`, `ReceiptMeansPublished`, `CompletionDurable`, `ImplementsOutputPair`, and `RetriesConverge`: a caller that keeps retrying ends with the pair or with a documented residue; `GuestSafe`; `ImagesWhole`; `SettingsKept`; `InputsExact` |
| `Output_interference` | 2 processes, 2 paths, 2 images, outputs `a` and `b`, where `b` is the manifest of `a`; one kind of interference in a behaviour: 1 rename or rewrite of a source, or 1 abandoned attempt, or 1 replaced lock file, or 2 of them with one output; publication: 3 inodes, 2 outside changes, or 1 and an error or kill | `Exclusive`, `RecordsTrue`, `NoWaitCycle`; `CertifiedKept`, `CompleteWitnessed` |
| `GenerationCache_crash` | cache: 2 processes, 2 names, 2 operations, 3 generations of which two share a sequence, 1 retained, footprint 3, revisions up to 3; slots: 2 callers with an operation each, revisions up to 5; 1 power loss in either order of the disk, 1 kill where it is ordered, 1 error (in the slots where it is ordered) | `MarkerMeansVerified`, `CommitDurable`, `GenerationsKept`; `SlotsRecover`, `ImplementsRegister` |
| `GenerationCache_residue` | the same without power losses | violated: see section 6 |
| `GenerationChannel_acquire` | 4 manifests, 5 discoveries, 12 signatures, 6 requests, 1 intrusion; child: a limit of 1 chunk, 2 writes, 1 failing system call | `CommittedIsAuthentic`, `ReservationCovers`, `NoResidue`, `VerdictSound`, `Returns` |
| `GenerationHandoff_stage` | handoff: 3 operations on 2 generations, 2 leases, 1 change of the pending operation, 2 errors, kills or power failures, 1 replaced file or copy; activation: 2 callers, 4 generations, 3 saves, 1 outside change; trust: 3 changes | `HandoffWhole`, `RestartRecovers`, `ForeignKept`; `ActiveDescends`, `SaveJustified`; `RevalidatedAtOnce` |
| `GenerationHandoff_retire` | 1 lease, 1 interruption | violated: see section 6 |
| `UsbPreparation_write` | 2 disks, 2 threads, 2 blocks, 2 intents, 2 swaps, a TTL of 2 ticks and 2 ticks of time, one closing and restart | `OneOperation`, `NoResurrection`, `RevokedStops`, `DiskSafe`, `Settles` |
| `UsbPreparation_close` | the same | violated: see section 6 |
| `Windows_build` | 2 builds, 1 version, 1 port, 1 dying guest; worktree: 2 contents, 5 commits, 2 outside edits, 3 operations; Windows: 2 attempts, 2 disks of 2 volumes, 2 swaps, 1 fault; scripts: 2 failing commands, 1 signal | `ExportedInstalled`, `WritersKnown`, `CancelledIsStopped`; `MaintainerExact`; `RootRestored` |
| `BuildFlow_completion` | 2 builds | violated: see section 6 |
| `ParallelDecompression_cancel` | the bounds of the expansion above | violated: see section 6 |

Why the bounds are enough. *Publication*: three files are the image, the manifest
and one foreign or repeated file; the recovery has no memory but the files, so
what follows a second fault starts where one fault, or a tamper, already leads. Its
invariants and its refinement are proved for every bound. *Reservations*: a conflict about one lock needs two processes,
and overlapping outputs need one pair of names in which the manifest of
one is the image of the other; two replacements are what lets a second process
past a live one, because both of its output locks must be gone. *Slots*: four
entries are all the memory there is, and revision 5 uses each slot twice. *Cache*:
a third generation with the sequence
of the second one is what a commit can collide with while the first one is
protected; two names are one candidate for each process, or one that was
abandoned beside a live one. *Handoff*: two leases are an older handoff beside
a new one, and a second fault strikes the recovery from the first.
*Activation*: four generations are a checkpoint, a lineage of
two and a signed one of another history. *USB*: a second intent is what replaces
the first one while it is written, removed or retried, and two swaps are what
takes the confirmed disk away and brings it, or its twin, back; a block may be
the first or the last one; the TTL is reached exactly. *Builds*: a second build
is what a late coroutine of the first can disturb, and one port makes both guests
share it. *Scripts*: a second failing command strikes the trap that the first has
started, and a signal may reach a cleanup that a failing command has begun. *Worktree*: two outside
edits amend HEAD before a revert and switch the branch between the two readings after it.
*Inputs*: a command that overlaps another one, after two that made what
they need, and files of two versions are what can be confused. The disk plugged in
first is one and the same (`CHOOSE`), since the two are alike; symmetric sets are permuted only where no
liveness property is checked.

Two initial states of the inputs stand for a session: nothing resolved, and
handed off with everything prepared. Package and signature of a file, the packages of
a directory, and a checksum with its provenance are one file each. The lists of the
components that are fixed while another has the focus are in the `MC` modules' `Init`.

The order of durability. `StateSlots` and `GenerationCache` choose in `Init`
whether the file system makes directory changes durable in their order. The
code syncs a directory after each change, so a call that runs to its end does
not depend on it. After a call that was cut short it does: the next one trusts
what it sees (a marker, a generation, a slot) and does not sync it. Where order
is kept that is sound. Where it is not, TLC finds that a kill between a rename
and its sync, a later call that builds on the renamed entry, and a power loss
leave a state that names a generation without evidence, a marker of
initialisation without a slot, or, after a failed save that another one follows, two slots
that are not consecutive. The properties state the assumption (`Trusted`,
`SlotsTrusted`: the order is kept, or no call was cut short), so kills,
and in `StateSlots` errors too, are enumerated only with the order.

Fairness. `FilesSpec` says that a running publication goes on and
that its caller tries again (weak fairness of `Attempt`); the caller's retry is
the assumption of `RetriesConverge`, not of the code. `UsbPreparation!Fairness`
says that each worker goes on: it is a thread of its own, and a call to the
kernel or to UDisks returns or fails; nothing is assumed of the user, the desktop
or the clock. `GenerationChannel!ChannelFairness` says that the supervisor and the two
reader threads are scheduled and that time passes; the verifier may do nothing for
ever. `ParallelDecompression!UnpackFairSpec` says that the preparation and the reader
run; the tool may stop.

## 4. Proofs

All theorems hold for every value of the constants that meets the named
assumptions of its module, which say what the sets are and that bounds are numbers;
where more is assumed it is said below. A theorem with a property is about the
component's own specification; the runs check the same definition in an instance.

| Module | Theorem | Statement |
|---|---|---|
| `OutputProofs` | `IInvInvariant`, `TypeCorrect` | the inductive invariant, the types |
| | `ImageFirst` | `Spec => []ImageBeforeManifest` |
| | `ReceiptIsEvidence` | `Spec => []ReceiptMeansPublished` |
| | `CompleteIsDurable` | `Spec => []CompletionDurable` |
| | `Refinement` | `Spec => ImplementsOutputPair`, if `MaxTampers = 0` |
| | `CertifiedFilesKept` | `Spec => CertifiedKept` |
| | `CompletionWitnessed` | `Spec => CompleteWitnessed` |
| | `ReservationInvariant` | the inductive invariant of the reservations |
| | `ReservationsExclude` | `ReserveSpec => []Exclusive` |
| | `RecordsStayTrue` | `ReserveSpec => RecordsTrue` |
| | `NoDeadlock` | `ReserveSpec => []NoWaitCycle`, if a manifest's name is longer than its image's and names are bounded |
| `StateSlotsProofs` | `SlotsInvariant` | the inductive invariant |
| | `SlotsAlwaysRecover` | `SlotsSpec => []SlotsRecover` |
| | `SlotsAreRegister` | `SlotsSpec /\ []SlotsTrusted => ImplementsRegister` |
| | `RegisterValid` | every state that is seen, or found after a power loss, passes `validate` |
| | `RegisterForward` | but for a power loss the high-water mark never falls, and what becomes active is above it or the last known good one |
| `GenerationCacheProofs` | `CacheInvariant` | the inductive invariant |
| | `MarkersAreEarned` | `Spec => []MarkerMeansVerified` |
| | `CommitsAreDurable` | `Spec => []CommitDurable` |
| | `NamedAndLiveKept` | `Spec => GenerationsKept` |
| `UsbPreparationProofs` | `UsbInvariant`, `DiskInvariant` | the inductive invariants of the manager and of the disks |
| | `Serialized` | `Spec => []OneOperation` |
| | `RevokedStaysRevoked` | `Spec => []NoResurrection` |
| | `RevokedOperationsStop` | `Spec => []RevokedStops` |
| | `OnlyConfirmedDisk` | `Spec => DiskSafe` |
| `GenerationChannelProofs` | `ChildInvariant`, `AcquireInvariant` | the inductive invariants of the verifier child and of the acquisition |
| | `AcceptedVerdictSound` | `Spec => []VerdictSound` |
| | `ChildLeavesNothing` | `Spec => []NothingLeftBehind` |
| | `CommittedGenerationAuthentic` | `AcquireSpec => []CommittedIsAuthentic` |
| | `EndedCallsLeaveNothing` | `ChannelSpec => []NoResidue` |
| `GenerationHandoffProofs` | `TrustInvariant`, `ActivationInvariant`, `HandoffInvariant` | the inductive invariants of a revalidation, of the activations and of the handoff |
| | `RevalidationAtomic` | `TrustSpec => []RevalidatedAtOnce` |
| | `SavesJustified` | `ActivationSpec => []SaveJustified` |
| | `ActiveGenerationDescends` | `ActivationSpec => []ActiveDescends` |
| | `HandoffsWhole` | `HandoffSpec => []HandoffWhole` |
| | `RestartsRecover` | `HandoffSpec => []RestartRecovers` |
| | `ForeignFilesKept` | `HandoffSpec => ForeignKept` |
| `HostFilesProofs` | `GuestInvariant` | the inductive invariant of the guests |
| | `GuestsAreOwned` | `GuestSpec => []GuestSafe` |
| | `SettingsInvariant` | the inductive invariant of the settings |
| | `ReportedSettingsKept` | `SettingsSpec => []SettingsKept` |
| | `UnpackInvariant`, `ExportInvariant` | the inductive invariants of the expansion and of the export |
| | `WholeImages` | `UnpackSpec /\ ExportSpec => ImagesWhole` |
| | `InputsInvariant` | the inductive invariant of the inputs of an NVIDIA installation |
| | `InputsAreExact` | `InputsSpec => []InputsExact` |
| `WindowsProofs` | `WorktreeInvariant`, `BuildInvariant`, `UsbInvariant` | the inductive invariants of the worktree, of the managers and of the USB writer on Windows |
| | `MaintainerIsExact` | `WindowsSpec => MaintainerExact`, however others move HEAD between two readings |
| | `WritersAreKnown` | `WindowsSpec => []WritersKnown` |

### Publication

None of its three safety properties is inductive: that a manifest stands beside its
image depends on what the receipts certify, which depends on what the running
attempt knew of its files when it wrote them, which depends on where it is.
`IInv` has one named part for each of these:

* `StepsOK`: which steps each location of an attempt can be at;
* `RootOK`: a receipt is absent, torn or whole, and its writer finds it as it
  left it;
* `CapOK`: the artifacts that an attempt holds have durable exact bytes from the
  point on at which it synced and sealed them;
* `NamesOK`: what it knows of the names between rename, sync and receipt;
* `ReceiptsOK`: a whole receipt, in every value that may survive, names a file
  with durable exact bytes, and a published one a file that is durably under
  its final name;
* `OrderOK`: any manifest that may be visible is exact beside a durable image;
* `AcceptOK`: which receipts the acceptance made durable so far.

One lemma per part (`StepsStep`, `RootStep`, `CapStep`, ...) shows that every
action keeps it. The parts that depend on the output directory hold until
another program first touches it (`Untouched`); types, steps, receipts' form and
the acceptance hold throughout.

The refinement needs two more facts (`RInv`): the image under its final name is
always exact (`ImageOK`), and a final name that shows no file shows none in any
content that a power loss may leave (`NoGhost`). Then a rename is the
abstract placement of a file, a loss takes back files one at a time and never
after the acknowledgement, and everything else stutters.

Two properties hold of every behaviour, whatever other programs do in the output
directory. `CertifiedKept` rests on `OwnOK`: what an attempt holds, and what any
receipt certifies in any value that may survive, was created by the transaction,
and a stage that may be cleaned up has no receipt. `CompleteWitnessed` rests on
`SeenOK`: the image that the acceptance observed was exact while it had its
identity, and if the pair was not whole when the manifest was observed, that
image is gone for good, since versions only grow and no file comes back under an
identity that it lost; the comparison at the end must then fail.

### Reservations

A process that got a lock holds the file that the name led to, so a
lock is a pair of a key and a file, and the pairs that processes hold are disjoint
(`LocksApart`). A process that verified since the last replacement (`FreshOK`) holds
the files that are under the names now: two of them with a key in common would
hold the same pair. `RecordOK` says that what is published, and what a process that is
about to publish has read, agrees with the record of its output; records are only
created, so the two artifacts of an output have one source. `NoDeadlock` gives each process
a rank, the place in the lock order of the lock that it waits for; it waits for one that waits
for a later lock. Image names come before the names of their own manifests, but one output's
manifest may be another output's image; what excludes a cycle is `NamesGrow`: a
manifest's name is longer than its image's, which appending `.manifest.json` makes true, and names are
bounded, as on every file system (`NAME_MAX`).

### State slots and register

The contents a power loss may leave are all of one of two kinds (`Recoverable`):
*fresh*, an unfinished initialisation or migration in which every file that is there
holds one and the same state, or *running*, two slots that are equal or consecutive.
`AsPromised` says that none is behind what was reported, and `Calm` that without an
order of changes there is only one content between calls. `Works` ties the steps of a
call to them: while it creates files, the content without the last file is one of the
possible ones, and the state it is going to save is a transition of the one that loads. A step
inside the creation (`CreatesSame`), the removal of the legacy file
(`MigratesSame`) and a save (`SavesNext`) are one lemma each. For the refinement, each is a
stutter or one transition of the register, and each power loss takes it to what one of the
possible contents loads as.

`RegisterValid` and `RegisterForward` are about the register, so with
`SlotsAreRegister` they hold of the files.

### Generation cache

`IInv` is the conjunction of: `Works` (what each step of a call knows of its
candidate, generation and marker), `Markers` (no marker stands beside a generation that is
not verified, and a rename finds none, also in the values a power loss may
leave), `Published` and `Synced` (what a loss may still take back is what the call is
still to sync), `Kept` (generations that the state names are whole, and one
that is about to be taken back is named by nobody: `Spared`), and `Apart` (a lease has
one holder; a sweep knows which are held). `Kept` is where the code's rule matters that an
error in the reuse of a generation does not take it back. The proofs about one entry
of one directory rest on frame lemmas (`Quiet`, `Marking`, `Removing`): what a step that
changes another entry leaves alone. Both kinds of file system are covered: `Trusted`
is part of the statements.

### Acquisition and verifier child

`AcquireIInv` says what each step has established of the documents in `got`: from the manifest on
the discovery is signed, valid and of this authority (`DiscoverySigned`); from the plan on the
manifest is signed and agrees with it (`PairSigned`); from the admission on it is for this target and
its names collide with nothing (`Admissible`). A commit finds all three, and the directory it verified is the one
expected of that manifest, so `CommittedIsAuthentic` is a consequence of what is fetched being never fetched
again. `ManifestAssumption` says that the files of a manifest are a sequence.

`ChildIInv` has three parts. `ReadersInv`: the readers start once and what was sent is final.
`GroupInv`: no process of the group is left once the termination is over, no second
termination begins, and what is not in the group was forked by a helper that left it.
`VerdictInv`: what was executed is the pinned copy, from the spawn to the verdict, and a verdict is
accepted only without a cancellation, from a leader that was reaped. `EndedCallsLeaveNothing` joins both through
`GenerationChannel`, in which a behaviour runs one of the two.

### Installed trust and activation

`TrustIInv` rests on identities (`stamp`) that are never used twice: a file that was read has the bytes that were
read for as long as its identity is the one pinned. While a revalidation goes through the files, *if the checks that
remain were to pass now*, the directory was as pinned when it began: what has been checked already can only have changed
to an identity that a remaining check of the root, or a later one, would notice. This conditional is what makes a sequence
of checks as good as an atomic one.

`ActivationIInv` says of each caller what it was validated against (`CallOK`): a new activation, from the lock on, is
authorized by the state; an acknowledgement is, if the revision is still the one it loaded; and what it
saw of the evidence since it decided (`SawOK`). `ActiveDescends` is inductive with these: what is saved
comes from an authorized capability, whose lineage leads from a checkpoint. The generations that
descend from a checkpoint are the least set closed under lineage (`FromCheckpoint`), not a recursive
function, so that this is provable. Assumptions: a lineage is a sequence (`CapabilityAssumption`), no caller is the absent one
(`CallerAssumption`), and the state the cache starts with is valid and protects only generations that descend from a
checkpoint (`StartAssumption`).

### Handoff

`HandoffWhole`, `RestartRecovers` and `ForeignKept` share `HandoffIInv`:

* `WholeOK`: the order in which a lease becomes durable (`WholeLease`): a record is begun when what it
  stands on is durable, a name is given when the files are. It holds of each lease but one whose removal has begun;
* `EachOK`: what holds of all leases (`LeaseOK`): a handoff that is published and sealed is durable, and so is a
  file of another program;
* `SpotOK`: what the running call relies on at each place, `RoutineOK`: which places a routine has;
* `ReturnedOK`: what a handle or a recovered handoff relies on;
* `QueueOK`: at most one lease is live unless a removal was cut short, and a call looks at every lease before
  it makes another.

A power failure mixes, for each record and file, what was seen and what was durable (`Mixed`), and a sync of the
destination makes the leases and names durable, but no record (`Synced`); one lemma each says that the order
survives them. Every other step is about one lease, and a frame lemma for each part leaves the others alone.
`RestartRecovers` is inductive with `HandoffIInv`, since only three steps refuse. `LeaseAssumption`: there is at least one lease.

### USB

`OneOperation` is not inductive: that no second operation begins rests on the
token still being taken, also after it was cancelled, replaced or cleaned up
(`Owned`: a busy worker holds the token and is the one the manager knows).
`NoResurrection` rests on what a worker may still publish (`Unrevoked`: a worker
whose flag is not set pursues a token that was not revoked), and that rests on
`Owned`, since a flag is set through the manager. All steps inside an operation
are one lemma each way: `StepContinues` shows that they leave token, kind
and flag alone, `ContinuesStep` that such a step keeps `IInv`.

`DiskInv` adds what relates an operation to the disk: what is offered for removal
was read back whole (`Offered`), nothing is offered beside an operation (`Current`), the
device it holds open, while it is plugged in, and the drive it removes are the disk
that was confirmed (`OnItsDisk`), what it has compared is on that disk
(`ReadBack`), and one whose flag is set or whose time is over does one more thing at most
(`StopsSoon`). Only one worker is busy (`OneOperation`), so nobody else
changes the disk under it but the user, who changes the plug.

### Guests, settings, images and NVIDIA inputs

`GuestRuntime`: a session is one instance's, also after that one has died
(`MineOK`); the step of an instance says what its guest and its watchdog are
(`StageOK`); and until two instances overlap, a session that is being watched is recorded
in its directory and is not what a cleanup goes after (`AloneOK`). From these
follow that a running guest has an instance or a watchdog, or lost its instance
before the watchdog began, and that nobody removes the disks of a guest under a watchdog.

`SettingsFile`: a process that holds the lock file which is under the lock's name is alone
past its verification (`LockOK`). A process whose lock was replaced does not pass
its last verification, so it never reports success; and unless one such process
replaced the file, every content that a power loss may leave has what was reported
(`DataOK`).

`ParallelDecompression`: unless an error is on its way, each buffer that the tool
produced is in the pipe, with the reader, in the channel or in the image
(`NothingLost`). The preparation accepts only after it has seen the reader's end,
an empty channel and a tool that succeeded, so all of the stream is in the image.
`ImageExport`: between its two renames an exporter has its image under its name,
and no manifest of its own is visible yet, unless another program removed a file
of that name (`HalfPaired`). An exporter renames onto free names only and takes
back only what is its own (`ExportKeepsStep`), so it disturbs no other one.

`NvidiaInputs`: the commands share the session, the guest and the files, and a command
trusts at one place what it saw at an earlier one. `InputsIInv` says what may be
trusted: what a command carries, by its place (`CarriesOK`: what it
verified is of the image's kernel and of the version it asked for); that one
command at a time has the x86_64 session, and that what the guest received is what
that command sent until the result is recorded (`BoxOK`); that a directory of downloads has one
command until it is recorded (`DownloadsOK`), and likewise what is staged of the packages and
of a bundle (`StagesOK`); where a build stands with its files, whose names are always the same
(`BuiltOK`); and that nothing comes back after a session has ended (`EndedOK`). Each command's
step moves that command only (`OthersStay`), and one lemma for each kind of
file says what any command's step does to it (`DownloadKept`, `PackagesKept`, `BundlesKept`,
`BuiltKept`) and to the records (`SessionKept`); the parts of the invariant then follow from
these and not from the steps one by one. `InputBounds`: there are versions and
stamps, they are positive numbers, and the commands are finitely many.

### Builds, worktree and the USB writer on Windows

`BuildFlow`: sessions are not told apart by who works for them, since a stale command works for
whatever session is there; what keeps an image with one writer is less than that. One
flow at a time is between the claim of the x86_64 manager and the record of its guest, and
`starting` is set as long (`BoxesOK`), so there is one x86_64 guest. An image
is handed over only after its native guest has stopped, and its build, which has
left `start`, gives it no other (`ImagesOK`). Most commands add no guest to anything (`Quiet`); one
lemma (`QuietStep`) covers them all, and the steps of the handoff have one each.

`MaintainerWorktree`: an execution goes past its readings only when they
are those that were shown (`ExecutionOK`), what `commit-tree` made is of the reviewed parent and
content (`MadeOK`), and the parent of a commit never changes; that nobody's commit is lost is
then a fact about descent, for which `Line` is the least closed set. Of a rollback, `InverseOK`
says what is known between its steps: as long as others have left HEAD where it was since the
review, HEAD is the reviewed commit, and after the revert the inverse of it; as long as they
have left it there since the reported commit was read, it is that commit. A step of others that moves HEAD
takes these premises away (`OthersLeave`), one that does not keeps them.

`WindowsUsbWriter`: what a helper carries fits where it is (`HelpersOK`), attempts come one after another
and only one that could not be watched may still have its helper (`AttemptsOK`), what was verified
is on the disk unless a later or an unwatched helper wrote there (`VerifiedOK`), and an
offline disk has a helper that will bring it back, or an answer that says it could not (`OfflineOK`).

### What the proofs found

`Recovery` had overlapping guards in a `CASE`, so that TLC took the first and the
proof could not: they are disjoint now. The reservation of two outputs whose names
contain each other is acyclic only because names grow, which is the assumption above. `ForeignKept`
said that a foreign file stays as it is, which is true for one change by another program only: a second
change may replace the file of the first. It says now that no call removes or overwrites it.
The descent of generations was a recursive function; as the least closed set it could be reasoned about, and so
was the history of a branch. `Recovered` of `WindowsUsbWriter` had overlapping guards too. The attempt to prove
`ExportedInstalled` for any number of builds showed that it needs `CompletionOriginates`: see *Builds* in section 5.

### Only model-checked

* `ReservationCovers` compares a reservation with the sum of a fold over the inventory; what a fold computes
  for every sequence is an induction over data.
* Of `Windows_build`: `RootRestored`, over the places of three scripts, and `ExportedInstalled` and
  `CancelledIsStopped`, which need to know whom each session belongs to through every stale command.
* The liveness properties `RetriesConverge`, `Settles` and `Returns`, since fairness and `ENABLED` are out of the
  prover's reach.
* The operators on sequences of documents (`GenerationContracts`), and the choice of a release, which is compared
  with its definition over bounded listings only.

## 5. What is not modelled, and what is assumed

Common to several modules:

* Reading a few small files and comparing digests is one step. Hashing a file is
  the observation of its bytes at one instant, and hashes are injective.
* The format of a single closed document (canonical form, duplicate keys, limits of
  fields); the conditions between documents are modelled.
* Identities of pinned directories above the ones a component works in.
* Components listed as `not_modelled` in `PROJECT.json`, each with the reason.

By component:

* *Publication.* The window in which the creation of a lock file under a restrictive
  umask is followed by `fchmod`. Staging syncs the stage file, but not its directory, before the staged receipt
  is durable; after a power loss a receipt may name a stage that is gone. The
  code refuses it, so it counts as a residue, and the model has this case. The comparison and the
  removal of a stage without a receipt (`output_transaction.rs:1568-1569`) cannot be one step, so a
  file that another program puts there in between is removed, although `src/TODO.md:2904` speaks of the
  exact inode only; `CertifiedKept` leaves this removal out.
* *Reservations.* Two processes with different lock roots: the code requires one fixed root.
  A record of `a` stays when its process is gone, and it does not
  stop a later reservation of `a.manifest.json` as an image; a test of the
  repository accepts that (`output_transaction.rs:3386-3430`).
* *Cache.* The trash directory and its bounded deletion, temporaries, and
  programs other than the cache that change its directories; identities of
  files that the code pins and compares are not told apart for that reason.
* *Acquisition.* The development integration is a test driver.
* *Handoff.* Reconciliation writes `published.json` (line 1197) before it syncs the
  destination (1228), and does not sync a record of the publication that it finds:
  two cases of a power failure after a first restart are refused, and `RestartRecovers` names them,
  as it does what an interrupted removal of a lease leaves.
* *Guests.* The SSH and QMP dialogues, logs, the snapshot of the sources. Two instances that
  overlap may remove each other's disks: `DisksKept` holds until they do. A worker that panics leaves
  `preparing` set (`image.rs:2072-2081`), and `watchdog.finish` kills a group after it was reaped
  (`appliance.rs:380-393`); neither is modelled.
* *Builds.* The bound of two builds matters. With three, the model lets the stale coroutine of a first build
  end the second one (section 6) between its installation and its `export` call; a third build then
  boots a session, and the pending `export` takes the third one's image, which nothing was installed in.
  In the code that takes a command delayed for the time in which a guest boots; `Begun` orders
  commands only against actions of the user. `ExportedInstalled` is therefore stated for behaviours in which
  each completion is that of its build; without that condition TLC finds the behaviour above with three builds.
  A command that was issued reaches its first section before a later action of the user
  (`Begun`); the end of a build is one step; the release of an on-demand build is left out. A
  session that was handed off, with a stopped QEMU, may be marked "failed" by a poll of its status
  (`appliance.rs:4149-4158`), and a failed export drops the session, as in the code.
* *Scripts.* Signals are sent to the shell only, between two commands. A signal in the cleanup of the
  installation or of the marker ends the shell there: mounts, the read-only property and the
  seeding flag are not taken back. The status is not 0, the builder gives the image up, and
  `RootRestored` leaves this end out (`clean`). A signal in the guest between two
  commands makes the trap exit with the status of the last one, which may be 0; the property
  asks for the installation media only without one. `printf | grep -q` under `pipefail` may see
  `SIGPIPE` and refuse a good installation (`installer.rs:3533-3536`). After a failed installation the
  session stays "handoff-validated", and no second one can start.
* *Inputs.* A bundle changed between its last verification and its packing is not
  noticed, and the property leaves it out. After a new resolution has forgotten a staged bundle, its
  directory is still there and blocks the next preparation of that session; files of an on-demand build that a later
  check refused block a repetition of it.
* *Maintainer.* The creation of a worktree (`nvidia.rs:1101-1264`). A local commit does not compare
  the branch (1635-1641), and the version file is checked and then renamed (2552-2559). The inverse
  commit is not bound to the reviewed `HEAD` (2272-2288), and `HEAD` is read once for the reported
  commit and once for the compared tree (2289-2293, 2294-2298): when HEAD is amended before the revert and
  another branch is checked out between the readings, an inverse commit is reported whose tree is not that of the
  reviewed parent. `MaintainerExact` says of a rollback what holds: the reported commit is the inverse of
  the reviewed one if others left HEAD alone until it was read, and has the reviewed content if
  they left it alone between the two readings.
* *Expansion and export.* The renames of an export are not synced, so a power loss is not modelled. A kill
  between them leaves an image without its manifest, which the next export avoids. The rollback
  may remove a file that another program has put in the place of the image; on systems
  other than Linux and macOS a rename is a link and an unlink.
* *USB on Linux.* The discovery of disks, and the macOS writer (`authopen`).
* *USB on Windows.* An ejection is by the number of the drive, after the check of its identity
  (`image.rs:5520-5694`, 5729): a disk swapped in between may be ejected. The deadline of a cancellation is
  set anew while the file that asks for it cannot be created (5394-5399). A terminated
  helper may leave its disk offline.
* *Settings.* The portable state, a copy of files at the first start. A directory made for the
  settings is not synced, and a kill leaves a temporary file.

## 6. Disagreements between the code and its documentation

### A lease without its document stops reconciliation

The comment at `core_generation_cache.rs:390-391` says that lease residue is
intentional after the death of a process and that reconciliation owns its
deletion. A lease file is created at line 828 and its document is written at
867. A process that dies in between leaves an empty file, and
`inventory_lease_files` (line 3387) answers an empty entry with an error for the
whole inventory: every later reconciliation, and every admitted creation, fails
until the file is removed by hand. The run `GenerationCache_residue` shows the
kill after `OpenLease`.

### An interrupted retirement cannot be finished

The comment at `core_generation_cache/appliance_staging.rs:1675-1676` says that the durable
retiring marker lets a later staging call finish. The removal first makes the
directory writable again (893), and the reconciliation demands the sealed mode (1184-1189) and
every file of the receipt (799-807). A kill in between makes every later staging of
that generation refuse. The run `GenerationHandoff_retire` shows it.

### The application may close while a USB operation is under way

The close handler says that "The application must remain open until the active
USB write settles." (`app.rs:205`). It reads `has_active_write` under the
manager's mutex and releases it (`app.rs:196-200`), and only then cleans up and
exits (209-210). A write that begins in between is cancelled, but not waited for,
and the process ends with its thread. The run `UsbPreparation_close` shows it. The
flag is set before the process ends and a write starts with checks that take
longer, so a disk will rarely have been touched.

### A build may end the next one

`src/tests/progress-lifecycle.test.mjs:47` demands that "build completion carries the originating
request identity". `finish` emits the build that is active when it runs (`src/build.js:417-428`).
The failure path of a build waits for its workers (796-810); when the user cancels during that
wait and requests another build, the first one resumes and reports "failed" under the identity of the
second one. The run `BuildFlow_completion` shows it with two builds.

### A cancelled expansion may never return

`src/docs/index.md:64` promises cancellable normalization. On a cancellation,
`normalize_input_with_limit` kills the tool and joins its reader
(`appliance.rs:1809-1813`) while it still holds the receiver of the channel. A reader
that is blocked because the channel is full waits for the preparation, which waits for it.
The run `ParallelDecompression_cancel` shows it.

## 7. Plan

All parts of the plan that concern models and runs are done. What the proofs could
still reach, in this order:

1. `GuestScripts`: `RootRestored`, from what each trap restores, per place.
2. `BuildFlow`: `ExportedInstalled` and `CancelledIsStopped`, from the ownership of a session by the build that handed it over.
