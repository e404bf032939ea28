# SynOS Studio: TLA+ models, checks and proofs

This directory specifies the parts of SynOS Studio in which several programs,
threads or boots share state and have to survive failures: the system rollback and
the store behind it, the installer, the build queue with its status publication,
and the voice typing service. TLC checks small instances of every model; TLAPS
proves the properties that matter most for every instance.

Paths are relative to the repository. `E/` stands for
`packages/synos-btrfs-snapshots-manager/upstream/src/synos-recovery-engine/src/`,
`I/` for `packages/synos-installer-beta/upstream/src/`, and `W/` for
`packages/synos-whisper-framework/upstream/src/synos_whisper_framework/`.

## 1. The system

SynOS Studio builds a Linux distribution. Most of the repository is data
(catalogues, translations, themes, profiles), packaging and sequential tools. Its
own logic with state that outlives a step, more than one actor, and failures it
has to survive is in these places.

| Part | State it keeps | Operations | What is hard about it |
| --- | --- | --- | --- |
| Rollback transaction store (`E/transaction.rs`) | `pending-rollback.json`: phase, checkpoint, attempts, boot ids; `rollback-history/` | create, update, remove, archive, phase transitions | one file, written by three programs in different boots |
| Recovery engine (`E/recovery.rs`, run by a dracut hook) | the Btrfs top level: `@root`, old root, new root | apply, revert, one command at a time | power loss between any two commands; retries |
| GRUB integration (`E/boot.rs`, `data/01_…env`, `data/09_…`) | one-shot selector on the ESP, recovery entry in `grub.cfg` | select, consume, re-arm, regenerate | the menu lies inside the root that is exchanged |
| Rollback coordinator (`E/rollback.rs`, in the D-Bus helper) | none of its own | schedule, cancel, undo | several durable writes that should be one; two calls at once |
| Confirmation (`E/confirmation.rs`, a systemd unit) | none of its own | confirm, record a revert or failure, reclaim old roots | may be cut off and repeated; may run in the wrong boot |
| Root cleanup records (`E/cleanup.rs`), lineage (`E/lineage.rs`) | `cleanup-pending/<id>.json`; tree of moments, head | schedule, defer, complete, list; record activation | must survive everything else, and agree with the root that runs |
| Deployment store (`E/operations.rs`, `E/store.rs`), browsing (`E/browse_lock.rs`) | snapshots and their records, lock files | create, verify, delete, browse | deletion of what others reference or read |
| Package transactions (`E/package_*.rs`), start lock (`E/coordination.rs`) | `pending-package.json`, `package-history/` | snapshots before and after dpkg | races with schedule and deletion; a killed APT |
| Installer executor (`I/installer_core/`) | the target system, mounts, swap, firmware entries | about 25 steps with preflight, execute, verify, cleanup | any command may fail; a second attempt on what the first left |
| Installer storage planning (`I/installer_core/storage_*.py`, `manual_*.py`, `I/pages.py`) | inventory, draft, plan | probe, edit, preview, confirm, write the table | four computations of one layout; probes that come back late; a disk that changes |
| Installer entry pages (`I/pages.py`, `wifi.py`, `power.py`) | shared choices, NetworkManager's profiles | power gate, scan, connect, choose downloads | cancellation and deadline against asynchronous calls |
| Installer end pages (`I/pages.py`, `I/frontend.py`, `I/executor_cli.py`) | summary, progress, one child process | review, confirm, run, report | stale plan, closed pipe, killed processes |
| Build job queue (`tools/job_queue.py`, `build_matrix.py`) | queue, `report.json`, status files | dequeue, retry, publish, resume | threads that raise or die, runs that are killed |
| Build status (`tools/catalog_conformance.py`, `build_status.py`, `status_uploader.py`) | `build-status.json`, its copies | queued, testing, outcome, upload | rehearsal before production, interrupted runs |
| Voice typing (`W/daemon.py` and the modules it drives) | session, pending count, work queue, detector | start, stop, test, phrases, previews | three threads and a child process |

The hazards of these parts, each at the line where it bites and with the
properties that would notice it, are in `PROJECT.json`.

### How the parts interact

The parts of a rollback never talk to each other. They interact only through
durable state, in this order:

1. The *helper* checks, writes the pending record (`Preparing`), regenerates the
   GRUB menu, marks the record `Armed` and selects the recovery entry.
2. *GRUB* consumes the selector, and the recovery entry re-arms it and passes the
   transaction id on the kernel command line.
3. In the *initramfs*, before `@root` is mounted, the engine snapshots the target
   to the new root, renames `@root` to the old root and the new root to `@root`,
   with a sync and a checkpoint after each, and records `BootedUnconfirmed`.
4. In *userspace* the confirmation checks that it runs in that very boot on that
   very root, marks the record `Confirmed`, moves the lineage head, writes a
   cleanup record for the old root, archives and removes the transaction,
   regenerates the menu and deletes old roots.
5. If the target boots and is not confirmed, the next initramfs reverts: the
   exchange is undone, again one rename at a time.

Meanwhile, within one boot, helper calls run on threads of their own, beside the
confirmation unit and the APT hook. Only two lock files order them: the start lock,
under which a rollback or a package transaction is created and a snapshot deleted,
and the operation lock, under which snapshots are made, verified and deleted.

The installer is a window with one main loop, worker threads for probes and Wi-Fi
operations, and one privileged child process. Results come back to the main loop
in any order; a page accepts only the answer to its last question. The child gets
the plan once, on standard input, and reports one JSON event per line; it does not
trust the plan and derives everything again from the disks.

The build tools share one queue class. Workers are threads; what they publish is
serialised by a lock, what they leave on disk is read by the next run.

The voice service answers D-Bus calls on its main loop, collects audio on a
GStreamer thread and recognizes on a third; results return as idle callbacks.

### What makes it correct

Rollback:

- The system a rollback started from is never lost before the target is
  confirmed, whatever fails and whenever (`FallbackProtected`).
- Checkpoint, lineage head and cleanup records say what is on disk, and no root is
  left that no record knows (`RecordsTellTruth`).
- apply and revert can continue from wherever they were interrupted
  (`EngineNeverUnsafe`), and everything that was begun ends, unless a power loss
  between two renames leaves no `@root` for GRUB to read its menu from, where `/boot`
  is part of it (`EverythingResolves`).
- A rollback ends once, with the system its outcome names
  (`ImplementsAtomicRollback`, `OutcomesAreKept`, `UnconfirmedBootReverts`).
- Concurrent programs do not take each other's records, snapshots or locks
  (`BoundaryHasOneOwner`, `OutcomesAreRecorded`, `ReferencedStays`,
  `NoLockIsLeft`).

Installer:

- What is reported as installed is complete and its owner's, and what fails leaves
  no secret unless its removal failed too (`SuccessIsComplete`, `KeysAndSecrets`);
  other systems are not touched (`OthersUntouched`); an attempt does not fail because
  of an earlier one, unless that one had another layout and its swap is in use
  (`FaultlessAttemptSucceeds`).
- The table that is written is the one that was edited last and confirmed
  (`LayoutIsChosen`, `OnlyConfirmedChanges`), an NTFS partition always holds its
  file system (`ResizeKeepsData`), and the four computations of a layout agree, but
  for an XFS or F2FS root, an erasure of a disk in use and a table with several active
  swaps (`UndisturbedInstalls`).
- A new profile that never worked is not kept unless it was rewritten, and an
  activation does not outlive the giving up of a worker that was told of it
  (`AttemptsAreTakenBack`); choices and the power check survive every order of
  events (`SessionIsKept`), and the network page always recovers
  (`NetworkPageRecovers`).
- What is confirmed is what was reviewed, but for the online choices after a change of
  the network (`PlanIsReviewed`), one executor runs (`OneInstallation`), and its result
  is reported truthfully, and always unless its last line ends inside a character
  (`ResultIsReported`, `ResultArrives`, `NothingUnwatched`).

Build tools: nothing is lost, built twice at once or left early (`QueueIsSound`),
results survive a kill (`RecordedSurvivesKill`), exit code 0 means what it says,
unless every worker died while it recorded a result
(`ExitOkMeansProven`, `ExitOkMeansPublished`), badges are honest
(`BadgeIsHonest`), production is reached only after its rehearsal
(`ProductionWasRehearsed`), and runs end (`MatrixTerminates`).

Voice typing: microphone and detector always have an owner (`DevicesHaveOwners`),
the count decides rightly unless two threads changed it at once
(`PendingIsOutstanding`), text comes in order
(`TranscriptsAdvance`), sessions end (`SessionsEnd`).

## 2. Modules

| Module | What it is |
| --- | --- |
| `RollbackRecovery` | one rollback after another through reboots and power losses, all five programs |
| `AtomicRollback`, `RollbackRefinement` | the abstract specification (one active system; a rollback is open, committed or aborted) and the mapping to it |
| `PowerLossMatrix` | `RollbackRecovery` with a history of the moments of power loss, for the rows of the release qualification |
| `RestoreCoordination` | one boot with concurrent helper calls, the confirmation unit, the APT hook, deletion, browsing, the two locks |
| `InstallSteps`, `InstallSoftware`, `InstallBoot` | what each step of the executor does, as a map from a world to its outcomes |
| `InstallerExecution` | `StepRunner` over those steps: preflight, execution, cleanup, kill, second attempt |
| `StorageInventory`, `StorageGraph`, `StoragePlan` | pure definitions: disks, layouts and their validation, commands and their effect |
| `StorageWizard`, `InstallerPlanning` | the storage pages with their probes, and the executor's storage step on the same disks |
| `WifiRequests`, `WifiConnection` | forms and profiles; the Wi-Fi workers and NetworkManager |
| `InstallerEntry` | welcome, battery, Secure Boot, network and software pages over `WifiConnection` |
| `InstallerFinish` | account to result: summary, executor process, pipes, reader thread, progress page |
| `JobQueue` | `LocalJobQueue`, the worker loop and `run_parallel` |
| `BuildMatrix`, `BuildStatus` | the two users of the queue, with what they write and publish |
| `VoiceTyping` | the voice service: main loop, streaming thread, recognition thread |
| `RollbackSafety_proofs`, `RestoreCoordination_proofs`, `JobQueue_proofs`, `BuildMatrix_proofs`, `BuildStatus_proofs`, `InstallerEntry_proofs`, `InstallerWindow_proofs`, `VoiceTyping_proofs` | theorems |
| `MC…` | root modules of the TLC runs, with their instances |

Definitions keep the names of the code where TLA+ allows it; `PROJECT.json` maps
each to its lines. Operators introduced by "Mutant:" are plausible errors, each
placed before the definition it would replace. They take no part in the
specification; each shows that a property notices the error.

### Rollback: state and code

| Variable | Code |
| --- | --- |
| `disk`, `view` | the Btrfs top level as committed, and as the kernel sees it. A command changes `view`, `btrfs filesystem sync` copies it to `disk`, a power loss continues from either |
| `pending` | `transactions/pending-rollback.json`, with the fields control depends on |
| `selector` | `btrfs_snapshots_manager_next_entry` in the ESP's environment file |
| `menu` | the recovery entry in the `grub.cfg` of each system |
| `machine`, `requested`, `mark` | where the boot has got to, the kernel argument, the checkpoint the engine is about to record |
| `helper`, `confirm` | program counters of the D-Bus call and of the confirmation run, with the copies of the record they hold |
| `cleanup`, `stray` | records in `cleanup-pending`, and temporary files a power loss left there |
| `history`, `head` | `rollback-history`, the lineage head |
| `used`, `disruptions` | ids already given out, and how many disruptions are still to come |

Every durable write is a step of its own, because power may fail after it; the
code between two writes belongs to the following step.

Abstractions:

- A subvolume's content is the name of the system in it: `Original`, or the
  transaction that restored it.
- A boot id is `none`, `this` or `earlier`; the code compares a recorded id only
  with the current one. A restart ages the recorded ones.
- The checks of the hook (device, file system, protocol, staging) and of
  `validate_deployments`, and the reasons a command may fail, are one
  nondeterministic failure each.
- The first update of a confirmation is one step with the load and the checks
  that precede it, since nothing else writes the record meanwhile: one helper
  call and one confirmation run exist at a time (`RestoreCoordination` has several).
- `BootInRoot` says whether `/boot` is part of `@root`. The installer's Btrfs
  layout has no separate `/boot`. Then the menu that GRUB reads is that of the
  system at `@root`, and there is none while `@root` is missing.
- `FirstEntryDefault` says that `GRUB_DEFAULT` is 0, so that the recovery entry,
  which sorts first, is booted even without a selector; otherwise the default is
  pinned to an entry of its own.
- GRUB, the operator, restarts and the firmware are external; they are modelled
  from what the scripts and the recovery entry ask of them.

### Coordination: state and code

`record`, `history`, `package` and `archived` are the four places under
`transactions/`; `snaps` is the state of each snapshot's record and what is on the
disk; `browsed`, `startLock` and `opLock` are the lock files; `call` and `hook` are
program counters with the copies each program holds. A step is what a program does
between two moments at which another one could interfere. Every call may fail, and
the helper, the unit and the hook may be killed, which releases their locks.
`TransactionStore::update` checks that there is a record and renames its copy over
the file later, without the start lock; `overrun` remembers that it met another
record, or none. `BoundaryHasOneOwner` and `ReferencedStays` are stated up to that
moment, because both rest on the lock that an overrun bypasses.

### Installer: state and code

- `InstallerExecution`. A *world* is one record: what the steps share through
  `InstallContext.values`, the live machine, and the system on the disk. Each step
  is an operator from a world to the set of its outcomes (ended how, had a command
  to fail for it, the world it leaves). `run` is `StepRunner`; a kill forgets the
  context and keeps machine and disk. A swap area is known by the number of its
  partition, so that one of an earlier layout is told from the plan's own; the Live
  session may switch swaps on between attempts and hold the disk by a mount until the
  preflight (`LiveMounts`, `DiskReleased`). Nobody mounts after it. The removal of the
  migrated Wi-Fi profile may fail, which the code logs. The contents of configuration
  files are reduced to the facts a property or a later step looks at.
- `InstallerPlanning`. `disks` are partition tables in units small enough for
  unaligned partitions; `ui`, `ed` and `jobs` are the shared choices, the closures
  of the manual editor and the probes in flight; `exec` is the executor's storage
  step, command by command. Partitions may be mounted or in use as swap, in any slot.
  Others may change a disk between picture and use. The graph of a plan is rebuilt by
  the executor from the disk, as in the code.
- `InstallerEntry`. `nm`, `calls` and `ops` are NetworkManager, the calls it has
  not handled and the workers; cancelling a call only discards its answer. `page`,
  `scan`, `power` and `shared` are the pages.
- `InstallerFinish`. `runs` holds, for each installation, the process with its
  step, the lines in the event pipe, and the reader thread; `idle` holds what the
  reader has posted to the main loop. A kill may cut a line, also inside a character:
  then the strict decoding raises and the reader is dead. The handlers of
  `network-changed` that the earlier pages connected stay connected, so that
  `NetworkChanges` rewrites the online choices (`shared.extras`: updates, drivers,
  codecs, input methods) under a summary that was built before; `summary.late`
  remembers it. What the steps do to the machine is left to `InstallerExecution`.

libnm, parted, mkfs, ntfsresize, apt, the firmware and the person are external;
they are modelled from how the code uses them and may fail where it reacts.

### Build tools and voice typing: state and code

`JobQueue` has the fields of `LocalJobQueue` and the place of each worker in
`_worker`; a call starts any of the threads (`Jobs`), the others stay idle. `BuildMatrix` adds the working tree, HEAD, scratch checkouts, the files
and the state lock; `BuildStatus` adds the status file, its destinations and the
steps of `run_build`. Files are known by a version number, dates by run numbers.
In both, recording a result may raise at every write or print, which ends the worker's
thread: `unsaved` remembers a result that is in the report and not in its file,
`stranded` that no worker was left to see the queue drained. With no bases asked for
(`CoverBases` empty) `BuildStatus` is in the default mode: entries are queued and
marked under the default base, and recorded under the base of their own manifest
(`OwnBase`).

`VoiceTyping` has the attributes of the service, the idle callbacks in order, the
bounded queue and the three threads; stopping a capture waits for the streaming
thread, so every handler that stops one is two steps. `pending` is changed by two
threads without a lock. CPython switches threads at calls and backward jumps, so that
`+= 1` and `-= 1` are one step each; `max(0, self.pending - 1)` calls a function between
its load and its store and is two (`reading` holds the value that was loaded).
`raced` remembers that the streaming thread changed the count in between.

## 3. Runs

| Run | Instance | Checks |
| --- | --- | --- |
| `rollback` | 2 rollbacks, 4 disruptions, installer layout | seven safety and action properties, and the refinement of `AtomicRollback` |
| `power_loss_matrix` | 2 rollbacks, 2 disruptions, installer layout | `UnconfirmedBootReverts`, `EverythingResolves` |
| `restore_coordination` | 2 helper threads, the unit, 1 run of APT, 3 calls, 1 failure or kill, 3 snapshots | ownership, outcomes, locks, references |
| `installer_execution` | 6 plans on 3 machines, 2 attempts, 2 faults | completeness, secrets, repeatability, other systems |
| `installer_storage` | 8 machines with up to 3 edits, 1 return, 1 trouble, all four root filesystems | layout, resize, agreement, preservation |
| `installer_entry` | 5 machines with up to 2 operations, troubles, steps back | profiles, activations, choices, recovery |
| `installer_finish` | 2 installations of 2 steps, 1 fault, 3 edits or changes of the network, 4 steps back, pipes of 1 line | review, exclusion, truthful and certain result |
| `build_matrix` | 2 targets, 1 or 2 workers, 2 attempts, 2 runs, 1 edit | queue, kill, exit code, termination |
| `build_status` | 2 entries of which one pins the other base, 1 or 2 workers, 2 runs and the start of a third, 1 rehearsal and 1 production copy, 1 upload fault | badges, rehearsal, exit code |
| `voice_typing` | 3 sessions, 2 phrases, 1 preview, queue of 1, 1 failure | owners, count, order, ends |
| `matrix_cleanup_durable`, `installer_advanced_erase` | a small instance of the same module | one statement each that the code does not keep (section 5) |

The largest have between one and about two million states.

### Bounds

- *Rollback.* `MaxDisruptions` is a budget for power losses, failing commands,
  overrides at the boot menu and deferred cleanups. Two are needed to interrupt an
  apply and then its revert, three to interrupt a repetition as well, and four to
  exhaust `MAX_APPLY_ATTEMPTS` (3, as in the code) and fail once more. Two
  rollbacks are enough for the old root of the first to meet the second. Both runs have
  the layout the installer makes, `/boot` in `@root` and the recovery entry as default;
  the theorems cover the other settings of `BootInRoot` and `FirstEntryDefault` as well.
- *Coordination.* Three calls allow a schedule to race another schedule, a
  cancellation or a deletion while the unit reconciles and APT runs; three
  snapshots are a target, a fallback and one to delete. Tasks, unused ids and
  snapshots are symmetric; only safety is checked. Nobody has to call, so the
  machine may come to rest (no deadlock check).
- *Execution.* The six plans reach every step and both sides of each choice
  between them; three of them lay out the same disk differently, so that a second
  attempt meets the swap of another layout. Two faults reach a failing cleanup after a
  failing step, and a second attempt after a kill.
- *Storage.* A MiB is two units, and every minimum is a few MiB, so that each of
  them decides in some instance and unaligned edges occur. The machines are an
  unaligned Windows disk, a Linux disk with active swap in a partition out of
  order, the same with the swap in another slot, the same with two active swaps, a
  disk whose system is mounted, a blank disk under BIOS, one with firmware variables
  locked, and an ARM machine that only has an ESP. `Filesystems` is what the editor
  offers for the root: btrfs, ext4, xfs and f2fs.
  Each instance of a machine has its own budget of troubles, edits and returns:
  three edits undisturbed, which is what a complete manual layout takes beside an
  ESP that is reused, and two edits or a return together with one trouble.
- *Entry.* Two operations let an abandoned one meet its successor; the machines
  differ in saved profiles, access points, battery and cable.
- *Finish.* A pipe of one line blocks its writer, which is what a full pipe does.
  Two installations and four steps back reach a second summary while the first
  executor still runs. `MaxEdits` bounds edits and changes of the network together: two
  make a valid account, so that one is left for either.
- *Build.* Two workers are enough for one to find the queue empty while the other
  may requeue; two runs are enough for a resume, and in `build_status` a third
  begins and resolves what a killed second one left. A history of one entry is
  always at its limit. Each run has its own `--jobs`: two threads interleave, and one
  thread, the default, is the case in which a single death strands what is left. The
  two entries of `build_status` are in the default mode, in which no bases are asked
  for; asking for bases is covered by the theorems.
- *Voice.* A queue of one refuses the second phrase. Three sessions let an
  abandoned preparation meet both its successors.

The theorems have none of these bounds.

### Fairness

- *Rollback.* Weak fairness of GRUB, engine, helper and confirmation: a program
  that runs goes on. Strong fairness of starting the confirmation: every boot
  starts the unit when there is a record or a cleanup record. Weak fairness of
  `Reboot` and `PowerCycle`: a machine that has stopped at a prompt is restarted
  some day. Nothing is assumed of the operator or of calls; failures are finitely
  many, and a nested subvolume that blocks a deletion is removed some day.
- *Build.* Threads run and main joins them; nobody has to edit, start or kill.
- *Voice.* The main loop dispatches, the streaming thread's callbacks return, and
  a request to the native process ends, by its deadline if nothing else
  (`W/resident.py`). Nobody has to call or to speak.
- *Entry.* libnm answers each call, with an error if need be; main loop and timers
  run. How long an activation takes is open: that is what the deadline is for.
- *Finish.* Reader thread and main loop run. How long a command takes is open.

## 4. Proofs

| Theorem | Statement | For every |
| --- | --- | --- |
| `TypeCorrect` | `Spec => []TypeOK` (rollback) | set of rollbacks, attempt limit, number of disruptions, both layouts |
| `FallbackNeverLost` | `Spec => []FallbackProtected` | the same |
| `EngineAlwaysResumes` | `Spec => []EngineNeverUnsafe` | the same |
| `TransitionsRespected` | `Spec => PhasesFollowTransitions` | the same |
| `RecordsAlwaysTrue` | `Spec => []RecordsTellTruth` | the same |
| `OutcomesAlwaysKept` | `Spec => OutcomesAreKept` (action property) | the same |
| `RollbackIsAtomic` | `Spec => ImplementsAtomicRollback` (refinement) | the same |
| `UnconfirmedAlwaysReverts` | `MatrixSpec => []UnconfirmedBootReverts` | the same |
| `OwnersExclude` | `Spec => []BoundaryHasOneOwner` (coordination) | number of helper threads, calls, hooks, snapshots, failures and kills |
| `LocksAreReturned` | `Spec => []NoLockIsLeft` | the same |
| `OutcomesAlwaysRecorded` | `Spec => []OutcomesAreRecorded` | the same |
| `ReferencedAlwaysStays` | `Spec => ReferencedStays` (action property) | the same |
| `QueueAlwaysSound` | `Spec => []QueueIsSound` (`JobQueue`) | finite set of targets, finite set of workers, number of attempts |
| `MatrixQueueSound`, `RecordedAlwaysSurvives`, `ExitOkIsProven` | `MatrixSpec => []QueueIsSound`, `[]RecordedSurvivesKill`, `[]ExitOkMeansProven` | catalogue, number of workers, edits, runs and kills |
| `ConfQueueSound`, `ExitOkIsPublished`, `ProductionAlwaysRehearsed`, `BadgeAlwaysHonest` | `ConfSpec => []QueueIsSound`, `[]ExitOkMeansPublished`, `ProductionWasRehearsed`, `[]BadgeIsHonest` | catalogue, bases asked for and pinned, destinations, number of workers, runs and kills |
| `ResizeAlwaysKeepsData` | `PlanningSpec => []ResizeKeepsData` (storage planning) | set of machines, NTFS volumes, unit and limits of the geometry, number of edits, returns, changes by others and failing tools |
| `PlanAlwaysReviewed`, `OneInstallationAlways`, `ResultAlwaysReported` | `Spec => []PlanIsReviewed`, `[]OneInstallation`, `[]ResultIsReported` (finish) | pipeline of steps, room in the pipe, number of installations, faults, edits and steps back |
| `NothingRunsUnwatched` | `Spec => NothingUnwatched` (action property) | the same |
| `AttemptsAlwaysTakenBack` | `Spec => []AttemptsAreTakenBack` (entry) | machine, form, set of options, number of operations, steps back, switches of the radio and troubles |
| `SessionAlwaysKept` | `Spec => SessionIsKept` (action property) | the same |
| `DevicesAlwaysOwned`, `PendingAlwaysOutstanding` | `VoiceSpec => []DevicesHaveOwners`, `[]PendingIsOutstanding` | length of the queue, number of sessions, phrases, previews and failures |
| `TranscriptsAlwaysAdvance` | `VoiceSpec => TranscriptsAdvance` (action property) | the same |

The assumptions are the named `ASSUME`s of the modules; TLC evaluates them in each
run. They say that model values differ from each other, that bounds are numbers,
that the sets of the catalogue are subsets of one another, and which outcomes a
build has.

### Rollback

`TypeOK` is not inductive: that the counters stay within their bound follows from
the guard of an earlier step. `TypeInv` adds `ControlInv`, which says what each
program counter implies about the record (an engine that has entered has counted
more entries than applies, so that the limit on entries bounds both; the helper
and the confirmation work only in userspace; a confirmation that finishes holds a
decided record; and so on).

`FallbackProtected` needs more. `IndInv` is the conjunction of

- `TypeInv`;
- `SyncedInv`: `disk` equals `view` in early boot, except between a command and
  its sync; only in userspace and at a stopped machine may they still differ, after
  an engine that failed in between;
- `SafetyInv`, made of `LayoutInv` (the top level, on disk and in memory, has one
  of the shapes untouched, staged, protected, activated, and the phase of the
  record allows it), `CleanupInv` (a cleanup record names the pending
  rollback only when that is confirmed, and a cleanup pass never holds its name) and `CopiesInv` (the copies of the record that the
  helper and the confirmation hold agree with the file).

`CopiesInv` is why the removal of the pending file by a confirmation never takes
away a rollback that has moved a root: a run that finishes a confirmed or reverted
transaction holds exactly the record in the file, and a run that finishes a failed
one may at worst remove a younger record that early boot has not begun, over an
untouched `@root`. There is one lemma per
program (`GrubSafety`, `EngineSafety`, `HelperSafety`, `ConfirmationSafety`,
`RestartSafety`), and within it one step per action. `EngineWrite` and
`EngineMove` are the two arguments the engine's steps share: a write of the record
over an unchanged layout, and a move of the layout under an unchanged record.

What the records say needs `TruthInv` beside it:

- `CheckpointInv`: a checkpoint in the record, or about to be written, is already
  true of `disk`; the sync between command and write is what makes it so;
- `HeadInv`: the lineage head is the fallback until the rollback is confirmed, the
  target once the confirmation has recorded it, and `@root` when nothing is pending;
- `OrphanInv`: what is left of a rollback that is not pending is an old root with a
  cleanup record;
- `HistoryInv`: the history agrees with the record, with the confirmation's copy of
  it and with the cleanup records, and a confirmation past `archive` finds its
  outcome there.

`RecordsAlwaysTrue` and `OutcomesAlwaysKept` follow from `IndInv /\ TruthInv`, and
so does the refinement: `RollbackIsAtomic` shows that `Init` maps to the initial
state of `AtomicRollback` and that every step maps to one of its steps or leaves
its variables alone. A boot of the target, a decision written by the engine, a
confirmation and the removal of an undecided record are the steps that show.

For `UnconfirmedAlwaysReverts` the history variable of the matrix matters. `CutInv`
says that a rollback whose power was cut while its target ran unconfirmed is
`Doomed`: reverting, reverted, failed, or unconfirmed with the id of a boot that is
over. Nothing saves a doomed record (`DoomedStep`), because the confirmation compares
the boot id and a restart makes every id old.

### Coordination

`BoundaryHasOneOwner` rests on the start lock: what either side has found out about
the other under the lock stays true until it has created its own record, because
only the holder of the lock creates one. `IInv` says who is where with the lock
(`LockInv`), that a record and every copy about to be written have an id
(`NameInv`), and what each side knows (`OwnerInv`: a hook after `create` has a
pending package transaction, a call about to `claim` has seen none, a hook about to
create has seen no rollback unless there was an overrun). `MoveInv` is the argument
for every step of a call that leaves both records alone, `RecordStepInv` for those
that write one, `HookStepInv` for the hook. `LocksAreReturned` follows step by step
from the same invariant: a lock is taken by a step that leads to a place where it
may be held, and every way out of such a place gives it back.

The other two theorems look at a step of a call through `Turns`: the call ends, turns
to the clean-up of a failed schedule, goes on with the same copy, names a new
rollback, arms it or begins. `StartTurns` and `StepTurns` show once that every step
is one of these six, `CallWrites` what each may write. On top of that

- `RecordedInv` for `OutcomesAlwaysRecorded`: a schedule never carries the rollback
  that early boot left (`OpInv`); whoever may remove or replace the record while that
  rollback is undecided carries it and has archived it before (`OldInv`); a begun
  package transaction is pending or archived (`PackageInv`). That the loser of two
  schedules removes the winner's record costs no outcome, because the rollback of early
  boot was in the history before either could start;
- `StaysInv` for `ReferencedAlwaysStays`: all copies of one rollback name the same
  snapshots (`AgreeInv`), and what a deletion found out under its locks holds to its
  end (`DeletingInv`).

### Job queue and its users

`QueueIsSound` says that the in-flight count is the number of items held, that each
item is queued once, held by one worker or finished, that no worker has left while
something may come back, and that an item is recorded as crashed only after its
last attempt. It becomes inductive with `OwnInv`: queued items have attempts left,
held ones belong to this run, and a worker about to record a crash holds an item
without attempts left. The two
lemmas on sequences (taking the head of a queue without duplicates, appending to
one) carry the rest. `BuildMatrix_proofs` and `BuildStatus_proofs` use the lemmas of
`JobQueue_proofs` for every step of a worker.

`MatrixInv` adds that only the holder of `_STATE_LOCK` publishes and that between
two publications report and file agree, but for what a raised write left `unsaved`
(`LockInv`), that a worker that publishes holds an item whose result is known
(`PublishersInv`), and that an item is pending in the report or has its result there,
and has it once its worker has moved on or died (`ReportInv`). `ExitOkIsProven` follows
at the end of the run: a worker that sees the queue drained leaves only when nothing is
queued or held, so one such worker is enough for every item to be finished and in the
report; if there is none, every worker died, and the run is `stranded`. Main looks for
failures only, which is why the pending items of a stranded run do not show in the exit
code.

`ConfInv` joins the queue's invariant with `WorkersInv` (what a worker has to publish
is the result of its item, on the base of that item), `PlanInv` (`run_parallel` got the
whole plan and returns when its threads have ended, so that a missing result means a
stranded run), `MainInv` (no worker before
`run_parallel`, no test before the first worker, the status lock free outside the
loops that take it, and after the last upload every destination that took the file
holds it) and the parts of the properties themselves. Once a run has resolved
what it found, a badge that says testing belongs to a build of this run that goes on, to
one whose record raised, or to one that was recorded under the base of its own manifest
(`Unresolved` names these three).

### Storage planning

`ResizeKeepsData` relates a partition table to the filesystems in it, and the window,
the probes, other programs and the executor all have a hand in one or the other.
`PlanningInv` says

- of the disks (`DisksOK`, `Whole`): every disk has its own path, every partition
  its own number and every NTFS volume its own PARTUUID, and the target's volumes fit
  into their partitions;
- of the window (`ChoicesOK`, `Editor`): in the draft, the preview, the plan in the
  dialog and the editor, no new partition is to be NTFS and sizes are numbers. A
  partition that is made therefore never becomes NTFS, and only the two commands of
  a resize change the size of a volume or of the partition around it;
- of the executor (`ExecOK`): a confirmed plan is one the window can make (`PlanOK`),
  and the commands still to run (`TodoOK`) are of the target disk as it is, each
  `resizepart` directly after the `ntfsresize` of the same partition and size, or in
  front with the volume already that small.

`CompileGood` shows the last part of everything `Compile` may return, in all three
modes; it rests on lemmas on the sequences of partitions, commands and formats. There
is one lemma per part of the system for the steps (`WizardOK`, `EditorOK`,
`ProbesOK`, `OthersOK`, `ExecutorOK`). Stopping after `ntfsresize` leaves a volume
smaller than its partition, which is why the order of the two matters and the place of
the failure does not. The assumptions are `MachineAssumption` (the disks as the kernel
shows them; the editor does not offer NTFS for the root), `GeometryAssumption`,
`SizesAssumption` and `MarginAssumption` (the sizes are numbers).

### Finish

`FinishInv` is `PagesInv /\ RunsInv`. `PagesInv` says what a page that was left
has saved, that the summary in front agrees with the choices as they are
(`SummaryShows`), and that a plan in the stages of confirmation agrees with the
summary (`PlanIsMade`). Both are stated by `Agree`, which leaves the online choices
out only if the network changed after the summary was built. `RunsInv` says where each executor is in the pipeline and which
lights it has reported (`RunOK`), that at most one reader is at work, or one has died
and the page waits for it, and that the
callback which ends an installation is the last one (`OneFlow`), and how the lights
in the window follow: for each step, the last word about it among the callbacks and
then the pipe, or what is shown if there is none, is the light the executor reported
(`Watched`, with the lemmas on sequences `AppendOther` and `AppendThis`). A warning is the last word about its step, which is why the page counts each
once.

### Entry

`EntryInv` is `WifiInv /\ PagesInv`. Workers and NetworkManager only know each other
through calls and answers, so `WifiInv` relates each worker to the calls on their way
and to NetworkManager as it is: a worker has at most one call, and none once it has
been told of its activation (`WorkerMeetsCall`); the activation of a new profile is of
that very profile, a profile about to be kept was activated, or a person has rewritten
it since, and an abandoned activation is down (`WorkerMeetsNm`); whatever is on disk
or activated is excused in the same way (`NmOK`). An answer that comes after a
worker has given up meets a worker that has not been told, which is why taking the
activation down at the end of the attempt is enough. `PagesInv` says that past the
power page the reading is not low or the risk was confirmed, and that what is chosen
is what is preferred, or nothing while offline. The assumptions are `MachineBounds`
(the bounds are numbers) and `SavedByOthers` (the profiles that are there at the start
are complete and not of the installer's making).

### Voice

A session is prepared by a token that changes its shape: a prepare job in the queue,
the job of the recognition thread, the callback `_prepared`. `DevicesInv` says that
the session that is on has at most one, and none once it has a capture (`TokenInv`);
which attributes go together at each place of the main loop (`CaptureInv`,
`MicrophoneInv`); that a microphone test has a session number for which no detector
was ever opened, so that it hears no phrase (`TestInv`); and that a running detector
has an owner (`DetectorInv`). It is not inductive alone: `_recognition_failed` and
`_overloaded` clear `active` without cancelling anything, which is right only if the
session has no token left. `SpentInv` says so: a session that has a phrase, or of which a failure or a full
queue was reported, has no token. `DevicesKept` and `SpentSessionsKept` show that
every step keeps both, with one lemma per handler; `EndingKeeps` is the argument all
ways of ending a session share, `QuietStep` that of every step that moves no
token and no device.

`PhraseInv` carries `TranscriptsAlwaysAdvance`. The phrases of the session stand in
one line: up to `told` the main loop knows their text, up to `heard` they are
recognized, up to `taken` the recognition thread has them, and the rest is in the
queue, rising in each place (`OrderInv`). `PreviewInv` says that a preview of this
session whose number is above the floor is of a phrase that is neither accepted nor
from before the last end. `CountInv` carries `PendingAlwaysOutstanding`: `pending`
is the number of queued phrases, results under way and the phrase in recognition,
and of a phrase that is counted and not yet queued,
except while a session is being prepared, after a refused start, for a number
that nobody has used (`Dead`), and once two updates have met (`raced`). `ReadInv` is what
makes the two steps of a result one: as long as nothing raced, what the handler
loaded is still the count. `CancelInv` says that only the end of a session or a
refused start cancels a phrase, so that none is uncounted behind the main loop's back.
`VoiceInv` is the conjunction of these. The lemmas on `Count` say how many elements of a
sequence belong to a set after one is appended or taken.

### Only model-checked

Liveness, because fairness is beyond the prover: `EverythingResolves`,
`MatrixTerminates`, `SessionsEnd`, `NetworkPageRecovers`, `ResultArrives`. The safety
properties of the executor's steps (`SuccessIsComplete`, `KeysAndSecrets`,
`FaultlessAttemptSucceeds`) and the other properties of storage planning
(`LayoutIsChosen`, `UndisturbedInstalls`, `OnlyConfirmedChanges`) are not proved
either: they are about what long compositions of functions compute from finite
records; the proof would repeat the evaluation that TLC does over the same finite
cases.

## 5. What the models showed

Two runs end in a violation on purpose: each states what a document or a page of the
program says, and shows how the code departs from it.

- `matrix_cleanup_durable`: a power loss while a cleanup record is written leaves
  its temporary file in `cleanup-pending`; `list()` refuses the directory from then
  on, and no old root is deleted any more. `EverythingResolves` therefore assumes
  that there is no such file.
- `installer_advanced_erase`: when the editor's probe finds another topology, the
  strategy is reset while the page below still shows Advanced. Back and Next then
  lead to an editor whose layout is planned as an erasure of the disk. Summary and
  confirmation do show the erasure.

Other departures are the named exceptions of properties that hold; each of them
occurs in the run of its property.

- `EverythingResolves` (`RepairOnlyWithoutRoot`): between the two renames of apply, and
  of revert, there is no `@root`. On the installer's layout (`BTRFS-DESIGN.md:152` keeps
  `/boot` within `@root`) GRUB then finds no `grub.cfg` (`E/recovery.rs:474`), while
  `VM-QUALIFICATION.md:152` expects a boot "without manual repair".
- `FaultlessAttemptSucceeds` (`SwapInTheWay`): a failed attempt that kept the partitions
  leaves a swap area, the Live session switches it on, and the preflight of an attempt
  with another layout refuses it. The comment at `I/installer_core/preflight.py:263` only
  thinks of the planned swap and that of an earlier erasure.
- `KeysAndSecrets` (`WifiSecretRemoved`): the removal of the migrated Wi-Fi profile may
  fail; the error is logged and the secret stays.
- `UndisturbedInstalls` (`PlannableRoots`): the editor offers XFS and F2FS for the root,
  `DESIGN.md:413` lists both, and `I/installer_core/validation.py:116` refuses them at the
  summary. (`ErasesWhatIsInUse`): only the executor notices that a disk to be erased is
  mounted or swapped to. (`SeveralSwaps`): two active swaps that a manual layout removes
  pass the preflight, one is switched off (`I/installer_core/storage_steps.py:601`), and
  the partition command meets the other.
- `AttemptsAreTakenBack` (`KeptProfilesWorked`, `AbandonedIsDown`): a new password for a
  saved network is written to disk before it was tried (`wifi.py:859`), and stays when it
  is wrong; a volatile profile that `saved_wifi_profiles` lists is stored in the same way.
  After a cancel that comes before the answer, NetworkManager may still connect.
- `PlanIsReviewed` (`Agree`): the network changes after the summary was built; the
  handlers of earlier pages (`I/pages.py:2335`, `2510`) rewrite the online choices, and
  the recheck plans from them, while `DESIGN.md:235` has an "Immutable plan summary".
- `ResultArrives` (`CutInCharacter`): a kill inside a character of several bytes makes
  the strict decoding of `I/frontend.py:481` raise; no result is shown and the window
  refuses to close.
- `ExitOkMeansProven`, `ExitOkMeansPublished` (`stranded`): `on_result` is called outside
  the worker's `try` (`tools/job_queue.py:114`); when every worker dies there, what is left
  was never built and the run exits 0. `tools/catalog_conformance.py:185` says that a run
  which verified less than it was asked to does "not quietly exit 0".
- `BadgeIsHonest` (`RecordedElsewhere`): an entry that pins another base than the default
  is marked under the default base (`tools/catalog_conformance.py:1093-1103`) and recorded
  under its own (`1147-1148`), so that the first mark stays when the run has ended;
  `tools/build_status.py:14` has it "resolved to a real outcome when it finishes".
- `PendingIsOutstanding` (`raced`): a phrase that is counted while a result is between
  load and store of `pending` (`daemon.py:328` against `549` and `575`) is lost from the
  count for the rest of the session.

Other places where code and documents differ, which the models contain and no property
states:

- A power loss at `writable-target-created` is retried, not reverted; the restored
  root's own menu knows no recovery entry, so the next boot is an ordinary one and
  reverts. Both are safe and neither is what the matrix or the README says.
- Two schedule calls at once: the loser's `cleanup_failed_schedule` removes the
  winner's armed rollback. `update` may bring back a cancelled record.
- A warning about one DKMS module skips the verification of all
  (`secure_boot.py:212`), so that a module signed by another key may stay.
- After a second installation from one account page the password entries are not
  erased (`I/frontend.py:249`).
- A crash record without an engine makes every later `on_result` raise
  (`tools/build_matrix.py:503`), although `BUILD_MATRIX.md:274` says that a crash
  "does not wedge the run"; the run still ends (`MatrixTerminates`).
- An interrupted staging of the confirmation engine ends a requested boot before
  an attempt is counted; as long as the failure lasts and the selector is armed,
  every boot ends there.
- Voice: `stop` forgets the count before it waits for the streaming thread, and
  `start` with a missing model clears the queue but keeps the count; `SessionsEnd`
  excepts the latter.

## 6. Not modelled

- Rollback: the migration of version 1 and 2 records, JSON, file permissions,
  symbolic links, digests of recovery kernel and initramfs; the tree of moments and
  its pruning; limits of automatic cleanup.
- Personal snapshots, which repeat the life cycle of system snapshots; retention,
  a pure choice whose effect is a deletion; scheduler, notifier and graphical
  clients.
- Installer: translations, styles, keyboard tables, the development client, the
  JSON form of plans, the guided page that no strategy reaches, the wording of
  configuration files, and the executor's stderr: the reader reads it after the events,
  commands have pipes of their own, and only messages of sudo and systemd-inhibit and a
  traceback get there.
- Build: rendering of manifests, packaging, the check mode of the conformance tool
  and the wire protocols of the uploaders.
- Voice: the pipe protocol with the native process and the choice of a backend are
  one nondeterministic outcome each.
- Desktop utilities, the dracut migration, themes, extensions and catalogues:
  user interfaces over other programs' state, or data.

## 7. What is next

1. Proofs: `OnlyConfirmedChanges` of storage planning.
2. Models: personal snapshots with their own lock, the retention policy against a
   declarative definition of its time buckets, the tree of moments.
