------------------------ MODULE InstallerExecution ------------------------
(***************************************************************************)
(* The privileged installer executor: StepRunner drives the pipeline of    *)
(* one plan, first every preflight, then execute and verify of each step,  *)
(* with the cleanups of what had been done when a fatal step fails.  The   *)
(* process may be killed at any point, and the person may try again, with  *)
(* the same or another plan, on the machine the last attempt left.         *)
(***************************************************************************)
EXTENDS InstallBoot

CONSTANTS
  Plans,        \* the installation plans that may be confirmed
  MaxAttempts,  \* bound on the attempts
  MaxFaults     \* bound on failing commands, kills and interference

ASSUME InstallerAssumption == MaxAttempts \in Nat \ {0} /\ MaxFaults \in Nat

VARIABLES
  plan,    \* the confirmed plan
  w,       \* the world (see InstallSteps)
  run,     \* the runner: phase, next step, what it executed, what it warned about
  faults   \* how many faults have happened

vars == <<plan, w, run, faults>>

(***************************************************************************)
(* The pipeline                                                            *)
(***************************************************************************)

When(c, steps) == IF c THEN steps ELSE <<>>

\* InstallerExecutor.build_steps
Pipeline(p) ==
  <<"detect-boot", "detect-network", "verify-target", "prepare-storage", "mount-target", "copy-system",
    "migrate-wifi", "configure-storage", "enter-chroot", "remove-live", "keyboard", "select-mirror",
    "prepare-secure-boot", "language-packs", "input-method">>
  \o When(p.codecs, <<"codecs">>) \o <<"configure-system">>
  \o When(p.updates, <<"refresh-indexes", "upgrade">>)
  \o When(p.fs = "btrfs", <<"snapshots-manager">>)
  \o When(p.drivers, <<"drivers">>)
  \o <<"remote-access", "verify-dkms", "bootloader", "enroll-secure-boot">>
  \o When(p.fw = "uefi", <<"other-disks">>)
  \o <<"leave-chroot", "unmount-target">>

\* The steps whose failure_policy is WARNING; all others are FATAL.
WarningSteps == {"detect-network", "migrate-wifi", "select-mirror", "language-packs",
                 "refresh-indexes", "other-disks"}

\* A guided plan is bound to the free extent it was made for.
ExtentGone(p, v) == p.mode = "guided" /\ v.table # "original"

\* Mutant: other mount namespaces are not looked at.
OwnNamespaceOnly(p, v) ==
  IF v.swaps \subseteq OwnSwaps(p) /\ ~ExtentGone(p, v) THEN Chain(v, <<Cmd(<<>>)>>) ELSE Refused(v)

\* resolve_storage_graph, then _reject_active_target_disk: nothing of the disk
\* may be mounted, here or in another mount namespace, and no swap of it may be
\* active but those the plan itself switches off.
VerifyTargetPreflight(p, v) ==
  IF ExtentGone(p, v) \/ v.held \/ ~(v.swaps \subseteq OwnSwaps(p)) THEN Refused(v)
  ELSE Chain(v, <<Cmd(<<>>)>>)

\* preflight of a step; most only look for their commands and validate the plan.
Preflight(s, p, v) ==
  CASE s = "verify-target" -> VerifyTargetPreflight(p, v)
    [] s = "prepare-storage" -> PreparePreflight(p, v)
    [] s = "migrate-wifi" -> WifiPreflight(p, v)
    [] OTHER -> Chain(v, <<Cmd(<<>>)>>)

\* execute, then verify.
Execute(s, p, v) ==
  CASE s = "detect-boot" -> Ok(v)
    [] s = "detect-network" -> DetectNetwork(p, v)
    [] s = "verify-target" -> Ok(v)
    [] s = "prepare-storage" -> PrepareStorage(p, v)
    [] s = "mount-target" -> MountTarget(p, v)
    [] s = "copy-system" -> CopySystem(p, v)
    [] s = "migrate-wifi" -> MigrateWifi(p, v)
    [] s = "configure-storage" -> ConfigureStorage(p, v)
    [] s = "enter-chroot" -> EnterChroot(p, v)
    [] s = "remove-live" -> RemoveLivePackages(p, v)
    [] s = "keyboard" -> ConfigureKeyboard(p, v)
    [] s = "select-mirror" -> SelectMirror(p, v)
    [] s = "prepare-secure-boot" -> PrepareSecureBoot(p, v)
    [] s = "language-packs" -> InstallLanguagePacks(p, v)
    [] s = "input-method" -> InstallInputMethod(p, v)
    [] s = "codecs" -> InstallMultimediaCodecs(p, v)
    [] s = "configure-system" -> ConfigureSystem(p, v)
    [] s = "refresh-indexes" -> RefreshPackageIndexes(p, v)
    [] s = "upgrade" -> UpgradeSystem(p, v)
    [] s = "snapshots-manager" -> EnsureSnapshotsManager(p, v)
    [] s = "drivers" -> InstallThirdPartyDrivers(p, v)
    [] s = "remote-access" -> ProvisionRemoteAccess(p, v)
    [] s = "verify-dkms" -> VerifyDkmsSignatures(p, v)
    [] s = "bootloader" -> InstallBootloader(p, v)
    [] s = "enroll-secure-boot" -> EnrollSecureBoot(p, v)
    [] s = "other-disks" -> CheckOtherDisks(p, v)
    [] s = "leave-chroot" -> LeaveChroot(p, v)
    [] s = "unmount-target" -> UnmountTarget(p, v)

\* cleanup of a step; what it cannot do is only logged.
Cleanup(s, p, v) ==
  CASE s = "prepare-storage" -> PrepareCleanup(p, v)
    [] s = "mount-target" -> MountCleanup(p, v)
    [] s = "migrate-wifi" -> WifiCleanup(p, v)
    [] s \in {"enter-chroot", "leave-chroot"} -> ChrootCleanup(p, v)
    [] OTHER -> {v}

\* Mutant: in the order of execution.
CleanupForward(steps, p, v) ==
  FoldLeft(LAMBDA vs, s : UNION {Cleanup(s, p, u) : u \in vs}, {v}, steps)

\* StepRunner._cleanup: in reverse order.
CleanupAll(steps, p, v) ==
  FoldLeft(LAMBDA vs, s : UNION {Cleanup(s, p, u) : u \in vs}, {v}, Reverse(steps))

(***************************************************************************)
(* StepRunner.run                                                          *)
(***************************************************************************)

Step == Pipeline(plan)[run.step]
LastStep == Len(Pipeline(plan))

\* The machine before the first attempt: two other systems' boot entries, one
\* disk with a partition of another system and a shared ESP.
OtherEntry == 9
Machine ==
  [mnt |-> {}, swaps |-> {}, table |-> "original", parts |-> {"old"}, ntfs |-> "clean", wrote |-> FALSE,
   swapAreas |-> {}, esp |-> {"foreign"}, espId |-> 0, attempt |-> 1, entries |-> <<OtherEntry, OtherEntry>>,
   order |-> <<2, 1>>, mok |-> {}, liveWifi |-> 1, txKeys |-> {}, held |-> FALSE, sys |-> BlankTarget]

\* executor_cli.main and InstallerExecutor.run: a private mount namespace, a
\* validated plan and an empty context.
StartOf(c) == [phase |-> "preflight", step |-> 1, executed |-> <<>>, warned |-> {},
               clean |-> c, ok |-> FALSE]

Init ==
  /\ \E held \in BOOLEAN : w = [FreshContext @@ Machine EXCEPT !.held = held]
  /\ plan \in {Planned(p, w) : p \in Plans}
  /\ run = StartOf(~w.held)
  /\ faults = 0

Counts(o) ==
  /\ o.fault => faults < MaxFaults
  /\ faults' = IF o.fault THEN faults + 1 ELSE faults

\* The first loop: any error ends the run before anything is executed.
RunPreflight ==
  /\ run.phase = "preflight"
  /\ \E o \in Preflight(Step, plan, w) :
       /\ Counts(o)
       /\ w' = o.w
       /\ run' = LET r == [run EXCEPT !.clean = @ /\ ~o.fault]
                 IN IF o.how = "error" THEN [r EXCEPT !.phase = "reported"]
                    ELSE IF run.step = LastStep THEN [r EXCEPT !.phase = "execute", !.step = 1]
                    ELSE [r EXCEPT !.step = @ + 1]
  /\ UNCHANGED plan

\* The runner goes on after a step, or reports success after the last.
Advance(r) == IF r.step = LastStep THEN [r EXCEPT !.phase = "reported", !.ok = TRUE]
              ELSE [r EXCEPT !.step = @ + 1]

\* The second loop.  A skipped step is not cleaned up; a warning cleans up its
\* own step; a fatal error also all that had been executed.
RunStep ==
  /\ run.phase = "execute"
  /\ \E o \in Execute(Step, plan, w) :
       LET r == [run EXCEPT !.clean = @ /\ ~o.fault]
           warns == o.how = "warning" \/ (o.how = "error" /\ Step \in WarningSteps)
       IN /\ Counts(o)
          /\ \/ /\ o.how = "ok"
                /\ w' = o.w
                /\ run' = Advance([r EXCEPT !.executed = Append(@, Step)])
             \/ /\ o.how = "skipped"
                /\ w' = o.w
                /\ run' = Advance(r)
             \/ /\ warns
                /\ w' \in CleanupAll(<<Step>>, plan, o.w)
                /\ run' = Advance([r EXCEPT !.warned = @ \cup {Step}])
             \/ /\ o.how = "error" /\ ~warns
                /\ w' \in CleanupAll(Append(run.executed, Step), plan, o.w)
                /\ run' = [r EXCEPT !.phase = "reported"]
  /\ UNCHANGED plan

(***************************************************************************)
(* The end of the process, and what the Live session does meanwhile        *)
(***************************************************************************)

Running == run.phase \in {"preflight", "execute"}

\* The mounts of the private namespace go with its last process: at once, or
\* when a child that outlived the executor ends.
Gone(v, stays) == [FreshContext @@ v EXCEPT !.mnt = {}, !.wrote = FALSE, !.txKeys = {},
                                            !.held = v.held \/ (stays /\ v.mnt # {})]

\* The executor dies (signal, out of memory) with the step part way through.
Kill ==
  /\ Running /\ faults < MaxFaults
  /\ \E o \in (IF run.phase = "execute" THEN Execute(Step, plan, w) ELSE Ok(w)), stays \in BOOLEAN :
       /\ ~o.fault \/ o.how = "error"
       /\ w' = Gone(o.w, stays)
  /\ run' = [run EXCEPT !.phase = "exited", !.clean = FALSE]
  /\ faults' = faults + 1
  /\ UNCHANGED plan

\* The executor returns its exit status to the installer window.
Exit ==
  /\ run.phase = "reported"
  /\ w' = Gone(w, FALSE)
  /\ run' = [run EXCEPT !.phase = "exited"]
  /\ UNCHANGED <<plan, faults>>

\* A partition of the disk is mounted in the Live session, between two attempts.
LiveMounts ==
  /\ run.phase = "exited" /\ ~w.held
  /\ w' = [w EXCEPT !.held = TRUE]
  /\ UNCHANGED <<plan, run, faults>>

\* A child of a killed executor ends, or the Live session unmounts the disk.
DiskReleased ==
  /\ w.held
  /\ w' = [w EXCEPT !.held = FALSE]
  /\ UNCHANGED <<plan, run, faults>>

\* The person tries again after a failure, with a plan made for this machine
\* and the disk as it is now.
Retry ==
  /\ run.phase = "exited" /\ ~run.ok
  /\ w.attempt < MaxAttempts
  /\ \E p \in Plans :
       /\ p.fw = plan.fw /\ p.sb = plan.sb /\ p.image = plan.image
       /\ p.mode = "guided" => w.table = "original"
       /\ p.reuse => "old" \in w.parts \/ w.table = "new"
       /\ p.shrink => w.ntfs \in {"clean", "dirty"} /\ "old" \in w.parts
       /\ plan' = Planned(p, w)
  /\ w' = [w EXCEPT !.attempt = @ + 1]
  /\ run' = StartOf(~w.held)
  /\ UNCHANGED faults

\* The Live session switches on a swap area it finds on the disk.
LiveActivatesSwap ==
  /\ \E n \in w.swapAreas \ w.swaps : w' = [w EXCEPT !.swaps = @ \cup {n}]
  /\ UNCHANGED <<plan, run, faults>>

\* Another program mounts the NTFS volume, or the connection is edited.
Interfere ==
  /\ Running /\ faults < MaxFaults
  /\ \/ w.ntfs = "clean" /\ w.mnt = {} /\ w' = [w EXCEPT !.ntfs = "dirty"]
     \/ w.liveWifi = 1 /\ w' = [w EXCEPT !.liveWifi = 2]
  /\ run' = [run EXCEPT !.clean = FALSE]
  /\ faults' = faults + 1
  /\ UNCHANGED plan

Done == run.phase = "exited" /\ UNCHANGED vars

Next == RunPreflight \/ RunStep \/ Kill \/ Exit \/ LiveMounts \/ DiskReleased \/ Retry \/ LiveActivatesSwap \/ Interfere \/ Done

Spec == Init /\ [][Next]_vars

(***************************************************************************)
(* Properties                                                              *)
(***************************************************************************)

Succeeded == run.phase = "reported" /\ run.ok

\* An installation that is reported as successful starts and belongs to its
\* owner: boot files and boot entry of this installation, an account with a
\* password, an identity and SSH host keys of its own, no Live packages, no
\* trace of the installer's changes to resolver, services and firewall, and
\* nothing of it still mounted.
SuccessIsComplete ==
  Succeeded =>
    /\ w.table = "new" /\ "ours" \in w.parts
    /\ w.sys.copied /\ "root" \in w.sys.fstab /\ w.sys.initrd \in {"plain", "recovery"} /\ w.sys.grubCfg
    /\ IF plan.fw = "uefi"
       THEN "vendor" \in w.esp /\ w.order # <<>> /\ w.entries[w.order[1]] = w.espId
       ELSE "fallback" \in w.esp
    /\ plan.sb => IsInstallerKey(w) /\ w.attempt \in w.mok
    /\ w.sys.account = "password" /\ w.sys.rootLocked /\ w.sys.machineId = "own"
    /\ w.sys.sudoers = SudoChoice(plan) /\ w.sys.sshKey = "own" /\ w.sys.sshOn = plan.ssh
    /\ ~w.sys.livePkgs /\ ~w.sys.policy /\ w.sys.resolver = "image"
    /\ w.sys.ufwOn = plan.image.ufw
    /\ (w.sys.pkgs = "broken") => "language-packs" \in run.warned
    /\ w.mnt = {}

\* Under Secure Boot no package is installed while the copied Live signing key
\* is the one in place (the comment in build_steps).
PackagesUnderOwnKey == plan.sb => "live" \notin w.txKeys

\* A failed installation that had formatted its target keeps no copied Wi-Fi
\* secret on the disk, unless the removal itself failed (which is only logged),
\* or the target had already been released and only its swap could not be.
WifiSecretRemoved ==
  run.phase = "reported" /\ ~run.ok /\ w.sys.wifi /\ "mount-target" \in Range(run.executed)
    => w.wifiStuck \/ (Step = "unmount-target" /\ w.mnt = {})

\* Two things of the Live session that must not end up on the installed disk:
\* its signing key is never the one in place while packages are installed under
\* Secure Boot, and a failed installation removes the Wi-Fi profile it copied,
\* except as WifiSecretRemoved says.  (Which key signed a module that was built
\* before is not part of it: a StepWarning of VerifyDkmsSignaturesStep.execute
\* skips the verification.)
KeysAndSecrets == PackagesUnderOwnKey /\ WifiSecretRemoved

\* The plans that the executor does not refuse on principle.
Feasible(p) ==
  /\ p.mode # "erase" => p.fw = "uefi"
  /\ p.fw = "uefi" \/ p.image.extraByDefault
  /\ p.sb => p.image.built = {}

\* The Live system has a swap area of the disk switched on that is not one the
\* plan switches off itself, or several at once.
SwapInTheWay == ~(w.swaps \subseteq OwnSwaps(plan)) \/ Cardinality(w.swaps) > 1

\* What an earlier attempt left (a partly written table, a boot entry, an
\* active swap area of the plan's own, a pending key) never makes a later one
\* fail by itself: an attempt at a feasible plan in which no command failed
\* succeeds, except while a swap of an earlier, different layout is in use. (The
\* comment at preflight.py:263 has the current swap and that of an earlier erase
\* in mind; a guided or manual attempt leaves its swap under another number.)
FaultlessAttemptSucceeds ==
  run.phase = "reported" /\ run.clean /\ Feasible(plan) /\ ~(plan.shrink /\ w.ntfs = "dirty")
    => run.ok \/ SwapInTheWay

\* The disk is never written to while anybody else still has it mounted, and no
\* NTFS volume that is not clean is ever shrunk.
NothingInUseIsWritten ==
  /\ w'.wrote /\ ~w.wrote => ~w.held
  /\ w'.ntfs # w.ntfs /\ w'.ntfs # "dirty" => w.ntfs \in {"clean", "fsShrunk"}

\* Boot entry n is another system's.
IsOther(v, n) == v.entries[n] = OtherEntry

\* Other systems survive: their boot entries keep their relative order, their
\* partitions are only lost to an erase, and a shared ESP only gains our files.
OthersSurvive ==
  /\ SelectSeq(w.order, LAMBDA n : IsOther(w, n)) = SelectSeq(w'.order, LAMBDA n : IsOther(w', n))
  /\ "old" \in w.parts \ w'.parts => plan.mode = "erase"
  /\ plan.reuse => w.esp \subseteq w'.esp /\ w'.esp \ w.esp \subseteq {"vendor"}

\* What is not ours stays as it was, in every step of every attempt: nothing in
\* use is written to and no other system is lost.
OthersUntouched == [][NothingInUseIsWritten /\ OthersSurvive]_vars
=============================================================================
