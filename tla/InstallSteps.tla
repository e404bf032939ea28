---------------------------- MODULE InstallSteps ----------------------------
(***************************************************************************)
(* What the storage, mount and chroot steps of the installer's privileged  *)
(* executor do to the machine.                                             *)
(*                                                                         *)
(* A world w is one record: the values the steps share through             *)
(* InstallContext.values (they die with the executor process), the live    *)
(* machine (mounts, swap, firmware variables, the selected disk) and the   *)
(* system being written to the disk.  A step is an operator that maps a    *)
(* world to the set of its outcomes: how it ended, whether an external     *)
(* command had to fail for that, and the world it left.                    *)
(***************************************************************************)
EXTENDS Naturals, Sequences, SequencesExt, TLC

Outcome(how, fault, w) == [how |-> how, fault |-> fault, w |-> w]
Ok(w) == {Outcome("ok", FALSE, w)}
\* A refusal the step decides on from what it sees, without a failing command.
Refused(w) == {Outcome("error", FALSE, w)}
Warned(w) == {Outcome("warning", FALSE, w)}
Skipped(w) == {Outcome("skipped", FALSE, w)}
FaultyWarning(w) == {Outcome("warning", TRUE, w)}

\* A checked command, the effect it has, and what the step notes about it in
\* its context once the command has returned; Do is plain Python.
Noted(set, note) == [fails |-> TRUE, set |-> set, note |-> note]
Cmd(set) == Noted(set, <<>>)
Do(set) == [fails |-> FALSE, set |-> set, note |-> <<>>]

After(w, cmds, k) == FoldLeft(LAMBDA a, c : c.note @@ c.set @@ a, w, SubSeq(cmds, 1, k))

\* CommandRunner.run raises when the command exits non-zero, times out or cannot
\* be started; by then it may or may not have had its effect.
Raised(w, cmds, k) ==
  {Outcome("error", TRUE, v) : v \in {After(w, cmds, k - 1), cmds[k].set @@ After(w, cmds, k - 1)}}

\* A straight line of commands: all of them, or up to a failing one.
Chain(w, cmds) ==
  Ok(After(w, cmds, Len(cmds)))
  \cup UNION {Raised(w, cmds, k) : k \in {j \in DOMAIN cmds : cmds[j].fails}}

\* The outcomes of F after the successful ones of os.
Then(os, F(_)) ==
  {o \in os : o.how # "ok"} \cup UNION {F(o.w) : o \in {x \in os : x.how = "ok"}}

\* except CommandError: raise StepWarning.
ErrorsWarn(os) == {IF o.how = "error" THEN [o EXCEPT !.how = "warning"] ELSE o : o \in os}

Check(w, holds) == IF holds THEN Ok(w) ELSE Refused(w)

(***************************************************************************)
(* The shared values of a fresh InstallContext, and an unwritten target.   *)
(***************************************************************************)
FreshContext ==
  [net |-> "offline", indexes |-> FALSE, mirrorKept |-> FALSE, frozen |-> FALSE, kept |-> {},
   target |-> FALSE, flags |-> {}, chroot |-> {}, ready |-> FALSE, backups |-> {},
   prepared |-> FALSE, espKept |-> {}, wifiSnap |-> 0, wifiWarn |-> FALSE, wifiMade |-> FALSE, wifiStuck |-> FALSE]

BlankTarget ==
  [copied |-> FALSE, fstab |-> {}, wifi |-> FALSE, resolver |-> "image", policy |-> FALSE,
   livePkgs |-> FALSE, pkgs |-> "ok", key |-> "none", marker |-> FALSE, dkms |-> {},
   keyboard |-> FALSE, input |-> FALSE, mirror |-> "image", account |-> "none", sudoers |-> "image",
   machineId |-> "live", rootLocked |-> FALSE, sshKey |-> "none", sshOn |-> FALSE, ufwOn |-> FALSE, initrd |-> "none",
   grubCfg |-> FALSE, windows |-> FALSE, snapshots |-> FALSE]

ChrootDirs == {"dev", "proc", "sys", "run"}

(***************************************************************************)
(* Swap partitions of the selected disk, by their partition number.  Of the *)
(* partitions above FirstFree only those of swap areas are told apart.     *)
(***************************************************************************)

ErasedSwap == 3   \* the number an erasing installation gives its swap
FirstFree == 5    \* what was on the disk before has the numbers below

\* The graph of a plan is made from the disk as it is: a layout that keeps the
\* partitions takes the first number not in use, and a manual one may delete
\* swap partitions it finds.
Planned(p, w) ==
  LET deletes == IF p.frees THEN w.swapAreas ELSE {}
      free(n) == n \notin w.swapAreas \ deletes /\ \A k \in FirstFree .. n - 1 : k \in w.swapAreas \ deletes
      slot == IF p.mode = "erase" THEN ErasedSwap ELSE CHOOSE n \in FirstFree .. FirstFree + 9 : free(n)
  IN [slot |-> slot, deletes |-> deletes] @@ p

\* The swap devices a plan may find active: its own, the ones it deletes and,
\* when it erases the disk, the one an erasing attempt creates.
OwnSwaps(p) == (IF p.swap THEN {p.slot} ELSE {}) \cup p.deletes
               \cup (IF p.mode = "erase" THEN {ErasedSwap} ELSE {})

\* Mutant: an active swap area of an earlier attempt stays on.
SwapLeftOn(p, w, strict) == Ok(w)

\* deactivate_target_swap: one of the plan's own swap devices that is active;
\* strict callers see a failing swapon or swapoff as an error.
DeactivateTargetSwap(p, w, strict) ==
  LET active == w.swaps \cap OwnSwaps(p)
      failed == {Outcome(IF strict THEN "error" ELSE "ok", TRUE, w)}
  IN failed \cup (IF active = {} THEN Ok(w) ELSE UNION {Ok([w EXCEPT !.swaps = @ \ {n}]) : n \in active})

(***************************************************************************)
(* PrepareStorageStep                                                      *)
(***************************************************************************)

\* inspect_esp_for_reuse: a FAT check and a read-only look at everything
\* outside EFI/SynOS, which has to be the same after the installation.
EspOutsideOurs(w) == w.esp \ {"vendor"}
InspectEsp(p, w) == IF p.reuse THEN Ok([w EXCEPT !.espKept = EspOutsideOurs(w)]) ELSE Ok(w)

\* inspect_nvram and _build_vendor_only_boot_commands: guided and manual
\* installations need UEFI, and every UEFI one readable boot variables.
FirmwareUsable(p) == p.mode = "erase" \/ p.fw = "uefi"

\* preflight: resolves the layout against the current inventory, inspects a
\* shared ESP, the firmware variables and every NTFS volume to shrink, and
\* freezes the commands execute will run.
PreparePreflight(p, w) ==
  (IF FirmwareUsable(p) /\ (p.shrink => w.ntfs = "clean")
   THEN Then(InspectEsp(p, w), LAMBDA v : Ok([v EXCEPT !.frozen = TRUE, !.kept = v.parts]))
   ELSE Refused(w))
  \cup {Outcome("error", TRUE, w)}

\* _execute_ntfs_resizes: the volume is inspected again; the filesystem
\* shrinks before its partition, and the new boundary is read back.
ResizeNtfs(p, w) ==
  IF ~p.shrink THEN Ok(w)
  ELSE IF w.ntfs # "clean" THEN Refused(w)
  ELSE Chain(w, <<Cmd([ntfs |-> "fsShrunk", wrote |-> TRUE]), Cmd([ntfs |-> "shrunk"]), Cmd(<<>>)>>)

\* The swap areas the partition commands remove.
Replaced(p, w) == IF p.mode = "erase" THEN w.swapAreas ELSE p.deletes

\* The partition commands.  Neither a new table nor the removal of a partition
\* is accepted while a swap area it replaces is in use.  Erase and guided
\* installations settle the disk and try a first command that exits with an
\* error once more.
FirstCommand(p, w) ==
  IF w.swaps \cap Replaced(p, w) # {} THEN Refused(w)
  ELSE Chain(w, <<Cmd([table |-> "partial", wrote |-> TRUE, swapAreas |-> w.swapAreas \ Replaced(p, w),
                       parts |-> IF p.mode = "erase" THEN {} ELSE w.parts])>>)

WriteTable(p, w) ==
  LET first == FirstCommand(p, w)
      failed == {o \in first : o.how = "error"}
      again(v) == Then(DeactivateTargetSwap(p, v, TRUE), LAMBDA u : FirstCommand(p, u))
      begun == IF p.mode = "manual" THEN first
               ELSE first \cup UNION {{[x EXCEPT !.fault = @ \/ o.fault] : x \in again(o.w)} : o \in failed}
  IN Then(begun, LAMBDA v : Chain(v, <<Cmd([table |-> "new", parts |-> v.parts \cup {"ours"}]), Cmd(<<>>)>>))

\* The mkfs commands: a new ESP unless one is reused, the root filesystem
\* (which empties the target) and the swap area.
FormatPartitions(p, w) ==
  Chain(w, <<Cmd(<<>>),
             Cmd(IF p.reuse THEN <<>> ELSE [esp |-> {}, espId |-> w.attempt]),
             Cmd([sys |-> BlankTarget]),
             Cmd([swapAreas |-> w.swapAreas \cup (IF p.swap THEN {p.slot} ELSE {})])>>)

\* verify: blkid names the expected filesystems, and in guided and manual mode
\* the partitions that had to survive are there.
StorageVerified(p, w) ==
  /\ w.table = "new" /\ "ours" \in w.parts /\ (p.swap => p.slot \in w.swapAreas)
  /\ p.mode # "erase" => w.kept \subseteq w.parts

\* execute, then verify.
PrepareStorage(p, w) ==
  IF ~w.frozen THEN Refused(w)
  ELSE Then(Then(Then(Then(DeactivateTargetSwap(p, w, TRUE),
                           LAMBDA v : ResizeNtfs(p, v)),
                      LAMBDA v : WriteTable(p, v)),
                 LAMBDA v : FormatPartitions(p, v)),
            LAMBDA v : Then(Chain(v, <<Cmd(<<>>)>>), LAMBDA u : Check(u, StorageVerified(p, u))))

PrepareCleanup(p, w) == {o.w : o \in DeactivateTargetSwap(p, w, FALSE)}

(***************************************************************************)
(* MountTargetStep and UnmountTargetStep                                   *)
(***************************************************************************)

\* A mount point can only be released when nothing is mounted below it.
Below(m) == CASE m = "root" -> {"efi"} \cup ChrootDirs
              [] m = "@" -> {"@home", "efi"} \cup ChrootDirs
              [] OTHER -> {}
Released(w, m) == IF Below(m) \cap w.mnt = {} THEN w.mnt \ {m} ELSE w.mnt

Mounted(w, m) == Noted([mnt |-> w.mnt \cup m], [flags |-> w.flags \cup m])

RootMounts(p) == IF p.fs = "btrfs" THEN {"@", "@home"} ELSE {"root"}

\* Btrfs creates its subvolumes under a temporary top-level mount, then mounts
\* each.
MountRoot(p, w) ==
  IF p.fs # "btrfs" THEN Chain(w, <<Mounted(w, {"root"})>>)
  ELSE Chain(w, <<Mounted(w, {"top"}), Cmd(<<>>), Noted([mnt |-> w.mnt], [flags |-> w.flags]),
                  Mounted(w, {"@"}), Mounted(w, {"@", "@home"})>>)

\* verify: findmnt shows every mount point on its device.
MountsVerified(p, w) == RootMounts(p) \cup {"efi"} \subseteq w.mnt

\* execute, then verify; "target" is only published once everything is mounted.
MountTarget(p, w) ==
  Then(Then(MountRoot(p, w), LAMBDA v : Chain(v, <<Mounted(v, {"efi"}), Do([target |-> TRUE])>>)),
       LAMBDA v : Then(Chain(v, <<Cmd(<<>>)>>), LAMBDA u : Check(u, MountsVerified(p, u))))

\* Every umount of the cleanup is unchecked, and every flag is cleared.
\* The order is the ESP, the subvolumes from the last, the root, the top level.
UnmountOrder == <<"efi", "@home", "@", "root", "top">>
AfterUmounts(w) ==
  FoldLeft(LAMBDA v, m : IF m \in v.flags THEN [v EXCEPT !.mnt = Released(v, m), !.flags = @ \ {m}]
                         ELSE v, w, UnmountOrder)
MountCleanup(p, w) == {AfterUmounts(w)}

\* UnmountTargetStep.execute: the same umounts, checked; the subvolume list is
\* cleared when all are gone; then the target swap is switched off.
UnmountTarget(p, w) ==
  IF ~w.target THEN Refused(w)
  ELSE LET gone(ms) == Noted([mnt |-> w.mnt \ ms], [flags |-> w.flags \ ms])
           subvolumes == w.flags \cap {"@", "@home"}
           cmds == <<Cmd(<<>>), gone({"efi"})>>
                   \o (IF subvolumes = {} THEN <<gone({"efi", "root"})>>
                       ELSE <<Cmd([mnt |-> w.mnt \ {"efi", "@home"}]), gone({"efi", "@", "@home"})>>)
       IN Then(Then(IF w.mnt \cap ChrootDirs # {} THEN Refused(w) ELSE Chain(w, cmds),
                    LAMBDA v : DeactivateTargetSwap(p, v, TRUE)),
               LAMBDA v : Check(v, v.flags = {}))

(***************************************************************************)
(* CopySystemStep, ConfigureStorageStep                                    *)
(***************************************************************************)

\* unsquashfs, then the presence of os-release, usr and var.  A failed
\* extraction may leave a part of the tree.  The copied image brings its Live packages, its signing key and the modules built with
\* it, its SSH host keys and an enabled or disabled firewall.
CopySystem(p, w) ==
  IF ~w.target THEN Refused(w)
  ELSE Chain(w, <<Cmd([sys |-> [w.sys EXCEPT
                    !.copied = TRUE, !.livePkgs = TRUE, !.key = "live", !.sshKey = "live", !.sshOn = TRUE,
                    !.initrd = "live", !.ufwOn = p.image.ufw, !.snapshots = p.image.snapshots,
                    !.dkms = {[module |-> m, signer |-> "live"] : m \in p.image.built}]]),
                  Cmd(<<>>)>>)

\* The UUIDs of the new filesystems, fstab with a line for disk swap when the
\* plan has one, and the zram defaults; verify reads both files back.
FstabFor(p) == {"root", "efi"} \cup (IF p.swap THEN {"swap"} ELSE {})
ConfigureStorage(p, w) ==
  IF ~w.target THEN Refused(w)
  ELSE Then(Chain(w, <<Cmd(<<>>), Cmd([sys |-> [w.sys EXCEPT !.fstab = FstabFor(p)]]), Cmd(<<>>)>>),
            LAMBDA v : Check(v, ("swap" \in v.sys.fstab) <=> p.swap))

(***************************************************************************)
(* EnterChrootStep and LeaveChrootStep                                     *)
(***************************************************************************)

\* The four mounts, each recorded once it is there.
MountChroot(w) ==
  LET up(ms) == Noted([mnt |-> w.mnt \cup ms], [chroot |-> ms])
  IN Chain(w, <<up({"dev"}), Cmd(<<>>), up({"dev", "proc"}), up({"dev", "proc", "sys"}), Cmd(<<>>),
                up(ChrootDirs)>>)

\* The two files are backed up before either is replaced; the environment is
\* then declared ready.
ReplaceFiles(w) ==
  LET resolved == [w.sys EXCEPT !.resolver = "live"]
  IN Chain(w, <<Noted(<<>>, [backups |-> {"resolver", "policy"}]),
                Cmd([sys |-> resolved]), Cmd([sys |-> [resolved EXCEPT !.policy = TRUE]]),
                Do([ready |-> TRUE])>>)

\* verify: the policy file is in place and every recorded mount is there.
ChrootVerified(w) == w.sys.policy /\ w.chroot \subseteq w.mnt

EnterChroot(p, w) ==
  IF ~w.target THEN Refused(w)
  ELSE Then(Then(MountChroot(w), ReplaceFiles),
            LAMBDA v : Then(Chain(v, <<Cmd(<<>>)>>), LAMBDA u : Check(u, ChrootVerified(u))))

\* Mutant: only the resolver configuration is put back.
RestoreResolverOnly(w) ==
  Ok([w EXCEPT !.backups = {}, !.sys.resolver = IF "resolver" \in w.backups THEN "image" ELSE @])

\* _restore_file of both backups, which were taken out of the context first:
\* an error at the first leaves the second file as the step had written it.
RestoreFiles(w) ==
  LET v == [w EXCEPT !.backups = {}]
      resolver == IF "resolver" \in w.backups THEN [v.sys EXCEPT !.resolver = "image"] ELSE v.sys
      policy == IF "policy" \in w.backups THEN [resolver EXCEPT !.policy = FALSE] ELSE resolver
  IN IF w.backups = {} THEN Ok(v)
     ELSE Chain(v, <<Cmd([sys |-> resolver]), Cmd([sys |-> policy])>>)

\* Every umount is unchecked; what could not be released stays on record.
ReleaseChroot(w, check) ==
  {Outcome(IF check /\ stuck # {} THEN "error" ELSE "ok", stuck # {},
           [w EXCEPT !.mnt = @ \ (w.chroot \ stuck), !.chroot = stuck, !.ready = stuck # {}])
     : stuck \in {{}} \cup {{m} : m \in w.chroot}}

LeaveChrootWith(w, check) ==
  IF ~w.target THEN Ok(w) ELSE Then(RestoreFiles(w), LAMBDA v : ReleaseChroot(v, check))

LeaveChroot(p, w) ==
  Then(LeaveChrootWith(w, TRUE), LAMBDA v : Check(v, v.chroot = {} /\ ~v.ready))
ChrootCleanup(p, w) == {o.w : o \in LeaveChrootWith(w, FALSE)}

(***************************************************************************)
(* MigrateWifiConnectionStep                                               *)
(***************************************************************************)

\* preflight: remembers the identity (device, inode, size, time) of the active
\* connection's Netplan file; what cannot be inspected only becomes a warning.
WifiPreflight(p, w) ==
  {Outcome("ok", FALSE, [w EXCEPT !.wifiSnap = w.liveWifi]),
   Outcome("ok", TRUE, [w EXCEPT !.wifiWarn = TRUE])}

\* _read_frozen_netplan refuses a file that is no longer the one remembered.
ReadFrozen(w) == Check(w, w.liveWifi = w.wifiSnap)

\* _atomic_create_netplan: written under a temporary name, published by a hard
\* link; the profile is on record from then on.
CreateProfile(w) ==
  Ok([w EXCEPT !.sys.wifi = TRUE, !.wifiMade = TRUE]) \cup {Outcome("error", TRUE, w)}

\* verify: Netplan accepts the profile.
WifiVerified(w) == Chain(w, <<Cmd(<<>>)>>)

MigrateWifi(p, w) ==
  IF w.wifiSnap = 0 THEN IF w.wifiWarn THEN Warned(w) ELSE Ok(w)
  ELSE IF ~w.target THEN Refused(w)
  ELSE Then(Then(Then(Chain(w, <<Cmd(<<>>)>>), ReadFrozen), CreateProfile), WifiVerified)

\* cleanup: removes only the profiles this run created, where they can be
\* seen.  One that cannot be unlinked stays, and only the log says so.
WifiCleanup(p, w) ==
  LET cleared == [w EXCEPT !.wifiMade = FALSE]
  IN IF w.wifiMade /\ w.sys.wifi /\ w.mnt \cap {"root", "@"} # {}
     THEN {[cleared EXCEPT !.sys.wifi = FALSE], [cleared EXCEPT !.wifiStuck = TRUE]}
     ELSE {cleared}
=============================================================================
