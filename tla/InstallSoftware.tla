-------------------------- MODULE InstallSoftware --------------------------
(***************************************************************************)
(* The steps that configure the copied system and change its packages,     *)
(* from inside the chroot: each is a map from a world to its outcomes, as  *)
(* in InstallSteps.  Optional work may only warn; a package database left  *)
(* inconsistent must not.                                                  *)
(***************************************************************************)
EXTENDS InstallSteps

\* _target of the chroot steps: the target is mounted and the chroot is ready.
InChroot(w) == w.target /\ w.ready

Sys(w, set) == [w EXCEPT !.sys = set @@ @]

(***************************************************************************)
(* Network, mirrors and package indexes                                    *)
(***************************************************************************)

\* DetectNetworkConnectivityStep: offline is recorded first; one reachable
\* archive is enough, none is an error of a step that only warns.
DetectNetwork(p, w) ==
  Ok([w EXCEPT !.net = "online"]) \cup {Outcome("error", TRUE, [w EXCEPT !.net = "offline"])}

\* select_fastest_mirror: no reachable candidate is an error.
MeasureMirrors(w) == Chain(w, <<Cmd(<<>>)>>)

\* SelectFastestAptMirrorStep: the original sources are kept in the context
\* before the file is replaced.  Only Ubuntu images carry that file.
SelectMirror(p, w) ==
  IF w.net = "offline" THEN Skipped(w)
  ELSE IF ~w.target \/ ~p.image.ubuntu THEN Refused(w)
  ELSE Then(Then(MeasureMirrors(w),
                 LAMBDA v : Chain(v, <<Do([mirrorKept |-> TRUE]), Cmd([sys |-> [mirror |-> "fastest"] @@ v.sys])>>)),
            LAMBDA v : Check(v, v.sys.mirror = "fastest"))

\* restore_original_mirror
RestoreOriginalMirror(w) == IF w.mirrorKept THEN Sys(w, [mirror |-> "image"]) ELSE w

\* refresh_package_indexes: a failing update is tried once more on the
\* original sources, if there are any to go back to; a command that times out
\* raises at once.
RefreshIndexes(w) ==
  LET v == [w EXCEPT !.indexes = FALSE]
      back == RestoreOriginalMirror(v)
      second == IF v.mirrorKept
                THEN Chain(back, <<Cmd([indexes |-> TRUE])>>)
                ELSE {Outcome("error", TRUE, v)}
  IN Ok([v EXCEPT !.indexes = TRUE])
     \cup {Outcome("error", TRUE, v)}
     \cup {[o EXCEPT !.fault = TRUE] : o \in second}

NeedIndexes(w) == IF w.indexes THEN Ok(w) ELSE RefreshIndexes(w)

\* RefreshPackageIndexesStep
RefreshPackageIndexes(p, w) ==
  IF w.indexes THEN Ok(w)
  ELSE IF w.net = "offline" THEN Warned(w)
  ELSE RefreshIndexes(w)

(***************************************************************************)
(* Package transactions                                                    *)
(***************************************************************************)

\* A transaction that installs packages builds their kernel modules with the
\* key that is in place.
Transaction(w) == [w EXCEPT !.txKeys = @ \cup {w.sys.key}]

\* _package_state_is_consistent: dpkg --audit and apt-get check.
Consistent(w) == w.sys.pkgs = "ok"

\* apt-get install: the packages are there; or it failed, cleanly or not.  APT
\* changes nothing in a database that is already broken.
AptInstall(w, done) ==
  LET t == Transaction(w)
  IN IF ~Consistent(w) THEN {Outcome("error", FALSE, w)}
     ELSE Ok(Sys(t, done)) \cup {Outcome("error", TRUE, v) : v \in {t, Sys(t, [pkgs |-> "broken"])}}

\* A failed installation warns only if it left the database consistent.
InstallOrWarn(w, done) ==
  {IF o.how = "error" /\ Consistent(o.w) THEN [o EXCEPT !.how = "warning"] ELSE o : o \in AptInstall(w, done)}

\* The common shape of the optional package steps.
OptionalPackages(w, present, done) ==
  IF ~InChroot(w) THEN Refused(w)
  ELSE IF present THEN Ok(Sys(w, done))
  ELSE IF w.net = "offline" THEN Warned(w)
  ELSE Then(ErrorsWarn(NeedIndexes(w)), LAMBDA v : InstallOrWarn(v, done))

\* InstallLanguagePacksStep: a failed installation only warns, whatever state
\* it left the package database in.
InstallLanguagePacks(p, w) ==
  ErrorsWarn(OptionalPackages(w, p.image.language, <<>>))

\* _clear_input_method_configuration
ClearInput(w) == Sys(w, [input |-> FALSE])

\* The desktop default, written once every selected method is there.
WriteInput(w) == Chain(w, <<Cmd(<<>>), Cmd([sys |-> [input |-> TRUE] @@ w.sys]), Cmd(<<>>)>>)
InputVerified(p, w) == w.sys.input <=> p.input

\* InstallInputMethodStep: the desktop default is removed first.
InstallInputMethod(p, w) ==
  IF ~InChroot(w) THEN Refused(w)
  ELSE IF ~p.input THEN Skipped(ClearInput(w))
  ELSE Then(Then(OptionalPackages(ClearInput(w), FALSE, <<>>), WriteInput),
            LAMBDA v : Check(v, InputVerified(p, v)))

\* InstallMultimediaCodecsStep
InstallMultimediaCodecs(p, w) ==
  Then(OptionalPackages(w, FALSE, <<>>), LAMBDA v : Chain(v, <<Cmd(<<>>)>>))

\* UpgradeSystemStep: everything is downloaded before anything is changed; a
\* failed download leaves the copied package set alone, a failed upgrade ends
\* the installation.
UpgradeSystem(p, w) ==
  IF w.net = "offline" \/ ~w.indexes THEN Warned(w)
  ELSE IF ~InChroot(w) THEN Refused(w)
  ELSE IF ~Consistent(w) THEN Warned(w)
  ELSE FaultyWarning(w) \cup AptInstall(w, <<>>)

\* EnsureSnapshotsManagerStep, on Btrfs targets only.
EnsureSnapshotsManager(p, w) ==
  Then(OptionalPackages(w, w.sys.snapshots, [snapshots |-> TRUE]), LAMBDA v : Chain(v, <<Cmd(<<>>)>>))

\* InstallThirdPartyDriversStep: only Ubuntu has ubuntu-drivers.  The drivers
\* come with kernel modules that DKMS builds.
InstallThirdPartyDrivers(p, w) ==
  IF w.net = "offline" THEN Warned(w)
  ELSE IF ~InChroot(w) THEN Refused(w)
  ELSE IF ~p.image.ubuntu THEN Warned(w)
  ELSE InstallOrWarn(w, [dkms |-> w.sys.dkms \cup {[module |-> "driver", signer |-> w.sys.key]}])

\* What the autoremove may not take: the snapshots manager of a Btrfs target,
\* which is purged from every other.
Retained(p, w) == p.fs = "btrfs" /\ w.sys.snapshots

\* verify: none of the candidates is left, all that was retained is there, and
\* dpkg --audit is content.
CleanupVerified(p, w, retained) == ~w.sys.livePkgs /\ w.sys.snapshots = retained /\ Consistent(w)

\* RemoveLivePackagesStep: what must stay is marked manual before the purge
\* and the autoremove.
RemoveLivePackages(p, w) ==
  IF ~InChroot(w) THEN Refused(w)
  ELSE LET retained == Retained(p, w)
       IN Then(Chain(w, <<Cmd(<<>>), Cmd([sys |-> [livePkgs |-> FALSE, snapshots |-> retained] @@ w.sys]),
                          Cmd(<<>>), Cmd(<<>>)>>),
               LAMBDA v : Check(v, CleanupVerified(p, v, retained)))

(***************************************************************************)
(* Regional settings, account and identity                                 *)
(***************************************************************************)

\* ConfigureKeyboardStep
ConfigureKeyboard(p, w) ==
  IF ~w.target THEN Refused(w) ELSE Chain(w, <<Cmd([sys |-> [keyboard |-> TRUE] @@ w.sys])>>)

SudoChoice(p) == IF p.sudo THEN "granted" ELSE "asked"

\* The passwordless-sudo policy and its state file: both are put back when the
\* new policy does not pass visudo.
SudoPolicy(p, w) ==
  Ok(Sys(w, [sudoers |-> SudoChoice(p)])) \cup {Outcome("error", TRUE, w)}

\* _create_user: a name that exists is refused; the account is created, then
\* given its password hash, then the automatic login; root is locked at the end.
CreateUser(p, w) ==
  IF w.sys.account # "none" THEN Refused(w)
  ELSE Then(Then(Chain(w, <<Cmd([sys |-> [account |-> "created"] @@ w.sys]),
                            Cmd([sys |-> [account |-> "password"] @@ w.sys]), Cmd(<<>>), Cmd(<<>>)>>),
                 LAMBDA v : SudoPolicy(p, v)),
            LAMBDA v : Chain(v, <<Cmd([sys |-> [rootLocked |-> TRUE] @@ v.sys])>>))

\* _create_machine_id: both identifiers are emptied before a new one is made.
CreateMachineId(w) == Chain(w, <<Cmd([sys |-> [machineId |-> "empty"] @@ w.sys]),
                                 Cmd([sys |-> [machineId |-> "own"] @@ w.sys])>>)

\* verify reads back host name, time zone, locale, account, groups, sudo policy
\* and automatic login.
SystemVerified(p, w) ==
  w.sys.account # "none" /\ w.sys.sudoers = SudoChoice(p) /\ w.sys.machineId # "empty"

\* ConfigureSystemStep: host name, locale, time zone, account, machine id.
ConfigureSystem(p, w) ==
  IF ~InChroot(w) THEN Refused(w)
  ELSE Then(Then(Then(Chain(w, <<Cmd(<<>>)>>), LAMBDA v : CreateUser(p, v)), CreateMachineId),
            LAMBDA v : Then(Chain(v, <<Cmd(<<>>)>>), LAMBDA u : Check(u, SystemVerified(p, u))))

(***************************************************************************)
(* ProvisionRemoteAccessStep                                               *)
(***************************************************************************)

\* _prepare_ufw_rule: the target's firewall is presented as disabled while the
\* rule is written, so the Live kernel's tables are left alone; the original
\* configuration is put back in every case.
PrepareUfwRule(p, w) ==
  LET back(v) == Sys(v, [ufwOn |-> w.sys.ufwOn])
  IN Then(Chain(w, <<Cmd([sys |-> [ufwOn |-> FALSE] @@ w.sys])>>),
          LAMBDA v : Ok(back(v)) \cup {Outcome("error", TRUE, u) : u \in {v, back(v)}})

\* _remove_host_keys, then ssh-keygen -A.
RenewHostKeys(w) == Chain(w, <<Cmd([sys |-> [sshKey |-> "none"] @@ w.sys]),
                               Cmd([sys |-> [sshKey |-> "own"] @@ w.sys])>>)

\* The password policy, checked by sshd -t, and the socket unit, disabled
\* before the plan's choice is applied.
ApplyPolicy(p, w) ==
  Chain(w, <<Cmd(<<>>), Cmd([sys |-> [sshOn |-> FALSE] @@ w.sys]), Cmd([sys |-> [sshOn |-> p.ssh] @@ w.sys])>>)

\* verify: a complete key pair, the units and the effective policy as planned.
RemoteAccessVerified(p, w) == w.sys.sshKey # "none" /\ w.sys.sshOn = p.ssh

\* execute, then verify; every image ships the server.
ProvisionRemoteAccess(p, w) ==
  IF ~InChroot(w) THEN Refused(w)
  ELSE Then(Then(Then(RenewHostKeys(w), LAMBDA v : ApplyPolicy(p, v)), LAMBDA v : PrepareUfwRule(p, v)),
            LAMBDA v : Then(Chain(v, <<Cmd(<<>>)>>), LAMBDA u : Check(u, RemoteAccessVerified(p, u))))
=============================================================================
