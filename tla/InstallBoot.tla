---------------------------- MODULE InstallBoot ----------------------------
(***************************************************************************)
(* Secure Boot keys, the boot loader and the firmware boot entries, as     *)
(* maps from a world to its outcomes (see InstallSteps).                   *)
(***************************************************************************)
EXTENDS InstallSoftware, FiniteSets

(***************************************************************************)
(* Secure Boot                                                             *)
(***************************************************************************)

\* _is_installer_key: the pair exists and the marker holds its fingerprint.
IsInstallerKey(w) == w.sys.key = "own" /\ w.sys.marker

\* PrepareSecureBootStep: a copied key is deleted before a new one is made.
PrepareSecureBoot(p, w) ==
  IF ~p.sb THEN Ok([w EXCEPT !.prepared = FALSE])
  ELSE IF ~w.target THEN Refused(w)
  ELSE Then(IF IsInstallerKey(w) THEN Ok(w)
            ELSE Chain(w, <<Cmd([sys |-> [key |-> "none", marker |-> FALSE] @@ w.sys]),
                            Cmd([sys |-> [key |-> "own", marker |-> FALSE] @@ w.sys]),
                            Cmd([sys |-> [key |-> "own", marker |-> TRUE] @@ w.sys])>>),
            LAMBDA v : Chain(v, <<Cmd(<<>>), Do([prepared |-> TRUE])>>))

\* VerifyDkmsSignaturesStep.execute: builds every registered module that is
\* not built yet, for the target's own kernels.  One that cannot be built is
\* reported with StepWarning, as are all of them when the kernel headers are
\* not there.
BuildModules(p, w) ==
  LET missing == p.image.registered \ {d.module : d \in w.sys.dkms}
      built(ms) == Sys(w, [dkms |-> w.sys.dkms \cup {[module |-> m, signer |-> w.sys.key] : m \in ms}])
  IN Ok(built(missing)) \cup UNION {FaultyWarning(built(ms)) : ms \in SUBSET missing \ {missing}}

\* verify, which only follows an execute that did not raise: every built
\* module carries the installation's own signature.
VerifyDkmsSignatures(p, w) ==
  IF ~w.target THEN Refused(w)
  ELSE Then(BuildModules(p, w),
            LAMBDA v : IF ~p.sb THEN Ok(v)
                       ELSE Then(Chain(v, <<Cmd(<<>>)>>),
                                 LAMBDA u : Check(u, \A d \in u.sys.dkms : d.signer = "own")))

\* _verify_signed_efi_chain
SignedChain(w) == "vendor" \in w.esp

\* EnrollSecureBootStep: the signed chain is checked before the firmware
\* variables are touched; a request for this very key that is already pending
\* is not repeated.  Every attempt makes a key of its own, so a key is named by
\* its attempt; requests of earlier attempts stay.
EnrollSecureBoot(p, w) ==
  IF ~p.sb THEN Ok(w)
  ELSE IF ~w.prepared \/ ~w.target THEN Refused(w)
  ELSE Then(Check(w, SignedChain(w)),
            LAMBDA v : Then(IF v.attempt \in v.mok THEN Ok(v)
                            ELSE Chain(v, <<Cmd([mok |-> v.mok \cup {v.attempt}]), Cmd(<<>>)>>),
                            LAMBDA u : Then(Chain(u, <<Cmd(<<>>)>>),
                                            LAMBDA x : Check(x, x.attempt \in x.mok /\ SignedChain(x)))))

(***************************************************************************)
(* Firmware boot entries.  w.entries is what efibootmgr lists, by number;  *)
(* w.order is BootOrder.                                                   *)
(***************************************************************************)

\* verify_nvram_entry: the first listed entry with our label, this ESP and
\* this loader.
OurEntries(w) == {n \in DOMAIN w.entries : w.entries[n] = w.espId}
OurEntry(w) == CHOOSE n \in OurEntries(w) : \A k \in OurEntries(w) : n <= k
EntryVerified(w, requireFirst) ==
  OurEntries(w) # {} /\ (requireFirst => w.order # <<>> /\ w.order[1] = OurEntry(w))

\* efibootmgr --create: a new number, first in the order on most firmware and
\* last on some.
CreateEntry(w) ==
  LET n == Len(w.entries) + 1
      made == [w EXCEPT !.entries = Append(@, w.espId)]
  IN UNION {Ok([made EXCEPT !.order = o]) : o \in {<<n>> \o w.order, Append(w.order, n)}}
     \cup {Outcome("error", TRUE, v) : v \in {w, [made EXCEPT !.order = Append(w.order, n)]}}

\* _ensure_vendor_nvram_first: our entry moves to the front, the others keep
\* their order.
PlaceFirst(w) ==
  IF ~EntryVerified(w, FALSE) THEN Refused(w)
  ELSE LET n == OurEntry(w)
           desired == <<n>> \o SelectSeq(w.order, LAMBDA k : k # n)
       IN Then(IF w.order = desired THEN Ok(w) ELSE Chain(w, <<Cmd([order |-> desired])>>),
               LAMBDA v : Then(Chain(v, <<Cmd(<<>>)>>), LAMBDA u : Check(u, EntryVerified(u, TRUE))))

(***************************************************************************)
(* InstallBootloaderStep                                                   *)
(***************************************************************************)

\* build_boot_commands and _build_vendor_only_boot_commands: UEFI machines get
\* an explicit entry and no shared fallback loader; a BIOS disk keeps the
\* portable fallback.  An image whose grub-install writes the fallback by
\* default offers the option that turns it off.
ExplicitEntry(p) == p.fw = "uefi"
WritesFallback(p) == ~ExplicitEntry(p) /\ p.image.extraByDefault

\* verify: an initrd without Live modules for a kernel, with the recovery
\* module on Btrfs, and a GRUB menu ...
BootFilesVerified(p, w) ==
  /\ w.sys.initrd = (IF p.fs = "btrfs" THEN "recovery" ELSE "plain")
  /\ w.sys.grubCfg
\* ... the loader the firmware is to start, and its entry first ...
LoaderVerified(p, w) ==
  IF ExplicitEntry(p) THEN "vendor" \in w.esp /\ EntryVerified(w, TRUE) ELSE "fallback" \in w.esp
\* ... and on a shared ESP nothing changed outside ours.
SharedEspVerified(p, w) == p.reuse => EspOutsideOurs(w) = w.espKept

VerifyBootloader(p, w) ==
  Then(Chain(w, <<Cmd(<<>>)>>),
       LAMBDA v : Check(v, BootFilesVerified(p, v) /\ LoaderVerified(p, v) /\ SharedEspVerified(p, v)))

\* dracut --regenerate-all: the recovery module comes with its package.
InitrdOf(p, w) == IF p.fs = "btrfs" /\ w.sys.snapshots THEN "recovery" ELSE "plain"

InstallBootloader(p, w) ==
  IF ~w.target \/ "efi" \notin w.flags THEN Refused(w)
  ELSE LET loaders == w.esp \cup {"vendor"} \cup (IF WritesFallback(p) THEN {"fallback"} ELSE {})
           initrd == [initrd |-> InitrdOf(p, w)]
           files == Chain(w, <<Cmd(<<>>), Cmd([sys |-> initrd @@ w.sys]), Cmd([esp |-> loaders]),
                               Cmd([sys |-> initrd @@ [grubCfg |-> TRUE] @@ w.sys])>>)
       IN Then(IF ExplicitEntry(p) THEN Then(Then(files, CreateEntry), PlaceFirst) ELSE files,
               LAMBDA v : VerifyBootloader(p, v))

\* CheckOtherDiskSystemsStep: other disks are only read; with no Windows there
\* is no menu entry, otherwise the menu is generated again.
CheckOtherDisks(p, w) ==
  IF ~InChroot(w) THEN Refused(w)
  ELSE IF ~p.windowsElsewhere THEN Skipped(w)
  ELSE Chain(w, <<Cmd(<<>>), Cmd([sys |-> [windows |-> TRUE] @@ w.sys]), Cmd(<<>>)>>)
=============================================================================
