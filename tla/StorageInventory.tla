------------------------- MODULE StorageInventory -------------------------
(***************************************************************************)
(* What the installer knows of the disks: storage_inventory.py and         *)
(* coexistence.py.  Positions and sizes are counted in units of 1/MIB of a *)
(* MiB, so that a partition that another tool left unaligned has its place.*)
(*                                                                         *)
(* A partition is a record                                                 *)
(*   num, uuid    the GPT slot and the PARTUUID                            *)
(*   start, size  its geometry                                             *)
(*   type         "esp", "reserved", "recovery", "ldm", "basic" or "linux" *)
(*   fs, fsid     the filesystem and the identity of its content           *)
(*   mnt          "" (not in use), "mounted" or "[SWAP]"                   *)
(* and a disk is a record of its stable identity, the path the kernel gave *)
(* it in this boot, its size, its partition table, its partitions and      *)
(* whether anything but partitions is stacked on it.                       *)
(***************************************************************************)
EXTENDS Integers, FiniteSets, SequencesExt

CONSTANTS
  MIB,              \* units in a MiB
  GibMib,           \* MiB in a GiB (1024 in the code)
  MinimumRootMib,   \* 20 GiB
  MinimumSwapMib,   \* 2 GiB
  MaximumRuntimeSwapMib,  \* 64 GiB
  EspMib,           \* a new EFI System Partition: 1 GiB
  OverheadMib,      \* GPT, alignment and the BIOS boot partition: 4 MiB
  MinimumReusableEsp,     \* 100 MiB, in units
  GptReserve        \* what GPT keeps at both ends of a disk, in units

ASSUME GeometryAssumption ==
  /\ {MIB, GibMib, MinimumRootMib, MinimumSwapMib, MaximumRuntimeSwapMib,
      EspMib, OverheadMib, MinimumReusableEsp, GptReserve} \subseteq Nat \ {0}
  \* The reserve is less than the MiB the layouts leave free at both ends.
  /\ GptReserve <= MIB
  \* 4 MiB hold the alignment, the BIOS boot partition and the last MiB.
  /\ OverheadMib >= 4

GIB == GibMib * MIB

CeilDiv(value, divisor) == (value + divisor - 1) \div divisor

End(p) == p.start + p.size

Overlap(p, q) == p.start < End(q) /\ q.start < End(p)

(* PartitionInventory's properties *)
IsEsp(p) == p.type = "esp"
IsEfiCandidate(p) == IsEsp(p) /\ p.fs = "vfat"
IsBitLocker(p) == p.fs = "bitlocker"

(* The free extents parted reports: the gaps between the partitions. *)
Gaps(disk) ==
  LET starts == {GptReserve} \cup {End(p) : p \in disk.parts}
      ends   == {disk.size - GptReserve} \cup {p.start : p \in disk.parts}
  IN {e \in {[start |-> s, size |-> t - s] : s \in starts, t \in ends} :
        /\ e.size > 0
        /\ \A p \in disk.parts : ~Overlap(p, e)}

(* One disk as probe_storage_inventory sees it.  Without a partition table, *)
(* when parted fails, or when it and lsblk list different partitions, the   *)
(* geometry is incomplete and no extent is offered.                         *)
Inspect(disk, parted) ==
  LET complete == parted /\ disk.table # "none"
  IN [id |-> disk.id, path |-> disk.path, size |-> disk.size,
      table |-> disk.table, tableId |-> disk.tableId, parts |-> disk.parts,
      free |-> IF complete THEN Gaps(disk) ELSE {},
      complete |-> complete, nested |-> disk.nested]

(* The topology digest covers everything but the kernel's path (and labels); *)
(* SHA-256 is taken to be injective.                                         *)
Digest(inv) == [inv EXCEPT !.path = ""]

(* bind_disk_topology and verify_disk_topology *)
Binding(inv) == [id |-> inv.id, size |-> inv.size, digest |-> Digest(inv)]
TopologyHolds(binding, inv) ==
  /\ inv.id = binding.id
  /\ inv.size = binding.size
  /\ Digest(inv) = binding.digest

(* The lowest count numbers that are not in use, in order. *)
NextPartitionNumbers(used, count) ==
  SubSeq(SetToSortSeq((1..(Cardinality(used) + count)) \ used, <), 1, count)

---------------------------------------------------------------------------
(* swap_policy.py *)

CeilToGibMib(units) == CeilDiv(units, GIB) * GibMib

RuntimeTarget(memory) ==
  Min({MaximumRuntimeSwapMib, Max({MinimumSwapMib, CeilToGibMib(CeilDiv(memory, 2))})})

HibernationTarget(memory) == Max({MinimumSwapMib, CeilToGibMib(memory) + GibMib})

SwapBudget(space, esp) ==
  Max({0, ((space - (MinimumRootMib + esp + OverheadMib) * MIB) \div GIB) * GibMib})

(* calculate_swap_sizing: refused, or the default and the largest choice. *)
SwapSizing(memory, space, esp) ==
  LET budget == SwapBudget(space, esp)
      hibernation == HibernationTarget(memory)
      ceiling == Max({MinimumSwapMib, ((memory * 4) \div GIB) * GibMib})
  IN [ok |-> budget >= MinimumSwapMib,
      size |-> IF budget >= hibernation THEN hibernation
                                        ELSE Min({RuntimeTarget(memory), budget}),
      maximum |-> Min({budget, ceiling})]

(* validate_disk_swap_selection *)
SwapAllowed(swap, sizing) ==
  /\ sizing.ok
  /\ swap >= 0
  /\ swap % GibMib = 0
  /\ swap <= sizing.maximum

(* disk_swap_choices_mib: what the slider offers.  Up to 16 GiB it is every *)
(* whole GiB (above, the steps grow); the instances stay below.             *)
SwapChoices(sizing) == {n \in 0..sizing.maximum : n % GibMib = 0}

---------------------------------------------------------------------------
(* coexistence.py *)

EspCandidates(inv) ==
  {p \in inv.parts : IsEfiCandidate(p) /\ p.uuid # "" /\ p.fsid # "" /\ p.size >= MinimumReusableEsp}

RequiredSpace(esp) == (MinimumRootMib + MinimumSwapMib + OverheadMib + esp) * MIB

(* An extent with room for a new ESP is a candidate; a smaller one only    *)
(* together with an ESP that exists.                                       *)
FreeSpaceCandidates(inv) ==
  {c \in [extent : inv.free, requiresEsp : BOOLEAN] :
     IF c.extent.size >= RequiredSpace(EspMib)
     THEN ~c.requiresEsp
     ELSE c.requiresEsp /\ EspCandidates(inv) # {} /\ c.extent.size >= RequiredSpace(0)}

(* analyze_guided_coexistence: no blocker *)
GuidedAvailable(inv, firmware) ==
  /\ firmware = "uefi"
  /\ inv.table = "gpt"
  /\ inv.complete
  /\ inv.tableId # ""
  /\ \A p \in inv.parts : p.uuid # "" /\ p.mnt = ""
  /\ Cardinality({p.uuid : p \in inv.parts}) = Cardinality(inv.parts)
  /\ ~inv.nested
  /\ FreeSpaceCandidates(inv) # {}
===========================================================================
