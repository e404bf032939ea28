--------------------------- MODULE StorageGraph ---------------------------
(***************************************************************************)
(* The storage graph of a plan: manual_layout.py, layout.py,               *)
(* storage_graph_planning.py, manual_graph_planning.py and the storage     *)
(* part of validation.py.  The graph is what crosses from the wizard to    *)
(* the privileged executor, which never trusts it: it derives the choices  *)
(* from the graph, rebuilds the graph from the disk as it is now, and      *)
(* refuses any difference.                                                 *)
(*                                                                         *)
(* A manual selection is a record                                          *)
(*   binding   the disk and the topology the choices were made on          *)
(*   reinit    the whole table is replaced                                 *)
(*   deleted   PARTUUIDs to delete                                         *)
(*   resized   requests [uuid, original, target], target in MiB            *)
(*   esp       PARTUUID of the ESP to reuse, or ""                         *)
(*   fs        the root filesystem                                         *)
(*   new       the new partitions [role, start, end] in MiB, end exclusive *)
(***************************************************************************)
EXTENDS StorageInventory

CONSTANTS
  MinimumNewEspMib,  \* 512 MiB
  MinimumNtfsMib,    \* 4 GiB
  MinimumDisk,       \* 24 GiB, in units
  BiosMib            \* the BIOS boot partition: 2 MiB

ASSUME SizesAssumption == {MinimumNewEspMib, MinimumNtfsMib, MinimumDisk, BiosMib} \subseteq Nat \ {0}

NoEnd == -1          \* end_mib None: the partition ends with the disk
NoExtent == [start |-> 0, size |-> 0]
Unsupported == {"bitlocker", "luks", "lvm", "raid"}

---------------------------------------------------------------------------
(* manual_layout.py *)

(* The whole MiB of a range: _aligned_extent.  A set of MiB stands for the *)
(* merged extents, a partition fits in one of them iff all its MiB do.     *)
WholeMib(start, size) == CeilDiv(start, MIB)..(((start + size) \div MIB) - 1)

MibOf(request) == request.start..(request.end - 1)

PartOf(inv, uuid) == CHOOSE p \in inv.parts : p.uuid = uuid

(* _base_allocatable_extents *)
AllocatableMib(inv, sel) ==
  IF sel.reinit
  THEN 1..((inv.size \div MIB) - 2)
  ELSE UNION ({WholeMib(e.start, e.size) : e \in inv.free}
              \cup {WholeMib(p.start, p.size) : p \in {q \in inv.parts : q.uuid \in sel.deleted}}
              \cup {LET p == PartOf(inv, r.uuid)
                    IN WholeMib(p.start + r.target * MIB, p.size - r.target * MIB) : r \in sel.resized})

(* manual_available_extents *)
AvailableMib(inv, sel) ==
  AllocatableMib(inv, sel) \ UNION {MibOf(sel.new[i]) : i \in DOMAIN sel.new}

(* manual_layout_block_reason.  Swap that will be deleted may be active. *)
ManualEditable(inv, sel) ==
  LET swaps == IF sel.reinit THEN {p.uuid : p \in {q \in inv.parts : q.fs = "swap"}} ELSE sel.deleted
  IN /\ inv.complete
     /\ sel.reinit \/ inv.table = "gpt"
     /\ ~inv.nested
     /\ \A p \in inv.parts :
          /\ p.mnt # "" => p.mnt = "[SWAP]" /\ p.fs = "swap" /\ p.uuid \in swaps
          /\ p.fs \notin Unsupported
          /\ p.type # "ldm"
          /\ sel.reinit \/ p.uuid # ""

DeletionsValid(inv, sel) ==
  /\ sel.deleted \subseteq {p.uuid : p \in inv.parts} \ {""}
  /\ sel.reinit => sel.deleted = {}

ResizesValid(inv, sel) ==
  /\ sel.reinit => sel.resized = {}
  /\ sel.resized # {} => \A p \in inv.parts : ~IsBitLocker(p)
  /\ \A r \in sel.resized :
       /\ r.uuid \in {p.uuid : p \in inv.parts} \ sel.deleted
       /\ LET p == PartOf(inv, r.uuid)
          IN /\ p.fs = "ntfs"
             /\ p.mnt = ""
             /\ r.original = p.size
             /\ r.target >= MinimumNtfsMib
             /\ r.target < p.size \div MIB
  /\ \A r, s \in sel.resized : r.uuid = s.uuid => r = s

ReusedEspValid(inv, sel) ==
  sel.esp # "" =>
    /\ ~sel.reinit
    /\ sel.esp \in {p.uuid : p \in inv.parts} \ sel.deleted
    /\ IsEfiCandidate(PartOf(inv, sel.esp))
    /\ PartOf(inv, sel.esp).fsid # ""

RolesValid(sel) ==
  LET roles == {sel.new[i].role : i \in DOMAIN sel.new}
  IN /\ Cardinality(roles) = Len(sel.new)
     /\ "root" \in roles
     /\ ("efi-system" \in roles) = (sel.esp = "")

GeometryValid(inv, sel) ==
  /\ \A i \in DOMAIN sel.new :
       LET request == sel.new[i]
       IN /\ request.start >= 1
          /\ request.end > request.start
          /\ MibOf(request) \subseteq AllocatableMib(inv, sel)
          /\ request.role = "efi-system" => request.end - request.start >= MinimumNewEspMib
          /\ request.role = "root" => request.end - request.start >= MinimumRootMib
  /\ \A i, j \in DOMAIN sel.new : i < j => sel.new[i].end <= sel.new[j].start

(* validate_manual_selection *)
ManualValid(inv, sel) ==
  /\ TopologyHolds(sel.binding, inv)
  /\ ManualEditable(inv, sel)
  /\ DeletionsValid(inv, sel)
  /\ ResizesValid(inv, sel)
  /\ ReusedEspValid(inv, sel)
  /\ RolesValid(sel)
  /\ GeometryValid(inv, sel)

---------------------------------------------------------------------------
(* Graphs.  A block is <<"existing", uuid>>, <<"new", number>> or the disk. *)

TheDisk == <<"disk", 0>>
Existing(uuid) == <<"existing", uuid>>
New(number) == <<"new", number>>

InDiskOrder(parts) ==
  [i \in 1..Cardinality(parts) |->
     CHOOSE p \in parts : Cardinality({q \in parts : q.start < p.start}) = i - 1]
Each(action, blocks) == [i \in DOMAIN blocks |-> <<action, blocks[i]>>]
BlocksOf(parts) == [i \in DOMAIN parts |-> Existing(parts[i].uuid)]

FilesystemOf(name, fs) == CASE name = "efi-system" -> "vfat" [] name = "swap" -> "swap" [] OTHER -> fs

(* The operations that follow the table edits, the same in every mode. *)
CreateAndFormat(news, formatted, root, fs) ==
  LET blocks(s) == [i \in DOMAIN s |-> New(s[i].number)]
  IN Each("create", blocks(news)) \o Each("format", blocks(formatted))
       \o (IF fs = "btrfs" THEN << <<"subvolumes", root>> >> ELSE <<>>)
       \o << <<"mounts", root>> >>

RootBlock(news) == New(news[CHOOSE i \in DOMAIN news : news[i].name = "root"].number)
EspBlock(news, reused) ==
  IF reused # "" THEN Existing(reused)
  ELSE New(news[CHOOSE i \in DOMAIN news : news[i].name = "efi-system"].number)

(* build_erase_disk_layout: BIOS boot (amd64), ESP, swap if any, root. *)
EraseLayout(arch, swap) ==
  LET bios  == IF arch = "amd64" THEN 1 + BiosMib ELSE 1
      esp   == bios + EspMib
      named == (IF arch = "amd64" THEN <<[name |-> "bios-boot", start |-> 1, end |-> bios]>> ELSE <<>>)
                 \o <<[name |-> "efi-system", start |-> bios, end |-> esp]>>
                 \o (IF swap > 0 THEN <<[name |-> "swap", start |-> esp, end |-> esp + swap]>> ELSE <<>>)
                 \o <<[name |-> "root", start |-> esp + swap, end |-> NoEnd]>>
  IN [i \in DOMAIN named |-> named[i] @@ [number |-> i]]

(* build_erase_disk_storage_graph *)
EraseGraph(plan, binding) ==
  LET news == EraseLayout(plan.arch, plan.swap)
      root == RootBlock(news)
      esp  == EspBlock(news, "")
  IN [mode |-> "erase", binding |-> binding, refs |-> {}, extent |-> NoExtent,
      new |-> news, resized |-> {}, fs |-> plan.fs, esp |-> esp,
      ops |-> << <<"replace-table", TheDisk>> >>
                \o CreateAndFormat(news, SelectSeq(news, LAMBDA p : p.name # "bios-boot"), root, plan.fs)
                \o (IF plan.arch = "amd64" THEN << <<"bios-loader", TheDisk>> >> ELSE <<>>)
                \o << <<"boot-files", esp>> >>
                \o (IF plan.fallback THEN << <<"fallback", esp>> >> ELSE << <<"nvram", esp>> >>)]

(* build_guided_coexistence_storage_graph: everything inside one extent *)
GuidedNew(plan, inv, extent, reused) ==
  LET first == CeilDiv(extent.start, MIB)
      last  == (extent.start + extent.size) \div MIB
      esp   == IF reused = "" THEN EspMib ELSE 0
      named == (IF reused = "" THEN <<[name |-> "efi-system", start |-> first, end |-> first + esp]>> ELSE <<>>)
                 \o (IF plan.swap > 0
                     THEN <<[name |-> "swap", start |-> first + esp, end |-> first + esp + plan.swap]>>
                     ELSE <<>>)
                 \o <<[name |-> "root", start |-> first + esp + plan.swap, end |-> last]>>
      numbers == NextPartitionNumbers({p.num : p \in inv.parts}, Len(named))
  IN [i \in DOMAIN named |-> named[i] @@ [number |-> numbers[i]]]

GuidedPossible(plan, inv, extent, reused) ==
  /\ plan.disk = inv.id
  /\ plan.size = inv.size
  /\ GuidedAvailable(inv, plan.firmware)
  /\ \E c \in FreeSpaceCandidates(inv) :
       c.extent = extent /\ (c.requiresEsp => reused # "")
  /\ reused # "" => \E p \in EspCandidates(inv) : p.uuid = reused
  /\ LET news == GuidedNew(plan, inv, extent, reused)
     IN news[Len(news)].end - news[Len(news)].start >= MinimumRootMib

GuidedGraph(plan, inv, extent, reused) ==
  LET news == GuidedNew(plan, inv, extent, reused)
      esp  == EspBlock(news, reused)
  IN [mode |-> "guided", binding |-> Binding(inv),
      refs |-> {[uuid |-> p.uuid, start |-> p.start, size |-> p.size] : p \in inv.parts},
      extent |-> extent, new |-> news, resized |-> {}, fs |-> plan.fs, esp |-> esp,
      ops |-> Each("preserve", BlocksOf(InDiskOrder(inv.parts)))
                \o << <<"modify-table", TheDisk>> >>
                \o CreateAndFormat(news, news, RootBlock(news), plan.fs)
                \o << <<"boot-files", esp>>, <<"nvram", esp>> >>]

(* build_manual_storage_graph *)
ManualNew(inv, sel) ==
  LET used == IF sel.reinit THEN {} ELSE {p.num : p \in {q \in inv.parts : q.uuid \notin sel.deleted}}
      numbers == NextPartitionNumbers(used, Len(sel.new))
  IN [i \in DOMAIN sel.new |->
        [name |-> sel.new[i].role, start |-> sel.new[i].start, end |-> sel.new[i].end, number |-> numbers[i]]]

SwapOf(sel) ==
  LET swaps == {i \in DOMAIN sel.new : sel.new[i].role = "swap"}
  IN IF swaps = {} THEN 0 ELSE LET i == CHOOSE j \in swaps : TRUE IN sel.new[i].end - sel.new[i].start

ManualPossible(plan, inv, sel) ==
  /\ plan.firmware = "uefi"
  /\ plan.disk = inv.id
  /\ plan.size = inv.size
  /\ plan.fs = sel.fs
  /\ plan.swap = SwapOf(sel)
  /\ ManualValid(inv, sel)

ManualGraph(plan, inv, sel) ==
  LET news == ManualNew(inv, sel)
      esp  == EspBlock(news, sel.esp)
      kept == IF sel.reinit THEN {} ELSE inv.parts
      of(uuids) == BlocksOf(InDiskOrder({p \in kept : p.uuid \in uuids}))
      resized == {r.uuid : r \in sel.resized}
  IN [mode |-> "manual", binding |-> Binding(inv),
      refs |-> {[uuid |-> p.uuid, start |-> p.start, size |-> p.size] : p \in kept},
      extent |-> NoExtent, new |-> news,
      resized |-> {[uuid |-> r.uuid, original |-> r.original, target |-> r.target * MIB] : r \in sel.resized},
      fs |-> plan.fs, esp |-> esp,
      ops |-> (IF sel.reinit
               THEN << <<"replace-table", TheDisk>> >>
               ELSE Each("preserve", of({p.uuid : p \in kept} \ (sel.deleted \cup resized)))
                      \o Each("delete", of(sel.deleted))
                      \o Each("resize", of(resized))
                      \o << <<"modify-table", TheDisk>> >>)
                \o CreateAndFormat(news, news, RootBlock(news), plan.fs)
                \o << <<"boot-files", esp>>, <<"nvram", esp>> >>]

---------------------------------------------------------------------------
(* Validation *)

Targets(graph, action) == {graph.ops[i][2] : i \in {j \in DOMAIN graph.ops : graph.ops[j][1] = action}}
RefBlocks(graph) == {Existing(r.uuid) : r \in graph.refs}

(* _validate_guided_graph_structure *)
GuidedStructure(plan, graph) ==
  /\ graph.binding.id = plan.disk /\ graph.binding.size = plan.size
  /\ graph.extent.size > 0
  /\ Targets(graph, "preserve") = RefBlocks(graph)
  /\ \A action \in {"replace-table", "bios-loader", "fallback"} : Targets(graph, action) = {}
  /\ \A i \in DOMAIN graph.new :
       /\ graph.new[i].start >= IF i = 1 THEN CeilDiv(graph.extent.start, MIB) ELSE graph.new[i - 1].end
       /\ graph.new[i].end > graph.new[i].start
       /\ graph.new[i].end <= (graph.extent.start + graph.extent.size) \div MIB

(* validate_manual_graph_structure *)
ManualStructure(plan, graph) ==
  LET kept == Targets(graph, "preserve")
      deleted == Targets(graph, "delete")
      resized == Targets(graph, "resize")
  IN /\ graph.binding.id = plan.disk /\ graph.binding.size = plan.size
     /\ Targets(graph, "bios-loader") = {} /\ Targets(graph, "fallback") = {}
     /\ IF Targets(graph, "replace-table") # {}
        THEN graph.refs = {} /\ kept \cup deleted \cup resized \cup Targets(graph, "modify-table") = {}
        ELSE /\ Targets(graph, "modify-table") # {}
             /\ kept \cap deleted = {} /\ kept \cap resized = {} /\ deleted \cap resized = {}
             /\ kept \cup deleted \cup resized = RefBlocks(graph)
     /\ {Existing(r.uuid) : r \in graph.resized} = resized
     /\ \A r \in graph.resized :
          /\ r.target % MIB = 0
          /\ r.target >= MinimumNtfsMib * MIB
          /\ r.target < r.original
     /\ \A i \in DOMAIN graph.new :
          /\ graph.new[i].start >= IF i = 1 THEN 1 ELSE graph.new[i - 1].end
          /\ graph.new[i].end > graph.new[i].start
     /\ Targets(graph, "format") = {New(graph.new[i].number) : i \in DOMAIN graph.new}

(* validate_storage_graph: the canonical graph of the mode *)
GraphValid(plan) ==
  /\ plan.graph.mode = plan.mode
  /\ CASE plan.mode = "guided" -> GuidedStructure(plan, plan.graph)
       [] plan.mode = "manual" -> ManualStructure(plan, plan.graph)
       [] OTHER -> /\ plan.graph.binding.id = plan.disk /\ plan.graph.binding.size = plan.size
                   /\ plan.graph = EraseGraph(plan, plan.graph.binding)

(* The storage, platform and boot rules of validate_plan *)
PlanValid(plan) ==
  /\ plan.size >= MinimumDisk
  /\ plan.mode = "erase" => plan.size - (EspMib + plan.swap + OverheadMib) * MIB >= MinimumRootMib * MIB
  /\ plan.mode # "manual" => plan.fs \in {"btrfs", "ext4"} /\ plan.swap % GibMib = 0
  /\ plan.arch = "arm64" => plan.firmware = "uefi"
  /\ plan.fallback = (plan.mode = "erase" /\ plan.firmware = "bios")
  /\ GraphValid(plan)

(* validate_guided_coexistence_graph *)
GuidedReused(graph) == IF graph.esp[1] = "existing" THEN graph.esp[2] ELSE ""

GuidedCurrent(plan, inv) ==
  /\ GraphValid(plan)
  /\ TopologyHolds(plan.graph.binding, inv)
  /\ plan.graph.extent \in inv.free
  /\ GuidedPossible(plan, inv, plan.graph.extent, GuidedReused(plan.graph))
  /\ plan.graph = GuidedGraph(plan, inv, plan.graph.extent, GuidedReused(plan.graph))

(* _selection_from_graph: the choices a graph stands for *)
SelectionFromGraph(plan, inv) ==
  LET graph == plan.graph
  IN [binding |-> Binding(inv),
      reinit  |-> Targets(graph, "replace-table") # {},
      deleted |-> {p.uuid : p \in {q \in inv.parts : Existing(q.uuid) \in Targets(graph, "delete")}},
      resized |-> {[uuid |-> r.uuid, original |-> r.original, target |-> r.target \div MIB] :
                     r \in {s \in graph.resized : s.uuid \in {p.uuid : p \in inv.parts}}},
      esp     |-> IF graph.esp \in RefBlocks(graph) THEN graph.esp[2] ELSE "",
      fs      |-> plan.fs,
      new     |-> [i \in DOMAIN graph.new |->
                     [role |-> graph.new[i].name, start |-> graph.new[i].start, end |-> graph.new[i].end]]]

(* validate_manual_storage_graph *)
ManualCurrent(plan, inv) ==
  /\ GraphValid(plan)
  /\ TopologyHolds(plan.graph.binding, inv)
  /\ LET sel == SelectionFromGraph(plan, inv)
     IN ManualPossible(plan, inv, sel) /\ plan.graph = ManualGraph(plan, inv, sel)
===========================================================================
