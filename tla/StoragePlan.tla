---------------------------- MODULE StoragePlan ----------------------------
(***************************************************************************)
(* From a plan to the commands of the privileged executor and back to the  *)
(* disk they leave: storage_write_set.py, manual_write_set.py,             *)
(* storage_commands.py, storage_planning.py, ntfs_resize.py,               *)
(* storage_preservation.py and the target check of preflight.py.           *)
(*                                                                         *)
(* A command is a record whose field op names it; a device is the pair of  *)
(* the disk's kernel path and a partition number.  What parted, mkfs and   *)
(* ntfsresize do to a disk is external: the last part of this module.      *)
(***************************************************************************)
EXTENDS StorageGraph

CONSTANT NtfsMargin   \* what is added to the minimum ntfsresize reports: 2 GiB

ASSUME MarginAssumption == NtfsMargin \in Nat

---------------------------------------------------------------------------
(* The write set: every operation with the object it changes and the path  *)
(* shown to the person.                                                    *)

BlockPath(inv, path, block) ==
  IF block[1] = "existing" THEN <<path, PartOf(inv, block[2]).num>> ELSE <<path, block[2]>>

Writes(inv, path, operations) ==
  [i \in DOMAIN operations |->
     [action |-> operations[i][1], target |-> operations[i][2],
      path |-> BlockPath(inv, path, operations[i][2])]]

(* build_erase_disk_write_set: computed from the layout, not the graph *)
EraseWriteSet(plan, inv) == Writes(inv, plan.path, EraseGraph(plan, plan.graph.binding).ops)

(* build_guided_coexistence_write_set: every partition of the disk as it is *)
(* now is declared preserved, whatever the graph says.                      *)
GuidedWriteSet(plan, inv) ==
  Writes(inv, inv.path,
    Each("preserve", BlocksOf(InDiskOrder(inv.parts)))
      \o SelectSeq(plan.graph.ops, LAMBDA o : o[1] # "preserve"))

(* build_manual_storage_write_set *)
ManualWriteSet(plan, inv) ==
  LET of(action) == BlocksOf(InDiskOrder({p \in inv.parts : Existing(p.uuid) \in Targets(plan.graph, action)}))
  IN Writes(inv, inv.path,
       Each("preserve", of("preserve")) \o Each("delete", of("delete")) \o Each("resize", of("resize"))
         \o SelectSeq(plan.graph.ops, LAMBDA o : o[1] \notin {"preserve", "delete", "resize"}))

---------------------------------------------------------------------------
(* Commands *)

Mkpart(path, part) == [op |-> "mkpart", path |-> path, name |-> part.name, start |-> part.start, end |-> part.end]
Flag(path, part) ==
  IF part.name \notin {"efi-system", "bios-boot"} THEN <<>>
  ELSE <<[op |-> "flag", path |-> path, num |-> part.number,
          type |-> IF part.name = "efi-system" THEN "esp" ELSE "bios"]>>
Mkfs(path, part, fs) == [op |-> "mkfs", dev |-> <<path, part.number>>, fs |-> FilesystemOf(part.name, fs)]

CreateCommands(path, news) ==
  FlattenSeq([i \in DOMAIN news |-> <<Mkpart(path, news[i])>> \o Flag(path, news[i])])
FormatCommands(path, news, fs) ==
  FlattenSeq([i \in DOMAIN news |-> IF news[i].name = "bios-boot" THEN <<>> ELSE <<Mkfs(path, news[i], fs)>>])

(* The devices the later steps mount, by role. *)
DevicesOf(path, news) == {[name |-> news[i].name, dev |-> <<path, news[i].number>>] : i \in DOMAIN news}

(* build_storage_commands *)
EraseCommands(plan) ==
  LET news == EraseLayout(plan.arch, plan.swap)
  IN [partition |-> <<[op |-> "mklabel", path |-> plan.path]>> \o CreateCommands(plan.path, news),
      format    |-> FormatCommands(plan.path, news, plan.fs),
      devices   |-> DevicesOf(plan.path, news), swapoff |-> {}, resizes |-> <<>>]

ReusedDevice(plan, inv) ==
  IF plan.graph.esp[1] = "existing"
  THEN {[name |-> "efi-system", dev |-> <<inv.path, PartOf(inv, plan.graph.esp[2]).num>>]} ELSE {}

(* build_guided_coexistence_storage_commands *)
GuidedCommands(plan, inv) ==
  [partition |-> CreateCommands(inv.path, plan.graph.new),
   format    |-> FormatCommands(inv.path, plan.graph.new, plan.fs),
   devices   |-> DevicesOf(inv.path, plan.graph.new) \cup ReusedDevice(plan, inv),
   swapoff   |-> {}, resizes |-> <<>>]

(* build_manual_storage_commands *)
ManualCommands(plan, inv) ==
  LET graph   == plan.graph
      replace == Targets(graph, "replace-table") # {}
      each(action, command(_)) ==
        FlattenSeq([i \in DOMAIN graph.ops |-> IF graph.ops[i][1] = action THEN <<command(graph.ops[i][2])>> ELSE <<>>])
      remove(block) == [op |-> "rm", path |-> inv.path, num |-> PartOf(inv, block[2]).num]
      shrink(block) ==
        LET p == PartOf(inv, block[2])
            r == CHOOSE s \in graph.resized : Existing(s.uuid) = block
        IN [uuid |-> p.uuid, path |-> inv.path, num |-> p.num, start |-> p.start,
            original |-> r.original, target |-> r.target]
  IN [partition |->
        (IF replace THEN <<[op |-> "mklabel", path |-> inv.path]>>
         ELSE each("delete", remove))
          \o CreateCommands(inv.path, graph.new),
      format  |-> FormatCommands(inv.path, graph.new, plan.fs),
      devices |-> DevicesOf(inv.path, graph.new) \cup ReusedDevice(plan, inv),
      swapoff |-> {<<inv.path, p.num>> : p \in
                     {q \in inv.parts : q.fs = "swap" /\ (replace \/ Existing(q.uuid) \in Targets(graph, "delete"))}},
      resizes |-> each("resize", shrink)]

---------------------------------------------------------------------------
(* ntfs_resize.py: the read-only assessment of one volume.  volume says    *)
(* what the tools report: whether the volume is sound, the smallest size   *)
(* and the size below which the MFT would have to move.                    *)

InspectNtfs(p, volume, target) ==
  LET safe == Min({p.size, Max({(volume.minimum * 125) \div 100, volume.minimum + NtfsMargin})})
      minimum == CeilDiv(safe, MIB) * MIB
      maximum == ((p.size - MIB) \div MIB) * MIB
  IN [safe |-> /\ p.fs = "ntfs" /\ p.mnt = "" /\ volume.sound
               /\ minimum <= maximum
               /\ target # NoEnd => /\ target % MIB = 0
                                    /\ minimum <= target /\ target <= maximum
                                    /\ target >= volume.mft,
      size |-> p.size, minimum |-> minimum, maximum |-> maximum, target |-> target]

(* The condition build_manual_storage_execution_plan puts on an inspection. *)
InspectionPasses(resize, inspection) ==
  /\ inspection.safe
  /\ inspection.size = resize.original
  /\ inspection.target = resize.target
  /\ resize.target >= inspection.minimum
  /\ resize.target <= inspection.maximum

---------------------------------------------------------------------------
(* The frozen execution plan: storage_planning.py *)

FormatsOf(commands) == {[dev |-> commands.format[i].dev, fs |-> commands.format[i].fs] : i \in DOMAIN commands.format}

(* What all three parity checks share: the declared operations are those    *)
(* of the graph, one mkpart per declared partition, one format per format.  *)
Parity(plan, commands, writes) ==
  LET creates == SelectSeq(commands.partition, LAMBDA c : c.op = "mkpart")
      formatted == {i \in DOMAIN plan.graph.new : New(plan.graph.new[i].number) \in Targets(plan.graph, "format")}
      deviceOf(name) == (CHOOSE d \in commands.devices : d.name = name).dev
  IN /\ [i \in DOMAIN writes |-> <<writes[i].action, writes[i].target>>] = plan.graph.ops
     /\ Len(creates) = Len(plan.graph.new)
     /\ \A i \in DOMAIN creates :
          creates[i].start = plan.graph.new[i].start /\ creates[i].end = plan.graph.new[i].end
     /\ FormatsOf(commands) = {[dev |-> deviceOf(plan.graph.new[i].name),
                                fs |-> FilesystemOf(plan.graph.new[i].name, plan.fs)] : i \in formatted}
     /\ Cardinality(FormatsOf(commands)) = Len(commands.format)

(* _verify_parity *)
EraseParity(plan, commands, writes) ==
  /\ Parity(plan, commands, writes)
  /\ Cardinality(Targets(plan.graph, "replace-table")) = 1
  /\ {w.path : w \in {writes[i] : i \in {j \in DOMAIN writes : writes[j].action = "create"}}}
       = {d.dev : d \in commands.devices}

(* _verify_guided_parity *)
GuidedParity(plan, commands, writes) ==
  /\ Parity(plan, commands, writes)
  /\ \A i \in DOMAIN commands.partition : commands.partition[i].op \notin {"mklabel", "rm"}

(* _verify_manual_parity *)
ManualParity(plan, inv, commands, writes) ==
  LET removals == SelectSeq(commands.partition, LAMBDA c : c.op = "rm")
      deletes  == SelectSeq(plan.graph.ops, LAMBDA o : o[1] = "delete")
      labels   == SelectSeq(commands.partition, LAMBDA c : c.op = "mklabel")
  IN /\ Parity(plan, commands, writes)
     /\ \A i \in DOMAIN commands.resizes :
          LET r == commands.resizes[i]
              p == PartOf(inv, r.uuid)
          IN r.path = inv.path /\ r.num = p.num /\ r.start = p.start /\ r.original = p.size
     /\ IF Targets(plan.graph, "replace-table") # {}
        THEN Len(labels) = 1 /\ removals = <<>>
        ELSE /\ labels = <<>>
             /\ [i \in DOMAIN removals |-> removals[i].num]
                  = [i \in DOMAIN deletes |-> PartOf(inv, deletes[i][2][2]).num]

(* _validate_guided_prerequisites: firmware variables, and an ESP that is   *)
(* reused is checked, healthy and has room.                                 *)
BootPossible(plan, inv, env) ==
  /\ env.nvram
  /\ plan.graph.esp[1] = "existing" => env.espHealthy

(* What PrepareStorageStep.preflight freezes before the first write; ok is  *)
(* FALSE when any of its checks raises.                                     *)
Compile(plan, inv, env, volumes) ==
  LET none == [partition |-> <<>>, format |-> <<>>, devices |-> {}, swapoff |-> {}, resizes |-> <<>>]
      erase == plan.mode = "erase"
      current == CASE erase -> PlanValid(plan)
                   [] plan.mode = "guided" -> PlanValid(plan) /\ GuidedCurrent(plan, inv)
                   [] OTHER -> PlanValid(plan) /\ ManualCurrent(plan, inv)
      possible == IF erase THEN plan.firmware = "uefi" => env.nvram ELSE BootPossible(plan, inv, env)
      commands == CASE ~current \/ ~possible -> none
                    [] erase -> EraseCommands(plan)
                    [] plan.mode = "guided" -> GuidedCommands(plan, inv)
                    [] OTHER -> ManualCommands(plan, inv)
      sound == \A i \in DOMAIN commands.resizes :
                 LET r == commands.resizes[i]
                 IN InspectionPasses(r, InspectNtfs(PartOf(inv, r.uuid), volumes[r.uuid], r.target))
      parity == CASE erase -> EraseParity(plan, commands, EraseWriteSet(plan, inv))
                  [] plan.mode = "guided" -> GuidedParity(plan, commands, GuidedWriteSet(plan, inv))
                  [] OTHER -> ManualParity(plan, inv, commands, ManualWriteSet(plan, inv))
  IN [ok |-> current /\ possible /\ sound /\ parity, commands |-> commands]

---------------------------------------------------------------------------
(* preflight.py *)

\* Mutant: the kernel path of the plan is kept.
ResolveKeepsPath(plan, inv) == plan

(* resolve_storage_graph: the stable identity gives the path of this boot. *)
Resolve(plan, inv) == [plan EXCEPT !.path = inv.path]

SwapSpace(plan) == IF plan.mode = "erase" THEN plan.size ELSE plan.graph.extent.size
SwapEsp(plan) == IF plan.mode = "erase" \/ plan.graph.esp[1] = "new" THEN EspMib ELSE 0

(* Swap that an earlier attempt left on may stay: its own partition is      *)
(* replaced.                                                                *)
RetrySwaps(plan) ==
  {plan.graph.new[i].number : i \in {j \in DOMAIN plan.graph.new : plan.graph.new[j].name = "swap"}}
    \cup (IF plan.mode = "erase" THEN {IF plan.arch = "amd64" THEN 3 ELSE 2} ELSE {})

(* _reject_active_target_disk *)
TargetIdle(plan, inv) ==
  /\ ~inv.nested
  /\ \A p \in inv.parts :
       p.mnt # "" => /\ p.mnt = "[SWAP]"
                     /\ \/ p.num \in RetrySwaps(plan)
                        \/ /\ plan.mode = "manual"
                           /\ \/ Targets(plan.graph, "replace-table") # {}
                              \/ Existing(p.uuid) \in Targets(plan.graph, "delete")

(* verify_target_disk_environment *)
TargetVerified(plan, inv, memory) ==
  /\ PlanValid(plan)
  /\ TopologyHolds(plan.graph.binding, inv)
  /\ plan.mode # "manual" => SwapAllowed(plan.swap, SwapSizing(memory, SwapSpace(plan), SwapEsp(plan)))
  /\ TargetIdle(plan, inv)

---------------------------------------------------------------------------
(* storage_preservation.py *)

Preserved(p) == [p EXCEPT !.mnt = ""]

(* capture_guided_preservation_snapshot, capture_manual_preservation_snapshot *)
Snapshot(plan, inv) ==
  LET of(action) == {p \in inv.parts : Existing(p.uuid) \in Targets(plan.graph, action)}
      replace == Targets(plan.graph, "replace-table") # {}
  IN [mode |-> plan.mode, id |-> inv.id, size |-> inv.size, tableId |-> inv.tableId, reinit |-> replace,
      kept |-> {Preserved(p) : p \in of("preserve")},
      resized |-> {[Preserved(p) EXCEPT !.size = (CHOOSE r \in plan.graph.resized : r.uuid = p.uuid).target]
                     : p \in of("resize")},
      gone |-> IF replace THEN {p.uuid : p \in inv.parts} ELSE {p.uuid : p \in of("delete")}]

(* A snapshot is refused when some partition is neither kept, resized nor gone. *)
SnapshotComplete(plan, inv) ==
  Targets(plan.graph, "replace-table") # {}
    \/ Targets(plan.graph, "preserve") \cup Targets(plan.graph, "delete") \cup Targets(plan.graph, "resize")
         = {Existing(p.uuid) : p \in inv.parts}

(* _verify_new_partitions *)
NewPartitionsThere(plan, inv) ==
  \A i \in DOMAIN plan.graph.new :
    LET n == plan.graph.new[i]
    IN \E p \in inv.parts :
         /\ p.num = n.number
         /\ p.start = n.start * MIB
         /\ p.size = (n.end - n.start) * MIB
         /\ p.fs = FilesystemOf(n.name, plan.fs)
         /\ p.uuid # "" /\ p.fsid # ""

(* verify_guided_storage_result and verify_manual_storage_result *)
ResultHolds(plan, snapshot, inv) ==
  /\ inv.size = snapshot.size
  /\ inv.table = "gpt"
  /\ ~snapshot.reinit => inv.tableId = snapshot.tableId
  /\ snapshot.kept \cup snapshot.resized \subseteq {Preserved(p) : p \in inv.parts}
  /\ \A p \in inv.parts : p.uuid \notin snapshot.gone
  /\ {p.num : p \in inv.parts} = {p.num : p \in snapshot.kept \cup snapshot.resized}
                                   \cup {plan.graph.new[i].number : i \in DOMAIN plan.graph.new}
  /\ NewPartitionsThere(plan, inv)

(* PrepareStorageStep.verify: what blkid says, and in the modes that keep   *)
(* anything, the whole table.                                               *)
StorageVerified(plan, commands, snapshot, inv) ==
  /\ \A d \in commands.devices :
       d.name # "bios-boot" =>
         \E p \in inv.parts : p.num = d.dev[2] /\ p.fs = FilesystemOf(d.name, plan.fs)
  /\ plan.mode # "erase" => ResultHolds(plan, snapshot, inv)

---------------------------------------------------------------------------
(* External: what the tools do to a disk.  A partition that exists before   *)
(* mkfs runs keeps whatever was there; a new one gets a fresh identity.     *)

FreshUuid == <<"n1", "n2", "n3", "n4", "n5", "n6", "n7", "n8">>
FreshContent == <<"f1", "f2", "f3", "f4", "f5", "f6", "f7", "f8">>

InUse(parts) == \E p \in parts : p.mnt # ""
AtNumber(disk, num) == {p \in disk.parts : p.num = num}

(* parted's 100% is the last whole MiB of the usable space. *)
LastUnit(disk) == ((disk.size - GptReserve) \div MIB) * MIB

MadePartition(disk, command) ==
  LET num   == Min((1..(Cardinality(disk.parts) + 1)) \ {p.num : p \in disk.parts})
      start == command.start * MIB
      end   == IF command.end = NoEnd THEN LastUnit(disk) ELSE command.end * MIB
  IN [num |-> num, uuid |-> FreshUuid[num], start |-> start, size |-> end - start,
      type |-> "linux", fs |-> "", fsid |-> "", mnt |-> ""]

(* Whether a table command is accepted.  The kernel refuses to re-read a    *)
(* table with a partition in use that changes.                              *)
Accepted(disk, command) ==
  CASE command.op = "mklabel" -> ~InUse(disk.parts)
    [] command.op = "mkpart" ->
         LET made == MadePartition(disk, command)
         IN /\ disk.table = "gpt"
            /\ made.start >= GptReserve /\ End(made) <= disk.size - GptReserve /\ made.size > 0
            /\ \A p \in disk.parts : ~Overlap(p, made)
    [] command.op \in {"flag", "rm", "resizepart"} -> AtNumber(disk, command.num) # {} /\ ~InUse(AtNumber(disk, command.num))
    [] OTHER -> AtNumber(disk, command.dev[2]) # {} /\ ~InUse(AtNumber(disk, command.dev[2]))

Applied(disk, command) ==
  LET edit(num, f(_)) == [disk EXCEPT !.parts = {IF p.num = num THEN f(p) ELSE p : p \in @}]
  IN CASE command.op = "mklabel" -> [disk EXCEPT !.table = "gpt", !.tableId = "new", !.parts = {}]
       [] command.op = "mkpart" -> [disk EXCEPT !.parts = @ \cup {MadePartition(disk, command)}]
       [] command.op = "flag" -> edit(command.num, LAMBDA p : [p EXCEPT !.type = command.type])
       [] command.op = "rm" -> [disk EXCEPT !.parts = @ \ AtNumber(disk, command.num)]
       [] command.op = "resizepart" -> edit(command.num, LAMBDA p : [p EXCEPT !.size = command.end - p.start])
       [] OTHER -> edit(command.dev[2], LAMBDA p : [p EXCEPT !.fs = command.fs, !.fsid = FreshContent[p.num]])
===========================================================================
