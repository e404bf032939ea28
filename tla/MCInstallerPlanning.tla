------------------------ MODULE MCInstallerPlanning ------------------------
EXTENDS InstallerPlanning

Part(num, uuid, start, size, type, fs, fsid, mnt) ==
  [num |-> num, uuid |-> uuid, start |-> start, size |-> size, type |-> type, fs |-> fs, fsid |-> fsid, mnt |-> mnt]

Disk(id, path, table, parts) ==
  [id |-> id, path |-> path, size |-> 32, table |-> table, tableId |-> IF table = "none" THEN "" ELSE "t",
   parts |-> parts, nested |-> FALSE]

Esp == Part(1, "e", 2, 2, "esp", "vfat", "fe", "")

(* An unaligned Windows volume and little free space after it *)
WindowsDisk == Disk("A", "sda", "gpt", {Esp, Part(2, "w", 4, 17, "basic", "ntfs", "fw", "")})

(* Linux with active swap in slot 3, in front of slot 2 *)
LinuxDisk == Disk("A", "sda", "gpt",
  {Esp, Part(3, "s", 4, 4, "linux", "swap", "fs", "[SWAP]"), Part(2, "l", 8, 14, "linux", "ext4", "fl", "")})

(* The same with the swap in another slot *)
OtherSlotDisk == [LinuxDisk EXCEPT !.parts = {[p EXCEPT !.num = IF @ = 3 THEN 4 ELSE @] : p \in @}]

(* The same with a second active swap, in another slot *)
SwapsDisk == [LinuxDisk EXCEPT !.parts = @ \cup {Part(4, "t", 22, 4, "linux", "swap", "ft", "[SWAP]")}]

(* The system on the disk is mounted by the live session. *)
MountedDisk == Disk("A", "sda", "gpt", {Esp, Part(2, "l", 8, 14, "linux", "ext4", "fl", "mounted")})

BlankDisk == Disk("A", "sda", "none", {})
RoomyDisk == Disk("A", "sda", "gpt", {Esp})
LiveDisk == Disk("B", "sdb", "gpt", {Part(1, "x", 2, 20, "linux", "ext4", "fx", ""), Part(2, "y", 22, 4, "linux", "ext4", "fy", "")})

Both(disk) == [d \in {"A", "B"} |-> IF d = "A" THEN disk ELSE LiveDisk]

Uefi == [firmware |-> "uefi", arch |-> "amd64", nvram |-> TRUE, espHealthy |-> TRUE]
Bios == [Uefi EXCEPT !.firmware = "bios"]
Locked == [Uefi EXCEPT !.nvram = FALSE]
Arm == [Uefi EXCEPT !.arch = "arm64"]

Machine(disk, board, troubles, edits, returns) ==
  [disks |-> Both(disk), env |-> board, troubles |-> troubles, edits |-> edits, returns |-> returns]

MCMachines ==
  {Machine(WindowsDisk, Uefi, 0, 3, 0), Machine(WindowsDisk, Uefi, 1, 2, 0),
   Machine(WindowsDisk, Uefi, 1, 1, 1), Machine(WindowsDisk, Uefi, 0, 2, 1),
   Machine(LinuxDisk, Uefi, 0, 3, 0), Machine(LinuxDisk, Uefi, 1, 2, 0),
   Machine(BlankDisk, Bios, 1, 2, 1), Machine(RoomyDisk, Arm, 1, 2, 0),
   Machine(BlankDisk, Locked, 1, 2, 1),
   Machine(SwapsDisk, Uefi, 0, 3, 0), Machine(OtherSlotDisk, Uefi, 0, 3, 0), Machine(MountedDisk, Uefi, 0, 2, 0)}

MCWindows == {Machine(WindowsDisk, Uefi, 1, 1, 1)}

MCVolumes == [u \in {"w"} |-> [minimum |-> 4, mft |-> 2, sound |-> TRUE]]
=============================================================================
