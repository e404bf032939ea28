SPECIFICATION PlanningSpec
CONSTANTS
  MIB = 2
  GibMib = 2
  MinimumRootMib = 4
  MinimumSwapMib = 2
  MaximumRuntimeSwapMib = 8
  EspMib = 2
  OverheadMib = 4
  MinimumReusableEsp = 2
  GptReserve = 1
  MinimumNewEspMib = 1
  MinimumNtfsMib = 2
  MinimumDisk = 24
  BiosMib = 2
  NtfsMargin = 2
  Target = "A"
  Live = "B"
  Filesystems = {"btrfs", "ext4", "xfs", "f2fs"}
  Offsets = {0}
  Memory = 4
  Machines <- MCWindows
  Volumes <- MCVolumes
  MaxBurst = 1
INVARIANT
  AdvancedPreserves
