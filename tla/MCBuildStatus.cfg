CONSTANTS
  Entries = {"cad", "office"}
  Bases = {"ubuntu", "debian"}
  OwnBase <- MCOwnBase
  DefaultBase = "ubuntu"
  CoverBases = {}
  Targets <- MCPlan
  Workers = {w1, w2}
  Outcomes = {"success", "failed", "skipped"}
  NoTarget = NoTarget
  MAX_ATTEMPTS_PER_TARGET = 1
  Local = {l}
  Production = {p}
  HISTORY_LIMIT = 1
  MaxRuns = 2
  MaxUploadFaults = 1
SPECIFICATION ConfSpec
CHECK_DEADLOCK FALSE
INVARIANTS BadgeIsHonest ExitOkMeansPublished
PROPERTIES ProductionWasRehearsed
SYMMETRY WorkerSymmetry
