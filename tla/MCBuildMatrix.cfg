CONSTANTS
  Targets = {a, b}
  Catalog = {a}
  Workers = {w1, w2}
  Outcomes = {"success", "failed"}
  NoTarget = NoTarget
  MAX_ATTEMPTS_PER_TARGET = 2
  MaxRuns = 2
  MaxEdits = 1
SPECIFICATION MatrixSpec
CHECK_DEADLOCK FALSE
INVARIANTS QueueIsSound RecordedSurvivesKill ExitOkMeansProven
PROPERTIES MatrixTerminates
