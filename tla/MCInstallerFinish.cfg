CONSTANTS
  Steps <- MCSteps
  PipeRoom = 1
  MaxInstalls = 2
  MaxFaults = 1
  MaxEdits = 3
  MaxBacks = 4
SPECIFICATION Spec
INVARIANTS PlanIsReviewed OneInstallation ResultIsReported
PROPERTIES NothingUnwatched ResultArrives
CHECK_DEADLOCK FALSE
