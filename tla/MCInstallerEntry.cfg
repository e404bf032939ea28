CONSTANTS
  Machines <- MCMachines
  Wanted = {"updates"}
  Forms <- MCForms
  Options = {"updates", "drivers"}
SPECIFICATION Spec
INVARIANTS AttemptsAreTakenBack
PROPERTIES SessionIsKept NetworkPageRecovers
CHECK_DEADLOCK FALSE
