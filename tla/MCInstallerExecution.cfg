SPECIFICATION Spec
CONSTANTS
  Plans <- AllPlans
  MaxAttempts = 2
  MaxFaults = 2
INVARIANTS SuccessIsComplete KeysAndSecrets FaultlessAttemptSucceeds
PROPERTIES OthersUntouched
