SPECIFICATION Spec
CONSTANTS
  Calls = {c1, c2}
  MaxRetries = 2
  FailureThreshold = 1
  RecoveryTimeout = 1
  SuccessThreshold = 1
INVARIANTS TypeOK ResultTellsExecution SendBudget OneFailurePerCall
PROPERTIES BreakerUndisturbed CallsEnd
