SPECIFICATION MCSpec
CONSTANTS
  Callers = {c1, c2, c3}
  FailureThreshold = 2
  RecoveryTimeout = 1
  SuccessThreshold = 2
  MaxFailureCount = 4
  MaxWindow = 2
INVARIANT OneTrialCall
