SPECIFICATION Spec
CONSTANTS
  Calls = {c1}
  MaxRetries = 2
  FailureThreshold = 1
  RecoveryTimeout = 1
  SuccessThreshold = 1
INVARIANT LoggingEndsNoCall
CHECK_DEADLOCK FALSE
