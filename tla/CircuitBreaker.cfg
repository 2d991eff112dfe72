SPECIFICATION MCSpec
CONSTANTS
  Callers = {c1, c2, c3}
  FailureThreshold = 3
  RecoveryTimeout = 2
  SuccessThreshold = 2
  MaxFailureCount = 6
  MaxWindow = 6
INVARIANTS TypeOK ThresholdInv ProbeInv OpensOnSurplus
PROPERTIES FailedProbeReopens OutageLasts KeepsContract OutageEnds
