SPECIFICATION Spec
CONSTANTS
  SlackAttempts = 3
  TeamsAttempts = 3
  None = None
INVARIANTS TypeOK EveryChannelTried ResultTellsAnswers DeliveryBudget
PROPERTY RunEnds
CHECK_DEADLOCK FALSE
