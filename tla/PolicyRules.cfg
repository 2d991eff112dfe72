SPECIFICATION Spec
CONSTANTS
  Departments = {"Engineering", "Sales"}
  Categories = {"software"}
  Amounts <- MCAmounts
  Files <- MCFiles
  TooMuch = 10
  None = None
INVARIANTS TypeOK ExactDecision NearestCent BridgeAppliesFile
CHECK_DEADLOCK FALSE
