SPECIFICATION Spec
CONSTANTS
  Departments = {"Engineering", "Sales"}
  Categories = {"software"}
  Amounts <- MCAmounts
  Files <- MCFiles
  TooMuch = 10
  None = None
INVARIANT FallbackAppliesFile
CHECK_DEADLOCK FALSE
