SPECIFICATION Spec
CONSTANTS
  Requests = {r1, r2}
  Departments = {d1}
  Categories = {c1}
  TTL = 2
  Latency = 1
  MaxTime = 2
  MaxVersion = 1
  Local = Local
  None = None
INVARIANT BridgeErrorUsesLocal
CHECK_DEADLOCK FALSE
