SPECIFICATION Spec
CONSTANTS
  Requests = {r1, r2, r3}
  Departments = {d1}
  Categories = {c1, c2}
  TTL = 2
  Latency = 1
  MaxTime = 3
  MaxVersion = 2
  Local = Local
  None = None
SYMMETRY MCSymmetry
INVARIANTS TypeOK CacheTrusted
PROPERTY KeepsPromise
CHECK_DEADLOCK FALSE
