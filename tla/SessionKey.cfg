SPECIFICATION Spec
CONSTANTS
  Employees = {e1, e2}
  Secrets = {s1, s2}
  Ttls = {1, 2}
  Second = 2
  Skew = 1
  MaxTime = 10
  MaxKeys = 1
INVARIANTS TypeOK KeyHonoured KeyExpires NoFallbackKey
