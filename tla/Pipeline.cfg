SPECIFICATION Spec
CONSTANTS
  Requests = {r1, r2}
  Alerts = 2
  MaxBoots = 2
INVARIANTS TypeOK TrailTellsAnswer CountersAgree
PROPERTIES KeepsContract SubmissionsAnswered
CHECK_DEADLOCK FALSE
