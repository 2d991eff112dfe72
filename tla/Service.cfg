SPECIFICATION ServiceSpec
CONSTANTS
  Clients = {c1, c2}
  QueueSize = 1
  MaxEntries = 2
  PipeSize = 1
INVARIANTS TypeOK StreamContiguous
PROPERTIES DeadRemoved EntriesDelivered OnlyHungSurvives
CHECK_DEADLOCK FALSE
