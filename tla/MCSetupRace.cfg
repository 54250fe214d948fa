SPECIFICATION ManagerSpec
CONSTANTS
  Plans = {p1, p2}
  NoPlan = NoPlan
  MaxRevision = 1
  MaxReloads = 2
  MaxTokens = 2
INVARIANT
  ExecutionStartsFresh
CHECK_DEADLOCK FALSE
