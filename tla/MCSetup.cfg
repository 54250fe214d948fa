SPECIFICATION MCSpec
CONSTANTS
  MaxBoots = 3
  MaxWork = 2
  Rooms = {r1, r2}
  Entities = {x1, x2, x3}
  Devices = {v1, v2, v3}
  NoDevice = NoDevice
  MaxOffers = 2
  MaxChanges = 2
  Plans = {p1, p2}
  NoPlan = NoPlan
  MaxRevision = 1
  MaxReloads = 2
  MaxTokens = 2
INVARIANTS
  SetupInvariant
  OneUnfinishedPlan
PROPERTIES
  NewestEndpointIsTried
  ConfirmedIsCommitted
  ReportedIsDurable
CHECK_DEADLOCK FALSE
