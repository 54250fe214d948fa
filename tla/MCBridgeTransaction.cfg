SPECIFICATION MCSpec
CONSTANTS
  Providers = {z2m, brt}
  MaxAttempts = 2
  MaxEpoch = 3
  MaxReleases = 2
  MaxRevision = 2
SYMMETRY MCSymmetry
INVARIANTS
  RecorderInvariant
  RetryStartsWhereTheLastEnded
PROPERTIES
  AllOrNothing
  TerminalIsFinal
CHECK_DEADLOCK FALSE
