SPECIFICATION MCSpec
CONSTANTS
  NoStore = NoStore
  Stores = {p1, p2}
  MaxDocs = 3
  MaxInode = 4
  MaxQueue = 1
  MaxMishaps = 3
INVARIANTS
  DirectoryInvariant
  ReturnedIsDurable
PROPERTIES
  ImplementsRegister
  ClosingEnds
CHECK_DEADLOCK FALSE
