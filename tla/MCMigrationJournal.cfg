SPECIFICATION MCSpec
CONSTANTS
  m1 = m1
  m2 = m2
  d1 = d1
  a1 = a1
  a2 = a2
  Unbound = unbound
  NoBinding = NoBinding
  Nobody = Nobody
  Plans = {m1, m2}
  Documents = {d1}
  Changed <- MCChanged
  Bindings = {unbound, b1}
  Adapters = {a1, a2}
  Authorized = {a1}
  MaxChanges = 13
  MaxAttempts = 2
  MaxFaults = 2
INVARIANTS
  AdapterInvariant
  ServedRootsWereDurable
PROPERTIES
  ImplementsLedger
CHECK_DEADLOCK FALSE
