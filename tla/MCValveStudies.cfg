SPECIFICATION MCSpec
CONSTANTS
    r1 = r1
    r2 = r2
    v1 = v1
    v2 = v2
    v3 = v3
    Room = {r1, r2}
    Valve = {v1, v2, v3}
    Target = {t1, t2}
    None = None
    InitialRooms <- MCRooms
    DefaultTarget = t1
    MaxSessions = 1
    MaxOps = 2
    MaxEvents = 2
    MaxCallbacks = 1
    MaxCalls = 1
    MaxRestarts = 1
CHECK_DEADLOCK FALSE
INVARIANTS
    RuntimeInvariant
    OpenJoiningIsOwned
PROPERTIES
    OutcomesAreFinal
    SwitchKeepsTheTarget
