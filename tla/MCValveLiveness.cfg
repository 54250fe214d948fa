SPECIFICATION MCFairSpec
CONSTANTS
    r1 = r1
    r2 = r2
    v1 = v1
    v2 = v2
    v3 = v3
    Room = {r1}
    Valve = {v1, v2}
    Target = {t1, t2}
    None = None
    InitialRooms <- MCOneRoom
    DefaultTarget = t1
    MaxSessions = 1
    MaxOps = 1
    MaxEvents = 2
    MaxCallbacks = 1
    MaxCalls = 0
    MaxRestarts = 1
CHECK_DEADLOCK FALSE
PROPERTIES
    PairingEnds
    TestsEnd
