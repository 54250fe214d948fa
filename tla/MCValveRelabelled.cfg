SPECIFICATION Spec
CONSTANTS
    r1 = r1
    r2 = r2
    v1 = v1
    v2 = v2
    v3 = v3
    Room = {r1, r2}
    Valve = {v1, v2}
    Target = {t1, t2}
    None = None
    InitialRooms <- MCBootstrapped
    DefaultTarget = t1
    MaxSessions = 1
    MaxOps = 1
    MaxEvents = 1
    MaxCallbacks = 1
    MaxCalls = 0
    MaxRestarts = 0
CHECK_DEADLOCK FALSE
PROPERTY FailedStaysFailed
