SPECIFICATION MCSpec
CONSTANTS
    None = None
    Other = Other
    MaxRequests = 3
    MaxForeign = 1
    MaxFaults = 1
    MaxSetups = 1
    NoRecord = NoRecord
    MaxRestores = 2
    MaxUnclaimed = 1
    MaxSequences = 8
    MaxGeneration = 7
    MaxProbes = 1
    MaxStarts = 1
CHECK_DEADLOCK FALSE
INVARIANTS
    BeliefsAreTrue
    AcceptedWindowIsOurs
    ProbeInvariant
    ChallengeIsWatched
PROPERTY
    ImplementsJoinBarrier
