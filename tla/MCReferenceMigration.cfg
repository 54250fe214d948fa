SPECIFICATION MCSpec
CONSTANTS
    NDocs = 2
    MaxForeign = 1
    MaxSubjects = 1
    MaxFaults = 2
    MaxCrashes = 1
    MaxPlans = 2
    NoPlan = NoPlan
INVARIANTS MigrationInvariant CompletedStaysApplied
PROPERTIES NoForeignEditIsLost
CHECK_DEADLOCK FALSE
