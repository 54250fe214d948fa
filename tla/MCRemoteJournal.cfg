SPECIFICATION MCSpec
CONSTANTS
    JournalId = {j1}
    Journal = j1
    Payload = {p1}
    RequestId <- MCRequestId
    Digest <- MCDigest
    MaxGeneration = 1
    MaxReceipts = 1
    None = None
    c1 = c1
    c2 = c2
    Client = {c1, c2}
    MaxBoot = 2
    MaxReplayEntries = 1
    MaxConnections = 2
    ReadAttempts = 2
    MaxPosts = 5
CHECK_DEADLOCK FALSE
INVARIANTS
    RemoteInvariant
PROPERTIES
    ImplementsCasJournal
    WaitsEnd
