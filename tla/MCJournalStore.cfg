SPECIFICATION StoreSpec
CONSTANTS
    JournalId = {j1, j2}
    Payload = {p1, p2}
    RequestId = {i1, i2, i3, i4}
    Digest = {d1, d2}
    MaxGeneration = 3
    MaxReceipts = 2
    None = None
SYMMETRY MCSymmetry
INVARIANTS
    StoreTypeOK
    StartupAccepts
    CommitsFormAChain
    ReceiptsTellTheLog
    NoDoubleCommit
    RetainedSavesReplay
    IndexesNeverFire
