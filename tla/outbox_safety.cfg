SPECIFICATION Spec
CONSTANTS
    Messages = {m1, m2}
    Drainers = {poller, caller}
    Poller = poller
    None = None
    MaxAttempts = 2
    BatchSize = 1
    MaxHosts = 2
    MaxCrashes = 1
    MaxDbErrors = 1
    MaxMisreads = 0
    MaxLost = 1
    m1 = m1
    m2 = m2
    poller = poller
    caller = caller
SYMMETRY MessageSymmetry
INVARIANTS
    TypeOK
    ExclusiveClaim
    SnapshotIsFresh
    CopiesBounded
    NothingStranded
    GivesUpOnlyAfterAllTries
    QueuedHasSpool
    DeliveredWasAccepted
PROPERTIES
    SettledIsFinal
