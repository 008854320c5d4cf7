SPECIFICATION FairSpec
CONSTANTS
    Messages = {m1, m2}
    Drainers = {poller, caller}
    Poller = poller
    None = None
    MaxAttempts = 2
    BatchSize = 2
    MaxHosts = 1
    MaxCrashes = 1
    MaxDbErrors = 0
    MaxMisreads = 1
    MaxLost = 0
    m1 = m1
    m2 = m2
    poller = poller
    caller = caller
PROPERTIES
    EverySettles
    KeepsPromise
