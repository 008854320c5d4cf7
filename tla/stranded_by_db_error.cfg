SPECIFICATION FairSpec
CONSTANTS
    Messages = {m1}
    Drainers = {poller}
    Poller = poller
    None = None
    MaxAttempts = 2
    BatchSize = 1
    MaxHosts = 1
    MaxCrashes = 0
    MaxDbErrors = 1
    MaxMisreads = 0
    MaxLost = 0
    m1 = m1
    poller = poller
PROPERTIES
    EverySettles
