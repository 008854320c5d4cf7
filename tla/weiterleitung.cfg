SPECIFICATION MailSpec
CONSTANTS
    Messages <- MCMessages
    Recipients = {r1, r2}
    MaxTries = 2
    MaxFailures = 1
    Drainers = {poller}
    Poller = poller
    None = None
    MaxAttempts = 1
    BatchSize = 1
    MaxHosts = 1
    MaxCrashes = 1
    MaxDbErrors = 0
    MaxMisreads = 0
    MaxLost = 0
    r1 = r1
    r2 = r2
    poller = poller
SYMMETRY RecipientSymmetry
INVARIANTS
    MailTypeOK
    AckedIsQueued
    NoCopyWithoutCause
PROPERTIES
    HandsOver
CHECK_DEADLOCK FALSE
