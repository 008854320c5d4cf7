SPECIFICATION MCSpec
CONSTANTS
    Workers = {w1, w2}
    SessionIds = {i1, i2}
    Names = {"admin", "root"}
    Passwords = {"old", "new"}
    Pages <- MCPages
    None = None
    MaxRequests = 3
    MaxBoots = 2
    Inboxes = {"home", "work"}
    Addresses = {"shop"}
    MaxRows = 3
    MaxDbErrors = 1
    w1 = w1
    w2 = w2
    i1 = i1
    i2 = i2
SYMMETRY Interchangeable
INVARIANTS
    KeysHold
    OneCreates
    TogglesAlternate
    ConfigurationRules
    LogoutSticks
    FlashShownOnce
PROPERTIES
    DefaultIsKept
CHECK_DEADLOCK FALSE
