SPECIFICATION Spec
CONSTANTS
    s1 = s1
    s2 = s2
    home = home
    work = work
    shop = shop
    news = news
    id1 = id1
    id2 = id2
    tok1 = tok1
    tok2 = tok2
    None = None
    Sessions = {s1, s2}
    Inboxes <- MCInboxes
    Addresses = {shop}
    AliasIds = {id1, id2}
    Tokens = {tok1, tok2}
    Letters <- SellerAndHome
    MaxRecipients = 1
    MaxBlocked = 1
    MaxToggles = 1
    MaxDbErrors = 1
    MaxCrashes = 0
SYMMETRY Interchangeable
INVARIANTS
    TypeOK
    ForwardGoesHome
    RepliesComeFromOwner
    StableReverse
    DisabledStops
    CountersAgree
CHECK_DEADLOCK FALSE
