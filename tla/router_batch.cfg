SPECIFICATION Spec
CONSTANTS
    s1 = s1
    s2 = s2
    home = home
    work = work
    shop = shop
    news = news
    id1 = id1
    id2 = id2
    tok1 = tok1
    tok2 = tok2
    None = None
    Sessions = {s1}
    Inboxes <- MCInboxes
    Addresses = {shop, news}
    AliasIds = {id1, id2}
    Tokens = {tok1, tok2}
    Letters <- SellerAndBounce
    MaxRecipients = 2
    MaxBlocked = 1
    MaxToggles = 1
    MaxDbErrors = 1
    MaxCrashes = 1
SYMMETRY Interchangeable
INVARIANTS
    AckMeansAllQueued
CHECK_DEADLOCK FALSE
