SPECIFICATION TextSpec
CONSTANTS
    Names <- MCNames
    People <- MCPeople
    TheMailbox = "mailbox"
    TheContact = "contact"
    TheAlias = "alias"
    TheReverse = "reverse"
    LineBound = 4
    MaxLocal = 1
    MaxDomain = 4
    Domains <- MCDomains
    Remarks <- MCRemarks
    TextBound = 6
INVARIANTS
    StripIsExact
    ValueIsFirstField
    BodyIsForwarded
    OneSender
    SpellingDoesNotMatter
    BounceNamesItsSender
CHECK_DEADLOCK FALSE
