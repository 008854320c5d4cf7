SPECIFICATION TextSpec
CONSTANTS
    Names <- MCNames
    People <- MCPeople
    TheMailbox = "mailbox"
    TheContact = "contact"
    TheAlias = "alias"
    TheReverse = "reverse"
    LineBound = 1
    MaxLocal = 1
    MaxDomain = 4
    Domains <- MCDomains
    Remarks <- MCRemarks
    TextBound = 0
INVARIANT ContactSeesOnlyAlias
CHECK_DEADLOCK FALSE
