SPECIFICATION Spec
CONSTANTS
    Addresses <- MCAddresses
    Chars <- MCChars
    Lines <- MCLines
    MaxRecipients = 2
    MaxSize = 6
    MaxLines = 3
    MaxMails = 2
INVARIANTS
    TypeOK
    RecipientsAreVouchedFor
    HandedOverOnce
    DataIsWhole
    SizeIsExact
CHECK_DEADLOCK FALSE
