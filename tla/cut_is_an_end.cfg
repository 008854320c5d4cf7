SPECIFICATION Spec
CONSTANTS
    Addresses <- MCAddresses
    Chars <- MCChars
    Lines <- MCLines
    MaxRecipients = 2
    MaxSize = 6
    MaxLines = 3
    MaxMails = 1
INVARIANTS
    CutIsNotAnEnd
CHECK_DEADLOCK FALSE
