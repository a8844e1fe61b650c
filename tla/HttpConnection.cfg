\* Three requests, heads of two bytes, bodies of up to three, reads of up to
\* four; and every name of up to four characters.
CONSTANTS
    Requests = 3
    HeadLen = 2
    ReadMax = 4
    Kind <- MCKind
    None = None
    NoLength = None
    Wide <- MCWide
    Letter <- MCLetter
    NameLen = 4
SPECIFICATION FairSpec
INVARIANTS TypeOK    LeftoverIsBody HrefsLeadBack
 
CHECK_DEADLOCK FALSE
