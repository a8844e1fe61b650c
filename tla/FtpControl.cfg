\* Both kinds of client; they stop when they have nothing more to send.
CONSTANTS
    StreamLen = 14
    EndOfLine = {3, 4, 9, 14}
    MaybeEmpty = {4}
    ReadMax = 4
SPECIFICATION FairSpec
INVARIANTS NoLineLost NoLineWaits
PROPERTIES LinesAnswered
CHECK_DEADLOCK FALSE
