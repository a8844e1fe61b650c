\* Every transfer of up to three bytes; it is over after its reply.
CONSTANTS
    Content <- MCContent
    BufferSize = 2
SPECIFICATION FairSpec
INVARIANTS TypeOK  
PROPERTIES TransferEnds
CHECK_DEADLOCK FALSE
