\* STOR against the end of stream its comment names.
CONSTANTS
    Content <- MCContent
    BufferSize = 2
SPECIFICATION Spec
INVARIANTS StorEndsWell
CHECK_DEADLOCK FALSE
