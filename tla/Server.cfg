\* Pools of one, two and three threads; three clients for two sockets.
CONSTANTS
    c1 = c1
    c2 = c2
    c3 = c3
    Conn = {c1, c2, c3}
    Wants <- TwoAndOne
    MaxPool = 3
    Descriptors = 2
SPECIFICATION FairSpec
INVARIANTS NothingOutlivesThreads ServesWhenComplete OneMoreAtMost
PROPERTIES SignalEnds ClientsAccepted
CHECK_DEADLOCK FALSE
