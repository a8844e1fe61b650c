\* One session that may send any command, walking and changing directories
\* while other programs do, with a port of the range that another program
\* holds.
CONSTANTS
    s1 = s1
    s2 = s2
    Session = {s1}
    NoClient = NoClient
    PasvMin = 1
    PasvMax = 2
    EphemeralPort = {9}
    ForeignPort = {2}
    SharedBind = FALSE
    Node <- WalkNode
    Root = "root"
    NoNode = NoNode
    Up <- WalkUp
    Under <- WalkUnder
    Inside <- WalkInside
    InitialDisk <- WalkDisk
    Commands <- AllCommands
    UserName = {"user"}
    NoName = ""
    Endpoint = {"client"}
    BadEndpoint = "bad"
    NoEndpoint = "none"
SPECIFICATION FairSpec
INVARIANTS TypeOK  WorkIsLoggedIn
PROPERTIES KeepsDialogue   
CHECK_DEADLOCK FALSE
