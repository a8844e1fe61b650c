\* PASV after PORT, against the comment of DataConnectionType.
CONSTANTS
    s1 = s1
    s2 = s2
    Session = {s1}
    NoClient = NoClient
    PasvMin = 1
    PasvMax = 2
    EphemeralPort = {9}
    ForeignPort = {}
    SharedBind = FALSE
    Node <- FlatNode
    Root = "root"
    NoNode = NoNode
    Up <- FlatUp
    Under <- FlatUnder
    Inside <- FlatNode
    InitialDisk <- FlatDisk
    Commands <- ChannelCommands
    UserName = {"user"}
    NoName = ""
    Endpoint = {"client"}
    BadEndpoint = "bad"
    NoEndpoint = "none"
SPECIFICATION Spec
INVARIANTS PasvSelectsPassive
CHECK_DEADLOCK FALSE
