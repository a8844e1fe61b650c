\* Two clients and two passive ports, on a machine that shares no port.
\* A session whose client has gone may wait for a connection for ever: the
\* system really may stop.
CONSTANTS
    s1 = s1
    s2 = s2
    Session = {s1, s2}
    NoClient = NoClient
    PasvMin = 1
    PasvMax = 2
    EphemeralPort = {9}
    ForeignPort = {}
    SharedBind = FALSE
    Node <- FlatNode
    Root = "root"
    NoNode = NoNode
    Up <- FlatUp
    Under <- FlatUnder
    Inside <- FlatNode
    InitialDisk <- FlatDisk
    Commands <- ChannelCommands
    UserName = {"user"}
    NoName = ""
    Endpoint = {"client"}
    BadEndpoint = "bad"
    NoEndpoint = "none"
SPECIFICATION Spec
SYMMETRY Sessions
   
PROPERTIES UsesChannels
CHECK_DEADLOCK FALSE
