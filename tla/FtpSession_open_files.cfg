\* Two sessions and other programs remove, rename and read files.  Once the
\* root itself is removed no session starts: the system really may stop.
CONSTANTS
    s1 = s1
    s2 = s2
    Session = {s1, s2}
    NoClient = NoClient
    PasvMin = 1
    PasvMax = 2
    EphemeralPort = {9}
    ForeignPort = {}
    SharedBind = FALSE
    Node <- FilesNode
    Root = "root"
    NoNode = NoNode
    Up <- FilesUp
    Under <- FilesUnder
    Inside <- FilesNode
    InitialDisk <- FilesDisk
    Commands <- FileCommands
    UserName = {"user"}
    NoName = ""
    Endpoint = {"client"}
    BadEndpoint = "bad"
    NoEndpoint = "none"
SPECIFICATION Spec
SYMMETRY Sessions
INVARIANTS OpenFilesStay
PROPERTIES DiskRespected
CHECK_DEADLOCK FALSE
