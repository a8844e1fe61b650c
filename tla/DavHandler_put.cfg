\* Two clients that upload: a new name is answered 404.
CONSTANTS
    c1 = c1
    c2 = c2
    Conn = {c1, c2}
    Content = {0, 1}
    Methods <- Uploads
    Node <- TreeNode
    Root = "root"
    NoNode = NoNode
    Up <- TreeUp
    Under <- TreeUnder
    Inside <- TreeInside
    InitialDisk <- TreeDisk
    FtpOpens = {"a"}
SPECIFICATION Spec
PROPERTY UploadCreates
CHECK_DEADLOCK FALSE
