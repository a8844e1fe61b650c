\* Every method on the root and its two entries, with FTP at work on them.
CONSTANTS
    c1 = c1
    c2 = c2
    Conn = {c1, c2}
    Content = {0, 1}
    Methods <- AllAndUploads
    Node <- TreeNode
    Root = "root"
    NoNode = NoNode
    Up <- TreeUp
    Under <- TreeUnder
    Inside <- TreeInside
    InitialDisk <- TreeDisk
    FtpOpens = {"a"}
SPECIFICATION FairSpec
INVARIANTS TypeOK LengthTrue
PROPERTIES RespectsFtp RequestsEnd
CHECK_DEADLOCK FALSE
