---------------------------- MODULE MCDavHandler ----------------------------
(***************************************************************************)
(* A small instance of DavHandler: a root with two entries, in a directory *)
(* that does not belong to the server; the entries may be files or         *)
(* directories, and FTP may change everything but that.                    *)
(***************************************************************************)
EXTENDS DavHandler

CONSTANTS c1, c2

TreeUp == [outside |-> "outside", root |-> "outside", a |-> "root", b |-> "root"]
TreeNode == DOMAIN TreeUp
TreeUnder == {<<n, m>> \in TreeNode \X TreeNode : m \in {n, TreeUp[n], TreeUp[TreeUp[n]]}}
TreeInside == TreeNode \ {"outside"}
TreeDisk ==
    {[outside |-> "dir", root |-> "dir", a |-> "file", b |-> k] : k \in {"dir", "absent"}}

(* One client asks for anything, another uploads and deletes.              *)
AllAndUploads == [c \in Conn |-> IF c = c1 THEN Method ELSE {"PUT", "DELETE"}]

Uploads == [c \in Conn |-> {"PUT"}]
=============================================================================
