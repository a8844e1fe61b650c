---------------------------- MODULE MCFtpSession ----------------------------
(***************************************************************************)
(* Small instances of FtpSession: sessions over one of three trees.        *)
(*   Flat  the root alone, where the data connections are the question;    *)
(*   Files the root with the files "inner" and "leaf", where open files    *)
(*         are;                                                            *)
(*   Walk  the root with "dir" and "inner" in a directory "outside".       *)
(***************************************************************************)
EXTENDS FtpSession, TLC

CONSTANTS s1, s2

Sessions == Permutations(Session)

(* The node relations that go with an Up function on a tree three deep.    *)
UnderOf(up) ==
    {<<n, a>> \in (DOMAIN up) \X (DOMAIN up) : a \in {n, up[n], up[up[n]], up[up[up[n]]]}}

FlatUp == [root |-> "root"]
FlatNode == DOMAIN FlatUp
FlatUnder == UnderOf(FlatUp)
FlatDisk == {[root |-> "dir"]}

FilesUp == [root |-> "root", inner |-> "root", leaf |-> "root"]
FilesNode == DOMAIN FilesUp
FilesUnder == UnderOf(FilesUp)
FilesDisk == {[root |-> "dir", inner |-> "file", leaf |-> "file"]}

WalkUp == [outside |-> "outside", root |-> "outside", dir |-> "root", inner |-> "dir"]
WalkNode == DOMAIN WalkUp
WalkUnder == UnderOf(WalkUp)
WalkInside == {n \in WalkNode : <<n, "root">> \in WalkUnder}
WalkDisk == {[outside |-> "dir", root |-> "dir", dir |-> "dir", inner |-> "file"]}

LoginCommands == {"USER", "PASS"}

ChannelCommands == LoginCommands \cup {"PASV", "PORT", "LIST", "QUIT"}

(* What removes, renames and opens files.                                  *)
FileCommands == LoginCommands \cup {"PORT", "RETR", "DELE", "RNFR", "RNTO"}

(* One session that may send anything.                                     *)
AllCommands == Command
=============================================================================
