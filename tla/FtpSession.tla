----------------------------- MODULE FtpSession -----------------------------
(***************************************************************************)
(* The FTP service: every FTPSession of ftp/ftp_session.cpp with the       *)
(* handlers of ftp/ftp_command_processor.cpp, over the data channels and   *)
(* the directory tree they share.                                          *)
(*                                                                         *)
(* All FTP sessions are coroutines of one io_context run by one thread     *)
(* (main.cpp, io_context_pool.hpp): what a session does between two        *)
(* suspensions is one step, and other sessions, clients and programs step  *)
(* in between.  pc says where a session is suspended:                      *)
(*    "closed"   no session                                                *)
(*    "welcome"  writing the greeting       "idle"    reading a command    *)
(*    "prelim"   writing the 150 reply      "reply"   writing the answer   *)
(*    "accept"   waiting for the client's data connection                  *)
(*    "connect"  opening one to the client                                 *)
(*    "transfer" sending or receiving on it                                *)
(***************************************************************************)
EXTENDS FileTree, DataChannel

CONSTANTS Commands,     \* the commands clients send
          UserName, NoName,                     \* NoName: the empty name
          Endpoint, BadEndpoint, NoEndpoint,    \* BadEndpoint: no address parses
          InitialDisk   \* what the disk may hold when the server starts

TransferCommand == {"LIST", "NLST", "RETR", "STOR"}

LoginCommand == TransferCommand \cup
    {"DELE", "RNFR", "RNTO", "CWD", "CDUP", "PWD", "MKD", "RMD", "SIZE"}

(* Commands whose reply depends on their argument alone.                   *)
StatelessReply ==
    [NOOP |-> {200}, FEAT |-> {211}, OPTS |-> {200}, MDTM |-> {213},
     TYPE |-> {200, 501}, UNKNOWN |-> {500}]

Command == LoginCommand \cup DOMAIN StatelessReply \cup {"USER", "PASS", "QUIT", "PORT", "PASV"}

FinalCode == {200, 211, 213, 226, 227, 230, 250, 257, 331, 350, 421,
              500, 501, 503, 530, 550}

NoCode == 0

NoJob == [cmd |-> "none", node |-> NoNode]

ASSUME SessionAssumption ==
    /\ Commands \subseteq Command
    /\ NoName \notin UserName
    /\ BadEndpoint \notin Endpoint /\ NoEndpoint \notin Endpoint
    /\ InitialDisk \subseteq {d \in Disk : WellFormed(d) /\ d[Root] = "dir"}

VARIABLES pc,      \* where each session is suspended
          code,    \* the reply code it is writing
          job,     \* the transfer it runs: command and argument
          state,   \* its FTPSessionState
          online,  \* the control connection is up
          disk     \* what every node is

sessionVars == <<pc, code, job, state, online, disk>>

vars == <<pc, code, job, state, online, disk,
          acceptor, passivePort, backlog, offered, announced, data>>

SessionState ==
    [username : UserName \cup {NoName}, authenticated : BOOLEAN,
     current : Node, connType : {"ACTIVE", "PASSIVE"},
     endpoint : Endpoint \cup {BadEndpoint, NoEndpoint},
     renameFrom : Node \cup {NoNode}]

PC == {"closed", "welcome", "idle", "prelim", "accept", "connect", "transfer", "reply"}

Job == [cmd : TransferCommand \cup {"none"}, node : Node \cup {NoNode}]

TypeOK ==
    /\ ChannelTypeOK
    /\ pc \in [Session -> PC]
    /\ code \in [Session -> FinalCode \cup {NoCode}]
    /\ job \in [Session -> Job]
    /\ state \in [Session -> SessionState]
    /\ online \in [Session -> BOOLEAN]
    /\ disk \in Disk

(* A new FTPSessionState, after the constructor of FTPSession.             *)
InitialState ==
    [username |-> NoName, authenticated |-> FALSE, current |-> Root,
     connType |-> "PASSIVE", endpoint |-> NoEndpoint, renameFrom |-> NoNode]

Init ==
    /\ ChannelInit
    /\ pc = [s \in Session |-> "closed"]
    /\ code = [s \in Session |-> NoCode]
    /\ job = [s \in Session |-> NoJob]
    /\ state = [s \in Session |-> InitialState]
    /\ online = [s \in Session |-> FALSE]
    /\ disk \in InitialDisk

(* Files an FTP transfer has open.                                         *)
Busy == {job[s].node : s \in {u \in Session : pc[u] = "transfer" /\ job[u].cmd \in {"RETR", "STOR"}}}

-----------------------------------------------------------------------------
(* Sessions begin, answer and end.                                         *)

(* A client connects: the session is built, unless canonical(root) throws  *)
(* because the root is gone, when the connection is dropped.               *)
Connect(s) ==
    /\ pc[s] = "closed" /\ Exists(disk, Root)
    /\ pc' = [pc EXCEPT ![s] = "welcome"]
    /\ online' = [online EXCEPT ![s] = TRUE]
    /\ UNCHANGED <<code, job, state, disk, channelVars>>

WelcomeWritten(s) ==
    /\ pc[s] = "welcome" /\ online[s]
    /\ pc' = [pc EXCEPT ![s] = "idle"]
    /\ UNCHANGED <<code, job, state, online, disk, channelVars>>

(* A handler returns its reply, which process_one_command then writes.     *)
Reply(s, c) ==
    /\ pc' = [pc EXCEPT ![s] = "reply"]
    /\ code' = [code EXCEPT ![s] = c]

(* The coroutine of start() returns and the session is destroyed.          *)
EndSession(s) ==
    /\ pc' = [pc EXCEPT ![s] = "closed"]
    /\ code' = [code EXCEPT ![s] = NoCode]
    /\ job' = [job EXCEPT ![s] = NoJob]
    /\ state' = [state EXCEPT ![s] = InitialState]
    /\ online' = [online EXCEPT ![s] = FALSE]
    /\ CloseAll(s)
    /\ UNCHANGED disk

(* The reply is written and the session reads on; 421 is QUIT's and ends   *)
(* it (active_).                                                           *)
ReplyWritten(s) ==
    /\ pc[s] = "reply"
    /\ IF code[s] = 421
         THEN EndSession(s)
         ELSE /\ pc' = [pc EXCEPT ![s] = "idle"]
              /\ code' = [code EXCEPT ![s] = NoCode]
              /\ IF code[s] = 227 THEN Announce(s) ELSE UNCHANGED channelVars
              /\ UNCHANGED <<job, state, online, disk>>

(* A slip of ControlFails: a client that leaves before its greeting is     *)
(* not noticed.                                                            *)
ControlFailsAfterWelcome(s) ==
    /\ pc[s] \in {"idle", "reply"} /\ ~online[s]
    /\ EndSession(s)

(* Reading or writing on a broken control connection ends the session.     *)
ControlFails(s) ==
    /\ pc[s] \in {"welcome", "idle", "reply"} /\ ~online[s]
    /\ EndSession(s)

-----------------------------------------------------------------------------
(* Handlers.  Each is the reply to one command read at "idle".             *)

Receives(s, cmd) == pc[s] = "idle" /\ online[s] /\ cmd \in Commands

(* A slip of Permitted: the check of is_authenticated is gone.             *)
PermittedToAll(s, cmd) == Receives(s, cmd)

Permitted(s, cmd) == Receives(s, cmd) /\ state[s].authenticated

(* handle_list ... handle_size begin with this check.                      *)
NotLoggedIn(s) ==
    /\ \E cmd \in LoginCommand : Receives(s, cmd)
    /\ ~state[s].authenticated
    /\ Reply(s, 530)
    /\ UNCHANGED <<job, state, online, disk, channelVars>>

Stateless(s) ==
    /\ \E cmd \in DOMAIN StatelessReply :
          Receives(s, cmd) /\ \E c \in StatelessReply[cmd] : Reply(s, c)
    /\ UNCHANGED <<job, state, online, disk, channelVars>>

User(s) ==
    /\ Receives(s, "USER")
    /\ \E u \in UserName \cup {NoName} : state' = [state EXCEPT ![s].username = u]
    /\ Reply(s, 331)
    /\ UNCHANGED <<job, online, disk, channelVars>>

(* Any password will do once a name was given.                             *)
Pass(s) ==
    /\ Receives(s, "PASS")
    /\ \/ /\ state[s].username = NoName
          /\ Reply(s, 530) /\ UNCHANGED state
       \/ /\ state[s].username # NoName
          /\ Reply(s, 230) /\ state' = [state EXCEPT ![s].authenticated = TRUE]
    /\ UNCHANGED <<job, online, disk, channelVars>>

Quit(s) ==
    /\ Receives(s, "QUIT")
    /\ Reply(s, 421)
    /\ UNCHANGED <<job, state, online, disk, channelVars>>

PortCommand(s) ==
    /\ Receives(s, "PORT")
    /\ \E e \in Endpoint \cup {BadEndpoint} :
          state' = [state EXCEPT ![s].endpoint = e, ![s].connType = "ACTIVE"]
    /\ Reply(s, 200)
    /\ UNCHANGED <<job, online, disk, channelVars>>

(* Not six numbers: 501.  A number stoi cannot hold: 550.                  *)
PortRejected(s) ==
    /\ Receives(s, "PORT")
    /\ \E c \in {501, 550} : Reply(s, c)
    /\ UNCHANGED <<job, state, online, disk, channelVars>>

(* The data connection type is left as it was.                             *)
Pasv(s) ==
    /\ Receives(s, "PASV")
    /\ Reply(s, 227)
    /\ CreatePassiveChannel(s)
    /\ UNCHANGED <<job, state, online, disk>>

(* The port was taken between the probe and the bind: the old listener, if *)
(* any, stays.                                                             *)
PasvFails(s) ==
    /\ Receives(s, "PASV")
    /\ Reply(s, 550)
    /\ UNCHANGED <<job, state, online, disk, channelVars>>

(* The path n resolves to, from anywhere: clients reach every node by      *)
(* absolute paths and "..".                                                *)
Target(n) == Resolve(disk, n)

(* remove_all on an existing node, by DELE (on a directory) or RMD.        *)
RemoveTree(s, n) ==
    IF Below(disk, n) \cap Busy = {}
      THEN disk' = Without(disk, Below(disk, n)) /\ Reply(s, 226)
      ELSE /\ \E R \in PartialRemovals(disk, n, Busy) : disk' = Without(disk, R)
           /\ Reply(s, 550)

Dele(s) ==
    /\ Permitted(s, "DELE")
    /\ \E n \in Node :
          \/ Target(n) = NoNode /\ Reply(s, 550) /\ UNCHANGED disk
          \/ /\ Target(n) # NoNode /\ disk[n] = "dir"
             /\ RemoveTree(s, n)
          \/ /\ Target(n) # NoNode /\ disk[n] = "file" /\ n \in Busy
             /\ Reply(s, 550) /\ UNCHANGED disk
          \/ /\ Target(n) # NoNode /\ disk[n] = "file" /\ n \notin Busy
             /\ Reply(s, 226) /\ disk' = Without(disk, {n})
    /\ UNCHANGED <<job, state, online, channelVars>>

Rmd(s) ==
    /\ Permitted(s, "RMD")
    /\ \E n \in Node :
          \/ Target(n) = NoNode /\ Reply(s, 550) /\ UNCHANGED disk
          \/ Target(n) # NoNode /\ RemoveTree(s, n)
    /\ UNCHANGED <<job, state, online, channelVars>>

Rnfr(s) ==
    /\ Permitted(s, "RNFR")
    /\ \E n \in Node :
          \/ Target(n) = NoNode /\ Reply(s, 550) /\ UNCHANGED state
          \/ /\ Target(n) # NoNode /\ Reply(s, 350)
             /\ state' = [state EXCEPT ![s].renameFrom = Target(n)]
    /\ UNCHANGED <<job, online, disk, channelVars>>

(* get_rename_from returns a reference to a temporary path: reading it     *)
(* yields the stored path or nothing.  A path once stored stays stored.    *)
RenameFromRead(s) == {state[s].renameFrom, NoNode}

(* The argument is empty (501) or names n.                                 *)
Rnto(s) ==
    /\ Permitted(s, "RNTO")
    /\ \E from \in RenameFromRead(s), n \in Node :
          \/ from = NoNode /\ Reply(s, 503) /\ UNCHANGED disk
          \/ from # NoNode /\ Reply(s, 501) /\ UNCHANGED disk
          \/ from # NoNode /\ Target(n) = NoNode /\ Reply(s, 550) /\ UNCHANGED disk
          \/ /\ from # NoNode /\ Target(n) # NoNode
             /\ IF CanRename(disk, from, n, Busy)
                  THEN Reply(s, 226) /\ disk' = Rename(disk, from, n)
                  ELSE Reply(s, 550) /\ UNCHANGED disk
    /\ UNCHANGED <<job, state, online, channelVars>>

ChangeDirectory(s, n) ==
    IF Target(n) # NoNode /\ disk[n] = "dir"
      THEN Reply(s, 250) /\ state' = [state EXCEPT ![s].current = n]
      ELSE Reply(s, 550) /\ UNCHANGED state

Cwd(s) ==
    /\ Permitted(s, "CWD")
    /\ \E n \in Node : ChangeDirectory(s, n)
    /\ UNCHANGED <<job, online, disk, channelVars>>

(* CDUP is CWD with "..".                                                  *)
Cdup(s) ==
    /\ Permitted(s, "CDUP")
    /\ ChangeDirectory(s, Up[state[s].current])
    /\ UNCHANGED <<job, online, disk, channelVars>>

(* get_relative_path throws when the directory or the root is gone.        *)
Pwd(s) ==
    /\ Permitted(s, "PWD")
    /\ Reply(s, IF Exists(disk, Root) /\ Exists(disk, state[s].current) THEN 257 ELSE 550)
    /\ UNCHANGED <<job, state, online, disk, channelVars>>

(* Only a path that exists resolves, so there is nothing left to create.   *)
Mkd(s) ==
    /\ Permitted(s, "MKD")
    /\ \E n \in Node :
          IF Target(n) # NoNode /\ CanCreate(disk, n)
            THEN Reply(s, 257) /\ disk' = CreateDirectories(disk, n)
            ELSE Reply(s, 550) /\ UNCHANGED disk
    /\ UNCHANGED <<job, state, online, channelVars>>

Size(s) ==
    /\ Permitted(s, "SIZE")
    /\ \E n \in Node :
          Reply(s, IF Target(n) # NoNode /\ disk[n] = "file" THEN 213 ELSE 550)
    /\ UNCHANGED <<job, state, online, disk, channelVars>>

-----------------------------------------------------------------------------
(* Transfers: execute_list, execute_retr, execute_stor.                    *)

(* A transfer command passes the checks of its handler and its 150 reply   *)
(* is being written.  An empty argument of LIST is the current directory.  *)
BeginTransfer(s) ==
    /\ \E cmd \in TransferCommand, n \in Node :
          /\ Permitted(s, cmd)
          /\ job' = [job EXCEPT ![s] = [cmd |-> cmd, node |-> n]]
    /\ pc' = [pc EXCEPT ![s] = "prelim"]
    /\ UNCHANGED <<code, state, online, disk, channelVars>>

MissingFilename(s) ==
    /\ \E cmd \in {"RETR", "STOR"} : Permitted(s, cmd)
    /\ Reply(s, 501)
    /\ UNCHANGED <<job, state, online, disk, channelVars>>

(* A slip of Abandon: the exception leaves process_command, and the reply  *)
(* is never written.                                                       *)
AbandonSilently(s) ==
    /\ pc' = [pc EXCEPT ![s] = "idle"]
    /\ job' = [job EXCEPT ![s] = NoJob]
    /\ UNCHANGED code

(* Whatever a transfer throws, process_command answers 550.                *)
Abandon(s) == Reply(s, 550) /\ job' = [job EXCEPT ![s] = NoJob]

(* establish_data_connection, up to where it suspends: a passive listener  *)
(* must be there, an active endpoint must be an address.                   *)
PrelimWritten(s) ==
    /\ pc[s] = "prelim"
    /\ LET passive == state[s].connType = "PASSIVE" IN
       \/ /\ passive /\ PassivePending(s)
          /\ pc' = [pc EXCEPT ![s] = "accept"] /\ UNCHANGED <<code, job>>
       \/ passive /\ ~PassivePending(s) /\ Abandon(s)
       \/ /\ ~passive /\ state[s].endpoint # BadEndpoint
          /\ pc' = [pc EXCEPT ![s] = "connect"] /\ UNCHANGED <<code, job>>
       \/ ~passive /\ state[s].endpoint = BadEndpoint /\ Abandon(s)
    /\ UNCHANGED <<state, online, disk, channelVars>>

(* The handler swallows the failed write; the next write finds it again.   *)
PrelimFails(s) ==
    /\ pc[s] = "prelim" /\ ~online[s]
    /\ Abandon(s)
    /\ UNCHANGED <<state, online, disk, channelVars>>

(* LIST and NLST take a directory, and a file too; RETR and STOR open an   *)
(* existing file for update.                                               *)
Transferable(cmd, n) ==
    Target(n) # NoNode /\ (cmd \in {"RETR", "STOR"} => disk[n] = "file")

(* With the data connection up, the path is resolved and the file opened   *)
(* or the directory read, all before the first byte moves.                 *)
StartTransfer(s) ==
    LET cmd == job[s].cmd
        n == job[s].node
    IN  /\ Transferable(cmd, n)
        /\ pc' = [pc EXCEPT ![s] = "transfer"]
        /\ UNCHANGED <<code, job>>

(* The path does not resolve, or the file does not open.                   *)
TransferRefused(s) ==
    /\ ~Transferable(job[s].cmd, job[s].node) \/ job[s].cmd \in {"RETR", "STOR"}
    /\ Abandon(s)

(* A slip of AcceptsConnection: the listener stays open for the next       *)
(* connection.                                                             *)
AcceptsConnectionKeepsListener(s) ==
    /\ pc[s] = "accept"
    /\ \E t \in backlog[s] :
          /\ backlog' = [backlog EXCEPT ![s] = @ \ {t}]
          /\ \/ StartTransfer(s) /\ data' = [data EXCEPT ![s] = t]
             \/ TransferRefused(s) /\ data' = [data EXCEPT ![s] = NoClient]
    /\ UNCHANGED <<acceptor, passivePort, offered, announced, state, online, disk>>

(* The connection arrives and the transfer goes on.                        *)
AcceptsConnection(s) ==
    /\ pc[s] = "accept"
    /\ \E t \in Session :
          /\ TakeConnection(s, t)
          /\ \/ StartTransfer(s) /\ data' = [data EXCEPT ![s] = t]
             \/ TransferRefused(s) /\ data' = [data EXCEPT ![s] = NoClient]
    /\ UNCHANGED <<state, online, disk>>

ConnectsToClient(s) ==
    /\ pc[s] = "connect"
    /\ \/ StartTransfer(s) /\ CreateActiveChannel(s)
       \/ TransferRefused(s) /\ CloseData(s)
    /\ UNCHANGED <<state, online, disk>>

ConnectFails(s) ==
    /\ pc[s] = "connect"
    /\ Abandon(s)
    /\ UNCHANGED <<state, online, disk, channelVars>>

(* Sending ends or fails.  Receiving only ever ends by the exception that  *)
(* async_read_some throws at the end of the stream.                        *)
TransferReply(cmd) == IF cmd = "STOR" THEN {550} ELSE {226, 550}

FinishTransfer(s) ==
    /\ pc[s] = "transfer"
    /\ \E c \in TransferReply(job[s].cmd) : Reply(s, c)
    /\ job' = [job EXCEPT ![s] = NoJob]
    /\ CloseData(s)
    /\ UNCHANGED <<state, online, disk>>

-----------------------------------------------------------------------------
(* Clients and other programs.                                             *)

(* Client s opens its data connection.                                     *)
ClientOpensData(s) ==
    /\ online[s]
    /\ ClientConnects(s) \/ ClientIsRefused(s)
    /\ UNCHANGED sessionVars

(* Client s goes, or its control connection breaks.                        *)
ClientLeaves(s) ==
    /\ online[s]
    /\ online' = [online EXCEPT ![s] = FALSE]
    /\ ClientForgets(s)
    /\ UNCHANGED <<pc, code, job, state, disk>>

(* WebDAV connections and programs on the machine change the tree as they  *)
(* like, within what DavHandler promises (Respects).                       *)
OtherProgram ==
    /\ \E e \in Trees : Respects(disk, e, Busy) /\ disk' = e
    /\ UNCHANGED <<pc, code, job, state, online, channelVars>>

-----------------------------------------------------------------------------
Handler(s) ==
    \/ NotLoggedIn(s) \/ Stateless(s) \/ User(s) \/ Pass(s) \/ Quit(s)
    \/ PortCommand(s) \/ PortRejected(s) \/ Pasv(s) \/ PasvFails(s)
    \/ Dele(s) \/ Rmd(s) \/ Rnfr(s) \/ Rnto(s) \/ Cwd(s) \/ Cdup(s)
    \/ Pwd(s) \/ Mkd(s) \/ Size(s) \/ BeginTransfer(s) \/ MissingFilename(s)

(* What the server's coroutines do by themselves.                          *)
ServerStep(s) ==
    \/ WelcomeWritten(s) \/ ReplyWritten(s) \/ ControlFails(s)
    \/ PrelimWritten(s) \/ PrelimFails(s)
    \/ AcceptsConnection(s) \/ ConnectsToClient(s) \/ ConnectFails(s)
    \/ FinishTransfer(s)

ClientStep(s) == Connect(s) \/ ClientOpensData(s) \/ ClientLeaves(s)

Next ==
    \/ \E s \in Session : Handler(s) \/ ServerStep(s) \/ ClientStep(s)
    \/ OtherProgram

Spec == Init /\ [][Next]_vars

(* The io_context resumes every coroutine whose operation has completed;   *)
(* a transfer ends, an outgoing connection is made or refused; and a client*)
(* that was told a port and is still there connects to it.                 *)
Fairness ==
    \A s \in Session : WF_vars(ServerStep(s)) /\ WF_vars(ClientOpensData(s))

FairSpec == Spec /\ Fairness

-----------------------------------------------------------------------------
(* Safety.                                                                 *)

(* What a session keeps between commands, its current directory and the    *)
(* path given to RNFR, and the file it has open, lies under the root,      *)
(* whatever other sessions and programs did to the tree since it resolved. *)
HeldInside ==
    \A s \in Session :
        /\ state[s].current \in Inside
        /\ state[s].renameFrom \in Inside \cup {NoNode}
        /\ pc[s] = "transfer" => job[s].node \in Inside

(* Nothing outside the root changes: not by a rename whose source was      *)
(* resolved long before, nor by a removal or creation of several nodes.    *)
OutsideUntouched == [][\A n \in Node \ Inside : disk'[n] = disk[n]]_disk

(* What the other side relies on: each step of a session, also a removal   *)
(* that stops half-way, leaves a tree, nothing outside changed and the open*)
(* files of other sessions in place.  DavHandler assumes it of FTP.        *)
DiskRespected == [][Respects(disk, disk', Busy)]_disk

(* The tree stays a tree: a removal that stopped half-way leaves no node   *)
(* without its directory, and a rename never replaces a directory.         *)
TreeWellFormed == WellFormed(disk)

(* A file that a transfer has open is still there when the transfer ends,  *)
(* whatever DELE, RMD and RNTO other sessions send meanwhile.              *)
OpenFilesStay == \A n \in Busy : disk[n] = "file"

(* A session that works on files, or still shows that it did, is logged in:*)
(* nothing of an earlier session on the same connection slot remains.      *)
WorkIsLoggedIn ==
    \A s \in Session :
        \/ pc[s] \in {"prelim", "accept", "connect", "transfer"}
        \/ state[s].current # Root \/ state[s].renameFrom # NoNode
        => state[s].authenticated

(* A session that waits for a data connection can still get one: its       *)
(* client's connection is queued, or the port the client will use is the   *)
(* one the session listens on.  Otherwise the session would hang for good. *)
AcceptReachable ==
    \A s \in Session :
        pc[s] = "accept" /\ online[s] =>
            \/ s \in backlog[s]
            \/ acceptor[s] # NoPort /\ announced[s] = acceptor[s]

(* Where the dialogue on the control connection stands, by pc.             *)
PhaseOf(p) ==
    CASE p = "closed"  -> "down"
      [] p = "welcome" -> "greeting"
      [] p = "idle"    -> "ready"
      [] p = "prelim"  -> "opening"
      [] p = "reply"   -> "answering"
      [] OTHER         -> "moving"

DialoguePhase == [s \in Session |-> PhaseOf(pc[s])]

(* The dialogue a client sees.                                             *)
Dialogue == INSTANCE FtpDialogue WITH
    phase <- DialoguePhase, answer <- code, up <- online

(* Every command is answered once, after at most one 150, and only QUIT or *)
(* a lost connection ends a session.                                       *)
KeepsDialogue == Dialogue!DialogueSpec

(* The sessions use the data channels only through the operations of       *)
(* DataChannel, in an order it allows: never an accept while a 227 is owed.*)
UsesChannels == ChannelSpec

-----------------------------------------------------------------------------
(* Liveness, under FairSpec.                                               *)

(* A command under way is answered, unless the client goes: no transfer    *)
(* waits for ever for a connection.                                        *)
Answered ==
    \A s \in Session :
        pc[s] \in {"prelim", "accept", "connect", "transfer", "reply"} /\ online[s]
            ~> pc[s] \in {"idle", "closed"} \/ ~online[s]

(* A session whose client has gone is destroyed, unless it waits for a data*)
(* connection that will not come: nothing times that wait out.             *)
Released ==
    \A s \in Session :
        pc[s] # "closed" /\ ~online[s]
            ~> pc[s] = "closed" \/ (pc[s] = "accept" /\ backlog[s] = {})

-----------------------------------------------------------------------------
(* What a comment of the source says.                                      *)

(* ftp_types.hpp:71, "PASSIVE // passive mode (PASV)": once PASV is        *)
(* accepted, transfers use the passive connection.                         *)
PasvSelectsPassive ==
    \A s \in Session : pc[s] = "reply" /\ code[s] = 227 => state[s].connType = "PASSIVE"
=============================================================================
