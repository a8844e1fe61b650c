-------------------------- MODULE FtpSessionProofs --------------------------
(***************************************************************************)
(* Proofs about FtpSession and the channels and the tree below it.         *)
(*                                                                         *)
(* DataChannel: its types, and, where ports are not shared, that listeners *)
(* are distinct, that a client finds its own session at the port it was    *)
(* told, and that no session gets a stranger's connection.                 *)
(*                                                                         *)
(* FtpSession: its types; that the sessions use the data channels only as  *)
(* DataChannel allows, and what follows from that for the data connections *)
(* of FTP; that work needs a login; and that FtpSession implements         *)
(* FtpDialogue, every step of a session being a step of the dialogue on    *)
(* its control connection, or none.                                        *)
(*                                                                         *)
(* The directory tree: what sessions keep lies under the root, nothing     *)
(* outside it changes, the tree stays a tree under half-done removals, and *)
(* open files stay.                                                        *)
(***************************************************************************)
EXTENDS FtpSession, FileTreeProofs

-----------------------------------------------------------------------------
(* The data channels.                                                      *)

(* A port to bind is a port, and one that binds.                           *)
LEMMA BoundPortIsFree ==
    ASSUME NEW p \in BoundPorts
    PROVE  p \in Port /\ p # NoPort /\ CanBind(p)
  BY ChannelAssumption DEF BoundPorts, FindAvailablePort, Port, PasvPort, NoPort

(* Initially every variable of the channels has its type.                  *)
LEMMA ChannelTypeInit == ChannelInit => ChannelTypeOK
<1>1. PasvMin \in Port
  BY ChannelAssumption DEF Port, PasvPort
<1> QED  BY <1>1 DEF ChannelInit, ChannelTypeOK

(* No operation on the channels breaks their types.                        *)
LEMMA ChannelTypeStep ==
    ASSUME ChannelTypeOK, [ChannelNext]_channelVars
    PROVE  ChannelTypeOK'
<1>1. PasvMin \in Port
  BY ChannelAssumption DEF Port, PasvPort
<1>2. CASE UNCHANGED channelVars
  BY <1>2 DEF channelVars, ChannelTypeOK
<1>3. ASSUME NEW s \in Session, CreatePassiveChannel(s) PROVE ChannelTypeOK'
  BY <1>3, BoundPortIsFree DEF CreatePassiveChannel, ChannelTypeOK
<1>4. ASSUME NEW s \in Session, Announce(s) PROVE ChannelTypeOK'
  BY <1>4 DEF Announce, ChannelTypeOK
<1>5. ASSUME NEW s \in Session, ClientConnects(s) PROVE ChannelTypeOK'
  BY <1>5 DEF ClientConnects, Listeners, ChannelTypeOK
<1>6. ASSUME NEW s \in Session, ClientIsRefused(s) PROVE ChannelTypeOK'
  BY <1>6 DEF ClientIsRefused, ChannelTypeOK
<1>7. ASSUME NEW s \in Session, AcceptPassiveConnection(s) PROVE ChannelTypeOK'
  BY <1>7 DEF AcceptPassiveConnection, TakeConnection, ChannelTypeOK
<1>8. ASSUME NEW s \in Session, CreateActiveChannel(s) PROVE ChannelTypeOK'
  BY <1>8 DEF CreateActiveChannel, ChannelTypeOK
<1>9. ASSUME NEW s \in Session, CloseData(s) PROVE ChannelTypeOK'
  BY <1>9 DEF CloseData, ChannelTypeOK
<1>10. ASSUME NEW s \in Session, CloseAll(s) PROVE ChannelTypeOK'
  BY <1>10, <1>1 DEF CloseAll, ChannelTypeOK
<1>11. ASSUME NEW s \in Session, ClientForgets(s) PROVE ChannelTypeOK'
  BY <1>11 DEF ClientForgets, ChannelTypeOK
<1> QED
  BY <1>2, <1>3, <1>4, <1>5, <1>6, <1>7, <1>8, <1>9, <1>10, <1>11 DEF ChannelNext

(* Whatever the ports and whether they are shared, the channels keep their *)
(* types.                                                                  *)
THEOREM ChannelTyping == ChannelSpec => []ChannelTypeOK
  BY ChannelTypeInit, ChannelTypeStep, PTL DEF ChannelSpec

-----------------------------------------------------------------------------
(* A port in a 227 reply that is still to be written is the one the session*)
(* listens on, and nobody has used it yet.                                 *)
OfferIsFresh ==
    \A s \in Session :
        offered[s] # NoPort =>
            acceptor[s] = offered[s] /\ announced[s] = NoPort /\ backlog[s] = {}

(* The inductive invariant: a client's connection can only be queued where *)
(* it was sent, because its port is its own session's as long as it has    *)
(* not used it.                                                            *)
ChannelSafe ==
    /\ ChannelTypeOK
    /\ ListenersDistinct
    /\ OwnDataConnection
    /\ AnnouncedIsOpen
    /\ OfferIsFresh

(* Where ports are not shared, every operation keeps the channels safe.    *)
LEMMA ChannelSafeStep ==
    ASSUME SharedBind = FALSE, ChannelSafe, [ChannelNext]_channelVars
    PROVE  ChannelSafe'
<1> USE DEF ChannelSafe
<1>1. ChannelTypeOK'
  BY ChannelTypeStep
<1>2. CASE UNCHANGED channelVars
  BY <1>1, <1>2 DEF channelVars, ListenersDistinct, OwnDataConnection, AnnouncedIsOpen, OfferIsFresh
<1>3. ASSUME NEW s \in Session, CreatePassiveChannel(s) PROVE ChannelSafe'
  <2>1. PICK p \in BoundPorts :
          /\ acceptor' = [acceptor EXCEPT ![s] = p]
          /\ backlog' = [backlog EXCEPT ![s] = {}]
          /\ offered' = [offered EXCEPT ![s] = p]
          /\ announced' = [announced EXCEPT ![s] = NoPort]
          /\ data' = data
    BY <1>3 DEF CreatePassiveChannel
  <2>2. p # NoPort /\ \A t \in Session : acceptor[t] # p
    BY BoundPortIsFree DEF CanBind
  <2>3. ListenersDistinct'
    BY <2>1, <2>2 DEF ListenersDistinct, ChannelTypeOK
  <2>4. OwnDataConnection'
    BY <2>1 DEF OwnDataConnection, ChannelTypeOK
  <2>5. AnnouncedIsOpen'
    BY <2>1 DEF AnnouncedIsOpen, ChannelTypeOK
  <2>6. OfferIsFresh'
    BY <2>1 DEF OfferIsFresh, ChannelTypeOK
  <2> QED  BY <1>1, <2>3, <2>4, <2>5, <2>6
<1>4. ASSUME NEW s \in Session, Announce(s) PROVE ChannelSafe'
  <2>1. ListenersDistinct' /\ OwnDataConnection'
    BY <1>4 DEF Announce, ListenersDistinct, OwnDataConnection, ChannelTypeOK
  <2>2. AnnouncedIsOpen'
    BY <1>4 DEF Announce, AnnouncedIsOpen, OfferIsFresh, ChannelTypeOK
  <2>3. OfferIsFresh'
    BY <1>4 DEF Announce, OfferIsFresh, ChannelTypeOK
  <2> QED  BY <1>1, <2>1, <2>2, <2>3
<1>5. ASSUME NEW s \in Session, ClientConnects(s) PROVE ChannelSafe'
  <2>1. backlog' = [backlog EXCEPT ![s] = @ \cup {s}]
    BY <1>5 DEF ClientConnects, Listeners, AnnouncedIsOpen, ListenersDistinct, ChannelTypeOK
  <2>2. offered[s] = NoPort
    BY <1>5 DEF ClientConnects, OfferIsFresh
  <2>3. ListenersDistinct' /\ OwnDataConnection'
    BY <1>5, <2>1 DEF ClientConnects, ListenersDistinct, OwnDataConnection, ChannelTypeOK
  <2>4. AnnouncedIsOpen'
    BY <1>5, <2>1 DEF ClientConnects, AnnouncedIsOpen, ChannelTypeOK
  <2>5. OfferIsFresh'
    BY <1>5, <2>1, <2>2 DEF ClientConnects, OfferIsFresh, ChannelTypeOK
  <2> QED  BY <1>1, <2>3, <2>4, <2>5
<1>6. ASSUME NEW s \in Session, ClientIsRefused(s) PROVE ChannelSafe'
  BY <1>1, <1>6 DEF ClientIsRefused, ListenersDistinct, OwnDataConnection, AnnouncedIsOpen, OfferIsFresh, ChannelTypeOK
<1>7. ASSUME NEW s \in Session, AcceptPassiveConnection(s) PROVE ChannelSafe'
  <2>1. /\ s \in backlog[s]
        /\ data' \in {[data EXCEPT ![s] = s], [data EXCEPT ![s] = NoClient]}
    BY <1>7 DEF AcceptPassiveConnection, TakeConnection, OwnDataConnection, ChannelTypeOK
  <2>2. /\ acceptor' = [acceptor EXCEPT ![s] = NoPort]
        /\ backlog' = [backlog EXCEPT ![s] = {}]
        /\ offered' = offered /\ announced' = announced
        /\ offered[s] = NoPort
    BY <1>7 DEF AcceptPassiveConnection, TakeConnection
  <2>3. announced[s] = NoPort
    BY <2>1 DEF AnnouncedIsOpen
  <2>4. ListenersDistinct'
    BY <2>2 DEF ListenersDistinct, ChannelTypeOK
  <2>5. OwnDataConnection'
    BY <2>1, <2>2 DEF OwnDataConnection, ChannelTypeOK
  <2>6. AnnouncedIsOpen' /\ OfferIsFresh'
    BY <2>2, <2>3 DEF AnnouncedIsOpen, OfferIsFresh, ChannelTypeOK
  <2> QED  BY <1>1, <2>4, <2>5, <2>6
<1>8. ASSUME NEW s \in Session, CreateActiveChannel(s) PROVE ChannelSafe'
  BY <1>1, <1>8 DEF CreateActiveChannel, ListenersDistinct, OwnDataConnection, AnnouncedIsOpen, OfferIsFresh, ChannelTypeOK
<1>9. ASSUME NEW s \in Session, CloseData(s) PROVE ChannelSafe'
  BY <1>1, <1>9 DEF CloseData, ListenersDistinct, OwnDataConnection, AnnouncedIsOpen, OfferIsFresh, ChannelTypeOK
<1>10. ASSUME NEW s \in Session, CloseAll(s) PROVE ChannelSafe'
  <2>1. ListenersDistinct' /\ OwnDataConnection'
    BY <1>10 DEF CloseAll, ListenersDistinct, OwnDataConnection, ChannelTypeOK
  <2>2. AnnouncedIsOpen' /\ OfferIsFresh'
    BY <1>10 DEF CloseAll, AnnouncedIsOpen, OfferIsFresh, ChannelTypeOK
  <2> QED  BY <1>1, <2>1, <2>2
<1>11. ASSUME NEW s \in Session, ClientForgets(s) PROVE ChannelSafe'
  BY <1>1, <1>11 DEF ClientForgets, ListenersDistinct, OwnDataConnection, AnnouncedIsOpen, OfferIsFresh, ChannelTypeOK
<1> QED
  BY <1>2, <1>3, <1>4, <1>5, <1>6, <1>7, <1>8, <1>9, <1>10, <1>11 DEF ChannelNext

(* Where ports are not shared: for any number of sessions and ports,       *)
(* through exhaustion and reuse, no two sessions listen on one port, a     *)
(* client that has still to use its port finds its own session there, and  *)
(* a data connection ends at the session's own client.                     *)
THEOREM ChannelSafety ==
    ASSUME SharedBind = FALSE
    PROVE  ChannelSpec => [](ListenersDistinct /\ OwnDataConnection /\ AnnouncedIsOpen)
<1>1. ChannelInit => ChannelSafe
  BY ChannelTypeInit
     DEF ChannelSafe, ChannelInit, ListenersDistinct, OwnDataConnection, AnnouncedIsOpen, OfferIsFresh
<1>2. ChannelSafe /\ [ChannelNext]_channelVars => ChannelSafe'
  BY ChannelSafeStep
<1>3. ChannelSafe => ListenersDistinct /\ OwnDataConnection /\ AnnouncedIsOpen
  BY DEF ChannelSafe
<1> QED  BY <1>1, <1>2, <1>3, PTL DEF ChannelSpec

-----------------------------------------------------------------------------
(* The sessions.                                                           *)

(* A reply code keeps pc and code in their types.                          *)
LEMMA ReplyTyping ==
    ASSUME TypeOK, NEW s \in Session, NEW c \in FinalCode, Reply(s, c)
    PROVE  pc' \in [Session -> PC] /\ code' \in [Session -> FinalCode \cup {NoCode}]
  BY DEF TypeOK, Reply, PC

(* So does giving up a transfer, which also forgets it.                    *)
LEMMA AbandonTyping ==
    ASSUME TypeOK, NEW s \in Session, Abandon(s)
    PROVE  /\ pc' \in [Session -> PC] /\ code' \in [Session -> FinalCode \cup {NoCode}]
           /\ job' \in [Session -> Job]
<1>1. 550 \in FinalCode  BY DEF FinalCode
<1>2. Reply(s, 550)  BY DEF Abandon
<1>3. job' \in [Session -> Job]
  BY DEF Abandon, TypeOK, NoJob, Job
<1> QED  BY <1>1, <1>2, <1>3, ReplyTyping

(* Every variable starts with its type.                                    *)
LEMMA TypeInit == Init => TypeOK
<1> SUFFICES ASSUME Init PROVE TypeOK
  OBVIOUS
<1>1. ChannelTypeOK
  BY ChannelTypeInit DEF Init
<1>2. InitialState \in SessionState
  BY TreeAssumption DEF InitialState, SessionState
<1>3. disk \in Disk
  BY SessionAssumption DEF Init
<1>4. NoJob \in Job
  BY DEF NoJob, Job
<1> QED  BY <1>1, <1>2, <1>3, <1>4 DEF Init, TypeOK, PC

(* A session that ends leaves every variable in its type.                  *)
LEMMA EndTyping ==
    ASSUME TypeOK, NEW s \in Session, EndSession(s)
    PROVE  TypeOK'
<1>1. ChannelTypeOK'
  <2>1. ChannelNext  BY DEF EndSession, ChannelNext
  <2> QED  BY <2>1, ChannelTypeStep DEF TypeOK
<1>2. InitialState \in SessionState
  BY TreeAssumption DEF InitialState, SessionState
<1>3. NoJob \in Job
  BY DEF NoJob, Job
<1> QED  BY <1>1, <1>2, <1>3 DEF TypeOK, EndSession, PC

(* A step that leaves the channels alone leaves their types alone.         *)
LEMMA ChannelFrame == ASSUME ChannelTypeOK, UNCHANGED channelVars PROVE ChannelTypeOK'
  BY DEF channelVars, ChannelTypeOK

(* A session that changes its state keeps the others.                      *)
LEMMA StateTyping ==
    ASSUME TypeOK, NEW s \in Session, NEW r \in SessionState, state' = [state EXCEPT ![s] = r]
    PROVE  state' \in [Session -> SessionState]
  BY DEF TypeOK

(* What RNFR stores and CWD enters is a node.                              *)
LEMMA TargetTyping == ASSUME NEW n \in Node PROVE Target(n) \in {n, NoNode}
  BY DEF Target, Resolve

(* Removing, creating and renaming nodes leaves a disk.                    *)
LEMMA DiskTyping ==
    ASSUME disk \in Disk
    PROVE  /\ \A R : Without(disk, R) \in Disk
           /\ \A n \in Node : CreateDirectories(disk, n) \in Disk
           /\ \A m, n \in Node : Rename(disk, m, n) \in Disk
  BY DEF Disk, Kind, Without, CreateDirectories, Rename

(* No handler breaks a type.                                               *)
LEMMA HandlerTyping ==
    ASSUME TypeOK, NEW s \in Session, Handler(s)
    PROVE  TypeOK'
<1>a. StatelessReply \in [DOMAIN StatelessReply -> SUBSET FinalCode]
  BY DEF StatelessReply, FinalCode
<1>b. ASSUME NEW c \in FinalCode, Reply(s, c),
             UNCHANGED <<job, state, online, disk, channelVars>>
      PROVE  TypeOK'
  BY <1>b, ReplyTyping, ChannelFrame DEF TypeOK
<1>c. ASSUME NEW c \in FinalCode, Reply(s, c), state' \in [Session -> SessionState],
             UNCHANGED <<job, online, disk, channelVars>>
      PROVE  TypeOK'
  BY <1>c, ReplyTyping, ChannelFrame DEF TypeOK
<1>d. ASSUME NEW c \in FinalCode, Reply(s, c), disk' \in Disk,
             UNCHANGED <<job, state, online, channelVars>>
      PROVE  TypeOK'
  BY <1>d, ReplyTyping, ChannelFrame DEF TypeOK
<1>1. CASE NotLoggedIn(s)
  BY <1>1, <1>b DEF NotLoggedIn, FinalCode
<1>2. CASE Stateless(s)
  BY <1>2, <1>a, <1>b DEF Stateless
<1>3. CASE User(s)
  <2>1. state' \in [Session -> SessionState]
    <3>1. PICK u \in UserName \cup {NoName} : state' = [state EXCEPT ![s].username = u]
      BY <1>3 DEF User
    <3>2. [state[s] EXCEPT !.username = u] \in SessionState
      BY DEF TypeOK, SessionState
    <3> QED  BY <3>1, <3>2, StateTyping
  <2> QED  BY <1>3, <2>1, <1>c DEF User, FinalCode
<1>4. CASE Pass(s)
  <2>1. state' \in [Session -> SessionState]
    <3>1. [state[s] EXCEPT !.authenticated = TRUE] \in SessionState
      BY DEF TypeOK, SessionState
    <3> QED  BY <1>4, <3>1, StateTyping DEF Pass, TypeOK
  <2> QED  BY <1>4, <2>1, <1>c DEF Pass, FinalCode
<1>5. CASE Quit(s)
  BY <1>5, <1>b DEF Quit, FinalCode
<1>6. CASE PortCommand(s)
  <2>1. state' \in [Session -> SessionState]
    <3>1. PICK e \in Endpoint \cup {BadEndpoint} :
            state' = [state EXCEPT ![s].endpoint = e, ![s].connType = "ACTIVE"]
      BY <1>6 DEF PortCommand
    <3>2. [state[s] EXCEPT !.endpoint = e, !.connType = "ACTIVE"] \in SessionState
      BY DEF TypeOK, SessionState
    <3>3. state' = [state EXCEPT ![s] = [state[s] EXCEPT !.endpoint = e, !.connType = "ACTIVE"]]
      BY <3>1 DEF TypeOK, SessionState
    <3> QED  BY <3>2, <3>3, StateTyping
  <2> QED  BY <1>6, <2>1, <1>c DEF PortCommand, FinalCode
<1>7. CASE PortRejected(s)
  BY <1>7, <1>b DEF PortRejected, FinalCode
<1>8. CASE Pasv(s)
  <2>1. ChannelTypeOK'
    <3>1. ChannelNext  BY <1>8 DEF Pasv, ChannelNext
    <3> QED  BY <3>1, ChannelTypeStep DEF TypeOK
  <2>2. Reply(s, 227) /\ 227 \in FinalCode /\ UNCHANGED <<job, state, online, disk>>
    BY <1>8 DEF Pasv, FinalCode
  <2> QED  BY <2>1, <2>2, ReplyTyping DEF TypeOK
<1>9. CASE PasvFails(s)
  BY <1>9, <1>b DEF PasvFails, FinalCode
<1>10. ASSUME NEW n \in Node, RemoveTree(s, n) PROVE disk' \in Disk
  BY <1>10, DiskTyping DEF RemoveTree, TypeOK
<1>11. CASE Dele(s)
  BY <1>11, <1>10, <1>d, DiskTyping DEF Dele, RemoveTree, FinalCode, TypeOK
<1>12. CASE Rmd(s)
  BY <1>12, <1>10, <1>d DEF Rmd, RemoveTree, FinalCode, TypeOK
<1>13. CASE Rnfr(s)
  <2>1. state' \in [Session -> SessionState]
    <3>1. PICK n \in Node :
            UNCHANGED state \/ state' = [state EXCEPT ![s].renameFrom = Target(n)]
      BY <1>13 DEF Rnfr
    <3>2. [state[s] EXCEPT !.renameFrom = Target(n)] \in SessionState
      BY TargetTyping DEF TypeOK, SessionState
    <3> QED  BY <3>1, <3>2, StateTyping DEF TypeOK
  <2> QED  BY <1>13, <2>1, <1>c DEF Rnfr, FinalCode
<1>14. CASE Rnto(s)
  <2>1. RenameFromRead(s) \ {NoNode} \subseteq Node
    BY DEF RenameFromRead, TypeOK, SessionState
  <2>2. disk' \in Disk
    BY <1>14, <2>1, DiskTyping DEF Rnto, TypeOK
  <2> QED  BY <1>14, <2>2, <1>d DEF Rnto, FinalCode
<1>15. ASSUME NEW n \in Node, ChangeDirectory(s, n) PROVE state' \in [Session -> SessionState]
  BY <1>15 DEF ChangeDirectory, TypeOK, SessionState
<1>16. CASE Cwd(s)
  BY <1>16, <1>15, <1>c DEF Cwd, ChangeDirectory, FinalCode
<1>17. CASE Cdup(s)
  <2>1. Up[state[s].current] \in Node
    BY TreeAssumption DEF TypeOK, SessionState
  <2> QED  BY <1>17, <2>1, <1>15, <1>c DEF Cdup, ChangeDirectory, FinalCode
<1>18. CASE Pwd(s)
  BY <1>18, <1>b DEF Pwd, FinalCode
<1>19. CASE Mkd(s)
  BY <1>19, <1>d, DiskTyping DEF Mkd, FinalCode, TypeOK
<1>20. CASE Size(s)
  BY <1>20, <1>b DEF Size, FinalCode
<1>21. CASE BeginTransfer(s)
  BY <1>21, ChannelFrame DEF BeginTransfer, TypeOK, Job, PC
<1>22. CASE MissingFilename(s)
  BY <1>22, <1>b DEF MissingFilename, FinalCode
<1> QED
  BY <1>1, <1>2, <1>3, <1>4, <1>5, <1>6, <1>7, <1>8, <1>9, <1>11, <1>12, <1>13, <1>14,
     <1>16, <1>17, <1>18, <1>19, <1>20, <1>21, <1>22 DEF Handler

(* Nor does any other step of the server.                                  *)
LEMMA ServerTyping ==
    ASSUME TypeOK, NEW s \in Session, ServerStep(s)
    PROVE  TypeOK'
<1>1. CASE WelcomeWritten(s)
  BY <1>1, ChannelFrame DEF WelcomeWritten, TypeOK, PC
<1>2. CASE ReplyWritten(s)
  <2>1. CASE code[s] = 421
    BY <1>2, <2>1, EndTyping DEF ReplyWritten
  <2>2. CASE code[s] # 421
    <3>1. ChannelTypeOK'
      <4>1. CASE Announce(s)
        <5>1. ChannelNext  BY <4>1 DEF ChannelNext
        <5> QED  BY <5>1, ChannelTypeStep DEF TypeOK
      <4>2. CASE UNCHANGED channelVars
        BY <4>2, ChannelFrame DEF TypeOK
      <4> QED  BY <1>2, <2>2, <4>1, <4>2 DEF ReplyWritten
    <3> QED  BY <1>2, <2>2, <3>1 DEF ReplyWritten, TypeOK, PC
  <2> QED  BY <2>1, <2>2
<1>3. CASE ControlFails(s)
  BY <1>3, EndTyping DEF ControlFails
<1>4. CASE PrelimWritten(s)
  <2>1. ChannelTypeOK' /\ UNCHANGED <<state, online, disk>>
    BY <1>4, ChannelFrame DEF PrelimWritten, TypeOK
  <2>2. CASE Abandon(s)
    BY <2>1, <2>2, AbandonTyping DEF TypeOK
  <2>3. ASSUME NEW p \in PC, pc' = [pc EXCEPT ![s] = p], UNCHANGED <<code, job>> PROVE TypeOK'
    BY <2>1, <2>3 DEF TypeOK
  <2> QED  BY <1>4, <2>2, <2>3 DEF PrelimWritten, PC
<1>5. CASE PrelimFails(s)
  BY <1>5, ChannelFrame, AbandonTyping DEF PrelimFails, TypeOK
<1>6. ASSUME StartTransfer(s) \/ TransferRefused(s)
      PROVE  /\ pc' \in [Session -> PC] /\ code' \in [Session -> FinalCode \cup {NoCode}]
             /\ job' \in [Session -> Job]
  BY <1>6, AbandonTyping DEF StartTransfer, TransferRefused, TypeOK, PC
<1>7. CASE AcceptsConnection(s)
  <2>1. ChannelTypeOK'
    BY <1>7 DEF AcceptsConnection, TakeConnection, TypeOK, ChannelTypeOK
  <2> QED  BY <1>6, <1>7, <2>1 DEF AcceptsConnection, TypeOK
<1>8. CASE ConnectsToClient(s)
  <2>1. ChannelTypeOK'
    <3>1. ChannelNext  BY <1>8 DEF ConnectsToClient, ChannelNext
    <3> QED  BY <3>1, ChannelTypeStep DEF TypeOK
  <2> QED  BY <1>6, <1>8, <2>1 DEF ConnectsToClient, TypeOK
<1>9. CASE ConnectFails(s)
  BY <1>9, ChannelFrame, AbandonTyping DEF ConnectFails, TypeOK
<1>10. CASE FinishTransfer(s)
  <2>1. ChannelTypeOK'
    <3>1. ChannelNext  BY <1>10 DEF FinishTransfer, ChannelNext
    <3> QED  BY <3>1, ChannelTypeStep DEF TypeOK
  <2>2. PICK c \in FinalCode : Reply(s, c)
    BY <1>10 DEF FinishTransfer, TransferReply, FinalCode
  <2>3. job' \in [Session -> Job]
    BY <1>10 DEF FinishTransfer, TypeOK, NoJob, Job
  <2> QED  BY <1>10, <2>1, <2>2, <2>3, ReplyTyping DEF FinishTransfer, TypeOK
<1> QED
  BY <1>1, <1>2, <1>3, <1>4, <1>5, <1>7, <1>8, <1>9, <1>10 DEF ServerStep

(* Nor does a client or another program.                                   *)
LEMMA TypeStep == TypeOK /\ [Next]_vars => TypeOK'
<1> SUFFICES ASSUME TypeOK, [Next]_vars PROVE TypeOK'
  OBVIOUS
<1>1. CASE UNCHANGED vars
  <2>1. ChannelTypeOK'
    BY <1>1, ChannelFrame DEF vars, channelVars, TypeOK
  <2> QED  BY <1>1, <2>1 DEF vars, TypeOK
<1>2. CASE OtherProgram
  <2>1. disk' \in Disk
    BY <1>2 DEF OtherProgram, Trees, TypeOK
  <2> QED  BY <1>2, <2>1, ChannelFrame DEF OtherProgram, TypeOK
<1>3. ASSUME NEW s \in Session, ClientStep(s) PROVE TypeOK'
  <2>1. CASE Connect(s)
    BY <2>1, ChannelFrame DEF Connect, TypeOK, PC
  <2>2. CASE ClientOpensData(s)
    <3>1. ChannelNext  BY <2>2 DEF ClientOpensData, ChannelNext
    <3>2. ChannelTypeOK'  BY <3>1, ChannelTypeStep DEF TypeOK
    <3> QED  BY <2>2, <3>2 DEF ClientOpensData, sessionVars, TypeOK
  <2>3. CASE ClientLeaves(s)
    <3>1. ChannelNext  BY <2>3 DEF ClientLeaves, ChannelNext
    <3>2. ChannelTypeOK'  BY <3>1, ChannelTypeStep DEF TypeOK
    <3> QED  BY <2>3, <3>2 DEF ClientLeaves, TypeOK
  <2> QED  BY <1>3, <2>1, <2>2, <2>3 DEF ClientStep
<1> QED
  BY <1>1, <1>2, <1>3, HandlerTyping, ServerTyping DEF Next

(* For any number of sessions, commands, ports and files, every variable   *)
(* keeps its type: in particular a session only ever writes a reply code   *)
(* the source knows, and its current directory is always a path.           *)
THEOREM Typing == Spec => []TypeOK
  BY TypeInit, TypeStep, PTL DEF Spec

-----------------------------------------------------------------------------
(* What all handlers have in common: they answer the command read at "idle"*)
(* or begin a transfer, and only PASV touches the channels.                *)
LEMMA HandlerShape ==
    ASSUME NEW s \in Session, Handler(s)
    PROVE  /\ pc[s] = "idle" /\ online[s] /\ UNCHANGED online
           /\ Pasv(s) \/ UNCHANGED channelVars
           /\ BeginTransfer(s) \/ (UNCHANGED job /\ \E c \in FinalCode : Reply(s, c))
<1> USE DEF Receives, Permitted
<1> DEFINE Answers == UNCHANGED job /\ \E c \in FinalCode : Reply(s, c)
           Frame == /\ pc[s] = "idle" /\ online[s] /\ UNCHANGED online
                    /\ UNCHANGED channelVars
<1>1. CASE NotLoggedIn(s) \/ Stateless(s) \/ User(s) \/ Pass(s) \/ Quit(s)
  <2>1. Frame
    BY <1>1 DEF NotLoggedIn, Stateless, User, Pass, Quit
  <2>2. Answers
    BY <1>1 DEF NotLoggedIn, Stateless, StatelessReply, User, Pass, Quit, FinalCode
  <2> QED  BY <2>1, <2>2
<1>2. CASE PortCommand(s) \/ PortRejected(s) \/ PasvFails(s)
  <2>1. Frame
    BY <1>2 DEF PortCommand, PortRejected, PasvFails
  <2>2. Answers
    BY <1>2 DEF PortCommand, PortRejected, PasvFails, FinalCode
  <2> QED  BY <2>1, <2>2
<1>3. CASE Pasv(s)
  BY <1>3 DEF Pasv, FinalCode
<1>4. CASE Dele(s) \/ Rmd(s) \/ Rnfr(s) \/ Rnto(s)
  <2>1. Frame
    BY <1>4 DEF Dele, Rmd, Rnfr, Rnto
  <2>2. Answers
    <3>1. 226 \in FinalCode /\ 350 \in FinalCode /\ 501 \in FinalCode
          /\ 503 \in FinalCode /\ 550 \in FinalCode
      BY DEF FinalCode
    <3>2. CASE Dele(s)
      BY <3>1, <3>2 DEF Dele, RemoveTree
    <3>3. CASE Rmd(s)
      BY <3>1, <3>3 DEF Rmd, RemoveTree
    <3>4. CASE Rnfr(s)
      BY <3>1, <3>4 DEF Rnfr
    <3>5. CASE Rnto(s)
      BY <3>1, <3>5 DEF Rnto
    <3> QED  BY <1>4, <3>2, <3>3, <3>4, <3>5
  <2> QED  BY <2>1, <2>2
<1>5. CASE Cwd(s) \/ Cdup(s) \/ Pwd(s) \/ Mkd(s) \/ Size(s) \/ MissingFilename(s)
  <2>1. Frame
    BY <1>5 DEF Cwd, Cdup, Pwd, Mkd, Size, MissingFilename
  <2>2. Answers
    BY <1>5 DEF Cwd, Cdup, ChangeDirectory, Pwd, Mkd, Size, MissingFilename, FinalCode
  <2> QED  BY <2>1, <2>2
<1>6. CASE BeginTransfer(s)
  BY <1>6 DEF BeginTransfer
<1> QED
  BY <1>1, <1>2, <1>3, <1>4, <1>5, <1>6 DEF Handler

(* A port to tell is owed only while the 227 reply is being written.       *)
Owed == \A s \in Session : offered[s] # NoPort => pc[s] = "reply" /\ code[s] = 227

(* A session waits for a connection only at the listener PASV gave it.     *)
Waiting == \A s \in Session : pc[s] = "accept" => PassivePending(s)

ChannelUse == TypeOK /\ Owed /\ Waiting

(* A step that leaves the channels alone and moves only a session that owes*)
(* no port keeps both.                                                     *)
LEMMA UseFrame ==
    ASSUME ChannelUse, NEW s \in Session, offered[s] = NoPort,
           UNCHANGED channelVars,
           pc'[s] = "accept" => PassivePending(s),
           \A t \in Session \ {s} : pc'[t] = pc[t] /\ code'[t] = code[t]
    PROVE  Owed' /\ Waiting'
  BY DEF ChannelUse, Owed, Waiting, PassivePending, channelVars

(* Every step uses the channels as DataChannel allows, and keeps what makes*)
(* the next one do so.                                                     *)
LEMMA ChannelUseStep ==
    ASSUME ChannelUse, [Next]_vars
    PROVE  [ChannelNext]_channelVars /\ Owed' /\ Waiting'
<1> DEFINE Goal == [ChannelNext]_channelVars /\ Owed' /\ Waiting'
<1> USE DEF ChannelUse
<1>1. CASE UNCHANGED vars
  BY <1>1 DEF vars, channelVars, Owed, Waiting, PassivePending
<1>2. CASE OtherProgram
  BY <1>2 DEF OtherProgram, channelVars, Owed, Waiting, PassivePending
<1>3. ASSUME NEW s \in Session, EndSession(s) PROVE Goal
  <2>1. ChannelNext
    BY <1>3 DEF EndSession, ChannelNext
  <2>2. Owed' /\ Waiting'
    BY <1>3 DEF EndSession, CloseAll, Owed, Waiting, PassivePending, TypeOK, ChannelTypeOK
  <2> QED  BY <2>1, <2>2
<1>4. ASSUME NEW s \in Session, Handler(s) PROVE Goal
  <2>1. pc[s] = "idle"
    BY <1>4, HandlerShape
  <2>2. offered[s] = NoPort
    BY <2>1 DEF Owed
  <2>3. pc'[s] # "accept" /\ \A t \in Session \ {s} : pc'[t] = pc[t] /\ code'[t] = code[t]
    BY <1>4, HandlerShape DEF Reply, BeginTransfer, TypeOK
  <2>4. CASE UNCHANGED channelVars
    BY <2>2, <2>3, <2>4, UseFrame
  <2>5. CASE Pasv(s)
    <3>1. ChannelNext
      BY <2>5 DEF Pasv, ChannelNext
    <3>2. pc'[s] = "reply" /\ code'[s] = 227
      BY <2>5 DEF Pasv, Reply, TypeOK
    <3>3. Owed'
      BY <2>3, <2>5, <3>2 DEF Pasv, CreatePassiveChannel, Owed, TypeOK, ChannelTypeOK
    <3>4. Waiting'
      BY <2>3, <2>5 DEF Pasv, CreatePassiveChannel, Waiting, PassivePending, TypeOK, ChannelTypeOK
    <3> QED  BY <3>1, <3>3, <3>4
  <2> QED  BY <1>4, <2>4, <2>5, HandlerShape
<1>5. ASSUME NEW s \in Session, WelcomeWritten(s) \/ ReplyWritten(s) \/ ControlFails(s) PROVE Goal
  <2>1. CASE WelcomeWritten(s)
    BY <2>1, UseFrame DEF WelcomeWritten, Owed, TypeOK
  <2>2. CASE ReplyWritten(s)
    <3>1. CASE code[s] = 421
      BY <2>2, <3>1, <1>3 DEF ReplyWritten
    <3>2. CASE code[s] = 227
      <4>1. Announce(s)
        BY <2>2, <3>2 DEF ReplyWritten
      <4>2. Owed' /\ Waiting'
        BY <2>2, <3>2, <4>1 DEF ReplyWritten, Announce, Owed, Waiting, PassivePending, TypeOK, ChannelTypeOK
      <4> QED  BY <4>1, <4>2 DEF ChannelNext
    <3>3. CASE code[s] # 421 /\ code[s] # 227
      BY <2>2, <3>3, UseFrame DEF ReplyWritten, Owed, TypeOK
    <3> QED  BY <3>1, <3>2, <3>3
  <2>3. CASE ControlFails(s)
    BY <2>3, <1>3 DEF ControlFails
  <2> QED  BY <1>5, <2>1, <2>2, <2>3
<1>6. ASSUME NEW s \in Session, PrelimWritten(s) \/ PrelimFails(s) \/ ConnectFails(s) PROVE Goal
  <2>1. pc[s] # "reply" /\ UNCHANGED channelVars
    BY <1>6 DEF PrelimWritten, PrelimFails, ConnectFails
  <2>2. offered[s] = NoPort
    BY <2>1 DEF Owed
  <2>3. pc'[s] = "accept" => PassivePending(s)
    BY <1>6 DEF PrelimWritten, PrelimFails, ConnectFails, Abandon, Reply, TypeOK
  <2>4. \A t \in Session \ {s} : pc'[t] = pc[t] /\ code'[t] = code[t]
    BY <1>6 DEF PrelimWritten, PrelimFails, ConnectFails, Abandon, Reply, TypeOK
  <2> QED  BY <2>1, <2>2, <2>3, <2>4, UseFrame
<1>7. ASSUME NEW s \in Session, AcceptsConnection(s) PROVE Goal
  <2>1. PassivePending(s) /\ offered[s] = NoPort
    BY <1>7 DEF AcceptsConnection, Waiting, Owed
  <2>2. ChannelNext
    BY <1>7, <2>1 DEF AcceptsConnection, AcceptPassiveConnection, ChannelNext
  <2>3. pc'[s] # "accept" /\ \A t \in Session \ {s} : pc'[t] = pc[t] /\ code'[t] = code[t]
    BY <1>7 DEF AcceptsConnection, StartTransfer, TransferRefused, Abandon, Reply, TypeOK
  <2>4. Owed' /\ Waiting'
    BY <1>7, <2>1, <2>3 DEF AcceptsConnection, TakeConnection, Owed, Waiting, PassivePending, TypeOK, ChannelTypeOK
  <2> QED  BY <2>2, <2>4
<1>8. ASSUME NEW s \in Session, ConnectsToClient(s) \/ FinishTransfer(s) PROVE Goal
  <2>1. ChannelNext
    BY <1>8 DEF ConnectsToClient, FinishTransfer, ChannelNext
  <2>2. pc[s] # "reply" /\ UNCHANGED <<acceptor, passivePort, offered>>
    BY <1>8 DEF ConnectsToClient, CreateActiveChannel, CloseData, FinishTransfer
  <2>3. pc'[s] # "accept" /\ \A t \in Session \ {s} : pc'[t] = pc[t] /\ code'[t] = code[t]
    BY <1>8 DEF ConnectsToClient, StartTransfer, TransferRefused, Abandon, FinishTransfer, Reply, TypeOK
  <2>4. Owed' /\ Waiting'
    BY <2>2, <2>3 DEF Owed, Waiting, PassivePending
  <2> QED  BY <2>1, <2>4
<1>9. ASSUME NEW s \in Session, ClientStep(s) PROVE Goal
  <2>1. CASE Connect(s)
    BY <2>1, UseFrame DEF Connect, Owed, TypeOK
  <2>2. CASE ClientOpensData(s)
    <3>1. ChannelNext
      BY <2>2 DEF ClientOpensData, ChannelNext
    <3>2. UNCHANGED <<pc, code, acceptor, passivePort, offered>>
      BY <2>2 DEF ClientOpensData, sessionVars, ClientConnects, ClientIsRefused
    <3> QED  BY <3>1, <3>2 DEF Owed, Waiting, PassivePending
  <2>3. CASE ClientLeaves(s)
    <3>1. ChannelNext
      BY <2>3 DEF ClientLeaves, ChannelNext
    <3>2. UNCHANGED <<pc, code, acceptor, passivePort, offered>>
      BY <2>3 DEF ClientLeaves, ClientForgets
    <3> QED  BY <3>1, <3>2 DEF Owed, Waiting, PassivePending
  <2> QED  BY <1>9, <2>1, <2>2, <2>3 DEF ClientStep
<1> QED
  BY <1>1, <1>2, <1>4, <1>5, <1>6, <1>7, <1>8, <1>9 DEF Next, ServerStep

(* Every behaviour of the FTP service is a behaviour of the data channels: *)
(* commands create, tell, use and close them only in an order DataChannel  *)
(* allows, whether ports are shared or not.                                *)
THEOREM ChannelsUsed == Spec => UsesChannels
<1>1. Init => ChannelUse
  BY TypeInit DEF Init, ChannelInit, ChannelUse, Owed, Waiting
<1>2. ChannelUse /\ [Next]_vars => ChannelUse'
  BY ChannelUseStep, TypeStep DEF ChannelUse
<1>3. ChannelUse /\ [Next]_vars => [ChannelNext]_channelVars
  BY ChannelUseStep
<1>4. Init => ChannelInit
  BY DEF Init
<1> QED  BY <1>1, <1>2, <1>3, <1>4, PTL DEF Spec, UsesChannels, ChannelSpec

(* So, where ports are not shared, what DataChannel promises holds of FTP: *)
(* the data connection of a session ends at its own client.                *)
THEOREM DataConnectionsSafe ==
    ASSUME SharedBind = FALSE
    PROVE  Spec => [](ListenersDistinct /\ OwnDataConnection /\ AnnouncedIsOpen)
  BY ChannelsUsed, ChannelSafety, PTL DEF UsesChannels

(* In particular a client that still has to use the port it was told finds *)
(* its own session listening there.                                        *)
THEOREM AnnouncedPortsAreOpen ==
    ASSUME SharedBind = FALSE
    PROVE  Spec => []AnnouncedIsOpen
  BY DataConnectionsSafe, PTL

-----------------------------------------------------------------------------
(* Why a waiting session can still be served: whoever holds a listener and *)
(* has a client owes it the port, or the client has the port, or its       *)
(* connection is queued.                                                   *)
Reachable ==
    \A s \in Session :
        online[s] /\ acceptor[s] # NoPort =>
            \/ offered[s] # NoPort
            \/ announced[s] = acceptor[s]
            \/ s \in backlog[s]

(* A closed session holds nothing, so the next one on it starts afresh.    *)
ClosedIsClean == \A s \in Session : pc[s] = "closed" => acceptor[s] = NoPort

AcceptInv == ChannelUse /\ ChannelSafe /\ Reachable /\ ClosedIsClean

(* Every step keeps a waiting session reachable.                           *)
LEMMA ReachableStep ==
    ASSUME AcceptInv, [Next]_vars
    PROVE  Reachable' /\ ClosedIsClean'
<1> DEFINE Goal == Reachable' /\ ClosedIsClean'
<1> USE DEF AcceptInv, ChannelUse
<1>1. CASE UNCHANGED vars \/ OtherProgram
  BY <1>1 DEF vars, OtherProgram, channelVars, Reachable, ClosedIsClean
<1>2. ASSUME NEW s \in Session, EndSession(s) PROVE Goal
  BY <1>2 DEF EndSession, CloseAll, Reachable, ClosedIsClean, TypeOK, ChannelTypeOK
<1>3. ASSUME NEW s \in Session, UNCHANGED channelVars, UNCHANGED online, pc'[s] # "closed",
             \A t \in Session \ {s} : pc'[t] = pc[t]
      PROVE  Goal
  BY <1>3 DEF channelVars, Reachable, ClosedIsClean
<1>4. ASSUME NEW s \in Session, Handler(s) PROVE Goal
  <2>1. UNCHANGED online /\ pc'[s] # "closed" /\ \A t \in Session \ {s} : pc'[t] = pc[t]
    BY <1>4, HandlerShape DEF Reply, BeginTransfer, TypeOK
  <2>2. CASE Pasv(s)
    <3>1. PICK p \in BoundPorts :
            /\ acceptor' = [acceptor EXCEPT ![s] = p]
            /\ backlog' = [backlog EXCEPT ![s] = {}]
            /\ offered' = [offered EXCEPT ![s] = p]
            /\ announced' = [announced EXCEPT ![s] = NoPort]
      BY <2>2 DEF Pasv, CreatePassiveChannel
    <3>2. p # NoPort  BY BoundPortIsFree
    <3> QED  BY <2>1, <3>1, <3>2 DEF Reachable, ClosedIsClean, TypeOK, ChannelTypeOK
  <2> QED  BY <1>4, <2>1, <2>2, <1>3, HandlerShape
<1>5. ASSUME NEW s \in Session, WelcomeWritten(s) \/ ReplyWritten(s) \/ ControlFails(s) PROVE Goal
  <2>1. CASE WelcomeWritten(s)
    BY <2>1, <1>3 DEF WelcomeWritten, TypeOK
  <2>2. CASE ReplyWritten(s)
    <3>1. CASE code[s] = 421
      BY <2>2, <3>1, <1>2 DEF ReplyWritten
    <3>2. CASE code[s] = 227
      <4>1. acceptor[s] = offered[s]
        BY <2>2, <3>2 DEF ReplyWritten, Announce, ChannelSafe, OfferIsFresh
      <4> QED  BY <2>2, <3>2, <4>1 DEF ReplyWritten, Announce, Reachable, ClosedIsClean, TypeOK, ChannelTypeOK
    <3>3. CASE code[s] # 421 /\ code[s] # 227
      BY <2>2, <3>3, <1>3 DEF ReplyWritten, TypeOK
    <3> QED  BY <3>1, <3>2, <3>3
  <2>3. CASE ControlFails(s)
    BY <2>3, <1>2 DEF ControlFails
  <2> QED  BY <1>5, <2>1, <2>2, <2>3
<1>6. ASSUME NEW s \in Session, PrelimWritten(s) \/ PrelimFails(s) \/ ConnectFails(s) PROVE Goal
  BY <1>6, <1>3 DEF PrelimWritten, PrelimFails, ConnectFails, Abandon, Reply, TypeOK
<1>7. ASSUME NEW s \in Session, AcceptsConnection(s) PROVE Goal
  <2>1. UNCHANGED online /\ pc'[s] # "closed" /\ \A t \in Session \ {s} : pc'[t] = pc[t]
    BY <1>7 DEF AcceptsConnection, StartTransfer, TransferRefused, Abandon, Reply, TypeOK
  <2> QED
    BY <1>7, <2>1 DEF AcceptsConnection, TakeConnection, Reachable, ClosedIsClean, TypeOK, ChannelTypeOK
<1>8. ASSUME NEW s \in Session, ConnectsToClient(s) \/ FinishTransfer(s) PROVE Goal
  <2>1. pc'[s] # "closed" /\ \A t \in Session \ {s} : pc'[t] = pc[t]
    BY <1>8 DEF ConnectsToClient, StartTransfer, TransferRefused, Abandon, FinishTransfer, Reply, TypeOK
  <2>2. UNCHANGED <<acceptor, backlog, offered, announced, online>>
    BY <1>8 DEF ConnectsToClient, CreateActiveChannel, CloseData, FinishTransfer
  <2> QED  BY <2>1, <2>2 DEF Reachable, ClosedIsClean
<1>9. ASSUME NEW s \in Session, ClientStep(s) PROVE Goal
  <2>1. CASE Connect(s)
    BY <2>1 DEF Connect, channelVars, Reachable, ClosedIsClean, TypeOK
  <2>2. CASE ClientOpensData(s)
    <3>1. UNCHANGED sessionVars
      BY <2>2 DEF ClientOpensData
    <3>2. ClientConnects(s)
      BY <2>2 DEF ClientOpensData, ClientIsRefused, Listeners, ChannelSafe, AnnouncedIsOpen
    <3>4. announced[s] # NoPort /\ acceptor[s] = announced[s]
      BY <3>2 DEF ClientConnects, ChannelSafe, AnnouncedIsOpen
    <3>5. Listeners(announced[s]) = {s}
      BY <3>4 DEF Listeners, ChannelSafe, ListenersDistinct
    <3>3. backlog' = [backlog EXCEPT ![s] = @ \cup {s}]
      BY <3>2, <3>5 DEF ClientConnects
    <3> QED
      BY <3>1, <3>2, <3>3 DEF sessionVars, ClientConnects, Reachable, ClosedIsClean, TypeOK, ChannelTypeOK
  <2>3. CASE ClientLeaves(s)
    BY <2>3 DEF ClientLeaves, ClientForgets, Reachable, ClosedIsClean, TypeOK, ChannelTypeOK
  <2> QED  BY <1>9, <2>1, <2>2, <2>3 DEF ClientStep
<1> QED
  BY <1>1, <1>4, <1>5, <1>6, <1>7, <1>8, <1>9 DEF Next, ServerStep

(* Where ports are not shared, a session that waits for its client's data  *)
(* connection can always still get it while the client is there.           *)
THEOREM WaitingIsServable ==
    ASSUME SharedBind = FALSE
    PROVE  Spec => []AcceptReachable
<1>1. Init => AcceptInv
  <2>1. Init => ChannelInit /\ TypeOK
    BY TypeInit DEF Init
  <2>2. ChannelInit => ChannelSafe
    BY ChannelTypeInit
       DEF ChannelSafe, ChannelInit, ListenersDistinct, OwnDataConnection, AnnouncedIsOpen, OfferIsFresh
  <2> QED
    BY <2>1, <2>2 DEF Init, ChannelInit, AcceptInv, ChannelUse, Owed, Waiting, Reachable, ClosedIsClean
<1>2. AcceptInv /\ [Next]_vars => AcceptInv'
  BY ChannelUseStep, TypeStep, ChannelSafeStep, ReachableStep DEF AcceptInv, ChannelUse
<1>3. AcceptInv => AcceptReachable
  BY DEF AcceptInv, ChannelUse, Waiting, Owed, Reachable, PassivePending, AcceptReachable
<1> QED  BY <1>1, <1>2, <1>3, PTL DEF Spec

-----------------------------------------------------------------------------
(* What a handler may do to the state a session keeps: without a login only*)
(* USER, PASS and PORT change it, and none of it that work leaves behind.  *)
LEMMA HandlerLogin ==
    ASSUME TypeOK, NEW s \in Session, Handler(s)
    PROVE  /\ \A t \in Session \ {s} : state'[t] = state[t]
           /\ state[s].authenticated => state'[s].authenticated
           /\ ~state[s].authenticated =>
                 /\ pc'[s] = "reply"
                 /\ state'[s].current = state[s].current
                 /\ state'[s].renameFrom = state[s].renameFrom
<1> USE DEF Permitted
<1> DEFINE Goal ==
      /\ \A t \in Session \ {s} : state'[t] = state[t]
      /\ state[s].authenticated => state'[s].authenticated
      /\ ~state[s].authenticated =>
            /\ pc'[s] = "reply"
            /\ state'[s].current = state[s].current
            /\ state'[s].renameFrom = state[s].renameFrom
<1>1. CASE UNCHANGED state /\ (\E c \in FinalCode : Reply(s, c))
  BY <1>1 DEF Reply, TypeOK
<1>2. CASE User(s)
  BY <1>2 DEF User, Reply, TypeOK, SessionState
<1>3. CASE Pass(s)
  BY <1>3 DEF Pass, Reply, TypeOK, SessionState
<1>4. CASE PortCommand(s)
  BY <1>4 DEF PortCommand, Reply, TypeOK, SessionState
<1>5. CASE Rnfr(s)
  BY <1>5 DEF Rnfr, TypeOK, SessionState
<1>6. CASE Cwd(s)
  BY <1>6 DEF Cwd, ChangeDirectory, TypeOK, SessionState
<1>7. CASE Cdup(s)
  BY <1>7 DEF Cdup, ChangeDirectory, TypeOK, SessionState
<1>8. CASE BeginTransfer(s)
  BY <1>8 DEF BeginTransfer
<1>9. CASE NotLoggedIn(s) \/ Stateless(s) \/ Quit(s) \/ PortRejected(s) \/ Pasv(s) \/ PasvFails(s)
  <2>1. UNCHANGED state
    BY <1>9 DEF NotLoggedIn, Stateless, Quit, PortRejected, Pasv, PasvFails
  <2>2. ~BeginTransfer(s)
    BY <1>9 DEF NotLoggedIn, Stateless, Quit, PortRejected, Pasv, PasvFails, BeginTransfer, Reply, TypeOK
  <2> QED  BY <2>1, <2>2, <1>1, HandlerShape
<1>10. CASE Dele(s) \/ Rmd(s) \/ Rnto(s) \/ Pwd(s) \/ Mkd(s) \/ Size(s) \/ MissingFilename(s)
  <2>1. UNCHANGED state /\ state[s].authenticated
    BY <1>10 DEF Dele, Rmd, Rnto, Pwd, Mkd, Size, MissingFilename
  <2> QED  BY <2>1
<1> QED
  BY <1>2, <1>3, <1>4, <1>5, <1>6, <1>7, <1>8, <1>9, <1>10 DEF Handler

(* No session works, or shows that it did, without a login of its own.     *)
THEOREM WorkNeedsLogin == Spec => []WorkIsLoggedIn
<1>1. Init => WorkIsLoggedIn
  BY DEF Init, InitialState, WorkIsLoggedIn
<1>2. TypeOK /\ WorkIsLoggedIn /\ [Next]_vars => WorkIsLoggedIn'
  <2> SUFFICES ASSUME TypeOK, WorkIsLoggedIn, [Next]_vars PROVE WorkIsLoggedIn'
    OBVIOUS
  <2> USE DEF WorkIsLoggedIn
  <2>1. CASE UNCHANGED vars \/ OtherProgram
    BY <2>1 DEF vars, OtherProgram
  <2>2. ASSUME NEW s \in Session, EndSession(s) PROVE WorkIsLoggedIn'
    BY <2>2 DEF EndSession, InitialState, TypeOK
  <2>3. ASSUME NEW s \in Session, Handler(s) PROVE WorkIsLoggedIn'
    <3>1. \A t \in Session \ {s} : pc'[t] = pc[t]
      BY <2>3, HandlerShape DEF Reply, BeginTransfer, TypeOK
    <3> QED  BY <2>3, <3>1, HandlerLogin
  <2>4. ASSUME NEW s \in Session, ServerStep(s) PROVE WorkIsLoggedIn'
    <3>1. CASE WelcomeWritten(s)
      BY <3>1 DEF WelcomeWritten, TypeOK
    <3>2. CASE ReplyWritten(s) \/ ControlFails(s)
      BY <2>2, <3>2 DEF ReplyWritten, ControlFails, TypeOK
    <3>3. CASE PrelimWritten(s) \/ PrelimFails(s) \/ ConnectFails(s) \/ FinishTransfer(s)
      BY <3>3 DEF PrelimWritten, PrelimFails, ConnectFails, FinishTransfer, Abandon, Reply, TypeOK
    <3>4. CASE AcceptsConnection(s) \/ ConnectsToClient(s)
      BY <3>4 DEF AcceptsConnection, ConnectsToClient, StartTransfer, TransferRefused, Abandon, Reply, TypeOK
    <3> QED  BY <2>4, <3>1, <3>2, <3>3, <3>4 DEF ServerStep
  <2>5. ASSUME NEW s \in Session, ClientStep(s) PROVE WorkIsLoggedIn'
    BY <2>5 DEF ClientStep, Connect, ClientOpensData, ClientLeaves, sessionVars, TypeOK
  <2> QED  BY <2>1, <2>3, <2>4, <2>5 DEF Next
<1> QED  BY <1>1, <1>2, Typing, PTL DEF Spec

-----------------------------------------------------------------------------
(* A session that moves moves the dialogue, and no other one.              *)
LEMMA PhaseMoves ==
    ASSUME TypeOK, NEW s \in Session, NEW p \in PC, pc' = [pc EXCEPT ![s] = p]
    PROVE  DialoguePhase' = [DialoguePhase EXCEPT ![s] = PhaseOf(p)]
  BY DEF DialoguePhase, TypeOK

(* What each place of a session is to the dialogue.                        *)
LEMMA Phases ==
    /\ PhaseOf("closed") = "down" /\ PhaseOf("welcome") = "greeting"
    /\ PhaseOf("idle") = "ready" /\ PhaseOf("prelim") = "opening"
    /\ PhaseOf("reply") = "answering" /\ PhaseOf("accept") = "moving"
    /\ PhaseOf("connect") = "moving" /\ PhaseOf("transfer") = "moving"
  BY DEF PhaseOf

(* A session that ends hangs up, after 421 or when the connection is lost. *)
LEMMA EndHangsUp ==
    ASSUME TypeOK, NEW s \in Session, EndSession(s), pc[s] \in {"welcome", "idle", "reply"},
           code[s] = 421 \/ ~online[s]
    PROVE  Dialogue!DialogueNext
<1>1. DialoguePhase' = [DialoguePhase EXCEPT ![s] = "down"]
  BY PhaseMoves, Phases DEF EndSession, PC
<1>2. DialoguePhase[s] \in {"greeting", "ready", "answering"}
  BY Phases DEF DialoguePhase
<1> QED
  BY <1>1, <1>2 DEF EndSession, Dialogue!DialogueNext, Dialogue!HangUp, Dialogue!Becomes

(* A command is taken by its reply or by the 150 of a transfer.            *)
LEMMA HandlerTakesCommand ==
    ASSUME TypeOK, NEW s \in Session, Handler(s)
    PROVE  Dialogue!DialogueNext
<1>1. DialoguePhase[s] = "ready" /\ online[s] /\ UNCHANGED online
  BY HandlerShape, Phases DEF DialoguePhase
<1>2. ASSUME NEW c \in FinalCode, Reply(s, c) PROVE Dialogue!TakeCommand(s)
  <2>1. DialoguePhase' = [DialoguePhase EXCEPT ![s] = "answering"]
    BY <1>2, PhaseMoves, Phases DEF Reply, PC
  <2> QED  BY <1>1, <1>2, <2>1 DEF Reply, Dialogue!TakeCommand, Dialogue!Becomes
<1>3. ASSUME BeginTransfer(s) PROVE Dialogue!TakeCommand(s)
  <2>1. DialoguePhase' = [DialoguePhase EXCEPT ![s] = "opening"]
    BY <1>3, PhaseMoves, Phases DEF BeginTransfer, PC
  <2> QED  BY <1>1, <1>3, <2>1 DEF BeginTransfer, Dialogue!TakeCommand, Dialogue!Becomes
<1> QED  BY <1>2, <1>3, HandlerShape DEF Dialogue!DialogueNext

(* A session that has a reply owes its client the answer.                  *)
LEMMA ReplyPhase ==
    ASSUME TypeOK, NEW s \in Session, NEW c, Reply(s, c)
    PROVE  DialoguePhase' = [DialoguePhase EXCEPT ![s] = "answering"]
<1>1. pc' = [pc EXCEPT ![s] = "reply"] /\ "reply" \in PC
  BY DEF Reply, PC
<1> QED  BY <1>1, PhaseMoves, Phases

(* A transfer that ends, however it ends, owes the client 226 or 550.      *)
LEMMA TransferIsAnswered ==
    ASSUME TypeOK, NEW s \in Session, pc[s] \in {"prelim", "accept", "connect", "transfer"},
           NEW c \in {226, 550}, pc[s] = "prelim" => c = 550,
           Reply(s, c), UNCHANGED online
    PROVE  Dialogue!DialogueNext
<1>1. DialoguePhase' = [DialoguePhase EXCEPT ![s] = "answering"]
  BY ReplyPhase
<1>2. /\ DialoguePhase[s] \in {"opening", "moving"}
      /\ DialoguePhase[s] = "opening" => c = 550
  BY Phases DEF DialoguePhase
<1>4. Dialogue!Becomes(s, {"opening", "moving"}, "answering")
  BY <1>1, <1>2 DEF Dialogue!Becomes
<1> DEFINE Owes(d) == code' = [code EXCEPT ![s] = d]
           opening == DialoguePhase[s] = "opening"
<1>5. Owes(c)
  BY DEF Reply
<1>6. \E d \in {226, 550} : (opening => d = 550) /\ Owes(d)
  <2> HIDE DEF Owes, opening
  <2> QED  BY <1>2, <1>5 DEF opening
<1>3. Dialogue!Moved(s)
  BY <1>4, <1>6 DEF Dialogue!Moved
<1> QED  BY <1>3 DEF Dialogue!DialogueNext

(* What the server does by itself is a step of the dialogue, or none.      *)
LEMMA ServerKeepsDialogue ==
    ASSUME TypeOK, NEW s \in Session, ServerStep(s)
    PROVE  [Dialogue!DialogueNext]_(Dialogue!dialogueVars)
<1> USE DEF Dialogue!dialogueVars
<1>1. CASE WelcomeWritten(s)
  <2>1. DialoguePhase' = [DialoguePhase EXCEPT ![s] = "ready"] /\ DialoguePhase[s] = "greeting"
    BY <1>1, PhaseMoves, Phases DEF WelcomeWritten, PC, DialoguePhase
  <2> QED
    BY <1>1, <2>1 DEF WelcomeWritten, Dialogue!DialogueNext, Dialogue!Greet, Dialogue!Becomes
<1>2. CASE ReplyWritten(s)
  <2>1. CASE code[s] = 421
    BY <1>2, <2>1, EndHangsUp DEF ReplyWritten
  <2>2. CASE code[s] # 421
    <3>1. DialoguePhase' = [DialoguePhase EXCEPT ![s] = "ready"] /\ DialoguePhase[s] = "answering"
      BY <1>2, <2>2, PhaseMoves, Phases DEF ReplyWritten, PC, DialoguePhase
    <3> QED
      BY <1>2, <2>2, <3>1
         DEF ReplyWritten, Dialogue!DialogueNext, Dialogue!Answer, Dialogue!Becomes, NoCode
  <2> QED  BY <2>1, <2>2
<1>3. CASE ControlFails(s)
  BY <1>3, EndHangsUp DEF ControlFails
<1>4. CASE Abandon(s) /\ pc[s] \in {"prelim", "accept", "connect"} /\ UNCHANGED online
  BY <1>4, TransferIsAnswered DEF Abandon
<1>5. CASE PrelimWritten(s)
  <2>1. CASE \E p \in {"accept", "connect"} : pc' = [pc EXCEPT ![s] = p] /\ UNCHANGED code
    <3>1. DialoguePhase' = [DialoguePhase EXCEPT ![s] = "moving"] /\ DialoguePhase[s] = "opening"
      BY <1>5, <2>1, PhaseMoves, Phases DEF PrelimWritten, PC, DialoguePhase
    <3> QED
      BY <1>5, <2>1, <3>1
         DEF PrelimWritten, Dialogue!DialogueNext, Dialogue!Opened, Dialogue!Becomes
  <2> QED  BY <1>4, <1>5, <2>1 DEF PrelimWritten
<1>6. CASE PrelimFails(s) \/ ConnectFails(s)
  BY <1>4, <1>6 DEF PrelimFails, ConnectFails
<1>7. CASE AcceptsConnection(s) \/ ConnectsToClient(s)
  <2>1. pc[s] \in {"accept", "connect"} /\ UNCHANGED online
        /\ (StartTransfer(s) \/ TransferRefused(s))
    BY <1>7 DEF AcceptsConnection, ConnectsToClient
  <2>2. CASE StartTransfer(s)
    <3>1. DialoguePhase' = [DialoguePhase EXCEPT ![s] = "moving"] /\ DialoguePhase[s] = "moving"
      BY <2>1, <2>2, PhaseMoves, Phases DEF StartTransfer, PC, DialoguePhase
    <3>2. DialoguePhase' = DialoguePhase
      BY <3>1 DEF DialoguePhase
    <3> QED  BY <2>1, <2>2, <3>2 DEF StartTransfer
  <2> QED  BY <1>4, <2>1, <2>2 DEF TransferRefused
<1>8. CASE FinishTransfer(s)
  <2>1. PICK c \in {226, 550} : Reply(s, c)
    BY <1>8 DEF FinishTransfer, TransferReply
  <2> QED  BY <1>8, <2>1, TransferIsAnswered DEF FinishTransfer
<1> QED
  BY <1>1, <1>2, <1>3, <1>5, <1>6, <1>7, <1>8 DEF ServerStep

(* For any number of sessions and any commands: every command is answered  *)
(* by exactly one final reply, after at most one 150, also when a transfer *)
(* throws; and only 421 or a lost connection ends a session.               *)
THEOREM DialogueKept == Spec => KeepsDialogue
<1>1. Init => Dialogue!DialogueInit
  BY Phases DEF Init, DialoguePhase, Dialogue!DialogueInit
<1>2. TypeOK /\ [Next]_vars => [Dialogue!DialogueNext]_(Dialogue!dialogueVars)
  <2> SUFFICES ASSUME TypeOK, [Next]_vars PROVE [Dialogue!DialogueNext]_(Dialogue!dialogueVars)
    OBVIOUS
  <2> USE DEF Dialogue!dialogueVars
  <2>1. CASE UNCHANGED <<pc, code, online>>
    BY <2>1 DEF DialoguePhase
  <2>2. ASSUME NEW s \in Session, ClientStep(s)
        PROVE  [Dialogue!DialogueNext]_(Dialogue!dialogueVars)
    <3>1. CASE Connect(s)
      <4>1. DialoguePhase' = [DialoguePhase EXCEPT ![s] = "greeting"] /\ DialoguePhase[s] = "down"
        BY <3>1, PhaseMoves, Phases DEF Connect, PC, DialoguePhase
      <4> QED
        BY <3>1, <4>1 DEF Connect, Dialogue!DialogueNext, Dialogue!Dial, Dialogue!Becomes
    <3>2. CASE ClientOpensData(s)
      BY <2>1, <3>2 DEF ClientOpensData, sessionVars
    <3>3. CASE ClientLeaves(s)
      <4>1. DialoguePhase' = DialoguePhase
        BY <3>3 DEF ClientLeaves, DialoguePhase
      <4> QED  BY <3>3, <4>1 DEF ClientLeaves, Dialogue!DialogueNext, Dialogue!Lose
    <3> QED  BY <2>2, <3>1, <3>2, <3>3 DEF ClientStep
  <2>3. CASE OtherProgram
    BY <2>1, <2>3 DEF OtherProgram
  <2>4. CASE UNCHANGED vars
    BY <2>1, <2>4 DEF vars
  <2> QED
    BY <2>2, <2>3, <2>4, HandlerTakesCommand, ServerKeepsDialogue DEF Next
<1> QED  BY <1>1, <1>2, Typing, PTL DEF Spec, KeepsDialogue, Dialogue!DialogueSpec

-----------------------------------------------------------------------------
(* The sessions and the directory tree.                                    *)

(* A path that resolves exists and lies inside the root.                   *)
LEMMA TargetInside ==
    ASSUME NEW n \in Node, Target(n) # NoNode
    PROVE  Target(n) = n /\ n \in Inside /\ Exists(disk, n)
  BY DEF Target, Resolve

-----------------------------------------------------------------------------
(* What the sessions do with it.                                           *)

TreeInv == TypeOK /\ TreeWellFormed /\ OpenFilesStay /\ HeldInside

(* An open file is a node.                                                 *)
LEMMA BusyNodes == ASSUME HeldInside PROVE Busy \subseteq Node
  BY TreeAssumption DEF Busy, HeldInside

DiskSafe == Respects(disk, disk', Busy)

(* A removal that is closed, inside the root and spares open files.        *)
LEMMA RemovalIsSafe ==
    ASSUME TreeInv, NEW R \in SUBSET Inside, R \cap Busy = {},
           \A m \in R : Below(disk, m) \subseteq R,
           disk' = Without(disk, R)
    PROVE  DiskSafe
<1>1. WellFormed(disk')
  BY RemovalKeepsTree, TreeAssumption DEF TreeInv, TypeOK, TreeWellFormed
<1>2. Busy \subseteq Node
  BY BusyNodes DEF TreeInv
<1>3. \A n \in Node \ R : disk'[n] = disk[n]
  BY DEF Without
<1> QED  BY <1>1, <1>2, <1>3 DEF DiskSafe, Respects, TreeInv, OpenFilesStay

(* MKD only creates what exists: it never changes the disk.                *)
LEMMA MkdKeepsDisk == ASSUME TreeInv, NEW s \in Session, Mkd(s) PROVE UNCHANGED disk
  BY CreatingWhatExists, TargetInside DEF Mkd, TreeInv, TypeOK, TreeWellFormed

(* Whatever a client sends leaves the disk safe.                           *)
LEMMA HandlerDisk ==
    ASSUME TreeInv, NEW s \in Session, Handler(s)
    PROVE  DiskSafe
<1> USE DEF TreeInv
<1>1. CASE UNCHANGED disk
  BY <1>1 DEF DiskSafe, Respects, TreeWellFormed, OpenFilesStay
<1>2. ASSUME NEW n \in Node, Target(n) # NoNode, RemoveTree(s, n) PROVE DiskSafe
  <2>1. PICK R \in SUBSET Below(disk, n) :
          /\ R \cap Busy = {}
          /\ \A m \in R : Below(disk, m) \subseteq R
          /\ disk' = Without(disk, R)
    <3>1. CASE Below(disk, n) \cap Busy = {}
      BY <1>2, <3>1, BelowIsClosed DEF RemoveTree, TypeOK
    <3>2. CASE Below(disk, n) \cap Busy # {}
      BY <1>2, <3>2 DEF RemoveTree, PartialRemovals
    <3> QED  BY <3>1, <3>2
  <2>2. R \in SUBSET Inside
    BY <1>2, BelowIsInside, TargetInside DEF TypeOK
  <2> QED  BY <2>1, <2>2, RemovalIsSafe
<1>3. CASE Dele(s)
  <2>1. PICK n \in Node :
          \/ UNCHANGED disk
          \/ Target(n) # NoNode /\ RemoveTree(s, n)
          \/ Target(n) # NoNode /\ disk[n] = "file" /\ n \notin Busy /\ disk' = Without(disk, {n})
    BY <1>3 DEF Dele
  <2>2. CASE Target(n) # NoNode /\ disk[n] = "file" /\ n \notin Busy /\ disk' = Without(disk, {n})
    <3>1. WellFormed(disk')
      BY <2>2, TreeAssumption DEF Without, WellFormed, TreeWellFormed, TypeOK, Disk, Kind, Exists
    <3>2. n \in Inside
      BY <2>2, TargetInside
    <3>3. Busy \subseteq Node
      BY BusyNodes
    <3> QED  BY <2>2, <3>1, <3>2, <3>3 DEF DiskSafe, Respects, Without, OpenFilesStay
  <2> QED  BY <1>1, <1>2, <2>1, <2>2
<1>4. CASE Rmd(s)
  BY <1>1, <1>2, <1>4 DEF Rmd
<1>5. CASE Rnto(s)
  <2>1. PICK from \in RenameFromRead(s), n \in Node :
          \/ UNCHANGED disk
          \/ /\ from # NoNode /\ CanRename(disk, from, n, Busy)
             /\ disk' = Rename(disk, from, n)
    BY <1>5 DEF Rnto
  <2>2. CASE from # NoNode /\ CanRename(disk, from, n, Busy) /\ disk' = Rename(disk, from, n)
    <3>1. from \in Inside /\ from \in Node
      BY <2>2, TreeAssumption DEF RenameFromRead, HeldInside
    <3>2. WellFormed(disk')
      BY <2>2, <3>1, RenameKeepsTree DEF TypeOK, TreeWellFormed
    <3>3. \A m \in Node \ {from} : disk'[m] = disk[m]
      BY <2>2, <3>1 DEF Rename, TypeOK, Disk
    <3>4. from \notin Busy /\ Busy \subseteq Node
      <4>1. from \in Below(disk, from)
        BY <2>2, <3>1, TreeAssumption DEF CanRename, Below
      <4>2. Busy \subseteq Node
        BY BusyNodes
      <4> QED  BY <2>2, <4>1, <4>2 DEF CanRename
    <3> QED  BY <3>1, <3>2, <3>3, <3>4 DEF DiskSafe, Respects, OpenFilesStay
  <2> QED  BY <1>1, <2>1, <2>2
<1>6. CASE Mkd(s)
  BY <1>1, <1>6, MkdKeepsDisk
<1>7. CASE NotLoggedIn(s) \/ Stateless(s) \/ User(s) \/ Pass(s) \/ Quit(s) \/ PortCommand(s)
           \/ PortRejected(s) \/ Pasv(s) \/ PasvFails(s)
  BY <1>1, <1>7 DEF NotLoggedIn, Stateless, User, Pass, Quit, PortCommand, PortRejected, Pasv, PasvFails
<1>8. CASE Rnfr(s) \/ Cwd(s) \/ Cdup(s) \/ Pwd(s) \/ Size(s) \/ BeginTransfer(s) \/ MissingFilename(s)
  BY <1>1, <1>8 DEF Rnfr, Cwd, Cdup, Pwd, Size, BeginTransfer, MissingFilename
<1> QED
  BY <1>3, <1>4, <1>5, <1>6, <1>7, <1>8 DEF Handler

(* So does every step.                                                     *)
LEMMA DiskStep == ASSUME TreeInv, [Next]_vars PROVE DiskSafe
<1> USE DEF TreeInv
<1>1. CASE UNCHANGED disk
  BY <1>1 DEF DiskSafe, Respects, TreeWellFormed, OpenFilesStay
<1>2. CASE OtherProgram
  BY <1>2 DEF OtherProgram, DiskSafe
<1>3. ASSUME NEW s \in Session, ServerStep(s) PROVE UNCHANGED disk
  BY <1>3 DEF ServerStep, WelcomeWritten, ReplyWritten, ControlFails, EndSession, PrelimWritten,
              PrelimFails, AcceptsConnection, ConnectsToClient, ConnectFails, FinishTransfer
<1>4. ASSUME NEW s \in Session, ClientStep(s) PROVE UNCHANGED disk
  BY <1>4 DEF ClientStep, Connect, ClientOpensData, ClientLeaves, sessionVars
<1> QED
  BY <1>1, <1>2, <1>3, <1>4, HandlerDisk DEF Next, vars

-----------------------------------------------------------------------------
(* What sessions hold.                                                     *)

(* No handler starts a transfer of a file, and what CWD and RNFR keep lies *)
(* inside.                                                                 *)
LEMMA HandlerHolds ==
    ASSUME TreeInv, NEW s \in Session, Handler(s)
    PROVE  /\ HeldInside'
           /\ Busy' \subseteq Busy
<1> USE DEF TreeInv
<1>1. /\ pc'[s] # "transfer" /\ \A t \in Session \ {s} : pc'[t] = pc[t] /\ job'[t] = job[t]
  BY HandlerShape DEF Reply, BeginTransfer, TypeOK
<1>2. Busy' \subseteq Busy
  BY <1>1 DEF Busy
<1>3. ASSUME \A t \in Session : /\ state'[t].current \in {state[t].current} \cup Inside
                               /\ state'[t].renameFrom \in {state[t].renameFrom} \cup Inside
      PROVE  HeldInside'
  BY <1>1, <1>3 DEF HeldInside
<1>4. CASE UNCHANGED state
  BY <1>2, <1>3, <1>4
<1>5. CASE User(s) \/ Pass(s) \/ PortCommand(s)
  <2>1. \A t \in Session : /\ state'[t].current = state[t].current
                          /\ state'[t].renameFrom = state[t].renameFrom
    <3>1. CASE User(s)
      BY <3>1 DEF User, TypeOK, SessionState
    <3>2. CASE Pass(s)
      BY <3>2 DEF Pass, TypeOK, SessionState
    <3>3. CASE PortCommand(s)
      BY <3>3 DEF PortCommand, TypeOK, SessionState
    <3> QED  BY <1>5, <3>1, <3>2, <3>3
  <2> QED  BY <1>2, <1>3, <2>1
<1>6. CASE Rnfr(s)
  <2>1. \A t \in Session : /\ state'[t].current = state[t].current
                          /\ state'[t].renameFrom \in {state[t].renameFrom} \cup Inside
    BY <1>6, TargetInside DEF Rnfr, TypeOK, SessionState
  <2> QED  BY <1>2, <1>3, <2>1
<1>7. CASE Cwd(s) \/ Cdup(s)
  <2>1. PICK n \in Node : ChangeDirectory(s, n)
    BY <1>7, TreeAssumption DEF Cwd, Cdup, TypeOK, SessionState
  <2>2. \A t \in Session : /\ state'[t].current \in {state[t].current} \cup Inside
                          /\ state'[t].renameFrom = state[t].renameFrom
    BY <2>1, TargetInside DEF ChangeDirectory, TypeOK, SessionState
  <2> QED  BY <1>2, <1>3, <2>2
<1>8. CASE NotLoggedIn(s) \/ Stateless(s) \/ Quit(s) \/ PortRejected(s) \/ Pasv(s) \/ PasvFails(s)
  BY <1>4, <1>8 DEF NotLoggedIn, Stateless, Quit, PortRejected, Pasv, PasvFails
<1>9. CASE Dele(s) \/ Rmd(s) \/ Rnto(s) \/ Pwd(s) \/ Mkd(s) \/ Size(s) \/ BeginTransfer(s)
           \/ MissingFilename(s)
  BY <1>4, <1>9 DEF Dele, Rmd, Rnto, Pwd, Mkd, Size, BeginTransfer, MissingFilename
<1> QED
  BY <1>2, <1>5, <1>6, <1>7, <1>8, <1>9 DEF Handler

(* A transfer that starts opened a file that is there, inside the root.    *)
LEMMA ServerHolds ==
    ASSUME TreeInv, NEW s \in Session, ServerStep(s)
    PROVE  HeldInside' /\ OpenFilesStay'
<1> USE DEF TreeInv, HeldInside, OpenFilesStay, Busy
<1>a. ASSUME UNCHANGED <<state, disk>>, pc'[s] # "transfer",
             \A t \in Session \ {s} : pc'[t] = pc[t] /\ job'[t] = job[t]
      PROVE  HeldInside' /\ OpenFilesStay'
  BY <1>a
<1>1. CASE WelcomeWritten(s)
  BY <1>1 DEF WelcomeWritten, TypeOK
<1>2. CASE ReplyWritten(s) \/ ControlFails(s)
  <2>1. CASE EndSession(s)
    BY <2>1, TreeAssumption DEF EndSession, InitialState, TypeOK
  <2>2. CASE ~EndSession(s)
    <3>1. pc' = [pc EXCEPT ![s] = "idle"] /\ UNCHANGED <<job, state, disk>>
      BY <1>2, <2>2 DEF ReplyWritten, ControlFails
    <3> QED  BY <1>a, <3>1 DEF TypeOK
  <2> QED  BY <2>1, <2>2
<1>3. CASE PrelimWritten(s) \/ PrelimFails(s) \/ ConnectFails(s) \/ FinishTransfer(s)
  <2>1. pc'[s] # "transfer" /\ \A t \in Session \ {s} : pc'[t] = pc[t] /\ job'[t] = job[t]
    BY <1>3 DEF PrelimWritten, PrelimFails, ConnectFails, FinishTransfer, Abandon, Reply, TypeOK
  <2>2. UNCHANGED <<state, disk>>
    BY <1>3 DEF PrelimWritten, PrelimFails, ConnectFails, FinishTransfer
  <2> QED  BY <1>a, <2>1, <2>2
<1>4. CASE AcceptsConnection(s) \/ ConnectsToClient(s)
  <2>1. UNCHANGED <<state, disk>> /\ (StartTransfer(s) \/ TransferRefused(s))
    BY <1>4 DEF AcceptsConnection, ConnectsToClient
  <2>2. CASE TransferRefused(s)
    BY <2>1, <2>2 DEF TransferRefused, Abandon, Reply, TypeOK
  <2>3. CASE StartTransfer(s)
    <3>1. job[s].node \in Inside
      BY <2>3, TargetInside DEF StartTransfer, Transferable, TypeOK, Target, Resolve
    <3>2. job[s].cmd \in {"RETR", "STOR"} => disk[job[s].node] = "file"
      BY <2>3 DEF StartTransfer, Transferable
    <3> QED  BY <2>1, <2>3, <3>1, <3>2 DEF StartTransfer, TypeOK
  <2> QED  BY <2>1, <2>2, <2>3
<1> QED  BY <1>1, <1>2, <1>3, <1>4 DEF ServerStep

(* The inductive invariant: the disk is safe because sessions only hold    *)
(* what lies inside, and they go on to do so.                              *)
LEMMA TreeInvStep == ASSUME TreeInv, [Next]_vars PROVE TreeInv'
<1>1. TypeOK' /\ TreeWellFormed'
  BY TypeStep, DiskStep DEF TreeInv, DiskSafe, Respects, TreeWellFormed
<1>2. CASE UNCHANGED vars \/ OtherProgram
  <2>1. UNCHANGED <<pc, job, state>> /\ Busy' = Busy
    BY <1>2 DEF vars, OtherProgram, Busy
  <2> QED  BY <1>1, <2>1, DiskStep DEF TreeInv, DiskSafe, Respects, OpenFilesStay, HeldInside
<1>3. ASSUME NEW s \in Session, Handler(s) PROVE HeldInside' /\ OpenFilesStay'
  BY <1>3, HandlerHolds, HandlerDisk DEF DiskSafe, Respects, OpenFilesStay
<1>4. ASSUME NEW s \in Session, ClientStep(s) PROVE HeldInside' /\ OpenFilesStay'
  BY <1>4 DEF ClientStep, Connect, ClientOpensData, ClientLeaves, sessionVars,
              TreeInv, HeldInside, OpenFilesStay, Busy, TypeOK
<1> QED
  BY <1>1, <1>2, <1>3, <1>4, ServerHolds DEF Next, TreeInv

(* The four facts hold together in every reachable state.                  *)
LEMMA TreeInvariant == Spec => []TreeInv
<1>1. Init => TreeInv
  <2>1. Init => TypeOK
    BY TypeInit
  <2>2. Init => Busy = {}
    BY DEF Init, Busy
  <2>3. Init => TreeWellFormed /\ HeldInside
    BY TreeAssumption, SessionAssumption DEF Init, InitialState, TreeWellFormed, HeldInside
  <2> QED  BY <2>1, <2>2, <2>3 DEF TreeInv, OpenFilesStay
<1>2. TreeInv /\ [Next]_vars => TreeInv'
  BY TreeInvStep
<1> QED  BY <1>1, <1>2, PTL DEF Spec

(* For every tree and any number of sessions: what a session keeps between *)
(* commands, and the file it has open, lies under the root.                *)
THEOREM SessionsStayInside == Spec => []HeldInside
  BY TreeInvariant, PTL DEF TreeInv

(* No command, in any order and by any number of sessions, changes a node  *)
(* outside the root.                                                       *)
THEOREM OutsideStaysUntouched == Spec => OutsideUntouched
<1>1. TreeInv /\ [Next]_vars => [\A n \in Node \ Inside : disk'[n] = disk[n]]_disk
  BY DiskStep DEF DiskSafe, Respects
<1> QED  BY <1>1, TreeInvariant, PTL DEF Spec, OutsideUntouched

(* What DavHandler assumes of the FTP service holds: every step respects   *)
(* the tree that both share.                                               *)
THEOREM FtpRespectsDisk == Spec => DiskRespected
<1>1. TreeInv /\ [Next]_vars => [Respects(disk, disk', Busy)]_disk
  BY DiskStep DEF DiskSafe
<1> QED  BY <1>1, TreeInvariant, PTL DEF Spec, DiskRespected

(* Whatever sessions and other programs do, the disk is a tree.            *)
THEOREM TreeStaysWellFormed == Spec => []TreeWellFormed
  BY TreeInvariant, PTL DEF TreeInv

(* Removals that stop half-way and renames leave a tree, and no file that a*)
(* transfer has open goes.                                                 *)
THEOREM TreeAndOpenFiles == Spec => [](TreeWellFormed /\ OpenFilesStay)
  BY TreeInvariant, PTL DEF TreeInv

(* MKD never changes the tree: its path resolves only when it exists, and  *)
(* then there is nothing to create.                                        *)
THEOREM MkdCreatesNothing ==
    Spec => [][(\E s \in Session : Mkd(s)) => UNCHANGED disk]_vars
<1>1. TreeInv /\ [Next]_vars => [(\E s \in Session : Mkd(s)) => UNCHANGED disk]_vars
  BY MkdKeepsDisk
<1> QED  BY <1>1, TreeInvariant, PTL DEF Spec
=============================================================================
