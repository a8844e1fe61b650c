----------------------------- MODULE DataChannel -----------------------------
(***************************************************************************)
(* The data channels of all FTP sessions: DataChannelManager of            *)
(* ftp/data_channel.cpp, the listeners its sessions hold at one time, and  *)
(* the connections clients open to the ports they were told.               *)
(*                                                                         *)
(* Every session has a manager of its own, but the ports are the machine's:*)
(* the sessions meet there.                                                *)
(***************************************************************************)
EXTENDS Naturals, FiniteSets

CONSTANTS Session,      \* control connections, and the client behind each
          PasvMin,      \* PASV_PORT_MIN
          PasvMax,      \* PASV_PORT_MAX
          EphemeralPort,\* what the system hands out for port 0
          ForeignPort,  \* ports other programs hold
          SharedBind,   \* TRUE: SO_REUSEADDR lets a port be bound twice (Windows)
          NoClient      \* no data connection

NoPort == 0

PasvPort == PasvMin .. PasvMax

Port == PasvPort \cup EphemeralPort

ASSUME ChannelAssumption ==
    /\ PasvMin \in Nat \ {0} /\ PasvMax \in Nat /\ PasvMin <= PasvMax
    /\ EphemeralPort \subseteq Nat \ {0}
    /\ SharedBind \in BOOLEAN
    /\ NoClient \notin Session

VARIABLES acceptor,     \* acceptor[s]: port of pasv_acceptor_, NoPort if null
          passivePort,  \* passivePort[s]: current_passive_port_
          backlog,      \* backlog[s]: clients connected to it, not yet accepted
          offered,      \* offered[s]: port in a 227 reply still to be written
          announced,    \* announced[s]: port client s knows and has not used
          data          \* data[s]: client at the far end of s's data connection

channelVars == <<acceptor, passivePort, backlog, offered, announced, data>>

ChannelTypeOK ==
    /\ acceptor \in [Session -> Port \cup {NoPort}]
    /\ passivePort \in [Session -> Port]
    /\ backlog \in [Session -> SUBSET Session]
    /\ offered \in [Session -> Port \cup {NoPort}]
    /\ announced \in [Session -> Port \cup {NoPort}]
    /\ data \in [Session -> Session \cup {NoClient}]

(* current_passive_port_ starts at the first port, long before it is bound. *)
ChannelInit ==
    /\ acceptor = [s \in Session |-> NoPort]
    /\ passivePort = [s \in Session |-> PasvMin]
    /\ backlog = [s \in Session |-> {}]
    /\ offered = [s \in Session |-> NoPort]
    /\ announced = [s \in Session |-> NoPort]
    /\ data = [s \in Session |-> NoClient]

-----------------------------------------------------------------------------
(* A slip of CanBind: a port is taken to be free because no foreign        *)
(* program holds it.                                                       *)
CanBindAnyOwn(port) == port \notin ForeignPort

(* The constructor of an asio acceptor binds with SO_REUSEADDR: it fails   *)
(* on a port another listener holds, unless the system shares the port.    *)
CanBind(port) ==
    /\ port \notin ForeignPort
    /\ SharedBind \/ \A s \in Session : acceptor[s] # port

(* DataChannelManager::find_available_port: the first port of the range    *)
(* that binds, as a set; empty when it returns 0.                          *)
FindAvailablePort ==
    {p \in PasvPort : CanBind(p) /\ \A q \in PasvPort : CanBind(q) => p <= q}

(* A slip of BoundPorts: the port asked for is taken for the port bound.   *)
BoundPortsAsAsked == IF FindAvailablePort = {} THEN {NoPort} ELSE FindAvailablePort

(* The port that is then bound: asked for port 0 the system chooses one.   *)
BoundPorts ==
    IF FindAvailablePort = {}
      THEN {p \in EphemeralPort : CanBind(p)}
      ELSE FindAvailablePort

(* A slip of CreatePassiveChannel: the listener the session already had is *)
(* kept, and the new port only told.                                       *)
CreatePassiveChannelKeepsOld(s) ==
    \E port \in BoundPorts :
        /\ acceptor' = [acceptor EXCEPT ![s] = IF @ = NoPort THEN port ELSE @]
        /\ passivePort' = [passivePort EXCEPT ![s] = port]
        /\ offered' = [offered EXCEPT ![s] = port]
        /\ announced' = [announced EXCEPT ![s] = NoPort]
        /\ UNCHANGED <<backlog, data>>

(* create_passive_channel: the new listener replaces the one the session   *)
(* had, whose queued connections are reset.  The client waits for the 227  *)
(* reply and no longer uses the old port.                                  *)
CreatePassiveChannel(s) ==
    \E port \in BoundPorts :
        /\ acceptor' = [acceptor EXCEPT ![s] = port]
        /\ passivePort' = [passivePort EXCEPT ![s] = port]
        /\ backlog' = [backlog EXCEPT ![s] = {}]
        /\ offered' = [offered EXCEPT ![s] = port]
        /\ announced' = [announced EXCEPT ![s] = NoPort]
        /\ UNCHANGED data

(* The 227 reply reaches the client.                                       *)
Announce(s) ==
    /\ offered[s] # NoPort
    /\ announced' = [announced EXCEPT ![s] = offered[s]]
    /\ offered' = [offered EXCEPT ![s] = NoPort]
    /\ UNCHANGED <<acceptor, passivePort, backlog, data>>

Listeners(port) == {s \in Session : acceptor[s] = port}

(* Client t connects to the port it knows.  Where two listeners share the  *)
(* port, the system gives the connection to either.                        *)
ClientConnects(t) ==
    /\ announced[t] # NoPort
    /\ \E s \in Listeners(announced[t]) :
          backlog' = [backlog EXCEPT ![s] = @ \cup {t}]
    /\ announced' = [announced EXCEPT ![t] = NoPort]
    /\ UNCHANGED <<acceptor, passivePort, offered, data>>

(* No one listens there any more.                                          *)
ClientIsRefused(t) ==
    /\ announced[t] # NoPort
    /\ Listeners(announced[t]) = {}
    /\ announced' = [announced EXCEPT ![t] = NoPort]
    /\ UNCHANGED <<acceptor, passivePort, backlog, offered, data>>

(* A slip of PassivePending: the listener is taken to be there.            *)
PassivePendingAssumed(s) == TRUE

(* accept_passive_connection throws unless a listener waits on this port.  *)
PassivePending(s) == acceptor[s] # NoPort /\ acceptor[s] = passivePort[s]

(* async_accept returns one connection; the listener is then closed and    *)
(* whatever else was queued is reset.                                      *)
TakeConnection(s, t) ==
    /\ t \in backlog[s]
    /\ acceptor' = [acceptor EXCEPT ![s] = NoPort]
    /\ backlog' = [backlog EXCEPT ![s] = {}]
    /\ UNCHANGED <<passivePort, offered, announced>>

(* The caller may close the connection at once, before any of it is used.  *)
AcceptPassiveConnection(s) ==
    /\ PassivePending(s) /\ offered[s] = NoPort
    /\ \E t \in Session : /\ TakeConnection(s, t)
                          /\ \E end \in {t, NoClient} : data' = [data EXCEPT ![s] = end]

(* create_active_channel: a connection to the endpoint the client gave.    *)
CreateActiveChannel(s) ==
    /\ data' = [data EXCEPT ![s] = s]
    /\ UNCHANGED <<acceptor, passivePort, backlog, offered, announced>>

CloseData(s) ==
    /\ data' = [data EXCEPT ![s] = NoClient]
    /\ UNCHANGED <<acceptor, passivePort, backlog, offered, announced>>

(* The session object dies: ~DataChannelManager closes the listener; the   *)
(* client of a closed control connection opens no data connection.         *)
CloseAll(s) ==
    /\ acceptor' = [acceptor EXCEPT ![s] = NoPort]
    /\ passivePort' = [passivePort EXCEPT ![s] = PasvMin]
    /\ backlog' = [backlog EXCEPT ![s] = {}]
    /\ offered' = [offered EXCEPT ![s] = NoPort]
    /\ announced' = [announced EXCEPT ![s] = NoPort]
    /\ data' = [data EXCEPT ![s] = NoClient]

(* The client gives up before it used the port.                            *)
ClientForgets(t) ==
    /\ announced' = [announced EXCEPT ![t] = NoPort]
    /\ UNCHANGED <<acceptor, passivePort, backlog, offered, data>>

ChannelNext ==
    \E s \in Session :
        \/ CreatePassiveChannel(s)
        \/ Announce(s)
        \/ ClientConnects(s)
        \/ ClientIsRefused(s)
        \/ AcceptPassiveConnection(s)
        \/ CreateActiveChannel(s)
        \/ CloseData(s)
        \/ CloseAll(s)
        \/ ClientForgets(s)

ChannelSpec == ChannelInit /\ [][ChannelNext]_channelVars

-----------------------------------------------------------------------------
(* Where a port cannot be shared, no two sessions listen on one port:      *)
(* find_available_port of one session sees the listeners of all others     *)
(* (data_channel.cpp:80).                                                  *)
ListenersDistinct ==
    \A s, t \in Session :
        s # t /\ acceptor[s] # NoPort => acceptor[s] # acceptor[t]

(* The data connection of a session ends at its own client: a port that    *)
(* was freed and bound again by another session never brings it a stranger.*)
OwnDataConnection ==
    \A s \in Session : backlog[s] \subseteq {s} /\ data[s] \in {s, NoClient}

(* A client that still has to use its port finds its own session's         *)
(* listener there, and no connection of its own already queued.            *)
AnnouncedIsOpen ==
    \A s \in Session :
        announced[s] # NoPort => acceptor[s] = announced[s] /\ backlog[s] = {}
=============================================================================
