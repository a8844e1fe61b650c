------------------------------- MODULE Server -------------------------------
(***************************************************************************)
(* The process: main and Server of main.cpp, and the threads of            *)
(* IOContextPool (core/io_context_pool.hpp).  The main thread starts the   *)
(* listeners and the pool, waits for its threads and takes all down; each  *)
(* thread runs the handlers queued on its io_context, one at a time.  The  *)
(* accept loop of FTP lives on context 0, that of WebDAV on context 1, and *)
(* so do the sessions they spawn; the signal handler is on the context     *)
(* that is next in turn.  With a pool of one they share a thread.          *)
(*                                                                         *)
(* What a session does when it runs is the matter of FtpSession and        *)
(* DavHandler: here it suspends or ends.                                   *)
(***************************************************************************)
EXTENDS Integers, Sequences, FiniteSets

CONSTANTS Conn,         \* connections that clients may ask for
          Wants,        \* which service each of them may be for
          MaxPool,      \* the largest number of threads asked for
          Descriptors   \* sockets the process may have open for clients

Service == {"ftp", "webdav"}

ASSUME ServerAssumption ==
    /\ Wants \subseteq [Conn -> Service]
    /\ MaxPool \in Nat \ {0} /\ Descriptors \in Nat
    /\ Conn \cap (Service \cup {"signal", "none", "idle", "ended"}) = {}

VARIABLES main,        \* where the main thread is
          pool,        \* io_contexts_.size()
          listening,   \* listening[s]: the acceptor of s listens
          loop,        \* loop[s]: the accept loop of s
          service,     \* service[c]: where the client of c connects
          conn,        \* conn[c]: how far c has come
          queue,       \* queue[t]: handlers ready to run on context t
          thread,      \* thread[t]: the handler it runs, or none
          signal, gStop, guarded, stopped,
          late         \* connections spawned after g_stop was set

startup == <<main, pool, listening>>

work == <<loop, conn, queue, thread, late>>

stopping == <<gStop, guarded, stopped>>

vars == <<startup, work, service, signal, stopping>>

Context == 0 .. MaxPool - 1

Handler == Service \cup Conn \cup {"signal"}

Main == {"arguments", "root", "ftp", "webdav", "spawn", "signals", "threads", "joining",
         "leaving", "destroying", "exited", "aborted"}

Loop == {"none", "queued", "accepting", "accepted", "failed", "ended"}

Signal == {"default", "installed", "raised", "queued", "handled", "removed"}

Progress == {"out", "backlog", "accepted", "ready", "suspended", "ended", "reset", "destroyed"}

Held == {"accepted", "ready", "suspended"}

-----------------------------------------------------------------------------
(* Which context serves what.                                              *)

ContextOf(s) == (IF s = "ftp" THEN 0 ELSE 1) % pool

(* Slip: the turn does not come round.                                     *)
SignalContextUnwrapped == 1

(* The file system took context 0 when the server was constructed.         *)
SignalContext == 1 % pool

Home(c) == ContextOf(service[c])

(* The thread waits in run() for something to happen.                      *)
Polling(t) == thread[t] = "idle" /\ ~stopped[t]

(* Every socket the process may have is taken.                             *)
Exhausted == Cardinality({c \in Conn : conn[c] \in Held}) >= Descriptors

-----------------------------------------------------------------------------
Init ==
    /\ main = "arguments" /\ pool = 1
    /\ listening = [s \in Service |-> FALSE]
    /\ loop = [s \in Service |-> "none"]
    /\ service \in Wants
    /\ conn = [c \in Conn |-> "out"]
    /\ queue = [t \in Context |-> <<>>]
    /\ thread = [t \in Context |-> "none"]
    /\ signal = "default" /\ gStop = FALSE /\ guarded = TRUE
    /\ stopped = [t \in Context |-> FALSE]
    /\ late = {}

-----------------------------------------------------------------------------
(* The main thread starts the server.                                      *)

(* A pool of 0 throws in the constructor, which nobody catches.            *)
Construct ==
    /\ main = "arguments"
    /\ \/ main' = "aborted" /\ UNCHANGED pool
       \/ main' = "root" /\ pool' \in 1 .. MaxPool
    /\ UNCHANGED <<listening, work, service, signal, stopping>>

CreateRoot ==
    /\ main = "root"
    /\ main' \in {"ftp", "leaving"}
    /\ UNCHANGED <<pool, listening, work, service, signal, stopping>>

(* Slip: the failure is logged, and start() goes on.                       *)
ListenOrGoOn(s, place, next) ==
    /\ main = place /\ main' = next
    /\ \E open \in BOOLEAN : listening' = [listening EXCEPT ![s] = open]
    /\ UNCHANGED <<pool, work, service, signal, stopping>>

(* An exception of an acceptor ends start(): nothing has been spawned.     *)
Listen(s, place, next) ==
    /\ main = place
    /\ \/ main' = next /\ listening' = [listening EXCEPT ![s] = TRUE]
       \/ main' = "leaving" /\ UNCHANGED listening
    /\ UNCHANGED <<pool, work, service, signal, stopping>>

ListenFtp == Listen("ftp", "ftp", "webdav")

ListenWebdav == Listen("webdav", "webdav", "spawn")

LoopOn(s, t) == IF ContextOf(s) = t THEN <<s>> ELSE <<>>

SpawnLoops ==
    /\ main = "spawn" /\ main' = "signals"
    /\ loop' = [s \in Service |-> "queued"]
    /\ queue' = [t \in Context |-> LoopOn("ftp", t) \o LoopOn("webdav", t)]
    /\ UNCHANGED <<pool, listening, conn, thread, late, service, signal, stopping>>

AddSignals ==
    /\ main = "signals" /\ main' = "threads"
    /\ signal' = "installed"
    /\ UNCHANGED <<pool, listening, work, service, stopping>>

StartThread(t) ==
    /\ main = "threads" /\ t < pool /\ thread[t] = "none"
    /\ \A u \in Context : u < t => thread[u] # "none"
    /\ thread' = [thread EXCEPT ![t] = "idle"]
    /\ main' = IF t = pool - 1 THEN "joining" ELSE main
    /\ UNCHANGED <<pool, listening, loop, conn, queue, late, service, signal, stopping>>

-----------------------------------------------------------------------------
(* What the threads find ready, between two handlers.                      *)

Enqueue(t, h) == queue' = [queue EXCEPT ![t] = Append(@, h)]

(* async_accept completes, with an error if no descriptor is left.         *)
AcceptCompletes(s) ==
    /\ loop[s] = "accepting" /\ Polling(ContextOf(s))
    /\ \E c \in Conn :
          /\ conn[c] = "backlog" /\ service[c] = s
          /\ IF Exhausted
             THEN loop' = [loop EXCEPT ![s] = "failed"] /\ UNCHANGED conn
             ELSE /\ loop' = [loop EXCEPT ![s] = "accepted"]
                  /\ conn' = [conn EXCEPT ![c] = "accepted"]
    /\ Enqueue(ContextOf(s), s)
    /\ UNCHANGED <<startup, thread, late, service, signal, stopping>>

SessionReady(c) ==
    /\ conn[c] = "suspended" /\ Polling(Home(c))
    /\ conn' = [conn EXCEPT ![c] = "ready"]
    /\ Enqueue(Home(c), c)
    /\ UNCHANGED <<startup, loop, thread, late, service, signal, stopping>>

SignalArrives ==
    /\ signal = "raised" /\ Polling(SignalContext)
    /\ signal' = "queued"
    /\ Enqueue(SignalContext, "signal")
    /\ UNCHANGED <<startup, loop, conn, thread, late, service, stopping>>

-----------------------------------------------------------------------------
(* The handlers.                                                           *)

TakeHandler(t) ==
    /\ Polling(t) /\ queue[t] # <<>>
    /\ thread' = [thread EXCEPT ![t] = Head(queue[t])]
    /\ queue' = [queue EXCEPT ![t] = Tail(@)]
    /\ UNCHANGED <<startup, loop, conn, late, service, signal, stopping>>

(* Slip: the flag is asked only when an accept has failed.                 *)
LoopGoesOnUnasked(s) == ~gStop \/ loop[s] = "accepted"

(* Slip: an error ends the loop.                                           *)
LoopGoesOnUntilError(s) == ~gStop /\ loop[s] # "failed"

LoopGoesOn(s) == ~gStop

(* accept_loop: the socket becomes a session of the same context, an error *)
(* is logged, and the loop goes on unless the server stops.                *)
AcceptLoop(s) ==
    LET t == ContextOf(s)
        new == {c \in Conn : conn[c] = "accepted" /\ service[c] = s}
    IN  /\ thread[t] = s
        /\ thread' = [thread EXCEPT ![t] = "idle"]
        /\ conn' = [c \in Conn |-> IF c \in new THEN "ready" ELSE conn[c]]
        /\ \/ new = {} /\ UNCHANGED queue
           \/ \E c \in new : Enqueue(t, c)
        /\ late' = IF gStop THEN late \cup new ELSE late
        /\ loop' = [loop EXCEPT ![s] = IF LoopGoesOn(s) THEN "accepting" ELSE "ended"]
        /\ UNCHANGED <<startup, service, signal, stopping>>

(* A session runs: it waits for its client, or it is over.                 *)
SessionRuns(c) ==
    /\ thread[Home(c)] = c
    /\ thread' = [thread EXCEPT ![Home(c)] = "idle"]
    /\ \E p \in {"suspended", "ended"} : conn' = [conn EXCEPT ![c] = p]
    /\ UNCHANGED <<startup, loop, queue, late, service, signal, stopping>>

(* The signal handler calls stop(): the flag, the guards, the contexts.    *)
SetStop ==
    /\ thread[SignalContext] = "signal" /\ ~gStop
    /\ gStop' = TRUE
    /\ UNCHANGED <<startup, work, service, signal, guarded, stopped>>

ClearGuards ==
    /\ gStop /\ guarded
    /\ guarded' = FALSE
    /\ UNCHANGED <<startup, work, service, signal, gStop, stopped>>

StopContext(t) ==
    /\ ~guarded /\ t < pool /\ ~stopped[t]
    /\ \A u \in Context : u < t => stopped[u]
    /\ stopped' = [stopped EXCEPT ![t] = TRUE]
    /\ UNCHANGED <<startup, work, service, signal, gStop, guarded>>

StopReturns ==
    /\ thread[SignalContext] = "signal" /\ \A t \in 0 .. pool - 1 : stopped[t]
    /\ thread' = [thread EXCEPT ![SignalContext] = "idle"]
    /\ signal' = "handled"
    /\ UNCHANGED <<startup, loop, conn, queue, late, service, stopping>>

(* Nothing keeps run() of context t from returning.                        *)
OutOfWork(t) ==
    /\ ~guarded /\ queue[t] = <<>>
    /\ \A s \in Service : ContextOf(s) = t => loop[s] = "ended"
    /\ \A c \in Conn : Home(c) = t => conn[c] # "suspended"
    /\ SignalContext # t

ThreadEnds(t) ==
    /\ thread[t] = "idle" /\ (stopped[t] \/ OutOfWork(t))
    /\ thread' = [thread EXCEPT ![t] = "ended"]
    /\ UNCHANGED <<startup, loop, conn, queue, late, service, signal, stopping>>

-----------------------------------------------------------------------------
(* The main thread takes the server down.                                  *)

(* Slip: run_async, which detaches the threads.                            *)
JoinDetached ==
    /\ main = "joining"
    /\ main' = "leaving" /\ signal' = "removed"
    /\ UNCHANGED <<pool, listening, work, service, stopping>>

(* IOContextPool::run returns, and the signal set of start() goes with it. *)
Join ==
    /\ main = "joining" /\ \A t \in 0 .. pool - 1 : thread[t] = "ended"
    /\ main' = "leaving" /\ signal' = "removed"
    /\ UNCHANGED <<pool, listening, work, service, stopping>>

(* The acceptors are members declared after the pool: they go first, and   *)
(* the kernel resets whoever waits to be accepted.                         *)
CloseListeners ==
    /\ main = "leaving" /\ main' = "destroying"
    /\ listening' = [s \in Service |-> FALSE]
    /\ conn' = [c \in Conn |-> IF conn[c] = "backlog" THEN "reset" ELSE conn[c]]
    /\ UNCHANGED <<pool, loop, queue, thread, late, service, signal, stopping>>

(* With the pool go the queued handlers and all that is suspended.         *)
DestroyPool ==
    /\ main = "destroying" /\ main' = "exited"
    /\ queue' = [t \in Context |-> <<>>]
    /\ loop' = [s \in Service |-> IF loop[s] = "none" THEN "none" ELSE "ended"]
    /\ conn' = [c \in Conn |-> IF conn[c] \in Held THEN "destroyed" ELSE conn[c]]
    /\ UNCHANGED <<pool, listening, thread, late, service, signal, stopping>>

-----------------------------------------------------------------------------
(* Clients, and the administrator.                                         *)

ClientConnects(c) ==
    /\ conn[c] = "out" /\ listening[service[c]]
    /\ conn' = [conn EXCEPT ![c] = "backlog"]
    /\ UNCHANGED <<startup, loop, queue, thread, late, service, signal, stopping>>

(* A signal kills the process while there is no signal set.                *)
Interrupt ==
    /\ \/ signal \in {"default", "removed"} /\ main # "exited" /\ main' = "aborted" /\ UNCHANGED signal
       \/ signal = "installed" /\ signal' = "raised" /\ UNCHANGED main
    /\ UNCHANGED <<pool, listening, work, service, stopping>>

-----------------------------------------------------------------------------
MainSteps ==
    \/ Construct \/ CreateRoot \/ ListenFtp \/ ListenWebdav \/ SpawnLoops \/ AddSignals
    \/ (\E t \in Context : StartThread(t)) \/ Join \/ CloseListeners \/ DestroyPool

StopSteps == SetStop \/ ClearGuards \/ (\E t \in Context : StopContext(t)) \/ StopReturns

ThreadSteps(t) ==
    \/ TakeHandler(t) \/ ThreadEnds(t)
    \/ \E s \in Service : ContextOf(s) = t /\ AcceptLoop(s)
    \/ \E c \in Conn : Home(c) = t /\ SessionRuns(c)
    \/ t = SignalContext /\ StopSteps

Events ==
    \/ \E s \in Service : AcceptCompletes(s)
    \/ \E c \in Conn : SessionReady(c) \/ ClientConnects(c)
    \/ SignalArrives \/ Interrupt

Alive(A) == main # "aborted" /\ A

Next == Alive(MainSteps \/ (\E t \in Context : ThreadSteps(t)) \/ Events)

Spec == Init /\ [][Next]_vars

(* The system runs the threads; a thread between two handlers polls every  *)
(* descriptor it watches.                                                  *)
FairSpec ==
    /\ Spec
    /\ WF_vars(Alive(MainSteps))
    /\ \A t \in Context : WF_vars(Alive(ThreadSteps(t)))
    /\ \A s \in Service : SF_vars(Alive(AcceptCompletes(s)))
    /\ SF_vars(Alive(SignalArrives))

-----------------------------------------------------------------------------
(* Safety.                                                                 *)

TypeOK ==
    /\ main \in Main /\ pool \in 1 .. MaxPool
    /\ listening \in [Service -> BOOLEAN]
    /\ loop \in [Service -> Loop]
    /\ service \in [Conn -> Service]
    /\ conn \in [Conn -> Progress]
    /\ queue \in [Context -> Seq(Handler)]
    /\ thread \in [Context -> Handler \cup {"none", "idle", "ended"}]
    /\ signal \in Signal /\ gStop \in BOOLEAN /\ guarded \in BOOLEAN
    /\ stopped \in [Context -> BOOLEAN]
    /\ late \subseteq Conn

(* The acceptors, the file system and the contexts are taken down, and     *)
(* sessions destroyed in the middle of what they awaited, only when no     *)
(* thread is there to run a handler that would use them (main.cpp:148).    *)
NothingOutlivesThreads ==
    \/ main \notin {"leaving", "destroying", "exited"}
    \/ \A t \in Context : thread[t] \in {"none", "ended"}

(* No client is served by half a server: when a connection is accepted,    *)
(* both services listen and the signal handler that ends sessions in order *)
(* is in place (main.cpp:127-145).                                         *)
ServesWhenComplete ==
    \A c \in Conn :
        conn[c] \in Held =>
            /\ signal # "default"
            /\ main \in {"threads", "joining", "leaving"} => \A s \in Service : listening[s]

(* However stop() falls between the steps of the accept loops, each accepts*)
(* at most one more connection (main.cpp:160).                             *)
OneMoreAtMost == \A c, d \in late : service[c] = service[d] => c = d

-----------------------------------------------------------------------------
(* Liveness, under FairSpec.                                               *)

(* A signal that is caught ends the process, whatever the sessions and the *)
(* accept loops are at (main.cpp:142-148); another one may kill it at the  *)
(* very end.                                                               *)
SignalEnds == signal = "raised" ~> main \in {"exited", "aborted"}

(* Whoever waits to be accepted is accepted, is refused as the server ends,*)
(* or the process has no socket left: an accept that failed for want of    *)
(* one does not end the accept loop (main.cpp:174-179).                    *)
ClientsAccepted ==
    \A c \in Conn :
        conn[c] = "backlog" ~> (conn[c] # "backlog" \/ Exhausted \/ main = "aborted")
=============================================================================
