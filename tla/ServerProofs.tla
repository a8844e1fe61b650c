---------------------------- MODULE ServerProofs ----------------------------
(***************************************************************************)
(* Proofs about Server: its types; that the server is taken down only when *)
(* no thread runs; that no client is served by half a server; and that an  *)
(* accept loop takes at most one more connection once stop() is called.    *)
(***************************************************************************)
EXTENDS Server, TLAPS

-----------------------------------------------------------------------------
(* Every step is one of these, by a process that was not killed.           *)

Acts ==
    \/ MainSteps \/ StopSteps \/ Events
    \/ \E t \in Context : TakeHandler(t) \/ ThreadEnds(t)
    \/ \E s \in Service : AcceptLoop(s)
    \/ \E c \in Conn : SessionRuns(c)

(* The steps there are, while the process has not aborted.                 *)
LEMMA Steps ==
    ASSUME Next
    PROVE  main # "aborted" /\ Acts
<1>1. main # "aborted"
  BY DEF Next, Alive
<1>2. MainSteps \/ (\E t \in Context : ThreadSteps(t)) \/ Events
  BY DEF Next, Alive
<1>3. ASSUME NEW t \in Context, ThreadSteps(t)
      PROVE  Acts
  BY <1>3 DEF ThreadSteps, Acts
<1> QED
  BY <1>1, <1>2, <1>3 DEF Acts

(* The contexts the server takes are contexts of the pool.                 *)
LEMMA ContextInPool ==
    ASSUME TypeOK, NEW i \in {0, 1}
    PROVE  i % pool \in 0 .. pool - 1 /\ i % pool \in Context
<1>1. pool \in Nat /\ pool >= 1 /\ pool <= MaxPool /\ MaxPool \in Nat
  BY ServerAssumption DEF TypeOK
<1>2. i % pool \in 0 .. pool - 1
  BY <1>1
<1> QED
  BY <1>1, <1>2 DEF Context

(* The services and sessions live on contexts of the pool.                 *)
LEMMA ServedInPool ==
    ASSUME TypeOK
    PROVE  /\ \A s \in Service : ContextOf(s) \in Context /\ ContextOf(s) < pool
           /\ \A c \in Conn : service[c] \in Service /\ Home(c) \in Context /\ Home(c) < pool
           /\ SignalContext \in Context /\ SignalContext < pool
<1>1. \A i \in {0, 1} : i % pool \in 0 .. pool - 1 /\ i % pool \in Context
  BY ContextInPool
<1>2. pool \in Int
  BY ServerAssumption DEF TypeOK
<1>3. \A s \in Service : ContextOf(s) \in Context /\ ContextOf(s) < pool
  BY <1>1, <1>2 DEF ContextOf
<1>4. \A c \in Conn : service[c] \in Service
  BY DEF TypeOK
<1>5. SignalContext \in Context /\ SignalContext < pool
  BY <1>1, <1>2 DEF SignalContext
<1> QED
  BY <1>3, <1>4, <1>5 DEF Home

-----------------------------------------------------------------------------
(* Types.                                                                  *)

(* A handler that is enqueued leaves the queues typed.                     *)
LEMMA Enqueued ==
    ASSUME TypeOK, NEW t \in Context, NEW h \in Handler, Enqueue(t, h)
    PROVE  queue' \in [Context -> Seq(Handler)]
BY DEF TypeOK, Enqueue

(* Every step keeps the types.                                             *)
LEMMA TypesKept ==
    ASSUME TypeOK, [Next]_vars
    PROVE  TypeOK'
<1>1. TypeOK
  OBVIOUS
<1>2. CASE UNCHANGED vars
  BY <1>1, <1>2 DEF TypeOK, vars, startup, work, stopping
<1>3. ASSUME Construct
      PROVE  TypeOK'
  BY <1>1, <1>3, ServedInPool, ServerAssumption
     DEF Construct, TypeOK, startup, work, stopping,
         Main, Loop, Progress, Signal, Handler
<1>4. ASSUME CreateRoot
      PROVE  TypeOK'
  BY <1>1, <1>4, ServedInPool, ServerAssumption
     DEF CreateRoot, TypeOK, startup, work, stopping,
         Main, Loop, Progress, Signal, Handler
<1>5. ASSUME ListenFtp
      PROVE  TypeOK'
  BY <1>1, <1>5, ServedInPool, ServerAssumption
     DEF ListenFtp, Listen, TypeOK, startup, work, stopping,
         Main, Loop, Progress, Signal, Handler
<1>6. ASSUME ListenWebdav
      PROVE  TypeOK'
  BY <1>1, <1>6, ServedInPool, ServerAssumption
     DEF ListenWebdav, Listen, TypeOK, startup, work, stopping,
         Main, Loop, Progress, Signal, Handler
<1>7. ASSUME SpawnLoops
      PROVE  TypeOK'
  <2>1. \A s \in Service, t \in Context : LoopOn(s, t) \in Seq(Handler)
    <3>1. <<>> \in Seq(Handler)
      OBVIOUS
    <3>2. \A s \in Service : s \in Handler
      BY DEF Handler
    <3>3. \A h \in Handler : <<h>> \in Seq(Handler)
      OBVIOUS
    <3> QED
      BY <3>1, <3>2, <3>3, Zenon DEF LoopOn
  <2>2. \A t \in Context : LoopOn("ftp", t) \o LoopOn("webdav", t) \in Seq(Handler)
    BY <2>1 DEF Service
  <2>3. queue' \in [Context -> Seq(Handler)]
    BY <1>7, <2>2 DEF SpawnLoops
  <2>4. loop' \in [Service -> Loop] /\ main' \in Main
    BY <1>7 DEF SpawnLoops, Loop, Main
  <2> QED
    BY <1>1, <1>7, <2>3, <2>4 DEF SpawnLoops, TypeOK, work, stopping
<1>8. ASSUME AddSignals
      PROVE  TypeOK'
  BY <1>1, <1>8, ServedInPool, ServerAssumption
     DEF AddSignals, TypeOK, startup, work, stopping,
         Main, Loop, Progress, Signal, Handler
<1>9. ASSUME NEW t \in Context, StartThread(t)
      PROVE  TypeOK'
  BY <1>1, <1>9, ServedInPool, ServerAssumption
     DEF StartThread, TypeOK, startup, work, stopping,
         Main, Loop, Progress, Signal, Handler
<1>10. ASSUME Join
      PROVE  TypeOK'
  BY <1>1, <1>10, ServedInPool, ServerAssumption
     DEF Join, TypeOK, startup, work, stopping,
         Main, Loop, Progress, Signal, Handler
<1>11. ASSUME CloseListeners
      PROVE  TypeOK'
  BY <1>1, <1>11, ServedInPool, ServerAssumption
     DEF CloseListeners, TypeOK, startup, work, stopping,
         Main, Loop, Progress, Signal, Handler
<1>12. ASSUME DestroyPool
      PROVE  TypeOK'
  BY <1>1, <1>12, ServedInPool, ServerAssumption
     DEF DestroyPool, TypeOK, startup, work, stopping,
         Main, Loop, Progress, Signal, Handler
<1>13. ASSUME SetStop
      PROVE  TypeOK'
  BY <1>1, <1>13, ServedInPool, ServerAssumption
     DEF SetStop, TypeOK, startup, work, stopping,
         Main, Loop, Progress, Signal, Handler
<1>14. ASSUME ClearGuards
      PROVE  TypeOK'
  BY <1>1, <1>14, ServedInPool, ServerAssumption
     DEF ClearGuards, TypeOK, startup, work, stopping,
         Main, Loop, Progress, Signal, Handler
<1>15. ASSUME NEW t \in Context, StopContext(t)
      PROVE  TypeOK'
  BY <1>1, <1>15, ServedInPool, ServerAssumption
     DEF StopContext, TypeOK, startup, work, stopping,
         Main, Loop, Progress, Signal, Handler
<1>16. ASSUME StopReturns
      PROVE  TypeOK'
  BY <1>1, <1>16, ServedInPool, ServerAssumption
     DEF StopReturns, TypeOK, startup, work, stopping,
         Main, Loop, Progress, Signal, Handler
<1>17. ASSUME NEW s \in Service, AcceptCompletes(s)
      PROVE  TypeOK'
  <2>1. queue' \in [Context -> Seq(Handler)]
    BY <1>1, <1>17, ServedInPool, Enqueued DEF AcceptCompletes, Handler
  <2>2. PICK c \in Conn :
            IF Exhausted
            THEN loop' = [loop EXCEPT ![s] = "failed"] /\ conn' = conn
            ELSE /\ loop' = [loop EXCEPT ![s] = "accepted"]
                 /\ conn' = [conn EXCEPT ![c] = "accepted"]
    BY <1>17 DEF AcceptCompletes
  <2>3. loop' \in [Service -> Loop] /\ conn' \in [Conn -> Progress]
    BY <1>1, <2>2 DEF TypeOK, Loop, Progress
  <2> QED
    BY <1>1, <1>17, <2>1, <2>3 DEF AcceptCompletes, TypeOK, startup, stopping
<1>18. ASSUME NEW c \in Conn, SessionReady(c)
      PROVE  TypeOK'
  BY <1>1, <1>18, ServedInPool, ServerAssumption
     DEF SessionReady, Enqueue, Polling, TypeOK, startup, work, stopping,
         Main, Loop, Progress, Signal, Handler
<1>19. ASSUME NEW c \in Conn, ClientConnects(c)
      PROVE  TypeOK'
  BY <1>1, <1>19, ServedInPool, ServerAssumption
     DEF ClientConnects, TypeOK, startup, work, stopping,
         Main, Loop, Progress, Signal, Handler
<1>20. ASSUME SignalArrives
      PROVE  TypeOK'
  BY <1>1, <1>20, ServedInPool, ServerAssumption
     DEF SignalArrives, Enqueue, Polling, TypeOK, startup, work, stopping,
         Main, Loop, Progress, Signal, Handler
<1>21. ASSUME Interrupt
      PROVE  TypeOK'
  BY <1>1, <1>21, ServedInPool, ServerAssumption
     DEF Interrupt, TypeOK, startup, work, stopping,
         Main, Loop, Progress, Signal, Handler
<1>22. ASSUME NEW t \in Context, TakeHandler(t)
      PROVE  TypeOK'
  BY <1>1, <1>22, ServedInPool, ServerAssumption
     DEF TakeHandler, Polling, TypeOK, startup, work, stopping,
         Main, Loop, Progress, Signal, Handler
<1>23. ASSUME NEW t \in Context, ThreadEnds(t)
      PROVE  TypeOK'
  BY <1>1, <1>23, ServedInPool, ServerAssumption
     DEF ThreadEnds, TypeOK, startup, work, stopping,
         Main, Loop, Progress, Signal, Handler
<1>24. ASSUME NEW s \in Service, AcceptLoop(s)
      PROVE  TypeOK'
  <2>1. queue' \in [Context -> Seq(Handler)]
    <3>1. CASE UNCHANGED queue
      BY <1>1, <3>1 DEF TypeOK
    <3>2. CASE \E c \in Conn : Enqueue(ContextOf(s), c)
      BY <1>1, <3>2, ServedInPool, Enqueued DEF Handler
    <3> QED
      BY <1>24, <3>1, <3>2 DEF AcceptLoop
  <2>2. conn' \in [Conn -> Progress]
    BY <1>1, <1>24 DEF AcceptLoop, TypeOK, Progress
  <2>3. loop' \in [Service -> Loop]
    BY <1>1, <1>24 DEF AcceptLoop, TypeOK, Loop
  <2>4. late' \subseteq Conn
    BY <1>1, <1>24 DEF AcceptLoop, TypeOK
  <2>5. thread' \in [Context -> Handler \cup {"none", "idle", "ended"}]
    BY <1>1, <1>24 DEF AcceptLoop, TypeOK
  <2> QED
    BY <1>1, <1>24, <2>1, <2>2, <2>3, <2>4, <2>5 DEF AcceptLoop, TypeOK, startup, stopping
<1>25. ASSUME NEW c \in Conn, SessionRuns(c)
      PROVE  TypeOK'
  BY <1>1, <1>25, ServedInPool, ServerAssumption
     DEF SessionRuns, TypeOK, startup, work, stopping,
         Main, Loop, Progress, Signal, Handler
<1> QED
  BY Steps, <1>2, <1>3, <1>4, <1>5, <1>6, <1>7, <1>8, <1>9, <1>10, <1>11, 
     <1>12, <1>13, <1>14, <1>15, <1>16, <1>17, <1>18, <1>19, <1>20, <1>21, 
     <1>22, <1>23, <1>24, <1>25
     DEF Acts, MainSteps, StopSteps, Events

(* All that the process keeps stays in its type (main.cpp:72-272).         *)
THEOREM Typing == Spec => []TypeOK
<1>1. ASSUME Init
      PROVE  TypeOK
  <2>1. queue \in [Context -> Seq(Handler)]
    BY <1>1 DEF Init
  <2>2. pool \in 1 .. MaxPool
    BY <1>1, ServerAssumption DEF Init
  <2>3. service \in [Conn -> Service]
    BY <1>1, ServerAssumption DEF Init
  <2> QED
    BY <1>1, <2>1, <2>2, <2>3 DEF Init, TypeOK, Main, Loop, Progress, Signal
<1>2. TypeOK /\ [Next]_vars => TypeOK'
  BY TypesKept
<1> QED
  BY <1>1, <1>2, PTL DEF Spec

-----------------------------------------------------------------------------
(* The server is taken down when its threads are over.                     *)

Early == {"arguments", "root", "ftp", "webdav", "spawn", "signals"}

Over == {"leaving", "destroying", "exited"}

(* No thread runs before run() starts them or after it has joined them, nor*)
(* is there one for a context that the pool does not have.                 *)
ThreadsInv ==
    /\ main \in Early => \A t \in Context : thread[t] = "none"
    /\ main \in Over => \A t \in Context : thread[t] \in {"none", "ended"}
    /\ \A t \in Context : t >= pool => thread[t] = "none"

(* Every step keeps what is true of threads and the main thread.           *)
LEMMA ThreadsKept ==
    ASSUME TypeOK, ThreadsInv, [Next]_vars
    PROVE  ThreadsInv'
<1>1. TypeOK /\ ThreadsInv
  OBVIOUS
<1>2. CASE UNCHANGED vars
  BY <1>1, <1>2 DEF startup, work, stopping, TypeOK, ThreadsInv, Early, Over, Context, vars
<1>3. ASSUME Construct
      PROVE  ThreadsInv'
  BY <1>1, <1>3, ServedInPool
     DEF Construct, startup, work, stopping, TypeOK, ThreadsInv, Early,
         Over, Context
<1>4. ASSUME CreateRoot
      PROVE  ThreadsInv'
  BY <1>1, <1>4, ServedInPool
     DEF CreateRoot, startup, work, stopping, TypeOK, ThreadsInv, Early,
         Over, Context
<1>5. ASSUME ListenFtp
      PROVE  ThreadsInv'
  BY <1>1, <1>5, ServedInPool
     DEF ListenFtp, Listen, startup, work, stopping, TypeOK, ThreadsInv,
         Early, Over, Context
<1>6. ASSUME ListenWebdav
      PROVE  ThreadsInv'
  BY <1>1, <1>6, ServedInPool
     DEF ListenWebdav, Listen, startup, work, stopping, TypeOK, ThreadsInv,
         Early, Over, Context
<1>7. ASSUME SpawnLoops
      PROVE  ThreadsInv'
  BY <1>1, <1>7, ServedInPool
     DEF SpawnLoops, LoopOn, startup, work, stopping, TypeOK, ThreadsInv,
         Early, Over, Context
<1>8. ASSUME AddSignals
      PROVE  ThreadsInv'
  BY <1>1, <1>8, ServedInPool
     DEF AddSignals, startup, work, stopping, TypeOK, ThreadsInv, Early,
         Over, Context
<1>9. ASSUME NEW t \in Context, StartThread(t)
      PROVE  ThreadsInv'
  BY <1>1, <1>9, ServedInPool
     DEF StartThread, startup, work, stopping, TypeOK, ThreadsInv, Early,
         Over, Context
<1>10. ASSUME Join
      PROVE  ThreadsInv'
  BY <1>1, <1>10, ServedInPool
     DEF Join, startup, work, stopping, TypeOK, ThreadsInv, Early, Over,
         Context
<1>11. ASSUME CloseListeners
      PROVE  ThreadsInv'
  BY <1>1, <1>11, ServedInPool
     DEF CloseListeners, startup, work, stopping, TypeOK, ThreadsInv,
         Early, Over, Context
<1>12. ASSUME DestroyPool
      PROVE  ThreadsInv'
  BY <1>1, <1>12, ServedInPool
     DEF DestroyPool, startup, work, stopping, TypeOK, ThreadsInv, Early,
         Over, Context
<1>13. ASSUME SetStop
      PROVE  ThreadsInv'
  BY <1>1, <1>13, ServedInPool
     DEF SetStop, startup, work, stopping, TypeOK, ThreadsInv, Early, Over,
         Context
<1>14. ASSUME ClearGuards
      PROVE  ThreadsInv'
  BY <1>1, <1>14, ServedInPool
     DEF ClearGuards, startup, work, stopping, TypeOK, ThreadsInv, Early,
         Over, Context
<1>15. ASSUME NEW t \in Context, StopContext(t)
      PROVE  ThreadsInv'
  BY <1>1, <1>15, ServedInPool
     DEF StopContext, startup, work, stopping, TypeOK, ThreadsInv, Early,
         Over, Context
<1>16. ASSUME StopReturns
      PROVE  ThreadsInv'
  BY <1>1, <1>16, ServedInPool
     DEF StopReturns, startup, work, stopping, TypeOK, ThreadsInv, Early,
         Over, Context
<1>17. ASSUME NEW s \in Service, AcceptCompletes(s)
      PROVE  ThreadsInv'
  <2>1. PICK c \in Conn :
            /\ conn[c] = "backlog" /\ service[c] = s
            /\ IF Exhausted
               THEN loop' = [loop EXCEPT ![s] = "failed"] /\ conn' = conn
               ELSE /\ loop' = [loop EXCEPT ![s] = "accepted"]
                    /\ conn' = [conn EXCEPT ![c] = "accepted"]
    BY <1>17 DEF AcceptCompletes
  <2>2. Polling(ContextOf(s)) /\ loop[s] = "accepting" /\ UNCHANGED <<startup, thread, late, service, signal, stopping>>
    BY <1>17 DEF AcceptCompletes
  <2>3. ContextOf(s) \in Context /\ main \notin Early \cup Over
    BY <1>1, <2>2, ServedInPool DEF Polling, ThreadsInv, Early, Over
  <2> QED
    BY <1>1, <2>1, <2>2, <2>3 DEF TypeOK, startup, stopping, ThreadsInv, Context
<1>18. ASSUME NEW c \in Conn, SessionReady(c)
      PROVE  ThreadsInv'
  BY <1>1, <1>18, ServedInPool
     DEF SessionReady, Enqueue, Polling, startup, work, stopping, TypeOK,
         ThreadsInv, Early, Over, Context
<1>19. ASSUME NEW c \in Conn, ClientConnects(c)
      PROVE  ThreadsInv'
  BY <1>1, <1>19, ServedInPool
     DEF ClientConnects, startup, work, stopping, TypeOK, ThreadsInv,
         Early, Over, Context
<1>20. ASSUME SignalArrives
      PROVE  ThreadsInv'
  BY <1>1, <1>20, ServedInPool
     DEF SignalArrives, Enqueue, Polling, startup, work, stopping, TypeOK,
         ThreadsInv, Early, Over, Context
<1>21. ASSUME Interrupt
      PROVE  ThreadsInv'
  BY <1>1, <1>21, ServedInPool
     DEF Interrupt, startup, work, stopping, TypeOK, ThreadsInv, Early,
         Over, Context
<1>22. ASSUME NEW t \in Context, TakeHandler(t)
      PROVE  ThreadsInv'
  BY <1>1, <1>22, ServedInPool
     DEF TakeHandler, Polling, startup, work, stopping, TypeOK, ThreadsInv,
         Early, Over, Context
<1>23. ASSUME NEW t \in Context, ThreadEnds(t)
      PROVE  ThreadsInv'
  BY <1>1, <1>23, ServedInPool
     DEF ThreadEnds, startup, work, stopping, TypeOK, ThreadsInv, Early,
         Over, Context
<1>24. ASSUME NEW s \in Service, AcceptLoop(s)
      PROVE  ThreadsInv'
  <2>1. thread[ContextOf(s)] \notin {"none", "idle", "ended"}
    BY <1>24 DEF AcceptLoop, Service
  <2>2. ContextOf(s) \in Context /\ ContextOf(s) < pool /\ main \notin Early \cup Over
    BY <1>1, <2>1, ServedInPool DEF ThreadsInv, Early, Over
  <2> QED
    BY <1>1, <1>24, <2>2 DEF AcceptLoop, LoopGoesOn, startup, work, stopping, TypeOK, ThreadsInv, Early, Over, Context
<1>25. ASSUME NEW c \in Conn, SessionRuns(c)
      PROVE  ThreadsInv'
  <2>1. thread[Home(c)] \notin {"none", "idle", "ended"}
    BY <1>25, ServerAssumption DEF SessionRuns
  <2>2. Home(c) \in Context /\ Home(c) < pool /\ main \notin Early \cup Over
    BY <1>1, <2>1, ServedInPool DEF ThreadsInv, Early, Over
  <2> QED
    BY <1>1, <1>25, <2>2 DEF SessionRuns, startup, work, stopping, TypeOK, ThreadsInv, Early, Over, Context
<1> QED
  BY Steps, <1>2, <1>3, <1>4, <1>5, <1>6, <1>7, <1>8, <1>9, <1>10, <1>11, 
     <1>12, <1>13, <1>14, <1>15, <1>16, <1>17, <1>18, <1>19, <1>20, <1>21, 
     <1>22, <1>23, <1>24, <1>25
     DEF Acts, MainSteps, StopSteps, Events

(* What is always true of the threads: one for each context that runs,     *)
(* until join has seen it end (io_context_pool.hpp:62-82).                 *)
THEOREM ThreadsAlways == Spec => []ThreadsInv
<1>1. Init => ThreadsInv
  BY DEF Init, ThreadsInv, Early, Over
<1>2. TypeOK /\ ThreadsInv /\ [Next]_vars => ThreadsInv'
  BY ThreadsKept
<1> QED
  BY <1>1, <1>2, Typing, PTL DEF Spec

(* The acceptors, the file system and the pool are destroyed only when no  *)
(* thread is left to use them, for every pool (main.cpp:148).              *)
THEOREM NothingOutlives == Spec => []NothingOutlivesThreads
<1>1. ThreadsInv => NothingOutlivesThreads
  BY DEF ThreadsInv, NothingOutlivesThreads, Over
<1> QED
  BY <1>1, ThreadsAlways, PTL

-----------------------------------------------------------------------------
(* Clients are served by both services and under the signal handler.       *)

(* A step further than ServesWhenComplete: how far the start has come says *)
(* which service listens, and whether the signal handler is there.         *)
ServesInv ==
    /\ main \in Early => signal = "default" /\ \A c \in Conn : conn[c] \in {"out", "backlog"}
    /\ main \in {"threads", "joining"} => signal # "default"
    /\ main = "webdav" => listening["ftp"]
    /\ \/ main \in {"spawn", "signals", "threads", "joining"}
       \/ main = "leaving" /\ signal # "default"
       => \A s \in Service : listening[s]
    /\ \A c \in Conn : conn[c] \in Held => signal # "default"

(* Every step keeps what is true of the listeners.                         *)
LEMMA ServesKept ==
    ASSUME TypeOK, ThreadsInv, ServesInv, [Next]_vars
    PROVE  ServesInv'
<1>1. TypeOK /\ ThreadsInv /\ ServesInv
  OBVIOUS
<1>2. CASE UNCHANGED vars
  BY <1>1, <1>2 DEF startup, work, stopping, TypeOK, ThreadsInv, ServesInv, Early, Over, Held, Main, Service, Progress, vars
<1>3. ASSUME Construct
      PROVE  ServesInv'
  BY <1>1, <1>3, ServedInPool
     DEF Construct, startup, work, stopping, TypeOK, ThreadsInv, ServesInv,
         Early, Over, Held, Main, Service, Progress
<1>4. ASSUME CreateRoot
      PROVE  ServesInv'
  BY <1>1, <1>4, ServedInPool
     DEF CreateRoot, startup, work, stopping, TypeOK, ThreadsInv,
         ServesInv, Early, Over, Held, Main, Service, Progress
<1>5. ASSUME ListenFtp
      PROVE  ServesInv'
  BY <1>1, <1>5, ServedInPool
     DEF ListenFtp, Listen, startup, work, stopping, TypeOK, ThreadsInv,
         ServesInv, Early, Over, Held, Main, Service, Progress
<1>6. ASSUME ListenWebdav
      PROVE  ServesInv'
  BY <1>1, <1>6, ServedInPool
     DEF ListenWebdav, Listen, startup, work, stopping, TypeOK, ThreadsInv,
         ServesInv, Early, Over, Held, Main, Service, Progress
<1>7. ASSUME SpawnLoops
      PROVE  ServesInv'
  BY <1>1, <1>7, ServedInPool
     DEF SpawnLoops, LoopOn, startup, work, stopping, TypeOK, ThreadsInv,
         ServesInv, Early, Over, Held, Main, Service, Progress
<1>8. ASSUME AddSignals
      PROVE  ServesInv'
  BY <1>1, <1>8, ServedInPool
     DEF AddSignals, startup, work, stopping, TypeOK, ThreadsInv,
         ServesInv, Early, Over, Held, Main, Service, Progress
<1>9. ASSUME NEW t \in Context, StartThread(t)
      PROVE  ServesInv'
  BY <1>1, <1>9, ServedInPool
     DEF StartThread, startup, work, stopping, TypeOK, ThreadsInv,
         ServesInv, Early, Over, Held, Main, Service, Progress
<1>10. ASSUME Join
      PROVE  ServesInv'
  BY <1>1, <1>10, ServedInPool
     DEF Join, startup, work, stopping, TypeOK, ThreadsInv, ServesInv,
         Early, Over, Held, Main, Service, Progress
<1>11. ASSUME CloseListeners
      PROVE  ServesInv'
  BY <1>1, <1>11, ServedInPool
     DEF CloseListeners, startup, work, stopping, TypeOK, ThreadsInv,
         ServesInv, Early, Over, Held, Main, Service, Progress
<1>12. ASSUME DestroyPool
      PROVE  ServesInv'
  BY <1>1, <1>12, ServedInPool
     DEF DestroyPool, startup, work, stopping, TypeOK, ThreadsInv,
         ServesInv, Early, Over, Held, Main, Service, Progress
<1>13. ASSUME SetStop
      PROVE  ServesInv'
  BY <1>1, <1>13, ServedInPool
     DEF SetStop, startup, work, stopping, TypeOK, ThreadsInv, ServesInv,
         Early, Over, Held, Main, Service, Progress
<1>14. ASSUME ClearGuards
      PROVE  ServesInv'
  BY <1>1, <1>14, ServedInPool
     DEF ClearGuards, startup, work, stopping, TypeOK, ThreadsInv,
         ServesInv, Early, Over, Held, Main, Service, Progress
<1>15. ASSUME NEW t \in Context, StopContext(t)
      PROVE  ServesInv'
  BY <1>1, <1>15, ServedInPool
     DEF StopContext, startup, work, stopping, TypeOK, ThreadsInv,
         ServesInv, Early, Over, Held, Main, Service, Progress
<1>16. ASSUME StopReturns
      PROVE  ServesInv'
  BY <1>1, <1>16, ServedInPool
     DEF StopReturns, startup, work, stopping, TypeOK, ThreadsInv,
         ServesInv, Early, Over, Held, Main, Service, Progress
<1>17. ASSUME main # "aborted", NEW s \in Service, AcceptCompletes(s)
      PROVE  ServesInv'
  <2>1. PICK c \in Conn :
            /\ conn[c] = "backlog" /\ service[c] = s
            /\ IF Exhausted
               THEN loop' = [loop EXCEPT ![s] = "failed"] /\ conn' = conn
               ELSE /\ loop' = [loop EXCEPT ![s] = "accepted"]
                    /\ conn' = [conn EXCEPT ![c] = "accepted"]
    BY <1>17 DEF AcceptCompletes
  <2>2. Polling(ContextOf(s)) /\ loop[s] = "accepting" /\ UNCHANGED <<startup, thread, late, service, signal, stopping>>
    BY <1>17 DEF AcceptCompletes
  <2>3. ContextOf(s) \in Context /\ main \in {"threads", "joining"}
    BY <1>1, <1>17, <2>2, ServedInPool DEF Polling, ThreadsInv, Early, Over, TypeOK, Main
  <2>4. signal # "default" /\ UNCHANGED <<main, listening, signal>>
    BY <1>1, <2>2, <2>3 DEF ServesInv, startup
  <2> QED
    BY <1>1, <2>3, <2>4 DEF ServesInv, Early
<1>18. ASSUME NEW c \in Conn, SessionReady(c)
      PROVE  ServesInv'
  BY <1>1, <1>18, ServedInPool
     DEF SessionReady, Enqueue, Polling, startup, work, stopping, TypeOK,
         ThreadsInv, ServesInv, Early, Over, Held, Main, Service, Progress
<1>19. ASSUME NEW c \in Conn, ClientConnects(c)
      PROVE  ServesInv'
  BY <1>1, <1>19, ServedInPool
     DEF ClientConnects, startup, work, stopping, TypeOK, ThreadsInv,
         ServesInv, Early, Over, Held, Main, Service, Progress
<1>20. ASSUME SignalArrives
      PROVE  ServesInv'
  BY <1>1, <1>20, ServedInPool
     DEF SignalArrives, Enqueue, Polling, startup, work, stopping, TypeOK,
         ThreadsInv, ServesInv, Early, Over, Held, Main, Service, Progress
<1>21. ASSUME Interrupt
      PROVE  ServesInv'
  BY <1>1, <1>21, ServedInPool
     DEF Interrupt, startup, work, stopping, TypeOK, ThreadsInv, ServesInv,
         Early, Over, Held, Main, Service, Progress
<1>22. ASSUME NEW t \in Context, TakeHandler(t)
      PROVE  ServesInv'
  BY <1>1, <1>22, ServedInPool
     DEF TakeHandler, Polling, startup, work, stopping, TypeOK, ThreadsInv,
         ServesInv, Early, Over, Held, Main, Service, Progress
<1>23. ASSUME NEW t \in Context, ThreadEnds(t)
      PROVE  ServesInv'
  BY <1>1, <1>23, ServedInPool
     DEF ThreadEnds, startup, work, stopping, TypeOK, ThreadsInv,
         ServesInv, Early, Over, Held, Main, Service, Progress
<1>24. ASSUME NEW s \in Service, AcceptLoop(s)
      PROVE  ServesInv'
  <2>1. thread[ContextOf(s)] \notin {"none", "idle", "ended"}
    BY <1>24 DEF AcceptLoop, Service
  <2>2. ContextOf(s) \in Context /\ ContextOf(s) < pool /\ main \notin Early \cup Over
    BY <1>1, <2>1, ServedInPool DEF ThreadsInv, Early, Over
  <2> QED
    BY <1>1, <1>24, <2>2 DEF AcceptLoop, LoopGoesOn, startup, work, stopping, TypeOK, ThreadsInv, ServesInv, Early, Over, Held, Main, Service, Progress
<1>25. ASSUME main # "aborted", NEW c \in Conn, SessionRuns(c)
      PROVE  ServesInv'
  <2>1. thread[Home(c)] \notin {"none", "idle", "ended"}
    BY <1>25, ServerAssumption DEF SessionRuns
  <2>2. Home(c) \in Context /\ Home(c) < pool /\ main \in {"threads", "joining"}
    BY <1>1, <1>25, <2>1, ServedInPool DEF ThreadsInv, Early, Over, TypeOK, Main
  <2>3. signal # "default" /\ UNCHANGED <<main, listening, signal>>
    BY <1>1, <1>25, <2>2 DEF SessionRuns, ServesInv, startup
  <2> QED
    BY <1>1, <2>2, <2>3 DEF ServesInv, Early
<1> QED
  BY Steps, <1>2, <1>3, <1>4, <1>5, <1>6, <1>7, <1>8, <1>9, <1>10, <1>11, 
     <1>12, <1>13, <1>14, <1>15, <1>16, <1>17, <1>18, <1>19, <1>20, <1>21, 
     <1>22, <1>23, <1>24, <1>25
     DEF Acts, MainSteps, StopSteps, Events

(* No connection is accepted by a server that has started in part, for     *)
(* every pool and any number of clients (main.cpp:127-145).                *)
THEOREM ServesComplete == Spec => []ServesWhenComplete
<1>1. Init => ServesInv
  BY DEF Init, ServesInv, Early, Held
<1>2. TypeOK /\ ThreadsInv /\ ServesInv /\ [Next]_vars => ServesInv'
  BY ServesKept
<1>3. Spec => []ServesInv
  BY <1>1, <1>2, Typing, ThreadsAlways, PTL DEF Spec
<1>4. ServesInv => ServesWhenComplete
  BY DEF ServesInv, ServesWhenComplete
<1> QED
  BY <1>3, <1>4, PTL

-----------------------------------------------------------------------------
(* The accept loops end.                                                   *)

(* One socket at a time is between accept and its session; what a loop     *)
(* spawned after stop() was its last.                                      *)
LateInv ==
    /\ main \in Early => late = {} /\ \A c \in Conn : conn[c] # "accepted"
    /\ \A c \in Conn : conn[c] = "accepted" => loop[service[c]] = "accepted"
    /\ \A c, d \in Conn :
          conn[c] = "accepted" /\ conn[d] = "accepted" /\ service[c] = service[d] => c = d
    /\ \A c \in late : gStop /\ loop[service[c]] = "ended"
    /\ OneMoreAtMost

(* Every step keeps what is true of the accept loops after stop.           *)
LEMMA LateKept ==
    ASSUME TypeOK, ThreadsInv, LateInv, [Next]_vars
    PROVE  LateInv'
<1>1. TypeOK /\ ThreadsInv /\ LateInv
  OBVIOUS
<1>2. CASE UNCHANGED vars
  BY <1>1, <1>2 DEF startup, work, stopping, TypeOK, ThreadsInv, LateInv, OneMoreAtMost, Early, Over, Held, vars
<1>3. ASSUME Construct
      PROVE  LateInv'
  BY <1>1, <1>3, ServedInPool
     DEF Construct, startup, work, stopping, TypeOK, ThreadsInv, LateInv,
         OneMoreAtMost, Early, Over, Held
<1>4. ASSUME CreateRoot
      PROVE  LateInv'
  BY <1>1, <1>4, ServedInPool
     DEF CreateRoot, startup, work, stopping, TypeOK, ThreadsInv, LateInv,
         OneMoreAtMost, Early, Over, Held
<1>5. ASSUME ListenFtp
      PROVE  LateInv'
  BY <1>1, <1>5, ServedInPool
     DEF ListenFtp, Listen, startup, work, stopping, TypeOK, ThreadsInv,
         LateInv, OneMoreAtMost, Early, Over, Held
<1>6. ASSUME ListenWebdav
      PROVE  LateInv'
  BY <1>1, <1>6, ServedInPool
     DEF ListenWebdav, Listen, startup, work, stopping, TypeOK, ThreadsInv,
         LateInv, OneMoreAtMost, Early, Over, Held
<1>7. ASSUME SpawnLoops
      PROVE  LateInv'
  BY <1>1, <1>7, ServedInPool
     DEF SpawnLoops, LoopOn, startup, work, stopping, TypeOK, ThreadsInv,
         LateInv, OneMoreAtMost, Early, Over, Held
<1>8. ASSUME AddSignals
      PROVE  LateInv'
  BY <1>1, <1>8, ServedInPool
     DEF AddSignals, startup, work, stopping, TypeOK, ThreadsInv, LateInv,
         OneMoreAtMost, Early, Over, Held
<1>9. ASSUME NEW t \in Context, StartThread(t)
      PROVE  LateInv'
  BY <1>1, <1>9, ServedInPool
     DEF StartThread, startup, work, stopping, TypeOK, ThreadsInv, LateInv,
         OneMoreAtMost, Early, Over, Held
<1>10. ASSUME Join
      PROVE  LateInv'
  BY <1>1, <1>10, ServedInPool
     DEF Join, startup, work, stopping, TypeOK, ThreadsInv, LateInv,
         OneMoreAtMost, Early, Over, Held
<1>11. ASSUME CloseListeners
      PROVE  LateInv'
  BY <1>1, <1>11, ServedInPool
     DEF CloseListeners, startup, work, stopping, TypeOK, ThreadsInv,
         LateInv, OneMoreAtMost, Early, Over, Held
<1>12. ASSUME DestroyPool
      PROVE  LateInv'
  BY <1>1, <1>12, ServedInPool
     DEF DestroyPool, startup, work, stopping, TypeOK, ThreadsInv, LateInv,
         OneMoreAtMost, Early, Over, Held
<1>13. ASSUME SetStop
      PROVE  LateInv'
  BY <1>1, <1>13, ServedInPool
     DEF SetStop, startup, work, stopping, TypeOK, ThreadsInv, LateInv,
         OneMoreAtMost, Early, Over, Held
<1>14. ASSUME ClearGuards
      PROVE  LateInv'
  BY <1>1, <1>14, ServedInPool
     DEF ClearGuards, startup, work, stopping, TypeOK, ThreadsInv, LateInv,
         OneMoreAtMost, Early, Over, Held
<1>15. ASSUME NEW t \in Context, StopContext(t)
      PROVE  LateInv'
  BY <1>1, <1>15, ServedInPool
     DEF StopContext, startup, work, stopping, TypeOK, ThreadsInv, LateInv,
         OneMoreAtMost, Early, Over, Held
<1>16. ASSUME StopReturns
      PROVE  LateInv'
  BY <1>1, <1>16, ServedInPool
     DEF StopReturns, startup, work, stopping, TypeOK, ThreadsInv, LateInv,
         OneMoreAtMost, Early, Over, Held
<1>17. ASSUME NEW s \in Service, AcceptCompletes(s)
      PROVE  LateInv'
  <2>1. PICK c \in Conn :
            /\ conn[c] = "backlog" /\ service[c] = s
            /\ IF Exhausted
               THEN loop' = [loop EXCEPT ![s] = "failed"] /\ conn' = conn
               ELSE /\ loop' = [loop EXCEPT ![s] = "accepted"]
                    /\ conn' = [conn EXCEPT ![c] = "accepted"]
    BY <1>17 DEF AcceptCompletes
  <2>2. Polling(ContextOf(s)) /\ loop[s] = "accepting" /\ UNCHANGED <<startup, thread, late, service, signal, stopping>>
    BY <1>17 DEF AcceptCompletes
  <2>3. ContextOf(s) \in Context /\ main \notin Early \cup Over
    BY <1>1, <2>2, ServedInPool DEF Polling, ThreadsInv, Early, Over
  <2>4. CASE loop' = [loop EXCEPT ![s] = "failed"] /\ conn' = conn
    BY <1>1, <2>2, <2>3, <2>4 DEF TypeOK, startup, stopping, LateInv, OneMoreAtMost
  <2>5. CASE loop' = [loop EXCEPT ![s] = "accepted"] /\ conn' = [conn EXCEPT ![c] = "accepted"]
    <3>1. \A d \in Conn : service[d] = s => conn[d] # "accepted"
      BY <1>1, <2>2 DEF LateInv
    <3>2. \A d \in Conn : conn'[d] = (IF d = c THEN "accepted" ELSE conn[d])
      BY <1>1, <2>5 DEF TypeOK
    <3>3. \A r \in Service : loop'[r] = (IF r = s THEN "accepted" ELSE loop[r])
      BY <1>1, <2>5 DEF TypeOK
    <3>4. UNCHANGED <<main, service, late, gStop>>
      BY <2>2 DEF startup, stopping
    <3>5. \A d \in Conn : service[d] \in Service
      BY <1>1 DEF TypeOK
    <3>6. late \subseteq Conn /\ \A d \in late : service[d] # s
      BY <1>1, <2>2 DEF LateInv, TypeOK
    <3> QED
      BY <1>1, <2>1, <2>3, <3>1, <3>2, <3>3, <3>4, <3>5, <3>6 DEF LateInv, OneMoreAtMost
  <2> QED
    BY <2>1, <2>4, <2>5
<1>18. ASSUME NEW c \in Conn, SessionReady(c)
      PROVE  LateInv'
  BY <1>1, <1>18, ServedInPool
     DEF SessionReady, Enqueue, Polling, startup, work, stopping, TypeOK,
         ThreadsInv, LateInv, OneMoreAtMost, Early, Over, Held
<1>19. ASSUME NEW c \in Conn, ClientConnects(c)
      PROVE  LateInv'
  BY <1>1, <1>19, ServedInPool
     DEF ClientConnects, startup, work, stopping, TypeOK, ThreadsInv,
         LateInv, OneMoreAtMost, Early, Over, Held
<1>20. ASSUME SignalArrives
      PROVE  LateInv'
  BY <1>1, <1>20, ServedInPool
     DEF SignalArrives, Enqueue, Polling, startup, work, stopping, TypeOK,
         ThreadsInv, LateInv, OneMoreAtMost, Early, Over, Held
<1>21. ASSUME Interrupt
      PROVE  LateInv'
  BY <1>1, <1>21, ServedInPool
     DEF Interrupt, startup, work, stopping, TypeOK, ThreadsInv, LateInv,
         OneMoreAtMost, Early, Over, Held
<1>22. ASSUME NEW t \in Context, TakeHandler(t)
      PROVE  LateInv'
  BY <1>1, <1>22, ServedInPool
     DEF TakeHandler, Polling, startup, work, stopping, TypeOK, ThreadsInv,
         LateInv, OneMoreAtMost, Early, Over, Held
<1>23. ASSUME NEW t \in Context, ThreadEnds(t)
      PROVE  LateInv'
  BY <1>1, <1>23, ServedInPool
     DEF ThreadEnds, startup, work, stopping, TypeOK, ThreadsInv, LateInv,
         OneMoreAtMost, Early, Over, Held
<1>24. ASSUME NEW s \in Service, AcceptLoop(s)
      PROVE  LateInv'
  <2>1. thread[ContextOf(s)] \notin {"none", "idle", "ended"}
    BY <1>24 DEF AcceptLoop, Service
  <2>2. ContextOf(s) \in Context /\ ContextOf(s) < pool /\ main \notin Early \cup Over
    BY <1>1, <2>1, ServedInPool DEF ThreadsInv, Early, Over
  <2> QED
    BY <1>1, <1>24, <2>2 DEF AcceptLoop, LoopGoesOn, startup, work, stopping, TypeOK, ThreadsInv, LateInv, OneMoreAtMost, Early, Over, Held
<1>25. ASSUME NEW c \in Conn, SessionRuns(c)
      PROVE  LateInv'
  <2>1. thread[Home(c)] \notin {"none", "idle", "ended"}
    BY <1>25, ServerAssumption DEF SessionRuns
  <2>2. Home(c) \in Context /\ Home(c) < pool /\ main \notin Early \cup Over
    BY <1>1, <2>1, ServedInPool DEF ThreadsInv, Early, Over
  <2> QED
    BY <1>1, <1>25, <2>2 DEF SessionRuns, startup, work, stopping, TypeOK, ThreadsInv, LateInv, OneMoreAtMost, Early, Over, Held
<1> QED
  BY Steps, <1>2, <1>3, <1>4, <1>5, <1>6, <1>7, <1>8, <1>9, <1>10, <1>11, 
     <1>12, <1>13, <1>14, <1>15, <1>16, <1>17, <1>18, <1>19, <1>20, <1>21, 
     <1>22, <1>23, <1>24, <1>25
     DEF Acts, MainSteps, StopSteps, Events

(* However stop() falls between the steps of an accept loop, it spawns at  *)
(* most one session more, for any number of clients (main.cpp:160).        *)
THEOREM LoopsEnd == Spec => []OneMoreAtMost
<1>1. Init => LateInv
  BY DEF Init, LateInv, OneMoreAtMost
<1>2. TypeOK /\ ThreadsInv /\ LateInv /\ [Next]_vars => LateInv'
  BY LateKept
<1>3. LateInv => OneMoreAtMost
  BY DEF LateInv
<1> QED
  BY <1>1, <1>2, <1>3, Typing, ThreadsAlways, PTL DEF Spec
=============================================================================
