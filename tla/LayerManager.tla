---------------------------- MODULE LayerManager ----------------------------
(***************************************************************************)
(* DiveLayer::LayerManager of the runtime layer, composed with the         *)
(* UnixDomainServer it owns.  A thread started when the library is loaded  *)
(* waits until the layer has intercepted vkCreateInstance, makes the       *)
(* server, and is then its owner (Start, Wait).  The destructor of the     *)
(* static instance runs at the exit of the process, at any moment of this: *)
(* it reads m_server, which the thread assigns without synchronisation.    *)
(***************************************************************************)
EXTENDS UnixDomainServer

VARIABLES
  m_is_ready,
  m_server,      \* m_server is not null
  exitPc,        \* the thread that runs ~LayerManager
  overtaken      \* history: it began before Start had returned

mgrVars == <<m_is_ready, m_server, exitPc, overtaken>>
layerVars == <<vars, mgrVars>>

ExitPc == {"running", "stop", "join", "destroy", "destroying", "gone"}

LayerTypeOK ==
  /\ TypeOK
  /\ m_is_ready \in BOOLEAN
  /\ m_server \in BOOLEAN
  /\ exitPc \in ExitPc
  /\ overtaken \in BOOLEAN

LayerInit ==
  /\ Init
  /\ m_is_ready = FALSE
  /\ m_server = FALSE
  /\ exitPc = "running"
  /\ overtaken = FALSE

ExitGoto(from, to) == ~crashed /\ exitPc = from /\ exitPc' = to

-----------------------------------------------------------------------------
(* The application and the layer's thread *)

\* vkCreateInstance has returned.
MarkLayerReady ==
  /\ exitPc = "running" /\ ~m_is_ready
  /\ m_is_ready' = TRUE
  /\ UNCHANGED <<vars, m_server, exitPc, overtaken>>

\* IsLayerReady is polled every 100 ms; then the server is made ...
MakeServer ==
  /\ m_is_ready /\ ~m_server
  /\ m_server' = TRUE
  /\ UNCHANGED <<vars, m_is_ready, exitPc, overtaken>>

\* ... and started, and waited for.
LayerThread ==
  \/ MakeServer
  \/ m_server /\ Owner /\ UNCHANGED mgrVars

-----------------------------------------------------------------------------
(* ~LayerManager, and the destruction of its member m_server *)

StartReturned == ownerPc \notin {"start", "run", "spawn"}

\* if (m_server): the read races with the assignment, and may miss it while
\* the thread has not got further than that.
ExitCheck ==
  /\ \/ ExitGoto("running", "stop") /\ m_server
     \/ ExitGoto("running", "join") /\ (m_server => ownerPc = "start")
  /\ overtaken' = ~(m_server /\ StartReturned)
  /\ UNCHANGED <<vars, m_is_ready, m_server>>

\* m_server->Stop(): the call, and its return.
ExitStop ==
  \/ /\ exitPc = "stop" /\ stopPc = "none" /\ StopBegin
     /\ UNCHANGED mgrVars
  \/ /\ ExitGoto("stop", "join") /\ stopPc = "stopped"
     /\ UNCHANGED <<vars, m_is_ready, m_server, overtaken>>

\* m_server_thread.join()
ExitJoin ==
  /\ ExitGoto("join", "destroy")
  /\ ownerPc = "returned"
  /\ UNCHANGED <<vars, m_is_ready, m_server, overtaken>>

\* ~UnixDomainServer stops the server once more.
ExitDestroy ==
  \/ /\ ExitGoto("destroy", "destroying") /\ StopBegin
     /\ UNCHANGED <<m_is_ready, m_server, overtaken>>
  \/ /\ ExitGoto("destroying", "gone") /\ stopPc = "stopped"
     /\ UNCHANGED <<vars, m_is_ready, m_server, overtaken>>

Exit == ExitStop \/ ExitJoin \/ ExitDestroy

-----------------------------------------------------------------------------

ServerSteps == ServerThread \/ Stop \/ SpuriousWakeup \/ ClientSteps

LayerNext ==
  \/ MarkLayerReady
  \/ LayerThread
  \/ ExitCheck
  \/ Exit
  \/ ServerSteps /\ UNCHANGED mgrVars

LayerSpec == LayerInit /\ [][LayerNext]_layerVars

(***************************************************************************)
(* The threads are scheduled; join and Wait block, the other calls return. *)
(* A client whose connection was accepted sends something or hangs up:     *)
(* TcpClient sends a handshake and then a ping every two seconds.  Nothing *)
(* makes the process exit, a client connect, or Wait wake up by itself.    *)
(***************************************************************************)
LayerFairSpec ==
  /\ LayerSpec
  /\ WF_layerVars(LayerThread)
  /\ WF_layerVars(Exit)
  /\ WF_layerVars(ServerThread /\ UNCHANGED mgrVars)
  /\ WF_layerVars(Stop /\ UNCHANGED mgrVars)
  /\ \A c \in Clients : WF_layerVars((Send(c) \/ HangUp(c)) /\ UNCHANGED mgrVars)

-----------------------------------------------------------------------------
(* Properties *)

\* The handler sees OnConnect and OnDisconnect in turns: a failed receive, a
\* closed connection and a shutdown never report one disconnection twice.  An
\* exit that overtakes Start can lose an OnDisconnect: Stop resets the client
\* connection of a server that then goes on running.
CallbacksInTurn == handler = "confused" => overtaken

\* Once the destructor has returned, the server thread does not call the
\* message handler any more, which was destroyed with the server: neither when
\* the exit overtook Start, nor when a client came in during Stop.
NoCallbackAfterExit == [][exitPc = "gone" => handler' = handler]_layerVars

\* A process that exits while the layer's thread sleeps in Wait does exit.  Stop
\* has cleared m_is_running; the server thread gets out of Accept, of a
\* receive or of the handler, one of the two notifications wakes the layer's
\* thread, and both joins return.
ExitTerminates ==
  (exitPc = "stop" /\ ~overtaken /\ ~m_is_running /\ ownerPc = "blocked"
     /\ stopPc = "closeListen")
    ~> (exitPc = "gone" \/ crashed)

\* unix_domain_server.h:60: Wait "Blocks the calling thread until the server
\* stops."  It may block for longer: neither LoopNotify nor StopNotify holds
\* m_wait_mutex, and a notification between Wait's test and its block is lost.
WaitUntilStopped ==
  (loopPc = "done" /\ ~overtaken) ~> (ownerPc = "returned" \/ crashed)

=============================================================================
