-------------------------- MODULE UnixDomainServer --------------------------
(***************************************************************************)
(* Network::UnixDomainServer, the server that runs inside the traced       *)
(* application.  Three threads meet here:                                  *)
(*                                                                         *)
(*  - the owner, which calls Start and then Wait (service.cc:79,           *)
(*    vk_rt_layer_base.cc:60);                                             *)
(*  - the server thread, which runs AcceptAndHandleClientLoop;             *)
(*  - the thread that calls Stop (vk_rt_layer_base.cc:84).                 *)
(*                                                                         *)
(* LayerManager composes them: it says when the server is made and when    *)
(* Stop is called.                                                         *)
(*                                                                         *)
(* The clients connect, send and hang up as they please.  m_is_running is  *)
(* atomic, m_client_mutex covers single statements, and every other access *)
(* to the connections is unsynchronised: a method that runs on a           *)
(* connection object that Stop has destroyed either fails or crashes.      *)
(***************************************************************************)
CONSTANTS Clients, None

ASSUME NoneIsNoClient == None \notin Clients

VARIABLES
  m_is_running,
  listening,       \* m_listen_connection is not null (it is then open)
  client,          \* the peer of m_client_connection, None when it is null
  clientOpen,      \* m_client_connection->IsOpen()
  joinable,        \* m_server_thread.joinable()
  loopPc,          \* the server thread
  accepted,        \* its local acc_connection
  ownerPc,         \* the owner, in Start and Wait
  stopPc,          \* the thread that calls Stop
  peer,            \* each client's end of its connection
  inbox,           \* what the client has sent and the server not yet read
  handler,         \* history: what the message handler was told last
  crashed          \* the process died of using a destroyed connection

connVars  == <<listening, client, clientOpen, accepted>>
peerVars  == <<peer, inbox>>
vars == <<m_is_running, connVars, joinable, loopPc, ownerPc, stopPc, peerVars,
          handler, crashed>>

LoopPc  == {"none", "check", "select", "accept", "install", "session",
            "isOpen", "recv", "handle", "exit", "notify", "done"}
OwnerPc == {"start", "run", "spawn", "waitCheck", "waitBlock", "blocked",
            "returned"}
StopPc  == {"none", "closeListen", "closeClient", "join", "notify", "stopped"}

\* A client's connection: none, in the listen backlog, accepted, or accepted
\* and closed by one of the two ends while the server still has its object.
PeerState == {"away", "backlog", "connected", "hungup"}

TypeOK ==
  /\ m_is_running \in BOOLEAN
  /\ listening \in BOOLEAN
  /\ client \in Clients \cup {None}
  /\ clientOpen \in BOOLEAN
  /\ joinable \in BOOLEAN
  /\ loopPc \in LoopPc
  /\ accepted \in Clients \cup {None}
  /\ ownerPc \in OwnerPc
  /\ stopPc \in StopPc
  /\ peer \in [Clients -> PeerState]
  /\ inbox \in [Clients -> {"empty", "message", "malformed"}]
  /\ handler \in {"disconnected", "connected", "confused"}
  /\ crashed \in BOOLEAN
  /\ clientOpen => client # None

Init ==
  /\ m_is_running = FALSE
  /\ listening = FALSE
  /\ client = None
  /\ clientOpen = FALSE
  /\ joinable = FALSE
  /\ loopPc = "none"
  /\ accepted = None
  /\ ownerPc = "start"
  /\ stopPc = "none"
  /\ peer = [c \in Clients |-> "away"]
  /\ inbox = [c \in Clients |-> "empty"]
  /\ handler = "disconnected"
  /\ crashed = FALSE

-----------------------------------------------------------------------------
(* Helpers *)

\* The handler's callbacks; a callback out of turn confuses it.
OnConnect ==
  handler' = IF handler = "disconnected" THEN "connected" ELSE "confused"
OnDisconnect ==
  handler' = IF handler = "connected" THEN "disconnected" ELSE "confused"

\* m_client_connection.reset(): the socket closes, the client loses it.
ResetClientConnection ==
  /\ client' = None
  /\ clientOpen' = FALSE
  /\ peer' = [c \in Clients |-> IF c = client THEN "away" ELSE peer[c]]
  /\ inbox' = [c \in Clients |-> IF c = client THEN "empty" ELSE inbox[c]]

\* Mutant: nobody is notified.
NotifyOne_Forgotten == UNCHANGED ownerPc

\* m_wait_cv.notify_one() wakes the owner only if it is already blocked.
NotifyOne ==
  ownerPc' = IF ownerPc = "blocked" THEN "waitCheck" ELSE ownerPc

LoopGoto(from, to) == ~crashed /\ loopPc = from /\ loopPc' = to
StopGoto(from, to) == ~crashed /\ stopPc = from /\ stopPc' = to
OwnerGoto(from, to) == ~crashed /\ ownerPc = from /\ ownerPc' = to

-----------------------------------------------------------------------------
(* The owner: Start, then Wait *)

\* The socket is created and bound and becomes m_listen_connection; or that
\* fails, Start returns an error and Wait, if it is called, returns at once.
StartListen ==
  \/ /\ OwnerGoto("start", "run")
     /\ ~m_is_running
     /\ listening' = TRUE
     /\ UNCHANGED <<m_is_running, client, clientOpen, accepted, joinable,
                    loopPc, stopPc, peerVars, handler, crashed>>
  \/ /\ OwnerGoto("start", "waitCheck")
     /\ UNCHANGED <<m_is_running, connVars, joinable, loopPc, stopPc,
                    peerVars, handler, crashed>>

StartRun ==
  /\ OwnerGoto("run", "spawn")
  /\ m_is_running' = TRUE
  /\ UNCHANGED <<connVars, joinable, loopPc, stopPc, peerVars, handler,
                 crashed>>

StartSpawn ==
  /\ OwnerGoto("spawn", "waitCheck")
  /\ loopPc' = "check"
  /\ joinable' = TRUE
  /\ UNCHANGED <<m_is_running, connVars, stopPc, peerVars, handler, crashed>>

\* The predicate is evaluated before every block ...
WaitCheck ==
  /\ OwnerGoto("waitCheck", IF m_is_running THEN "waitBlock" ELSE "returned")
  /\ UNCHANGED <<m_is_running, connVars, joinable, loopPc, stopPc, peerVars,
                 handler, crashed>>

\* ... and a notification that falls between the two is lost, since no
\* notifier holds m_wait_mutex.
WaitBlock ==
  /\ OwnerGoto("waitBlock", "blocked")
  /\ UNCHANGED <<m_is_running, connVars, joinable, loopPc, stopPc, peerVars,
                 handler, crashed>>

SpuriousWakeup ==
  /\ OwnerGoto("blocked", "waitCheck")
  /\ UNCHANGED <<m_is_running, connVars, joinable, loopPc, stopPc, peerVars,
                 handler, crashed>>

-----------------------------------------------------------------------------
(* The server thread: AcceptAndHandleClientLoop *)

LoopCheck ==
  /\ LoopGoto("check", IF m_is_running THEN "select" ELSE "exit")
  /\ UNCHANGED <<m_is_running, connVars, joinable, ownerPc, stopPc, peerVars,
                 handler, crashed>>

\* Mutant: the loop accepts whether or not it has a client.
LoopSelect_Always ==
  /\ LoopGoto("select", IF listening THEN "accept" ELSE "exit")
  /\ UNCHANGED <<m_is_running, connVars, joinable, ownerPc, stopPc, peerVars,
                 handler, crashed>>

\* Only without a client does the loop go on to accept one.
LoopSelect ==
  /\ LoopGoto("select", IF client # None THEN "session"
                        ELSE IF listening THEN "accept" ELSE "exit")
  /\ UNCHANGED <<m_is_running, connVars, joinable, ownerPc, stopPc, peerVars,
                 handler, crashed>>

AcceptSucceeds(c) ==
  /\ LoopGoto("accept", "install")
  /\ listening
  /\ peer[c] = "backlog"
  /\ peer' = [peer EXCEPT ![c] = "connected"]
  /\ accepted' = c
  /\ UNCHANGED <<m_is_running, listening, client, clientOpen, joinable,
                 ownerPc, stopPc, inbox, handler, crashed>>

\* Accept times out after two seconds, or fails because Stop has closed, and
\* destroyed, the listening connection it runs on.
AcceptFails ==
  /\ LoopGoto("accept", IF m_is_running THEN "check" ELSE "exit")
  /\ UNCHANGED <<m_is_running, connVars, joinable, ownerPc, stopPc, peerVars,
                 handler, crashed>>

InstallClient ==
  /\ LoopGoto("install", "session")
  /\ client' = accepted
  /\ clientOpen' = TRUE
  /\ accepted' = None
  /\ OnConnect
  /\ UNCHANGED <<m_is_running, listening, joinable, ownerPc, stopPc, peerVars,
                 crashed>>

\* The null test of m_client_connection, then the call of its IsOpen.
SessionTest ==
  /\ LoopGoto("session", IF client = None THEN "check" ELSE "isOpen")
  /\ UNCHANGED <<m_is_running, connVars, joinable, ownerPc, stopPc, peerVars,
                 handler, crashed>>

SessionOpen ==
  /\ LoopGoto("isOpen", "recv")
  /\ client # None /\ clientOpen
  /\ UNCHANGED <<m_is_running, connVars, joinable, ownerPc, stopPc, peerVars,
                 handler, crashed>>

SessionClosed ==
  /\ LoopGoto("isOpen", "check")
  /\ client # None /\ ~clientOpen
  /\ OnDisconnect
  /\ ResetClientConnection
  /\ UNCHANGED <<m_is_running, listening, accepted, joinable, ownerPc, stopPc,
                 crashed>>

\* ReceiveSocketMessage has no timeout: it returns when the client sends ...
RecvMessage ==
  /\ LoopGoto("recv", "handle")
  /\ client # None /\ inbox[client] = "message"
  /\ inbox' = [inbox EXCEPT ![client] = "empty"]
  /\ UNCHANGED <<m_is_running, connVars, joinable, ownerPc, stopPc, peer,
                 handler, crashed>>

RecvCanFail ==
  \/ client = None
  \/ client # None /\ inbox[client] = "malformed"
  \/ client # None /\ inbox[client] = "empty" /\ peer[client] = "hungup"

\* ReceiveSocketMessage closes a connection whose bytes it cannot parse.
CloseMalformed ==
  LET bad == {c \in Clients : c = client /\ inbox[c] = "malformed"}
  IN  /\ clientOpen' = (clientOpen /\ bad = {})
      /\ peer' = [c \in Clients |-> IF c \in bad THEN "hungup" ELSE peer[c]]
      /\ inbox' = [c \in Clients |-> IF c \in bad THEN "empty" ELSE inbox[c]]

\* Mutant: the failed connection is reported but kept.
RecvFails_NoReset ==
  /\ LoopGoto("recv", IF m_is_running THEN "check" ELSE "exit")
  /\ RecvCanFail
  /\ OnDisconnect
  /\ CloseMalformed /\ UNCHANGED client
  /\ UNCHANGED <<m_is_running, listening, accepted, joinable, ownerPc, stopPc,
                 crashed>>

\* ... or hangs up, or sends what cannot be parsed, or Stop resets the
\* connection: then get() returned null, or Recv runs on a destroyed object.
RecvFails ==
  /\ LoopGoto("recv", IF m_is_running THEN "check" ELSE "exit")
  /\ RecvCanFail
  /\ OnDisconnect
  /\ \/ m_is_running /\ ResetClientConnection
     \/ ~m_is_running /\ CloseMalformed /\ UNCHANGED client
  /\ UNCHANGED <<m_is_running, listening, accepted, joinable, ownerPc, stopPc,
                 crashed>>

\* HandleMessage answers the client; Send closes the connection when the
\* client has hung up (EPIPE).
HandleMessage ==
  /\ LoopGoto("handle", "check")
  /\ \/ UNCHANGED clientOpen
     \/ client # None /\ peer[client] = "hungup" /\ clientOpen' = FALSE
  /\ UNCHANGED <<m_is_running, listening, client, accepted, joinable, ownerPc,
                 stopPc, peerVars, handler, crashed>>

\* A method called on a null or destroyed connection may crash.
UseAfterReset ==
  /\ ~crashed
  /\ \/ loopPc = "accept" /\ ~listening
     \/ loopPc \in {"isOpen", "recv", "handle"} /\ client = None
  /\ crashed' = TRUE
  /\ UNCHANGED <<m_is_running, connVars, joinable, loopPc, ownerPc, stopPc,
                 peerVars, handler>>

LoopExit ==
  /\ LoopGoto("exit", "notify")
  /\ m_is_running' = FALSE
  /\ UNCHANGED <<connVars, joinable, ownerPc, stopPc, peerVars, handler,
                 crashed>>

LoopNotify ==
  /\ LoopGoto("notify", "done")
  /\ NotifyOne
  /\ UNCHANGED <<m_is_running, connVars, joinable, stopPc, peerVars, handler,
                 crashed>>

ServerThread ==
  \/ LoopCheck \/ LoopSelect
  \/ \E c \in Clients : AcceptSucceeds(c)
  \/ AcceptFails \/ InstallClient
  \/ SessionTest \/ SessionOpen \/ SessionClosed
  \/ RecvMessage \/ RecvFails \/ HandleMessage \/ UseAfterReset
  \/ LoopExit \/ LoopNotify

-----------------------------------------------------------------------------
(* Stop, also run by the destructor: it may be called again *)

StopBegin ==
  /\ ~crashed /\ stopPc \in {"none", "stopped"}
  /\ stopPc' = "closeListen"
  /\ m_is_running' = FALSE
  /\ UNCHANGED <<connVars, joinable, loopPc, ownerPc, peerVars, handler,
                 crashed>>

\* Connections still in the backlog are refused.
StopCloseListen ==
  /\ StopGoto("closeListen", "closeClient")
  /\ listening' = FALSE
  /\ peer' = [c \in Clients |-> IF peer[c] = "backlog" THEN "away"
                                                       ELSE peer[c]]
  /\ inbox' = [c \in Clients |-> IF peer[c] = "backlog" THEN "empty"
                                                        ELSE inbox[c]]
  /\ UNCHANGED <<m_is_running, client, clientOpen, accepted, joinable, loopPc,
                 ownerPc, handler, crashed>>

StopCloseClient ==
  /\ StopGoto("closeClient", "join")
  /\ ResetClientConnection
  /\ UNCHANGED <<m_is_running, listening, accepted, joinable, loopPc, ownerPc,
                 handler, crashed>>

\* Mutant: Stop detaches the thread instead of joining it.
StopJoin_Detach ==
  /\ StopGoto("join", "notify")
  /\ joinable' = FALSE
  /\ UNCHANGED <<m_is_running, connVars, loopPc, ownerPc, peerVars, handler,
                 crashed>>

StopJoin ==
  /\ StopGoto("join", "notify")
  /\ joinable => loopPc = "done"
  /\ joinable' = FALSE
  /\ UNCHANGED <<m_is_running, connVars, loopPc, ownerPc, peerVars, handler,
                 crashed>>

StopNotify ==
  /\ StopGoto("notify", "stopped")
  /\ NotifyOne
  /\ UNCHANGED <<m_is_running, connVars, joinable, loopPc, peerVars, handler,
                 crashed>>

\* The steps of a Stop that has begun.
Stop == StopCloseListen \/ StopCloseClient \/ StopJoin \/ StopNotify

-----------------------------------------------------------------------------
(* The clients *)

Connect(c) ==
  /\ ~crashed /\ listening /\ peer[c] = "away"
  /\ peer' = [peer EXCEPT ![c] = "backlog"]
  /\ UNCHANGED <<m_is_running, connVars, joinable, loopPc, ownerPc, stopPc,
                 inbox, handler, crashed>>

Send(c) ==
  /\ ~crashed /\ peer[c] \in {"backlog", "connected"} /\ inbox[c] = "empty"
  /\ \E m \in {"message", "malformed"} : inbox' = [inbox EXCEPT ![c] = m]
  /\ UNCHANGED <<m_is_running, connVars, joinable, loopPc, ownerPc, stopPc,
                 peer, handler, crashed>>

HangUp(c) ==
  /\ ~crashed /\ peer[c] = "connected"
  /\ peer' = [peer EXCEPT ![c] = "hungup"]
  /\ UNCHANGED <<m_is_running, connVars, joinable, loopPc, ownerPc, stopPc,
                 inbox, handler, crashed>>

-----------------------------------------------------------------------------

Owner == StartListen \/ StartRun \/ StartSpawn \/ WaitCheck \/ WaitBlock

ClientSteps == \E c \in Clients : Connect(c) \/ Send(c) \/ HangUp(c)

-----------------------------------------------------------------------------
(* Properties *)

\* unix_domain_server.h:46: one client connection at a time.  A connection
\* that the server has accepted and not closed is unique, whatever Stop and
\* the clients do meanwhile.
OneClientAtATime ==
  \A c, d \in Clients :
    peer[c] \in {"connected", "hungup"} /\ peer[d] \in {"connected", "hungup"}
      => c = d

=============================================================================
