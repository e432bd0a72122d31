------------------------- MODULE LayerManager_proofs -------------------------
(***************************************************************************)
(* Proofs about LayerManager and the UnixDomainServer it owns, for any     *)
(* clients.  No fairness is used: LayerFairSpec implies LayerSpec.         *)
(***************************************************************************)
EXTENDS LayerManager, TLAPS

InLoop == {"check", "select", "accept", "install", "session", "isOpen", "recv", "handle"}

\* The connections that were accepted and not closed are those of
\* m_client_connection and of the local acc_connection, of which only one is
\* set: the loop accepts only while it has no client, and nobody else sets one.
OneConnection ==
  /\ loopPc \in {"none", "accept", "install"} => client = None
  /\ loopPc = "install" <=> accepted # None
  /\ ~StartReturned => loopPc = "none"
  /\ \A c \in Clients : peer[c] \in {"connected", "hungup"} => c \in {client, accepted}

ConnectionInv == TypeOK /\ OneConnection

\* A process whose exit waited for Start: Stop comes after it, closes the
\* listening socket before the client's connection, and nothing undoes either.
StopIsFinal ==
  /\ stopPc # "none" => exitPc # "running"
  /\ exitPc # "running" => StartReturned
  /\ stopPc # "none" => ~m_is_running
  /\ stopPc \notin {"none", "closeListen"} => ~listening

\* The handler knows of a client where the loop says so; when Stop has taken the
\* client's connection away, the loop cannot get to another client.
HandlerFollows ==
  /\ handler # "confused"
  /\ loopPc \in {"none", "accept", "install"} => handler = "disconnected"
  /\ loopPc \in {"session", "isOpen", "recv", "handle"} => handler = "connected"
  /\ handler = "connected" /\ client = None => ~listening /\ ~m_is_running
  /\ handler = "disconnected" /\ client # None => loopPc \notin InLoop

TurnInv ==
  /\ ConnectionInv
  /\ exitPc = "running" => ~overtaken
  /\ ~overtaken => StopIsFinal /\ HandlerFollows

\* The server thread has ended when the destructor has joined it, whatever the
\* exit overtook, because the layer's thread, which starts it, ended before.
ThreadsEnded ==
  /\ loopPc \notin {"none", "done"} => joinable
  /\ exitPc \in {"destroy", "destroying", "gone"} => ownerPc = "returned"
  /\ exitPc = "destroying" /\ stopPc \in {"notify", "stopped"} => loopPc \in {"none", "done"}
  /\ exitPc = "gone" => loopPc \in {"none", "done"}

-----------------------------------------------------------------------------
(* The steps of the server, with what they leave alone *)

LoopMoves ==
  \/ LoopCheck \/ LoopSelect \/ AcceptFails \/ SessionTest \/ SessionOpen
  \/ RecvMessage \/ LoopExit \/ LoopNotify \/ HandleMessage

\* The steps of the loop that touch neither the handler nor the connections'
\* peers.
LEMMA LoopMovesStep ==
  ASSUME TypeOK, LoopMoves
  PROVE  /\ TypeOK'
         /\ UNCHANGED <<listening, client, accepted, stopPc, peer, handler, joinable>>
         /\ ownerPc' = ownerPc \/ (ownerPc = "blocked" /\ ownerPc' = "waitCheck")
         /\ m_is_running' => m_is_running
         /\ loopPc \in LoopPc \ {"none", "done", "install"}
         /\ loopPc' \notin {"none", "install"}
         /\ loopPc' = "accept" => client = None /\ listening /\ loopPc = "select"
         /\ loopPc' = "session" => client # None /\ loopPc = "select"
         /\ loopPc' \in {"isOpen", "recv", "handle"} => loopPc \in {"session", "isOpen", "recv"}
         /\ loopPc' \in InLoop => loopPc \in InLoop
  <1>1. CASE LoopCheck \/ LoopSelect \/ AcceptFails \/ SessionTest \/ SessionOpen
    BY <1>1
       DEF LoopCheck, LoopSelect, AcceptFails, SessionTest, SessionOpen, LoopGoto,
           connVars, peerVars, TypeOK, LoopPc, InLoop
  <1>2. CASE RecvMessage
    BY <1>2 DEF RecvMessage, LoopGoto, connVars, TypeOK, LoopPc, InLoop
  <1>3. CASE HandleMessage
    <2>1. clientOpen' = clientOpen \/ clientOpen' = FALSE
      BY <1>3 DEF HandleMessage
    <2>2. clientOpen' \in BOOLEAN /\ (clientOpen' => clientOpen)
      <3>1. CASE clientOpen' = clientOpen
        BY <3>1 DEF TypeOK
      <3>2. CASE clientOpen' = FALSE
        BY <3>2
      <3> QED BY <2>1, <3>1, <3>2
    <2> QED BY <1>3, <2>2 DEF HandleMessage, LoopGoto, peerVars, TypeOK, LoopPc, InLoop
  <1>4. CASE LoopExit
    BY <1>4 DEF LoopExit, LoopGoto, connVars, peerVars, TypeOK, LoopPc, InLoop
  <1>5. CASE LoopNotify
    BY <1>5 DEF LoopNotify, NotifyOne, LoopGoto, connVars, peerVars, TypeOK, LoopPc,
                OwnerPc, InLoop
  <1> QED BY <1>1, <1>2, <1>3, <1>4, <1>5 DEF LoopMoves

\* A connection is accepted.
LEMMA AcceptStep ==
  ASSUME TypeOK, NEW c \in Clients, AcceptSucceeds(c)
  PROVE  /\ TypeOK'
         /\ loopPc = "accept" /\ loopPc' = "install" /\ accepted' = c
         /\ peer' = [peer EXCEPT ![c] = "connected"]
         /\ UNCHANGED <<m_is_running, listening, client, stopPc, ownerPc, handler, joinable>>
  BY DEF AcceptSucceeds, LoopGoto, TypeOK, LoopPc, PeerState

\* It becomes the client's.
LEMMA InstallStep ==
  ASSUME TypeOK, accepted # None, InstallClient
  PROVE  /\ TypeOK'
         /\ loopPc = "install" /\ loopPc' = "session"
         /\ client' = accepted /\ accepted' = None
         /\ OnConnect
         /\ UNCHANGED <<m_is_running, listening, stopPc, ownerPc, peer, joinable>>
  BY DEF InstallClient, OnConnect, LoopGoto, TypeOK, LoopPc, peerVars

\* Losing the client's connection changes nothing for other clients.
LEMMA ResetStep ==
  ASSUME TypeOK, ResetClientConnection
  PROVE  /\ client' = None /\ clientOpen' = FALSE
         /\ peer' \in [Clients -> PeerState]
         /\ inbox' \in [Clients -> {"empty", "message", "malformed"}]
         /\ \A c \in Clients : peer'[c] \in {"connected", "hungup"}
                                => c # client /\ peer[c] = peer'[c]
  BY DEF ResetClientConnection, TypeOK, PeerState

\* The client's connection has failed, and the handler is told.
LEMMA DisconnectStep ==
  ASSUME TypeOK, SessionClosed \/ RecvFails
  PROVE  /\ TypeOK'
         /\ loopPc \in {"isOpen", "recv"} /\ loopPc' \in {"check", "exit"}
         /\ OnDisconnect
         /\ client' = None \/ (client' = client /\ loopPc' = "exit")
         /\ \A c \in Clients : peer'[c] \in {"connected", "hungup"}
                 => c = client' \/ (c # client /\ peer[c] = peer'[c])
         /\ UNCHANGED <<m_is_running, listening, stopPc, ownerPc, accepted, joinable>>
  <1>1. /\ loopPc \in {"isOpen", "recv"} /\ loopPc' \in {"check", "exit"}
        /\ OnDisconnect
        /\ ResetClientConnection \/ (CloseMalformed /\ client' = client /\ loopPc' = "exit")
        /\ UNCHANGED <<m_is_running, listening, stopPc, ownerPc, accepted, joinable, crashed>>
    BY DEF SessionClosed, RecvFails, LoopGoto
  <1>2. handler' \in {"disconnected", "connected", "confused"}
    BY <1>1 DEF OnDisconnect
  <1>3. CASE ResetClientConnection
    BY <1>1, <1>2, <1>3, ResetStep DEF TypeOK, LoopPc
  <1>4. CASE CloseMalformed /\ client' = client /\ loopPc' = "exit"
    <2>1. /\ peer' \in [Clients -> PeerState]
          /\ inbox' \in [Clients -> {"empty", "message", "malformed"}]
          /\ clientOpen' \in BOOLEAN /\ (clientOpen' => clientOpen)
          /\ \A c \in Clients : c # client => peer'[c] = peer[c]
      BY <1>4 DEF CloseMalformed, TypeOK, PeerState
    <2> QED BY <1>1, <1>2, <1>4, <2>1 DEF TypeOK, LoopPc
  <1> QED BY <1>1, <1>3, <1>4

\* The process may die of the use of a destroyed connection.
LEMMA CrashStep ==
  ASSUME TypeOK, UseAfterReset
  PROVE  /\ TypeOK'
         /\ UNCHANGED <<m_is_running, listening, client, accepted, joinable, loopPc,
                        ownerPc, stopPc, peer, handler>>
  BY DEF UseAfterReset, TypeOK, connVars, peerVars

\* Start and Wait.
LEMMA OwnerStep ==
  ASSUME TypeOK, Owner \/ SpuriousWakeup
  PROVE  /\ TypeOK'
         /\ UNCHANGED <<client, accepted, stopPc, peer, handler>>
         /\ StartReturned => StartReturned' /\ UNCHANGED <<m_is_running, listening, loopPc, joinable>>
         /\ ownerPc # "returned"
         /\ ~StartReturned => loopPc' = loopPc \/ (loopPc' = "check" /\ joinable' /\ StartReturned')
         /\ ~StartReturned' => loopPc' = loopPc
         /\ listening => listening'
         /\ joinable => joinable'
  <1>1. CASE ownerPc = "start" /\ ownerPc' = "run" /\ listening' = TRUE /\ StartListen
    BY <1>1 DEF StartListen, OwnerGoto, TypeOK, OwnerPc, StartReturned, connVars, peerVars
  <1>2. CASE ownerPc = "start" /\ ownerPc' = "waitCheck" /\ StartListen
    BY <1>2 DEF StartListen, OwnerGoto, TypeOK, OwnerPc, StartReturned, connVars, peerVars
  <1>3. CASE StartRun
    BY <1>3 DEF StartRun, OwnerGoto, TypeOK, OwnerPc, StartReturned, connVars, peerVars
  <1>4. CASE WaitCheck \/ WaitBlock \/ SpuriousWakeup
    BY <1>4 DEF WaitCheck, WaitBlock, SpuriousWakeup, OwnerGoto, TypeOK, OwnerPc,
                StartReturned, connVars, peerVars
  <1>5. CASE StartSpawn
    <2>1. /\ ownerPc = "spawn" /\ ownerPc' = "waitCheck" /\ loopPc' = "check"
          /\ joinable' = TRUE
          /\ UNCHANGED <<m_is_running, listening, client, clientOpen, accepted, stopPc,
                         peer, inbox, handler, crashed>>
      BY <1>5 DEF StartSpawn, OwnerGoto, connVars, peerVars
    <2>2. TypeOK'
      BY <2>1 DEF TypeOK, OwnerPc, LoopPc
    <2> QED BY <2>1, <2>2 DEF StartReturned
  <1> QED BY <1>1, <1>2, <1>3, <1>4, <1>5 DEF Owner, StartListen, OwnerGoto

\* Stop.
LEMMA StopStep ==
  ASSUME TypeOK, Stop \/ StopBegin
  PROVE  /\ TypeOK'
         /\ UNCHANGED <<accepted, loopPc, handler>>
         /\ m_is_running' => m_is_running
         /\ listening' => listening
         /\ ownerPc' = ownerPc \/ (ownerPc = "blocked" /\ ownerPc' = "waitCheck")
         /\ client' = client \/ (client' = None /\ stopPc = "closeClient")
         /\ \A c \in Clients : peer'[c] \in {"connected", "hungup"}
                 => peer[c] = peer'[c] /\ (client' = client \/ c # client)
         /\ stopPc' # "none"
         /\ StopBegin => stopPc' = "closeListen" /\ ~m_is_running' /\ listening' = listening
         /\ ~StopBegin => stopPc # "none"
         /\ stopPc = "closeListen" => ~listening'
         /\ stopPc' \notin {"none", "closeListen"} /\ stopPc # "closeListen"
              => stopPc \notin {"none", "closeListen"}
         /\ stopPc' \in {"notify", "stopped"} => stopPc \in {"join", "notify"}
         /\ joinable' = joinable \/ (stopPc = "join" /\ (joinable => loopPc = "done"))
         /\ stopPc = "join" => (joinable => loopPc = "done")
  <1>1. CASE StopBegin
    BY <1>1 DEF StopBegin, Stop, StopCloseListen, StopCloseClient, StopJoin, StopNotify,
                StopGoto, TypeOK, StopPc, connVars, peerVars
  <1>2. CASE StopCloseListen
    BY <1>2 DEF StopBegin, StopCloseListen, StopGoto, TypeOK, StopPc, PeerState
  <1>3. CASE StopCloseClient
    BY <1>3, ResetStep DEF StopBegin, StopCloseClient, StopGoto, TypeOK, StopPc
  <1>4. CASE StopJoin
    BY <1>4 DEF StopBegin, StopJoin, StopGoto, TypeOK, StopPc, connVars, peerVars
  <1>5. CASE StopNotify
    BY <1>5 DEF StopBegin, StopNotify, NotifyOne, StopGoto, TypeOK, StopPc, OwnerPc,
                connVars, peerVars
  <1> QED BY <1>1, <1>2, <1>3, <1>4, <1>5 DEF Stop

\* The clients.
LEMMA ClientStep ==
  ASSUME TypeOK, ClientSteps
  PROVE  /\ TypeOK'
         /\ UNCHANGED <<m_is_running, listening, client, accepted, joinable, loopPc,
                        ownerPc, stopPc, handler>>
         /\ \A c \in Clients : peer'[c] \in {"connected", "hungup"}
                                => peer[c] \in {"connected", "hungup"}
  <1> PICK c \in Clients : Connect(c) \/ Send(c) \/ HangUp(c)
    BY DEF ClientSteps
  <1>1. CASE Connect(c)
    BY <1>1 DEF Connect, TypeOK, PeerState, connVars
  <1>2. CASE Send(c)
    BY <1>2 DEF Send, TypeOK, connVars
  <1>3. CASE HangUp(c)
    BY <1>3 DEF HangUp, TypeOK, PeerState, connVars
  <1> QED BY <1>1, <1>2, <1>3

-----------------------------------------------------------------------------
(* The invariants *)

\* The steps of LayerManager that leave the server alone.
ManagerSteps ==
  \/ MarkLayerReady \/ MakeServer \/ ExitCheck \/ ExitJoin
  \/ exitPc = "stop" /\ ExitStop /\ UNCHANGED vars
  \/ exitPc = "destroying" /\ ExitDestroy /\ UNCHANGED vars

\* Every step is one of the server, or leaves it alone.
LEMMA StepsOfLayer ==
  ASSUME LayerNext
  PROVE  \/ LoopMoves /\ UNCHANGED mgrVars
         \/ (\E c \in Clients : AcceptSucceeds(c)) /\ UNCHANGED mgrVars
         \/ InstallClient /\ UNCHANGED mgrVars
         \/ (SessionClosed \/ RecvFails) /\ UNCHANGED mgrVars
         \/ UseAfterReset /\ UNCHANGED mgrVars
         \/ (Owner \/ SpuriousWakeup) /\ UNCHANGED mgrVars
         \/ Stop /\ UNCHANGED mgrVars
         \/ ClientSteps /\ UNCHANGED mgrVars
         \/ /\ StopBegin /\ UNCHANGED <<m_is_ready, m_server, overtaken>>
            /\ \/ exitPc = "stop" /\ exitPc' = "stop"
               \/ exitPc = "destroy" /\ exitPc' = "destroying"
         \/ ManagerSteps /\ UNCHANGED vars
  <1>1. CASE ServerSteps /\ UNCHANGED mgrVars
    BY <1>1 DEF ServerSteps, ServerThread, LoopMoves
  <1>2. CASE LayerThread \/ MarkLayerReady \/ ExitCheck
    BY <1>2 DEF LayerThread, MarkLayerReady, MakeServer, ExitCheck, ManagerSteps
  <1>3. CASE ExitStop
    BY <1>3 DEF ExitStop, ExitGoto, ManagerSteps, mgrVars
  <1>4. CASE ExitJoin
    BY <1>4 DEF ExitJoin, ManagerSteps
  <1>5. CASE ExitDestroy
    BY <1>5 DEF ExitDestroy, ExitGoto, ManagerSteps
  <1> QED BY <1>1, <1>2, <1>3, <1>4, <1>5 DEF LayerNext, Exit

\* The server's part of the invariant.
LEMMA ConnectionNext ==
  ASSUME ConnectionInv, LayerNext
  PROVE  ConnectionInv'
  <1> USE DEF ConnectionInv, OneConnection
  <1>1. CASE LoopMoves
    BY <1>1, LoopMovesStep DEF StartReturned
  <1>2. ASSUME NEW c \in Clients, AcceptSucceeds(c) PROVE ConnectionInv'
    <2>1. c # None
      BY NoneIsNoClient
    <2>2. \A d \in Clients : d # c => peer'[d] = peer[d]
      BY <1>2, AcceptStep DEF TypeOK
    <2> QED BY <1>2, <2>1, <2>2, AcceptStep DEF StartReturned
  <1>3. CASE InstallClient
    <2>1. accepted # None
      BY <1>3 DEF InstallClient, LoopGoto
    <2> QED BY <1>3, <2>1, InstallStep DEF StartReturned
  <1>4. CASE SessionClosed \/ RecvFails
    BY <1>4, DisconnectStep DEF StartReturned
  <1>5. CASE UseAfterReset
    BY <1>5, CrashStep DEF StartReturned
  <1>6. CASE Owner \/ SpuriousWakeup
    BY <1>6, OwnerStep
  <1>7. CASE Stop \/ StopBegin
    BY <1>7, StopStep DEF StartReturned
  <1>8. CASE ClientSteps
    BY <1>8, ClientStep DEF StartReturned
  <1>9. CASE UNCHANGED vars
    BY <1>9 DEF vars, connVars, peerVars, StartReturned, TypeOK
  <1> QED BY StepsOfLayer, <1>1, <1>2, <1>3, <1>4, <1>5, <1>6, <1>7, <1>8, <1>9

LEMMA ConnectionStart == LayerInit => ConnectionInv
  BY DEF LayerInit, Init, ConnectionInv, TypeOK, OneConnection, LoopPc, OwnerPc, StopPc,
         PeerState, StartReturned

LEMMA ConnectionInvariance == LayerSpec => []ConnectionInv
  <1>1. ConnectionInv /\ [LayerNext]_layerVars => ConnectionInv'
    <2>1. ConnectionInv /\ UNCHANGED layerVars => ConnectionInv'
      BY DEF ConnectionInv, OneConnection, TypeOK, StartReturned, layerVars, vars,
             connVars, peerVars
    <2> QED BY <2>1, ConnectionNext
  <1> QED BY <1>1, ConnectionStart, PTL DEF LayerSpec

\* unix_domain_server.h:46: the server has one client at a time, whatever clients
\* do and whenever Stop is called.
THEOREM OneClientAtATimeHolds == LayerSpec => []OneClientAtATime
  <1>1. ConnectionInv => OneClientAtATime
    <2> SUFFICES ASSUME ConnectionInv,
                        NEW c \in Clients, NEW d \in Clients,
                        peer[c] \in {"connected", "hungup"},
                        peer[d] \in {"connected", "hungup"}
                 PROVE  c = d
      BY DEF OneClientAtATime
    <2>1. c # None /\ d # None
      BY NoneIsNoClient
    <2>2. c \in {client, accepted} /\ d \in {client, accepted}
      BY DEF ConnectionInv, OneConnection
    <2>3. accepted # None => client = None
      BY DEF ConnectionInv, OneConnection
    <2> QED BY <2>1, <2>2, <2>3
  <1> QED BY <1>1, ConnectionInvariance, PTL

\* The steps of the manager alone.
LEMMA ManagerStep ==
  ASSUME ManagerSteps, UNCHANGED vars
  PROVE  /\ exitPc' = "running" => exitPc = "running"
         /\ exitPc = "running" /\ exitPc' # "running" =>
              overtaken' \/ (~overtaken' /\ StartReturned)
         /\ exitPc' \in {"destroy", "destroying", "gone"} =>
              exitPc \in {"destroy", "destroying", "gone"} \/ ownerPc = "returned"
         /\ exitPc' = "destroying" => exitPc = "destroying"
         /\ exitPc' = "gone" => exitPc = "gone" \/ (exitPc = "destroying" /\ stopPc = "stopped")
  <1>1. CASE MarkLayerReady \/ MakeServer \/ ExitJoin
    BY <1>1 DEF MarkLayerReady, MakeServer, ExitJoin, ExitGoto
  <1>2. CASE ExitCheck
    <2>1. exitPc = "running" /\ exitPc' \in {"stop", "join"}
          /\ overtaken' = ~(m_server /\ StartReturned)
      BY <1>2 DEF ExitCheck, ExitGoto
    <2>2. ~overtaken' => StartReturned
      BY <2>1
    <2> QED BY <2>1, <2>2
  <1>3. CASE exitPc = "stop" /\ ExitStop /\ UNCHANGED vars
    BY <1>3 DEF ExitStop, ExitGoto, StopBegin, vars, mgrVars
  <1>4. CASE exitPc = "destroying" /\ ExitDestroy /\ UNCHANGED vars
    BY <1>4 DEF ExitDestroy, ExitGoto
  <1> QED BY <1>1, <1>2, <1>3, <1>4 DEF ManagerSteps

\* An exit is said to have overtaken Start when it begins, once.
LEMMA OvertakenStays ==
  ASSUME LayerNext, exitPc = "running" => ~overtaken
  PROVE  /\ ~overtaken' => ~overtaken
         /\ exitPc' = "running" => ~overtaken'
  <1>1. CASE ExitCheck
    BY <1>1 DEF ExitCheck, ExitGoto
  <1>2. CASE ~ExitCheck
    <2>1. overtaken' = overtaken /\ (exitPc' = "running" => exitPc = "running")
      BY <1>2, StepsOfLayer
         DEF ManagerSteps, MarkLayerReady, MakeServer, ExitJoin, ExitStop, ExitDestroy,
             ExitGoto, mgrVars
    <2> QED BY <2>1
  <1> QED BY <1>1, <1>2

LEMMA StopIsFinalNext ==
  ASSUME ConnectionInv, LayerNext, StopIsFinal, ~overtaken'
  PROVE  StopIsFinal'
  <1> USE DEF ConnectionInv, StopIsFinal
  <1>1. CASE LoopMoves /\ UNCHANGED mgrVars
    BY <1>1, LoopMovesStep DEF StartReturned, mgrVars
  <1>2. ASSUME NEW c \in Clients, AcceptSucceeds(c), UNCHANGED mgrVars
        PROVE  StopIsFinal'
    BY <1>2, AcceptStep DEF StartReturned, mgrVars
  <1>3. CASE InstallClient /\ UNCHANGED mgrVars
    BY <1>3 DEF InstallClient, StartReturned, mgrVars
  <1>4. CASE (SessionClosed \/ RecvFails) /\ UNCHANGED mgrVars
    BY <1>4, DisconnectStep DEF StartReturned, mgrVars
  <1>5. CASE UseAfterReset /\ UNCHANGED mgrVars
    BY <1>5, CrashStep DEF StartReturned, mgrVars
  <1>6. CASE (Owner \/ SpuriousWakeup) /\ UNCHANGED mgrVars
    BY <1>6, OwnerStep DEF mgrVars
  <1>7. CASE Stop /\ UNCHANGED mgrVars
    <2>1. stopPc # "none"
      BY <1>7 DEF Stop, StopCloseListen, StopCloseClient, StopJoin, StopNotify, StopGoto
    <2> QED BY <1>7, <2>1, StopStep DEF StartReturned, mgrVars
  <1>8. CASE ClientSteps /\ UNCHANGED mgrVars
    BY <1>8, ClientStep DEF StartReturned, mgrVars
  <1>9. CASE StopBegin /\ exitPc \in {"stop", "destroy"} /\ exitPc' \in {"stop", "destroying"}
    BY <1>9, StopStep DEF StartReturned
  <1>10. CASE ManagerSteps /\ UNCHANGED vars
    BY <1>10, ManagerStep DEF StartReturned, vars, connVars
  <1> QED BY StepsOfLayer, <1>1, <1>2, <1>3, <1>4, <1>5, <1>6, <1>7, <1>8, <1>9, <1>10

LEMMA HandlerFollowsNext ==
  ASSUME ConnectionInv, LayerNext, StopIsFinal, HandlerFollows
  PROVE  HandlerFollows'
  <1> USE DEF ConnectionInv, StopIsFinal, HandlerFollows
  <1>1. CASE LoopMoves
    BY <1>1, LoopMovesStep DEF InLoop, TypeOK
  <1>2. ASSUME NEW c \in Clients, AcceptSucceeds(c) PROVE HandlerFollows'
    BY <1>2, AcceptStep DEF InLoop, OneConnection
  <1>3. CASE InstallClient
    <2>1. accepted # None /\ handler = "disconnected"
      BY <1>3 DEF InstallClient, LoopGoto, OneConnection
    <2> QED BY <1>3, <2>1, InstallStep DEF InLoop, OnConnect
  <1>4. CASE SessionClosed \/ RecvFails
    BY <1>4, DisconnectStep DEF InLoop, OnDisconnect
  <1>5. CASE UseAfterReset
    BY <1>5, CrashStep
  <1>6. CASE Owner \/ SpuriousWakeup
    <2>1. CASE StartReturned
      BY <1>6, <2>1, OwnerStep
    <2>2. CASE ~StartReturned
      <3>1. loopPc = "none" /\ client = None /\ handler = "disconnected"
        BY <2>2 DEF OneConnection
      <3> QED BY <1>6, <2>2, <3>1, OwnerStep
    <2> QED BY <2>1, <2>2
  <1>7. CASE Stop \/ StopBegin
    BY <1>7, StopStep
  <1>8. CASE ClientSteps
    BY <1>8, ClientStep
  <1>9. CASE UNCHANGED vars
    BY <1>9 DEF vars, connVars
  <1> QED BY StepsOfLayer, <1>1, <1>2, <1>3, <1>4, <1>5, <1>6, <1>7, <1>8, <1>9

LEMMA TurnInvariance == LayerSpec => []TurnInv
  <1>1. LayerInit => TurnInv
    BY ConnectionStart DEF LayerInit, Init, TurnInv, StopIsFinal, HandlerFollows
  <1>2. TurnInv /\ [LayerNext]_layerVars => TurnInv'
    <2> SUFFICES ASSUME TurnInv, [LayerNext]_layerVars PROVE TurnInv'
      OBVIOUS
    <2>1. CASE LayerNext
      <3>1. ConnectionInv'
        BY <2>1, ConnectionNext DEF TurnInv
      <3>2. ASSUME ~overtaken' PROVE StopIsFinal' /\ HandlerFollows'
        <4>1. StopIsFinal /\ HandlerFollows
          BY <2>1, <3>2, OvertakenStays DEF TurnInv
        <4> QED BY <2>1, <3>2, <4>1, StopIsFinalNext, HandlerFollowsNext DEF TurnInv
      <3>3. exitPc' = "running" => ~overtaken'
        BY <2>1, OvertakenStays DEF TurnInv
      <3> QED BY <3>1, <3>2, <3>3 DEF TurnInv
    <2>2. CASE UNCHANGED layerVars
      BY <2>2 DEF TurnInv, ConnectionInv, TypeOK, OneConnection, StopIsFinal, StartReturned,
                  HandlerFollows, layerVars, vars, connVars, peerVars, mgrVars
    <2> QED BY <2>1, <2>2
  <1> QED BY <1>1, <1>2, PTL DEF LayerSpec

\* The handler is told of connections and disconnections in turns, however
\* receives fail and whenever the process exits, unless the exit overtook Start.
THEOREM CallbacksInTurnHolds == LayerSpec => []CallbacksInTurn
  <1>1. TurnInv => CallbacksInTurn
    BY DEF TurnInv, HandlerFollows, CallbacksInTurn
  <1> QED BY <1>1, TurnInvariance, PTL

-----------------------------------------------------------------------------
(* After the exit *)

EndInv == ConnectionInv /\ ThreadsEnded

LEMMA ThreadsEndedNext == ASSUME EndInv, LayerNext PROVE ThreadsEnded'
  <1> USE DEF EndInv, ConnectionInv, ThreadsEnded
  <1>1. CASE LoopMoves /\ UNCHANGED mgrVars
    BY <1>1, LoopMovesStep DEF mgrVars
  <1>2. ASSUME NEW c \in Clients, AcceptSucceeds(c), UNCHANGED mgrVars
        PROVE  ThreadsEnded'
    BY <1>2, AcceptStep DEF mgrVars
  <1>3. CASE InstallClient /\ UNCHANGED mgrVars
    BY <1>3 DEF InstallClient, LoopGoto, mgrVars
  <1>4. CASE (SessionClosed \/ RecvFails) /\ UNCHANGED mgrVars
    BY <1>4, DisconnectStep DEF mgrVars
  <1>5. CASE UseAfterReset /\ UNCHANGED mgrVars
    BY <1>5, CrashStep DEF mgrVars
  <1>6. CASE (Owner \/ SpuriousWakeup) /\ UNCHANGED mgrVars
    BY <1>6, OwnerStep DEF mgrVars
  <1>7. CASE Stop /\ UNCHANGED mgrVars
    BY <1>7, StopStep DEF mgrVars
  <1>8. CASE ClientSteps /\ UNCHANGED mgrVars
    BY <1>8, ClientStep DEF mgrVars
  <1>9. CASE StopBegin /\ \/ exitPc = "stop" /\ exitPc' = "stop"
                          \/ exitPc = "destroy" /\ exitPc' = "destroying"
    BY <1>9, StopStep DEF StopBegin, connVars, peerVars
  <1>10. CASE ManagerSteps /\ UNCHANGED vars
    BY <1>10, ManagerStep DEF vars, connVars
  <1> QED BY StepsOfLayer, <1>1, <1>2, <1>3, <1>4, <1>5, <1>6, <1>7, <1>8, <1>9, <1>10

LEMMA EndInvariance == LayerSpec => []EndInv
  <1>1. LayerInit => EndInv
    BY ConnectionStart DEF LayerInit, Init, EndInv, ThreadsEnded
  <1>2. EndInv /\ [LayerNext]_layerVars => EndInv'
    <2>1. EndInv /\ UNCHANGED layerVars => EndInv'
      BY DEF EndInv, ConnectionInv, TypeOK, OneConnection, StartReturned, ThreadsEnded,
             layerVars, vars, connVars, peerVars, mgrVars
    <2> QED BY <2>1, ConnectionNext, ThreadsEndedNext DEF EndInv
  <1> QED BY <1>1, <1>2, PTL DEF LayerSpec

\* The message handler is destroyed with the server, and the server thread does
\* not call it afterwards, also when the exit overtook Start.
THEOREM NoCallbackAfterExitHolds == LayerSpec => NoCallbackAfterExit
  <1>1. EndInv /\ [LayerNext]_layerVars
          => [exitPc = "gone" => handler' = handler]_layerVars
    <2> SUFFICES ASSUME EndInv, LayerNext, exitPc = "gone" PROVE handler' = handler
      BY DEF layerVars
    <2>1. loopPc \in {"none", "done"} /\ TypeOK
      BY DEF EndInv, ThreadsEnded, ConnectionInv
    <2>2. CASE (\E c \in Clients : AcceptSucceeds(c)) \/ InstallClient \/ SessionClosed \/ RecvFails
      BY <2>1, <2>2 DEF AcceptSucceeds, InstallClient, SessionClosed, RecvFails, LoopGoto
    <2>3. CASE LoopMoves \/ UseAfterReset \/ Owner \/ SpuriousWakeup \/ Stop \/ StopBegin \/ ClientSteps
      BY <2>1, <2>3, LoopMovesStep, CrashStep, OwnerStep, StopStep, ClientStep
    <2>4. CASE UNCHANGED vars
      BY <2>4 DEF vars
    <2> QED BY StepsOfLayer, <2>2, <2>3, <2>4
  <1> QED BY <1>1, EndInvariance, PTL DEF LayerSpec, NoCallbackAfterExit

=============================================================================
