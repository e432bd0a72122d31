-------------------------- MODULE TcpClient_proofs --------------------------
(***************************************************************************)
(* Proofs about TcpClient, for any kinds of requests, known to the server  *)
(* or not.                                                                 *)
(***************************************************************************)
EXTENDS TcpClient, TLAPS

\* The keep-alive thread lives only while the user's thread does nothing with
\* m_connection but exchange messages, or waits for it to end.
KeepAliveAlone ==
  /\ thread = "live" <=> keepPc # "none"
  /\ thread = "live" => userPc \in {"idle", "connectJoin", "disconnectJoin", "request",
                                    "requestRecv", "receiveFile"}

\* A client that is disconnected has no keep-alive thread and no exchange.
AtRestDisconnected ==
  m_status = "DISCONNECTED" =>
    /\ thread # "live"
    /\ userPc \in {"idle", "connectJoin", "connectReset", "disconnectJoin",
                   "disconnectReset", "request"}

\* What is on the wire during an exchange: the request, or what the server has
\* answered to it.
Exchange(kind) ==
  \/ toServer = <<kind>> /\ toClient = << >>
  \/ toServer = << >> /\ toClient \in {<< >>} \cup Responses(kind)

\* Between two exchanges of a connected client there is nothing on the wire; once
\* an exchange was given up, the client is not connected any more.
WireClean ==
  /\ connMutex = "free" /\ IsConnected => toServer = << >> /\ toClient = << >>
  /\ userPc = "connectOpen" => toServer = << >> /\ toClient = << >>
  /\ userPc = "handshakeRecv" => Exchange("handshake")
  /\ userPc = "requestRecv" => Exchange(pending)
  /\ userPc = "receiveFile" =>
       toServer = << >> /\ toClient \in {<< >>, <<"file">>}
  /\ keepPc = "pingRecv" => Exchange("ping")

ConnInv == TypeOK /\ KeepAliveAlone /\ AtRestDisconnected /\ WireClean

LEMMA ResponseTypes ==
  /\ \A kind \in Kinds : Responses(kind) \subseteq Seq(Kinds \cup {"file", "notFound"})
  /\ Responses("handshake") = {<<"handshake">>}
  /\ Responses("ping") = {<<"ping">>}
  /\ Responses("download") = {<<"download", "file">>, <<"notFound">>, <<"download">>}
  /\ \A kind \in Kinds : kind # "download" => Responses(kind) \subseteq {<< >>, <<kind>>}
  <1>1. Unhandled \cap {"handshake", "ping", "download"} = {}
    BY UnhandledAssumption, KindsAssumption
  <1>2. ASSUME NEW kind \in Kinds, kind # "download"
        PROVE  Responses(kind) = IF kind \in Unhandled THEN {<< >>} ELSE {<<kind>>}
    BY <1>2 DEF Responses
  <1>3. Responses("download") = {<<"download", "file">>, <<"notFound">>, <<"download">>}
    BY <1>1 DEF Responses
  <1>4. "handshake" \in Kinds /\ "ping" \in Kinds /\ "download" \in Kinds
    BY DEF Kinds
  <1>5. ASSUME NEW kind \in Kinds
        PROVE  Responses(kind) \subseteq Seq(Kinds \cup {"file", "notFound"})
    <2> DEFINE K == Kinds \cup {"file", "notFound"}
    <2>1. kind \in K /\ "download" \in K /\ "file" \in K /\ "notFound" \in K
      BY <1>4
    <2> HIDE DEF K
    <2>2. /\ << >> \in Seq(K) /\ <<kind>> \in Seq(K)
          /\ <<"download", "file">> \in Seq(K)
          /\ <<"notFound">> \in Seq(K) /\ <<"download">> \in Seq(K)
      BY <2>1
    <2>3. Responses(kind) \subseteq Seq(K)
      BY <1>2, <1>3, <2>2, Zenon
    <2> QED BY <2>3 DEF K
  <1>6. /\ Responses("handshake") = {<<"handshake">>}
        /\ Responses("ping") = {<<"ping">>}
    BY <1>1, <1>2, <1>4
  <1>7. \A kind \in Kinds : kind # "download" => Responses(kind) \subseteq {<< >>, <<kind>>}
    BY <1>2
  <1> QED BY <1>3, <1>5, <1>6, <1>7

\* Connect and Disconnect.
LEMMA ConnectSteps ==
  ASSUME ConnInv,
         \/ Connect \/ ConnectJoin \/ ConnectReset \/ ConnectOpen
         \/ Disconnect \/ DisconnectJoin \/ DisconnectReset
  PROVE  ConnInv'
  <1> USE DEF ConnInv, UserGoto, netVars, keepVars, JoinKeepAlive
  <1>1. TypeOK'
    <2>1. << >> \in Seq(Kinds) /\ << >> \in Seq(Kinds \cup {"file", "notFound"})
      OBVIOUS
    <2> USE <2>1 DEF TypeOK, UserPc
    <2>2. CASE Connect \/ Disconnect
      BY <2>2 DEF Connect, Disconnect
    <2>3. CASE ConnectJoin \/ DisconnectJoin
      BY <2>3 DEF ConnectJoin, DisconnectJoin
    <2>4. CASE ConnectReset \/ DisconnectReset
      BY <2>4 DEF ConnectReset, DisconnectReset
    <2>5. CASE ConnectOpen
      BY <2>5 DEF ConnectOpen
    <2> QED BY <2>2, <2>3, <2>4, <2>5
  <1>2. KeepAliveAlone'
    BY DEF TypeOK, KeepAliveAlone, Connect, ConnectJoin, ConnectReset, ConnectOpen,
           Disconnect, DisconnectJoin, DisconnectReset
  <1>3. AtRestDisconnected'
    BY DEF TypeOK, AtRestDisconnected, Connect, ConnectJoin, ConnectReset, ConnectOpen,
           Disconnect, DisconnectJoin, DisconnectReset, KeepAliveAlone
  <1>4. WireClean'
    BY DEF TypeOK, WireClean, IsConnected, Exchange, KeepAliveAlone, Connect, ConnectJoin,
           ConnectReset, ConnectOpen, Disconnect, DisconnectJoin, DisconnectReset
  <1> QED BY <1>1, <1>2, <1>3, <1>4

\* A message received in an exchange is the answer to it, and the last thing on
\* the wire unless a file follows.
LEMMA ReceivedAnswer ==
  ASSUME NEW kind \in Kinds, Exchange(kind), NEW k, ReceiveAny(k)
  PROVE  /\ toServer' = << >>
         /\ kind # "download" => k = kind /\ toClient' = << >>
         /\ kind = "download" => \/ k = "download" /\ toClient' \in {<< >>, <<"file">>}
                                 \/ k = "notFound" /\ toClient' = << >>
  <1>1. toServer = << >> /\ toClient \in Responses(kind) /\ toClient # << >>
    BY DEF Exchange, ReceiveAny
  <1>2. CASE kind # "download"
    <2>1. toClient = <<kind>>
      BY <1>1, <1>2, ResponseTypes
    <2> QED BY <1>1, <1>2, <2>1 DEF ReceiveAny
  <1>3. CASE kind = "download"
    <2>1. toClient \in {<<"download", "file">>, <<"notFound">>, <<"download">>}
      BY <1>1, <1>3, ResponseTypes
    <2>2. CASE toClient = <<"download", "file">>
      BY <1>1, <1>3, <2>2 DEF ReceiveAny
    <2>3. CASE toClient = <<"notFound">>
      BY <1>1, <1>3, <2>3 DEF ReceiveAny
    <2>4. CASE toClient = <<"download">>
      BY <1>1, <1>3, <2>4 DEF ReceiveAny
    <2> QED BY <2>1, <2>2, <2>3, <2>4
  <1> QED BY <1>2, <1>3

LEMMA SentRequest ==
  ASSUME ConnInv, connMutex = "free", NEW kind \in Kinds, SendOk(kind)
  PROVE  /\ toServer' = <<kind>> /\ toClient' = << >>
         /\ toServer' \in Seq(Kinds)
  <1>1. toServer = << >> /\ toClient = << >>
    BY DEF SendOk, ConnInv, WireClean
  <1> QED BY <1>1 DEF SendOk

LEMMA ReceiveTypes ==
  ASSUME TypeOK, NEW k, ReceiveAny(k)
  PROVE  toClient' \in Seq(Kinds \cup {"file", "notFound"})
  BY DEF TypeOK, ReceiveAny

LEMMA SpecialKinds == "handshake" \in Kinds /\ "ping" \in Kinds /\ "download" \in Kinds
  BY DEF Kinds

\* The end of Connect.
LEMMA HandshakeSteps ==
  ASSUME ConnInv, Handshake \/ HandshakeRecv \/ StartKeepAlive
  PROVE  ConnInv'
  <1> USE DEF ConnInv, UserGoto, keepVars
  <1>1. CASE Handshake
    <2>1. CASE userPc' = "handshakeRecv"
      <3>1. SendOk("handshake") /\ connMutex = "free" /\ UserGoto("handshake", "handshakeRecv")
            /\ connMutex' = "user" /\ UNCHANGED <<keepVars, pending>>
        BY <1>1, <2>1 DEF Handshake
      <3>2. /\ toServer' = <<"handshake">> /\ toClient' = << >> /\ toServer' \in Seq(Kinds)
            /\ UNCHANGED <<m_status, m_connection, server>>
        BY <3>1, SentRequest, SpecialKinds DEF SendOk
      <3>3. TypeOK'
        BY <3>1, <3>2 DEF TypeOK, UserPc
      <3>4. KeepAliveAlone' /\ AtRestDisconnected'
        BY <3>1, <3>2 DEF SendOk, IsConnected, KeepAliveAlone, AtRestDisconnected
      <3>5. WireClean'
        BY <3>1, <3>2 DEF TypeOK, KeepAliveAlone, WireClean, Exchange
      <3> QED BY <3>3, <3>4, <3>5
    <2>2. CASE userPc' # "handshakeRecv"
      <3>1. /\ UserGoto("handshake", "idle") /\ AbandonConnection
            /\ UNCHANGED <<connMutex, keepVars, pending>>
        BY <1>1, <2>2 DEF Handshake
      <3>2. TypeOK'
        BY <3>1 DEF TypeOK, UserPc, AbandonConnection
      <3>3. KeepAliveAlone' /\ AtRestDisconnected' /\ WireClean'
        BY <3>1 DEF TypeOK, KeepAliveAlone, AtRestDisconnected, WireClean, IsConnected,
                    AbandonConnection
      <3> QED BY <3>2, <3>3
    <2> QED BY <2>1, <2>2
  <1>2. CASE HandshakeRecv
    <2>1. CASE userPc' = "startKeepAlive"
      <3>1. /\ UserGoto("handshakeRecv", "startKeepAlive") /\ ReceiveAny("handshake")
            /\ connMutex' = "free" /\ UNCHANGED <<m_status, m_connection, keepVars, pending>>
        BY <1>2, <2>1 DEF HandshakeRecv
      <3>2. toServer' = << >> /\ toClient' = << >>
        BY <3>1, ReceivedAnswer, SpecialKinds DEF WireClean
      <3>3. TypeOK'
        BY <3>1, <3>2 DEF TypeOK, UserPc, KeepAliveAlone, ReceiveAny
      <3>4. KeepAliveAlone' /\ AtRestDisconnected' /\ WireClean'
        BY <3>1, <3>2 DEF TypeOK, KeepAliveAlone, AtRestDisconnected, WireClean
      <3> QED BY <3>3, <3>4
    <2>2. CASE userPc' # "startKeepAlive"
      <3>1. /\ UserGoto("handshakeRecv", "idle") /\ AbandonConnection
            /\ connMutex' = "free" /\ UNCHANGED <<keepVars, pending>>
        BY <1>2, <2>2 DEF HandshakeRecv
      <3>2. TypeOK'
        BY <3>1 DEF TypeOK, UserPc, AbandonConnection, KeepAliveAlone
      <3>3. KeepAliveAlone' /\ AtRestDisconnected' /\ WireClean'
        BY <3>1 DEF TypeOK, KeepAliveAlone, AtRestDisconnected, WireClean, IsConnected,
                    AbandonConnection
      <3> QED BY <3>2, <3>3
    <2> QED BY <2>1, <2>2
  <1>3. CASE StartKeepAlive
    <2>1. TypeOK'
      BY <1>3 DEF StartKeepAlive, TypeOK, UserPc, KeepPc, KeepAliveAlone, netVars
    <2>2. KeepAliveAlone' /\ AtRestDisconnected' /\ WireClean'
      BY <1>3 DEF StartKeepAlive, TypeOK, KeepAliveAlone, AtRestDisconnected, WireClean,
                  IsConnected, netVars
    <2> QED BY <2>1, <2>2
  <1> QED BY <1>1, <1>2, <1>3

LEMMA RequestSteps ==
  ASSUME ConnInv,
         \/ \E kind \in Requests \cup {"download"} : CallRequest(kind)
         \/ RequestSend \/ RequestRecv \/ ReceiveFile \/ ReceiveFileAborted
  PROVE  ConnInv'
  <1> USE DEF ConnInv, UserGoto, keepVars
  <1>1. ASSUME NEW kind \in Requests \cup {"download"}, CallRequest(kind) PROVE ConnInv'
    <2>1. TypeOK'
      BY <1>1 DEF CallRequest, TypeOK, UserPc, Kinds, netVars
    <2>2. KeepAliveAlone' /\ AtRestDisconnected' /\ WireClean'
      BY <1>1 DEF CallRequest, TypeOK, KeepAliveAlone, AtRestDisconnected, WireClean,
                  IsConnected, Exchange, netVars
    <2> QED BY <2>1, <2>2
  <1>2. CASE RequestSend
    <2>1. CASE SendOk(pending) /\ UserGoto("request", "requestRecv") /\ connMutex' = "user"
      <3>1. connMutex = "free" /\ UNCHANGED <<keepVars, pending>> /\ pending \in Kinds
        BY <1>2 DEF RequestSend, TypeOK
      <3>2. /\ toServer' = <<pending>> /\ toClient' = << >> /\ toServer' \in Seq(Kinds)
            /\ UNCHANGED <<m_status, m_connection, server>>
        BY <2>1, <3>1, SentRequest DEF SendOk
      <3>3. TypeOK'
        BY <2>1, <3>1, <3>2 DEF TypeOK, UserPc
      <3>4. KeepAliveAlone' /\ AtRestDisconnected'
        BY <2>1, <3>1, <3>2 DEF SendOk, IsConnected, KeepAliveAlone, AtRestDisconnected
      <3>5. WireClean'
        BY <2>1, <3>1, <3>2 DEF TypeOK, WireClean, Exchange
      <3> QED BY <3>3, <3>4, <3>5
    <2>2. CASE /\ UserGoto("request", "idle") /\ (SendFails \/ NotConnected)
               /\ UNCHANGED connMutex
      <3>1. UNCHANGED <<keepVars, pending, netVars>>
        BY <1>2, <2>2 DEF RequestSend, SendFails, NotConnected
      <3>2. TypeOK'
        BY <2>2, <3>1 DEF TypeOK, UserPc, SendFails, NotConnected, netVars
      <3>3. KeepAliveAlone' /\ AtRestDisconnected'
        BY <2>2, <3>1 DEF SendFails, NotConnected, KeepAliveAlone, AtRestDisconnected
      <3>4. WireClean'
        BY <2>2, <3>1 DEF TypeOK, WireClean, SendFails, NotConnected, IsConnected, Exchange,
                          netVars
      <3> QED BY <3>2, <3>3, <3>4
    <2> QED BY <1>2, <2>1, <2>2 DEF RequestSend
  <1>3. CASE RequestRecv
    <2>1. ASSUME NEW kind \in Kinds \cup {"file", "notFound"},
                 ReceiveAny(kind), UNCHANGED <<m_status, m_connection>>,
                 IF kind = "download" /\ pending = "download"
                   THEN UserGoto("requestRecv", "receiveFile") /\ UNCHANGED connMutex
                   ELSE UserGoto("requestRecv", "idle") /\ connMutex' = "free"
          PROVE  ConnInv'
      <3>1. /\ connMutex = "user" /\ userPc = "requestRecv" /\ pending \in Kinds
            /\ Exchange(pending) /\ UNCHANGED <<keepVars, pending>>
        BY <1>3, <2>1 DEF RequestRecv, TypeOK, WireClean
      <3>2. /\ toServer' = << >> /\ UNCHANGED server
            /\ userPc' = "receiveFile" => toClient' \in {<< >>, <<"file">>}
            /\ userPc' = "idle" => toClient' = << >>
            /\ \/ userPc' = "receiveFile" /\ connMutex' = "user"
               \/ userPc' = "idle" /\ connMutex' = "free"
        BY <2>1, <3>1, ReceivedAnswer DEF ReceiveAny
      <3>3. TypeOK'
        BY <2>1, <3>1, <3>2, ReceiveTypes DEF TypeOK, UserPc
      <3>4. KeepAliveAlone' /\ AtRestDisconnected'
        BY <2>1, <3>1, <3>2 DEF KeepAliveAlone, AtRestDisconnected
      <3>5. WireClean'
        BY <2>1, <3>1, <3>2 DEF TypeOK, WireClean
      <3> QED BY <3>3, <3>4, <3>5
    <2>2. CASE UserGoto("requestRecv", "idle") /\ ReceiveFails /\ connMutex' = "free"
      <3>1. connMutex = "user" /\ UNCHANGED <<keepVars, pending>>
        BY <1>3 DEF RequestRecv
      <3>2. TypeOK'
        BY <2>2, <3>1 DEF TypeOK, UserPc, ReceiveFails, netVars
      <3>3. KeepAliveAlone' /\ AtRestDisconnected' /\ WireClean'
        BY <2>2, <3>1 DEF TypeOK, KeepAliveAlone, AtRestDisconnected, WireClean,
                          IsConnected, ReceiveFails
      <3> QED BY <3>2, <3>3
    <2> QED BY <1>3, <2>1, <2>2 DEF RequestRecv
  <1>4. CASE ReceiveFile
    <2>1. /\ UserGoto("receiveFile", "idle") /\ connMutex = "user" /\ connMutex' = "free"
          /\ UNCHANGED <<keepVars, pending>>
          /\ toServer = << >> /\ toClient \in {<< >>, <<"file">>}
      BY <1>4 DEF ReceiveFile, TypeOK, WireClean
    <2>2. CASE ReceiveAny("file") /\ UNCHANGED <<m_status, m_connection>>
      <3>0. toClient = <<"file">>
        BY <2>1, <2>2 DEF ReceiveAny
      <3>1. toServer' = << >> /\ toClient' = << >> /\ UNCHANGED server
        BY <2>1, <2>2, <3>0 DEF ReceiveAny
      <3>2. TypeOK'
        BY <2>1, <2>2, <3>1 DEF TypeOK, UserPc
      <3>3. KeepAliveAlone' /\ AtRestDisconnected' /\ WireClean'
        BY <2>1, <2>2, <3>1 DEF TypeOK, KeepAliveAlone, AtRestDisconnected, WireClean
      <3> QED BY <3>2, <3>3
    <2>3. CASE ReceiveFails
      <3>1. TypeOK'
        BY <2>1, <2>3 DEF TypeOK, UserPc, ReceiveFails, netVars
      <3>2. KeepAliveAlone' /\ AtRestDisconnected' /\ WireClean'
        BY <2>1, <2>3 DEF TypeOK, KeepAliveAlone, AtRestDisconnected, WireClean,
                          IsConnected, ReceiveFails
      <3> QED BY <3>1, <3>2
    <2> QED BY <1>4, <2>2, <2>3 DEF ReceiveFile
  <1>5. CASE ReceiveFileAborted
    <2>1. TypeOK'
      BY <1>5 DEF ReceiveFileAborted, TypeOK, UserPc, netVars
    <2>2. KeepAliveAlone' /\ AtRestDisconnected' /\ WireClean'
      BY <1>5 DEF ReceiveFileAborted, TypeOK, KeepAliveAlone, AtRestDisconnected, WireClean,
                  IsConnected
    <2> QED BY <2>1, <2>2
  <1> QED BY <1>1, <1>2, <1>3, <1>4, <1>5

LEMMA KeepAliveSteps ==
  ASSUME ConnInv, KeepAlive
  PROVE  ConnInv'
  <1> USE DEF ConnInv, KeepGoto, userVars
  <1>1. CASE KeepAliveLoop \/ KeepAliveWait \/ KeepAliveTest \/ PingFailed
    <2>1. TypeOK'
      BY <1>1 DEF KeepAliveLoop, KeepAliveWait, KeepAliveTest, PingFailed, TypeOK, KeepPc,
                  netVars
    <2>2. KeepAliveAlone' /\ AtRestDisconnected'
      BY <1>1 DEF KeepAliveLoop, KeepAliveWait, KeepAliveTest, PingFailed, KeepAliveAlone,
                  AtRestDisconnected
    <2>3. WireClean'
      BY <1>1 DEF KeepAliveLoop, KeepAliveWait, KeepAliveTest, PingFailed, WireClean,
                  IsConnected, Exchange, netVars
    <2> QED BY <2>1, <2>2, <2>3
  <1>2. CASE PingSend
    <2>1. connMutex = "free" /\ UNCHANGED <<running, thread, userVars>>
      BY <1>2 DEF PingSend
    <2>2. CASE KeepGoto("ping", "pingRecv") /\ SendOk("ping") /\ connMutex' = "keepAlive"
      <3>1. /\ toServer' = <<"ping">> /\ toClient' = << >> /\ toServer' \in Seq(Kinds)
            /\ UNCHANGED <<m_status, m_connection, server>>
        BY <2>1, <2>2, SentRequest, SpecialKinds DEF SendOk
      <3>2. TypeOK'
        BY <2>1, <2>2, <3>1 DEF TypeOK, KeepPc
      <3>3. KeepAliveAlone' /\ AtRestDisconnected'
        BY <2>1, <2>2, <3>1 DEF KeepAliveAlone, AtRestDisconnected
      <3>4. WireClean'
        BY <2>1, <2>2, <3>1 DEF TypeOK, WireClean, Exchange, KeepAliveAlone
      <3> QED BY <3>2, <3>3, <3>4
    <2>3. CASE /\ KeepGoto("ping", "pingFailed") /\ (SendFails \/ NotConnected)
               /\ UNCHANGED connMutex
      <3>1. TypeOK'
        BY <2>1, <2>3 DEF TypeOK, KeepPc, SendFails, NotConnected, netVars
      <3>2. KeepAliveAlone' /\ AtRestDisconnected'
        BY <2>1, <2>3 DEF KeepAliveAlone, AtRestDisconnected, SendFails, NotConnected
      <3>3. WireClean'
        BY <2>1, <2>3 DEF TypeOK, WireClean, IsConnected, Exchange, SendFails, NotConnected,
                          netVars
      <3> QED BY <3>1, <3>2, <3>3
    <2> QED BY <1>2, <2>2, <2>3 DEF PingSend
  <1>3. CASE PingRecv
    <2>1. /\ keepPc = "pingRecv" /\ connMutex = "keepAlive" /\ connMutex' = "free"
          /\ UNCHANGED <<running, thread, userVars>>
          /\ Exchange("ping") /\ keepPc' \in {"loop", "pingFailed"}
      BY <1>3 DEF PingRecv, TypeOK, WireClean
    <2>2. ASSUME NEW k, ReceiveAny(k), UNCHANGED <<m_status, m_connection>> PROVE ConnInv'
      <3>1. toServer' = << >> /\ toClient' = << >> /\ UNCHANGED server
        BY <2>1, <2>2, ReceivedAnswer, SpecialKinds DEF ReceiveAny
      <3>2. TypeOK'
        BY <2>1, <2>2, <3>1 DEF TypeOK, KeepPc
      <3>3. KeepAliveAlone' /\ AtRestDisconnected'
        BY <2>1, <2>2 DEF KeepAliveAlone, AtRestDisconnected
      <3>4. WireClean'
        BY <2>1, <2>2, <3>1 DEF TypeOK, WireClean, KeepAliveAlone
      <3> QED BY <3>2, <3>3, <3>4
    <2>3. CASE PingTimeout
      <3>1. TypeOK'
        BY <2>1, <2>3 DEF TypeOK, KeepPc, PingTimeout, netVars
      <3>2. KeepAliveAlone' /\ AtRestDisconnected'
        BY <2>1, <2>3 DEF KeepAliveAlone, AtRestDisconnected, PingTimeout
      <3>3. WireClean'
        BY <2>1, <2>3 DEF TypeOK, WireClean, IsConnected, KeepAliveAlone, PingTimeout
      <3> QED BY <3>1, <3>2, <3>3
    <2> QED BY <1>3, <2>2, <2>3 DEF PingRecv
  <1> QED BY <1>1, <1>2, <1>3 DEF KeepAlive

LEMMA ServerSteps ==
  ASSUME ConnInv, ServerAnswer \/ ServerFreeze \/ ServerClose
  PROVE  ConnInv'
  <1> USE DEF ConnInv, keepVars, userVars
  <1>1. CASE ServerAnswer
    <2>1. PICK r \in Responses(Head(toServer)) : toClient' = toClient \o r
      BY <1>1 DEF ServerAnswer
    <2>2. /\ toServer # << >> /\ toServer' = Tail(toServer)
          /\ UNCHANGED <<m_status, m_connection, connMutex, keepVars, userVars, server>>
      BY <1>1 DEF ServerAnswer
    <2>3. TypeOK'
      <3>1. toServer' \in Seq(Kinds) /\ Head(toServer) \in Kinds
        BY <2>2 DEF TypeOK
      <3>2. toClient' \in Seq(Kinds \cup {"file", "notFound"})
        BY <2>1, <3>1, ResponseTypes DEF TypeOK
      <3> QED BY <2>2, <3>1, <3>2 DEF TypeOK
    <2>4. KeepAliveAlone' /\ AtRestDisconnected'
      BY <2>2 DEF KeepAliveAlone, AtRestDisconnected
    <2>5. ASSUME NEW kind \in Kinds, Exchange(kind)
          PROVE  Exchange(kind)'
      <3>1. toServer = <<kind>> /\ toClient = << >>
        BY <2>2, <2>5 DEF Exchange
      <3>2. Head(toServer) = kind /\ toServer' = << >>
        BY <2>2, <3>1
      <3>3. r \in Responses(kind) /\ r \in Seq(Kinds \cup {"file", "notFound"})
        BY <2>1, <3>2, ResponseTypes
      <3>4. toClient' = r
        BY <2>1, <3>1, <3>3
      <3> QED BY <3>2, <3>3, <3>4 DEF Exchange
    <2>6. WireClean'
      <3>1. userPc' = "handshakeRecv" => Exchange("handshake")'
        BY <2>2, <2>5, SpecialKinds DEF WireClean
      <3>2. userPc' = "requestRecv" => (Exchange(pending))'
        BY <2>2, <2>5 DEF WireClean, TypeOK
      <3>3. keepPc' = "pingRecv" => Exchange("ping")'
        BY <2>2, <2>5, SpecialKinds DEF WireClean
      <3> QED BY <2>2, <3>1, <3>2, <3>3 DEF WireClean, IsConnected
    <2> QED BY <2>3, <2>4, <2>6
  <1>2. CASE ServerFreeze \/ ServerClose
    <2>1. TypeOK'
      BY <1>2 DEF ServerFreeze, ServerClose, TypeOK
    <2>2. KeepAliveAlone' /\ AtRestDisconnected' /\ WireClean'
      BY <1>2 DEF ServerFreeze, ServerClose, KeepAliveAlone, AtRestDisconnected, WireClean,
                  IsConnected, Exchange
    <2> QED BY <2>1, <2>2
  <1> QED BY <1>1, <1>2

\* The invariant of the two threads and the wire.
THEOREM Invariance == Spec => []ConnInv
  <1>1. Init => ConnInv
    <2> SUFFICES ASSUME Init PROVE ConnInv
      OBVIOUS
    <2>1. TypeOK
      <3>1. << >> \in Seq(Kinds) /\ << >> \in Seq(Kinds \cup {"file", "notFound"})
        OBVIOUS
      <3> QED BY <3>1, SpecialKinds DEF Init, TypeOK, UserPc, KeepPc
    <2> QED BY <2>1 DEF Init, ConnInv, KeepAliveAlone, AtRestDisconnected, WireClean,
                        IsConnected
  <1>2. ConnInv /\ [Next]_vars => ConnInv'
    <2> SUFFICES ASSUME ConnInv, [Next]_vars PROVE ConnInv'
      OBVIOUS
    <2>1. CASE UNCHANGED vars
      BY <2>1 DEF vars, keepVars, userVars, netVars, ConnInv, TypeOK, KeepAliveAlone,
                  AtRestDisconnected, WireClean, IsConnected, Exchange
    <2>2. CASE Next
      BY <2>2, ConnectSteps, HandshakeSteps, RequestSteps, KeepAliveSteps, ServerSteps
         DEF Next, User
    <2> QED BY <2>1, <2>2
  <1> QED BY <1>1, <1>2, PTL DEF Spec

\* A response is never taken for another exchange's: neither a pong by a request
\* nor a response by a ping, nor one left over from a timeout or a failed transfer.
THEOREM ResponseMatchesRequestHolds == Spec => []ResponseMatchesRequest
  <1>1. ConnInv => ResponseMatchesRequest
    <2> SUFFICES ASSUME ConnInv PROVE ResponseMatchesRequest
      OBVIOUS
    <2>1. ASSUME NEW kind \in Kinds, Exchange(kind), toClient # << >>
          PROVE  \/ Head(toClient) = kind
                 \/ kind = "download" /\ Head(toClient) = "notFound"
      <3>1. toClient \in Responses(kind)
        BY <2>1 DEF Exchange
      <3>2. CASE kind # "download"
        <4>1. toClient = <<kind>>
          BY <2>1, <3>1, <3>2, ResponseTypes
        <4> QED BY <4>1
      <3>3. CASE kind = "download"
        <4>1. \/ toClient = <<"download", "file">> \/ toClient = <<"notFound">>
              \/ toClient = <<"download">>
          BY <3>1, <3>3, ResponseTypes
        <4> QED BY <3>3, <4>1
      <3> QED BY <3>2, <3>3
    <2>2. userPc = "requestRecv" => pending \in Kinds /\ Exchange(pending)
      BY DEF ConnInv, TypeOK, WireClean
    <2>3. keepPc = "pingRecv" => Exchange("ping")
      BY DEF ConnInv, WireClean
    <2> QED BY <2>1, <2>2, <2>3, SpecialKinds DEF ResponseMatchesRequest
  <1> QED BY <1>1, Invariance, PTL

-----------------------------------------------------------------------------
(* What no step does. *)

\* The steps that make or reset m_connection.
LEMMA ResettingSteps ==
  ASSUME ConnInv, Next, (m_connection' = "null") # (m_connection = "null")
  PROVE  userPc \in {"connectReset", "connectOpen", "handshake", "handshakeRecv",
                     "disconnectReset"}
  <1> USE DEF UserGoto, IsConnected
  <1>1. CASE User \/ ReceiveFileAborted
    BY <1>1 DEF User, ReceiveFileAborted, ConnectJoin, ConnectReset, ConnectOpen,
                Handshake, HandshakeRecv, StartKeepAlive, DisconnectJoin, DisconnectReset,
                RequestSend, RequestRecv, ReceiveFile, SendOk, SendFails, NotConnected,
                ReceiveFails
  <1>2. CASE KeepAlive
    BY <1>2 DEF KeepAlive, KeepAliveLoop, KeepAliveWait, KeepAliveTest, PingSend, PingRecv,
                PingFailed, PingTimeout, SendOk, SendFails, NotConnected
  <1>3. CASE \/ Connect \/ Disconnect \/ ServerAnswer \/ ServerFreeze \/ ServerClose
             \/ \E kind \in Requests \cup {"download"} : CallRequest(kind)
    BY <1>3 DEF Connect, Disconnect, ServerAnswer, ServerFreeze, ServerClose, CallRequest
  <1> QED BY <1>1, <1>2, <1>3 DEF Next

\* Neither Connect nor Disconnect resets or replaces m_connection while a
\* keep-alive thread is there to use it without the mutex.
THEOREM NoResetUnderKeepAliveHolds == Spec => NoResetUnderKeepAlive
  <1>1. ConnInv /\ [Next]_vars
          => [((m_connection' = "null") # (m_connection = "null")) => thread # "live"]_vars
    BY ResettingSteps DEF ConnInv, KeepAliveAlone, vars
  <1> QED BY <1>1, Invariance, PTL DEF Spec, NoResetUnderKeepAlive

\* After Disconnect the status stays DISCONNECTED until the user connects again:
\* no failure that a ping or a request met before is recorded later.
THEOREM DisconnectedUntilConnectHolds == Spec => DisconnectedUntilConnect
  <1>1. ConnInv /\ [Next]_vars
          => [m_status = "DISCONNECTED" =>
                m_status' = "DISCONNECTED" \/ userPc = "connectReset"]_vars
    <2> SUFFICES ASSUME ConnInv, Next, m_status = "DISCONNECTED", userPc # "connectReset"
                 PROVE  m_status' = "DISCONNECTED"
      BY DEF vars
    <2> USE DEF UserGoto, KeepGoto, IsConnected, ConnInv, AtRestDisconnected, KeepAliveAlone
    <2>1. CASE User \/ ReceiveFileAborted
      BY <2>1 DEF User, ReceiveFileAborted, ConnectJoin, ConnectReset, ConnectOpen,
                  Handshake, HandshakeRecv, StartKeepAlive, DisconnectJoin, DisconnectReset,
                  RequestSend, RequestRecv, ReceiveFile, SendOk, SendFails, NotConnected
    <2>2. CASE KeepAlive
      BY <2>2 DEF KeepAlive, KeepAliveLoop, KeepAliveWait, KeepAliveTest, PingSend, PingRecv,
                  PingFailed, SendOk, SendFails, NotConnected
    <2>3. CASE \/ Connect \/ Disconnect \/ ServerAnswer \/ ServerFreeze \/ ServerClose
               \/ \E kind \in Requests \cup {"download"} : CallRequest(kind)
      BY <2>3 DEF Connect, Disconnect, ServerAnswer, ServerFreeze, ServerClose, CallRequest
    <2> QED BY <2>1, <2>2, <2>3 DEF Next
  <1> QED BY <1>1, Invariance, PTL DEF Spec, DisconnectedUntilConnect

\* A request, a ping or a handshake is sent only on a wire with nothing left on it
\* from a ping that timed out or a file that was not read to its end.
THEOREM EachRequestStartsCleanHolds == Spec => EachRequestStartsClean
  <1>1. ConnInv /\ [Next]_vars
          => [Len(toServer') > Len(toServer) => toServer = << >> /\ toClient = << >>]_vars
    <2> SUFFICES ASSUME ConnInv, Next, ~(toServer = << >> /\ toClient = << >>)
                 PROVE  ~(Len(toServer') > Len(toServer))
      BY DEF vars
    <2>1. Len(toServer) \in Nat /\ Len(<< >>) = 0
      BY DEF ConnInv, TypeOK
    <2>2. connMutex # "free" \/ ~IsConnected
      BY DEF ConnInv, WireClean
    <2>3. toServer' = toServer \/ toServer' = << >> \/ ServerAnswer
      <3>1. CASE User \/ ReceiveFileAborted
        BY <2>2, <3>1
           DEF User, ReceiveFileAborted, ConnectJoin, ConnectReset, ConnectOpen, Handshake,
               HandshakeRecv, AbandonConnection, StartKeepAlive, DisconnectJoin,
               DisconnectReset, RequestSend, RequestRecv, ReceiveFile, ReceiveAny,
               ReceiveFails, SendOk, SendFails, NotConnected, netVars
      <3>2. CASE KeepAlive
        BY <2>2, <3>2
           DEF KeepAlive, KeepAliveLoop, KeepAliveWait, KeepAliveTest, PingSend, PingRecv,
               PingFailed, PingTimeout, ReceiveAny, SendOk, SendFails, NotConnected, netVars
      <3>3. CASE \/ Connect \/ Disconnect \/ ServerFreeze \/ ServerClose
                 \/ \E kind \in Requests \cup {"download"} : CallRequest(kind)
        BY <3>3 DEF Connect, Disconnect, ServerFreeze, ServerClose, CallRequest, netVars
      <3> QED BY <3>1, <3>2, <3>3 DEF Next
    <2>4. CASE ServerAnswer
      <3>1. toServer # << >> /\ toServer' = Tail(toServer) /\ toServer \in Seq(Kinds)
        BY <2>4 DEF ServerAnswer, ConnInv, TypeOK
      <3>2. Len(toServer') = Len(toServer) - 1
        BY <3>1
      <3> QED BY <2>1, <3>2
    <2> QED BY <2>1, <2>3, <2>4
  <1> QED BY <1>1, Invariance, PTL DEF Spec, EachRequestStartsClean
=============================================================================
