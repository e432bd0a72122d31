----------------------------- MODULE TcpClient -----------------------------
(***************************************************************************)
(* Network::TcpClient on the host.  The user's thread calls Connect,       *)
(* Disconnect and the request functions; the keep-alive thread, which      *)
(* Connect starts, pings the server every two seconds.  Both use one       *)
(* connection, whose request/response exchanges m_connection_mutex keeps   *)
(* apart, and both set m_status.                                           *)
(*                                                                         *)
(* The server is the external peer: it answers the requests in order, may  *)
(* fall silent (a frozen application) and may close the connection.  A     *)
(* message is its kind.  One step of a request is: lock the mutex, test    *)
(* IsConnected and send; the next is: receive, and unlock.                 *)
(***************************************************************************)
EXTENDS Naturals, Sequences

CONSTANTS
  Requests,   \* kinds of requests without payload after the response
  Unhandled   \* those of them the server at the other end does not know

ASSUME UnhandledAssumption == Unhandled \subseteq Requests
ASSUME KindsAssumption ==
  Requests \cap {"handshake", "ping", "download", "file", "notFound"} = {}

VARIABLES
  m_status,       \* ClientStatus
  m_connection,   \* null, or a connection whose socket is open or closed
  connMutex,      \* the holder of m_connection_mutex
  running,        \* m_keep_alive.running
  thread,         \* m_keep_alive.thread: none, live, or ended and joinable
  keepPc,         \* the keep-alive thread
  userPc,         \* the user's thread
  pending,        \* the kind of request it is executing
  toServer,       \* requests the server has not read
  toClient,       \* responses the client has not read
  server          \* how the server treats this connection

netVars  == <<toServer, toClient, server>>
keepVars == <<running, thread, keepPc>>
userVars == <<userPc, pending>>
vars == <<m_status, m_connection, connMutex, keepVars, userVars, netVars>>

Kinds == Requests \cup {"handshake", "ping", "download"}

UserPc == {"idle", "connectJoin", "connectReset", "connectOpen", "handshake",
           "handshakeRecv", "startKeepAlive", "disconnectJoin",
           "disconnectReset", "request", "requestRecv", "receiveFile"}
KeepPc == {"none", "loop", "wait", "test", "ping", "pingRecv", "pingFailed"}

TypeOK ==
  /\ m_status \in {"DISCONNECTED", "CONNECTING", "CONNECTED",
                   "CONNECTION_FAILED"}
  /\ m_connection \in {"null", "open", "closed"}
  /\ connMutex \in {"free", "user", "keepAlive"}
  /\ running \in BOOLEAN
  /\ thread \in {"none", "live", "ended"}
  /\ keepPc \in KeepPc
  /\ userPc \in UserPc
  /\ pending \in Kinds
  /\ toServer \in Seq(Kinds)
  /\ toClient \in Seq(Kinds \cup {"file", "notFound"})
  /\ server \in {"up", "silent", "closed"}
  /\ connMutex = "user" <=>
       userPc \in {"handshakeRecv", "requestRecv", "receiveFile"}
  /\ connMutex = "keepAlive" <=> keepPc = "pingRecv"

Init ==
  /\ m_status = "DISCONNECTED"
  /\ m_connection = "null"
  /\ connMutex = "free"
  /\ running = FALSE
  /\ thread = "none"
  /\ keepPc = "none"
  /\ userPc = "idle"
  /\ pending = "handshake"
  /\ toServer = << >>
  /\ toClient = << >>
  /\ server = "closed"

IsConnected == m_status = "CONNECTED" /\ m_connection = "open"

-----------------------------------------------------------------------------
(* Exchanges on the connection, by the holder of m_connection_mutex *)

\* SendSocketMessage: the bytes leave, or the peer is found to be gone, the
\* socket is closed and the client is CONNECTION_FAILED.  The first send to a
\* peer that has closed still succeeds.
SendOk(kind) ==
  /\ IsConnected
  /\ toServer' = Append(toServer, kind)
  /\ UNCHANGED <<m_status, m_connection, toClient, server>>

SendFails ==
  /\ IsConnected
  /\ server = "closed"
  /\ m_status' = "CONNECTION_FAILED"
  /\ m_connection' = "closed"
  /\ UNCHANGED netVars

NotConnected ==
  /\ ~IsConnected
  /\ UNCHANGED <<m_status, m_connection, netVars>>

\* ReceiveSocketMessage returns the next message, of whatever kind.
ReceiveAny(kind) ==
  /\ toClient # << >>
  /\ kind = Head(toClient)
  /\ toClient' = Tail(toClient)
  /\ UNCHANGED <<toServer, server>>

\* It fails when the server has closed; the caller records that.
ReceiveFails ==
  /\ toClient = << >> /\ server = "closed"
  /\ m_status' = "CONNECTION_FAILED"
  /\ UNCHANGED <<m_connection, netVars>>

-----------------------------------------------------------------------------
(* The user's thread: Connect *)

UserGoto(from, to) == userPc = from /\ userPc' = to

\* StopKeepAlive up to the join; Connect on a client that is connected or
\* connecting returns an error instead.
Connect ==
  /\ m_status \notin {"CONNECTED", "CONNECTING"}
  /\ UserGoto("idle", "connectJoin")
  /\ running' = FALSE
  /\ UNCHANGED <<m_status, m_connection, connMutex, thread, keepPc, pending,
                 netVars>>

\* Mutant: no join.
JoinKeepAlive_NoWait ==
  /\ thread' = "none"
  /\ UNCHANGED <<running, keepPc>>

\* m_keep_alive.thread.join(), if it is joinable.
JoinKeepAlive ==
  /\ thread # "live"
  /\ thread' = "none"
  /\ UNCHANGED <<running, keepPc>>

ConnectJoin ==
  /\ UserGoto("connectJoin", "connectReset")
  /\ JoinKeepAlive
  /\ UNCHANGED <<m_status, m_connection, connMutex, pending, netVars>>

ConnectReset ==
  /\ UserGoto("connectReset", "connectOpen")
  /\ m_connection' = "null"
  /\ m_status' = "CONNECTING"
  /\ toServer' = << >> /\ toClient' = << >> /\ server' = "closed"
  /\ UNCHANGED <<connMutex, keepVars, pending>>

\* The socket connects, to a server that will answer or one that will not,
\* or Connect fails.
ConnectOpen ==
  \/ /\ UserGoto("connectOpen", "handshake")
     /\ m_connection' = "open"
     /\ m_status' = "CONNECTED"
     /\ server' \in {"up", "silent"}
     /\ UNCHANGED <<connMutex, keepVars, pending, toServer, toClient>>
  \/ /\ UserGoto("connectOpen", "idle")
     /\ m_status' = "CONNECTION_FAILED"
     /\ UNCHANGED <<m_connection, connMutex, keepVars, pending, netVars>>

\* Connect gives up: m_connection.reset() and CONNECTION_FAILED.
AbandonConnection ==
  /\ m_connection' = "null"
  /\ m_status' = "CONNECTION_FAILED"
  /\ toServer' = << >> /\ toClient' = << >> /\ server' = "closed"

Handshake ==
  \/ /\ UserGoto("handshake", "handshakeRecv")
     /\ connMutex = "free" /\ connMutex' = "user"
     /\ SendOk("handshake")
     /\ UNCHANGED <<keepVars, pending>>
  \/ /\ UserGoto("handshake", "idle")
     /\ connMutex = "free" /\ server = "closed"
     /\ AbandonConnection
     /\ UNCHANGED <<connMutex, keepVars, pending>>

\* The response must be a HandshakeResponse with the client's own versions.
HandshakeRecv ==
  \/ /\ UserGoto("handshakeRecv", "startKeepAlive")
     /\ ReceiveAny("handshake")
     /\ connMutex' = "free"
     /\ UNCHANGED <<m_status, m_connection, keepVars, pending>>
  \/ /\ UserGoto("handshakeRecv", "idle")
     /\ toClient # << >> \/ server = "closed"
     /\ AbandonConnection
     /\ connMutex' = "free"
     /\ UNCHANGED <<keepVars, pending>>

\* StartKeepAlive: the assignment to a thread that is still joinable would
\* terminate the process.
StartKeepAlive ==
  /\ UserGoto("startKeepAlive", "idle")
  /\ ~running /\ IsConnected
  /\ running' = TRUE
  /\ thread' = "live"
  /\ keepPc' = "loop"
  /\ UNCHANGED <<m_status, m_connection, connMutex, pending, netVars>>

-----------------------------------------------------------------------------
(* The user's thread: Disconnect, also run by the destructor *)

\* Mutant: Disconnect joins a thread that it does not tell to stop.
Disconnect_StillRunning ==
  /\ UserGoto("idle", "disconnectJoin")
  /\ UNCHANGED <<m_status, m_connection, connMutex, keepVars, pending, netVars>>

Disconnect ==
  /\ UserGoto("idle", "disconnectJoin")
  /\ running' = FALSE
  /\ UNCHANGED <<m_status, m_connection, connMutex, thread, keepPc, pending,
                 netVars>>

\* Mutant: the thread is told to stop, but not waited for.
DisconnectJoin_NoWait ==
  /\ UserGoto("disconnectJoin", "disconnectReset")
  /\ UNCHANGED <<m_status, m_connection, connMutex, keepVars, pending, netVars>>

DisconnectJoin ==
  /\ UserGoto("disconnectJoin", "disconnectReset")
  /\ JoinKeepAlive
  /\ UNCHANGED <<m_status, m_connection, connMutex, pending, netVars>>

DisconnectReset ==
  /\ UserGoto("disconnectReset", "idle")
  /\ m_connection' = "null"
  /\ m_status' = "DISCONNECTED"
  /\ toServer' = << >> /\ toClient' = << >> /\ server' = "closed"
  /\ UNCHANGED <<connMutex, keepVars, pending>>

-----------------------------------------------------------------------------
(* The user's thread: a request *)

CallRequest(kind) ==
  /\ UserGoto("idle", "request")
  /\ pending' = kind
  /\ UNCHANGED <<m_status, m_connection, connMutex, keepVars, netVars>>

RequestSend ==
  /\ connMutex = "free"
  /\ \/ /\ UserGoto("request", "requestRecv")
        /\ SendOk(pending)
        /\ connMutex' = "user"
     \/ /\ UserGoto("request", "idle")
        /\ SendFails \/ NotConnected
        /\ UNCHANGED connMutex
  /\ UNCHANGED <<keepVars, pending>>

\* A response of another kind is an error for the caller and changes nothing
\* else; only "found" starts the transfer of a file.
RequestRecv ==
  /\ connMutex = "user"
  /\ \/ \E kind \in Kinds \cup {"file", "notFound"} :
          /\ ReceiveAny(kind)
          /\ IF kind = "download" /\ pending = "download"
               THEN UserGoto("requestRecv", "receiveFile")
                    /\ UNCHANGED connMutex
               ELSE UserGoto("requestRecv", "idle") /\ connMutex' = "free"
          /\ UNCHANGED <<m_status, m_connection>>
     \/ /\ UserGoto("requestRecv", "idle")
        /\ ReceiveFails
        /\ connMutex' = "free"
  /\ UNCHANGED <<keepVars, pending>>

\* ReceiveFile reads the bytes the response announced.
ReceiveFile ==
  /\ UserGoto("receiveFile", "idle")
  /\ \/ ReceiveAny("file") /\ UNCHANGED <<m_status, m_connection>>
     \/ ReceiveFails
  /\ connMutex' = "free"
  /\ UNCHANGED <<keepVars, pending>>

\* Mutant: the failure leaves the client CONNECTED.
ReceiveFileAborted_StaysConnected ==
  /\ UserGoto("receiveFile", "idle")
  /\ connMutex' = "free"
  /\ UNCHANGED <<m_status, m_connection, netVars, keepVars, pending>>

\* It may also fail before it has read them all, because the local file cannot
\* be opened or written.
ReceiveFileAborted ==
  /\ UserGoto("receiveFile", "idle")
  /\ m_status' = "CONNECTION_FAILED"
  /\ connMutex' = "free"
  /\ UNCHANGED <<m_connection, netVars, keepVars, pending>>

-----------------------------------------------------------------------------
(* The keep-alive thread *)

KeepGoto(from, to) == keepPc = from /\ keepPc' = to

KeepAliveLoop ==
  /\ \/ running /\ KeepGoto("loop", "wait") /\ UNCHANGED thread
     \/ ~running /\ KeepGoto("loop", "none") /\ thread' = "ended"
  /\ UNCHANGED <<m_status, m_connection, connMutex, running, userVars, netVars>>

\* wait_for returns after two seconds, or when StopKeepAlive notifies: either
\* way it evaluates running again.
KeepAliveWait ==
  /\ \/ running /\ KeepGoto("wait", "test") /\ UNCHANGED thread
     \/ ~running /\ KeepGoto("wait", "none") /\ thread' = "ended"
  /\ UNCHANGED <<m_status, m_connection, connMutex, running, userVars, netVars>>

\* IsConnected without m_connection_mutex.
KeepAliveTest ==
  /\ \/ IsConnected /\ KeepGoto("test", "ping") /\ UNCHANGED running
     \/ ~IsConnected /\ KeepGoto("test", "loop") /\ running' = FALSE
  /\ UNCHANGED <<m_status, m_connection, connMutex, thread, userVars, netVars>>

PingSend ==
  /\ connMutex = "free"
  /\ \/ KeepGoto("ping", "pingRecv") /\ SendOk("ping")
        /\ connMutex' = "keepAlive"
     \/ /\ KeepGoto("ping", "pingFailed")
        /\ SendFails \/ NotConnected
        /\ UNCHANGED connMutex
  /\ UNCHANGED <<running, thread, userVars>>

\* Mutants: a ping without timeout; and one that is not taken for a failure.
PingTimeout_Never ==
  /\ toClient = << >> /\ server = "closed"
  /\ m_status' = "CONNECTION_FAILED"
  /\ UNCHANGED <<m_connection, netVars>>
PingTimeout_StaysConnected ==
  /\ toClient = << >>
  /\ UNCHANGED <<m_status, m_connection, netVars>>

\* Five seconds without a Pong, or a closed connection.
PingTimeout ==
  /\ toClient = << >>
  /\ m_status' = "CONNECTION_FAILED"
  /\ UNCHANGED <<m_connection, netVars>>

\* Mutant: a ping that times out leaves m_connection_mutex locked.
PingRecv_KeepsLock ==
  /\ \/ \E kind \in Kinds \cup {"file", "notFound"} :
          /\ ReceiveAny(kind)
          /\ KeepGoto("pingRecv", IF kind = "ping" THEN "loop" ELSE "pingFailed")
          /\ connMutex' = "free"
          /\ UNCHANGED <<m_status, m_connection>>
     \/ KeepGoto("pingRecv", "pingFailed") /\ PingTimeout /\ UNCHANGED connMutex
  /\ UNCHANGED <<running, thread, userVars>>

PingRecv ==
  /\ \/ \E kind \in Kinds \cup {"file", "notFound"} :
          /\ ReceiveAny(kind)
          /\ KeepGoto("pingRecv", IF kind = "ping" THEN "loop" ELSE "pingFailed")
          /\ UNCHANGED <<m_status, m_connection>>
     \/ KeepGoto("pingRecv", "pingFailed") /\ PingTimeout
  /\ connMutex' = "free"
  /\ UNCHANGED <<running, thread, userVars>>

\* KeepAliveLoop after a PingServer that failed, the mutex already released.
PingFailed ==
  /\ KeepGoto("pingFailed", "loop")
  /\ m_status' = "CONNECTION_FAILED"
  /\ running' = FALSE
  /\ UNCHANGED <<m_connection, connMutex, thread, userVars, netVars>>

-----------------------------------------------------------------------------
(* The server *)

Responses(kind) ==
  CASE kind = "download"  -> {<<"download", "file">>, <<"notFound">>,
                              <<"download">>}
    [] kind \in Unhandled -> {<< >>}
    [] OTHER              -> {<<kind>>}

\* The handlers answer every request they know; SendFile may fail after the
\* response that announces the file.
ServerAnswer ==
  /\ server = "up" /\ toServer # << >>
  /\ \E r \in Responses(Head(toServer)) : toClient' = toClient \o r
  /\ toServer' = Tail(toServer)
  /\ UNCHANGED <<m_status, m_connection, connMutex, keepVars, userVars, server>>

ServerFreeze ==
  /\ server = "up" /\ server' = "silent"
  /\ UNCHANGED <<m_status, m_connection, connMutex, keepVars, userVars,
                 toServer, toClient>>

ServerClose ==
  /\ server \in {"up", "silent"} /\ server' = "closed"
  /\ UNCHANGED <<m_status, m_connection, connMutex, keepVars, userVars,
                 toServer, toClient>>

-----------------------------------------------------------------------------

User ==
  \/ ConnectJoin \/ ConnectReset \/ ConnectOpen
  \/ Handshake \/ HandshakeRecv \/ StartKeepAlive
  \/ DisconnectJoin \/ DisconnectReset
  \/ RequestSend \/ RequestRecv \/ ReceiveFile

KeepAlive ==
  \/ KeepAliveLoop \/ KeepAliveWait \/ KeepAliveTest
  \/ PingSend \/ PingRecv \/ PingFailed

Next ==
  \/ Connect \/ Disconnect
  \/ \E kind \in Requests \cup {"download"} : CallRequest(kind)
  \/ User \/ ReceiveFileAborted
  \/ KeepAlive
  \/ ServerAnswer \/ ServerFreeze \/ ServerClose

Spec == Init /\ [][Next]_vars

(***************************************************************************)
(* Both threads are scheduled.  A request waits for m_connection_mutex,    *)
(* which the keep-alive thread releases after at most five seconds and     *)
(* does not take again for two: hence strong fairness for RequestSend.     *)
(* A server that is up answers.  Nothing makes the user call, the local    *)
(* file fail, or the server freeze or close.                               *)
(***************************************************************************)
FairSpec ==
  /\ Spec
  /\ WF_vars(User)
  /\ SF_vars(RequestSend)
  /\ WF_vars(KeepAlive)
  /\ WF_vars(ServerAnswer)

-----------------------------------------------------------------------------
(* Properties *)

\* A request is sent only on a connection with nothing left on it: no answer
\* to a ping that timed out, no rest of a file whose transfer was abandoned,
\* can be taken for its response.
EachRequestStartsClean ==
  [][Len(toServer') > Len(toServer)
       => toServer = << >> /\ toClient = << >>]_vars

\* The response a function receives is the one to its own request.
ResponseMatchesRequest ==
  /\ userPc = "requestRecv" /\ toClient # << >> =>
       \/ Head(toClient) = pending
       \/ pending = "download" /\ Head(toClient) = "notFound"
  /\ keepPc = "pingRecv" /\ toClient # << >> => Head(toClient) = "ping"

\* m_connection is reset or replaced only when no keep-alive thread is there
\* to use it.
NoResetUnderKeepAlive ==
  [][((m_connection' = "null") # (m_connection = "null")) => thread # "live"]_vars

\* Once disconnected, the client stays so until the user connects again: no
\* late failure of a ping is recorded over it.
DisconnectedUntilConnect ==
  [][m_status = "DISCONNECTED" =>
       m_status' = "DISCONNECTED" \/ userPc = "connectReset"]_vars

\* Disconnect returns, whatever the server does.
DisconnectTerminates == userPc = "disconnectJoin" ~> userPc = "idle"

\* A request that the server knows returns as long as the server answers: the
\* pings that run beside it, and their timeouts, do not keep it waiting.
RequestReturns ==
  (userPc = "request" /\ pending \in Requests \ Unhandled)
    ~> (userPc = "idle" \/ server = "silent")

\* While the user makes no call, the keep-alive finds out that the server
\* does not answer any more.
KeepAliveDetects ==
  (userPc = "idle" /\ m_status = "CONNECTED" /\ server # "up")
    ~> (userPc # "idle" \/ m_status = "CONNECTION_FAILED")

=============================================================================
