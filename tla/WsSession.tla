------------------------------ MODULE WsSession ------------------------------
(***************************************************************************)
(* The client sessions on an io_context of the caller's:                   *)
(* WebSocket::Session ("plain") and WebSocket::SecureSession ("secure") of *)
(* src/WebSockets/websocketsession.cpp, Socket::Session ("socket") of      *)
(* src/BasicSocket/socketsession.cpp.                                      *)
(*                                                                         *)
(* A session runs one chain of asynchronous operations: each handler       *)
(* starts the next one.  The handlers of plain and socket hold the         *)
(* session, so it is destroyed with the last of its owner and its chain;   *)
(* those of secure hold a bare this.  Handlers run one at a time, and the  *)
(* owner's calls between them.  close() throws where its stream refuses;   *)
(* the destructors call it, and there an exception ends the process.       *)
(* send() changes nothing in a session and has no action.                  *)
(***************************************************************************)
EXTENDS Naturals, Sequences

CONSTANT MaxMessages    \* bound: messages the peer sends

ASSUME MaxMessagesAssumption == MaxMessages \in Nat

VARIABLES
    kind,           \* which of the three classes the session is of
    held,           \* the owner still holds its shared_ptr
    status,         \* "alive", "gone", "terminated" (the process), "dangling"
    m_isConnected,
    stream,         \* the connection: "fresh", "tcp", "open", "ended", "closed"
    op,             \* the operation of the chain: "none" when it has ended
    done,           \* "no", or how it completed: its handler is queued
    arrived,        \* messages that came so far
    m_buffer,       \* what the reads have put in m_buffer or m_bufferData
    given,          \* what m_readCallback was last called with
    reports         \* calls of m_closeCallback since start()

vars == <<kind, held, status, m_isConnected, stream, op, done, arrived, m_buffer,
          given, reports>>

WebSocketKind == kind \in {"plain", "secure"}

\* Mutant: the handlers of WebSocket::Session hold a bare this as well.
HandlersHoldSocketOnly == kind = "socket"

\* shared_from_this() in the handlers.
HandlersHold == kind \in {"plain", "socket"}

Begin(next) == op' = next /\ done' = "no"

\* close() of the WebSocket sessions: one that is not connected returns.  A
\* stream that has ended refuses, and the closing handshake may fail, above all
\* on a stream whose opening handshake did not succeed.
CloseWebSocket(flag, threw) ==
    \/ ~flag /\ ~threw /\ UNCHANGED stream
    \/ flag /\ stream \in {"tcp", "open"} /\ stream' = "closed"
    \/ flag /\ stream \in {"fresh", "ended", "closed"} /\ threw /\ UNCHANGED stream

\* close() of Socket::Session looks at no flag.  It throws unless the socket is
\* still connected, and shutdown() may find that the peer has reset it.
CloseSocket(threw) ==
    \/ stream \in {"open", "ended"} /\ ~threw /\ stream' = "closed"
    \/ stream \in {"fresh", "ended", "closed"} /\ threw /\ UNCHANGED stream

CloseStream(flag, threw) ==
    IF WebSocketKind THEN CloseWebSocket(flag, threw) ELSE CloseSocket(threw)

\* The destructor: an exception of close() cannot leave it.
Destructor(flag) ==
    \E threw \in BOOLEAN :
        /\ CloseStream(flag, threw)
        /\ status' = IF threw THEN "terminated" ELSE "gone"

\* A handler that starts nothing: the chain has ended, and with it a session
\* that nobody else holds.
EndChain(flag) ==
    /\ op' = "none"
    /\ done' = "no"
    /\ m_isConnected' = flag
    /\ IF held THEN UNCHANGED <<status, stream>> ELSE Destructor(flag)

Proceed(next, flag) ==
    /\ Begin(next)
    /\ m_isConnected' = flag
    /\ UNCHANGED <<status, stream>>

-----------------------------------------------------------------------------
(* The owner.                                                                *)

\* start() is called for the first time or when the chain has ended.
MayStart == status = "alive" /\ held /\ op = "none"

StartPlain ==
    /\ MayStart
    /\ kind = "plain"
    /\ Begin("resolve")
    /\ reports' = 0
    /\ UNCHANGED <<kind, held, status, m_isConnected, stream, arrived, m_buffer, given>>

\* Resolving, connecting and the TLS handshake block, and may throw.
StartSecure ==
    /\ MayStart
    /\ kind = "secure"
    /\ reports' = 0
    /\ \/ Begin("handshake") /\ stream' = "tcp"
       \/ UNCHANGED <<op, done, stream>>
    /\ UNCHANGED <<kind, held, status, m_isConnected, arrived, m_buffer, given>>

\* Resolving blocks, and may throw; connecting closes the old socket.
StartSocket ==
    /\ MayStart
    /\ kind = "socket"
    /\ reports' = 0
    /\ \/ Begin("connect") /\ stream' = "fresh"
       \/ UNCHANGED <<op, done, stream>>
    /\ UNCHANGED <<kind, held, status, m_isConnected, arrived, m_buffer, given>>

Close ==
    /\ status = "alive"
    /\ held
    /\ \E threw \in BOOLEAN : CloseStream(m_isConnected, threw)
    /\ UNCHANGED <<kind, held, status, m_isConnected, op, done, arrived, m_buffer,
                   given, reports>>

\* The owner lets go of the session.
Release ==
    /\ status = "alive"
    /\ held
    /\ held' = FALSE
    /\ IF op = "none" \/ ~HandlersHold
       THEN Destructor(m_isConnected)
       ELSE UNCHANGED <<status, stream>>
    /\ UNCHANGED <<kind, m_isConnected, op, done, arrived, m_buffer, given, reports>>

-----------------------------------------------------------------------------
(* The handlers of the chain.                                                *)

Runs(o) == status = "alive" /\ op = o /\ done # "no"

OnResolve ==
    /\ Runs("resolve")
    /\ IF done = "ok" THEN Proceed("connect", m_isConnected) ELSE EndChain(m_isConnected)
    /\ UNCHANGED <<kind, held, arrived, m_buffer, given, reports>>

\* on_connect() of WebSocket::Session: the flag is set before the handshake.
OnConnect ==
    /\ Runs("connect")
    /\ kind = "plain"
    /\ IF done = "ok"
       THEN Proceed("handshake", TRUE) /\ UNCHANGED reports
       ELSE EndChain(FALSE) /\ reports' = reports + 1
    /\ UNCHANGED <<kind, held, arrived, m_buffer, given>>

\* The connect handler of Socket::Session: it reads, then sets the flag.
OnSocketConnect ==
    /\ Runs("connect")
    /\ kind = "socket"
    /\ IF done = "ok" THEN Proceed("read", TRUE) ELSE EndChain(m_isConnected)
    /\ UNCHANGED <<kind, held, arrived, m_buffer, given, reports>>

\* A failed handshake is only logged: the flag stays, nobody is told.
OnHandshake ==
    /\ Runs("handshake")
    /\ IF done = "ok" THEN Proceed("read", TRUE) ELSE EndChain(m_isConnected)
    /\ UNCHANGED <<kind, held, arrived, m_buffer, given, reports>>

\* Mutant: the return after the close callback is missing.
OnReadGoesOn ==
    /\ Runs("read")
    /\ WebSocketKind
    /\ Proceed("read", m_isConnected)
    /\ IF done = "ok"
       THEN given' = m_buffer /\ UNCHANGED reports
       ELSE reports < 2 /\ reports' = reports + 1 /\ UNCHANGED given
    /\ UNCHANGED <<kind, held, arrived, m_buffer>>

\* Mutant: a read error is logged and not reported.
OnReadSilent ==
    /\ Runs("read")
    /\ WebSocketKind
    /\ IF done = "ok"
       THEN Proceed("read", m_isConnected) /\ given' = m_buffer
       ELSE EndChain(m_isConnected) /\ UNCHANGED given
    /\ UNCHANGED <<kind, held, arrived, m_buffer, reports>>

\* Mutant: the buffer is consumed before the callback looks at it.
OnReadConsumesFirst ==
    /\ Runs("read")
    /\ WebSocketKind
    /\ IF done = "ok"
       THEN /\ Proceed("read", m_isConnected)
            /\ given' = <<>> /\ m_buffer' = <<>> /\ UNCHANGED reports
       ELSE EndChain(m_isConnected) /\ reports' = reports + 1 /\ UNCHANGED <<given, m_buffer>>
    /\ UNCHANGED <<kind, held, arrived>>

\* on_read(): the callback gets all of m_buffer, which is never consumed.  An
\* error is reported; the flag stays set.
OnRead ==
    /\ Runs("read")
    /\ WebSocketKind
    /\ IF done = "ok"
       THEN Proceed("read", m_isConnected) /\ given' = m_buffer /\ UNCHANGED reports
       ELSE EndChain(m_isConnected) /\ reports' = reports + 1 /\ UNCHANGED given
    /\ UNCHANGED <<kind, held, arrived, m_buffer>>

\* Mutant: a read error is logged and the next read started.
OnSocketReadGoesOn ==
    /\ Runs("read")
    /\ kind = "socket"
    /\ Proceed("read", m_isConnected)
    /\ given' = IF done = "ok" THEN m_buffer ELSE given
    /\ UNCHANGED <<kind, held, arrived, m_buffer, reports>>

\* The read handler of Socket::Session: m_closeCallback is never called.
OnSocketRead ==
    /\ Runs("read")
    /\ kind = "socket"
    /\ IF done = "ok"
       THEN Proceed("read", m_isConnected) /\ given' = m_buffer
       ELSE EndChain(m_isConnected) /\ UNCHANGED given
    /\ UNCHANGED <<kind, held, arrived, m_buffer, reports>>

Handler ==
    OnResolve \/ OnConnect \/ OnSocketConnect \/ OnHandshake \/ OnRead \/ OnSocketRead

\* The handler of a SecureSession that is gone: a failed handshake does not look
\* at the session, everything else does.
OrphanHandler ==
    /\ status = "gone"
    /\ op # "none"
    /\ done # "no"
    /\ op' = "none"
    /\ done' = "no"
    /\ status' = IF op = "handshake" /\ done = "error" THEN status ELSE "dangling"
    /\ UNCHANGED <<kind, held, m_isConnected, stream, arrived, m_buffer, given, reports>>

-----------------------------------------------------------------------------
(* The operations and the peer.                                              *)

Outstanding == status \in {"alive", "gone"} /\ op # "none" /\ done = "no"

\* A message or, on a plain socket, a chunk: WebSocket reads append to the
\* buffer, a Socket::Session's overwrites it.
Receive ==
    /\ Outstanding
    /\ status = "alive"
    /\ op = "read"
    /\ stream = "open"
    /\ arrived < MaxMessages
    /\ done' = "ok"
    /\ arrived' = arrived + 1
    /\ m_buffer' = Append(IF WebSocketKind THEN m_buffer ELSE <<>>, arrived + 1)
    /\ UNCHANGED <<kind, held, status, m_isConnected, stream, op, given, reports>>

\* SecureSession sets no timeout on its stream, so its opening handshake waits for
\* as long as a connected peer says nothing; WebSocket::Session sets the suggested
\* ones before its own.
HandshakeUnbounded ==
    kind = "secure" /\ op = "handshake" /\ stream = "tcp" /\ status = "alive"

\* Any other operation completes: the resolver, the connect and a handshake that
\* is not HandshakeUnbounded in the end, a read when its stream has ended.
Complete ==
    /\ Outstanding
    /\ \/ /\ op = "resolve"
          /\ done' \in {"ok", "error"}
          /\ UNCHANGED stream
       \/ /\ op = "connect"
          /\ \/ done' = "ok" /\ stream' = IF kind = "socket" THEN "open" ELSE "tcp"
             \/ done' = "error" /\ UNCHANGED stream
       \/ /\ op = "handshake"
          /\ \/ stream = "tcp" /\ status = "alive" /\ done' = "ok" /\ stream' = "open"
             \/ done' = "error" /\ UNCHANGED stream
       \/ /\ op = "read"
          /\ stream # "open" \/ status = "gone"
          /\ done' = "error"
          /\ UNCHANGED stream
    /\ UNCHANGED <<kind, held, status, m_isConnected, op, arrived, m_buffer, given,
                   reports>>

\* The peer closes the connection or is lost.
PeerEnds ==
    /\ status = "alive"
    /\ stream = "open"
    /\ stream' = "ended"
    /\ UNCHANGED <<kind, held, status, m_isConnected, op, done, arrived, m_buffer,
                   given, reports>>

-----------------------------------------------------------------------------
Init ==
    /\ kind \in {"plain", "secure", "socket"}
    /\ held = TRUE
    /\ status = "alive"
    /\ m_isConnected = FALSE
    /\ stream = "fresh"
    /\ op = "none"
    /\ done = "no"
    /\ arrived = 0
    /\ m_buffer = <<>>
    /\ given = <<>>
    /\ reports = 0

Ended ==
    /\ status \in {"gone", "terminated", "dangling"}
    /\ status = "gone" => op = "none"
    /\ UNCHANGED vars

Next ==
    \/ StartPlain \/ StartSecure \/ StartSocket \/ Close \/ Release
    \/ Handler \/ OrphanHandler
    \/ Receive \/ Complete \/ PeerEnds
    \/ Ended

Spec == Init /\ [][Next]_vars

\* The caller runs the io_context, and operations complete, other than a read on a
\* live connection and a handshake without a timeout.  Owner and peer are not fair.
Fairness ==
    /\ WF_vars(Handler)
    /\ WF_vars(OrphanHandler)
    /\ WF_vars(Complete /\ ~HandshakeUnbounded)

FairSpec == Spec /\ Fairness

-----------------------------------------------------------------------------
(* Properties.                                                               *)

\* m_closeCallback is called at most once for a start(), whichever of connect
\* and read fails and however the owner's close() and the peer's compete.
ReportsOnce == reports <= 1

\* The m_readCallback of a WebSocket session was last given every message of the
\* session in order, once its handler has run, and that of a Socket::Session the
\* latest chunk: no message is lost though one buffer serves every read.
NothingLost ==
    status = "alive" /\ ~(op = "read" /\ done = "ok") =>
        given = IF WebSocketKind \/ arrived = 0
                THEN [i \in 1..arrived |-> i]
                ELSE <<arrived>>

\* No handler of a WebSocket::Session or a Socket::Session is left when the
\* session is destroyed.  A SecureSession has no such guarantee.
NoHandlerOutlives == status = "gone" /\ kind # "secure" => op = "none"

\* A WebSocket session that reads from a connection that ended tells its owner,
\* unless it is destroyed first.
EndIsReported ==
    (WebSocketKind /\ op = "read" /\ stream # "open") ~> (reports > 0 \/ status # "alive")

\* A session its owner let go of does not linger in its own handlers: it is
\* destroyed, well or badly, unless a connection is open.
ReleasedGoes == (~held /\ stream # "open") ~> (status # "alive" \/ stream = "open")

=============================================================================
