------------------------------- MODULE WsServer -------------------------------
(***************************************************************************)
(* WebSockets::Server (src/WebSockets/server.cpp): listen(), stop(), the   *)
(* destructor and the handlers of the websocketpp endpoint.                *)
(*                                                                         *)
(* The user's thread calls listen() and stop(); the thread listen() starts *)
(* runs the io_service and every handler.  The two meet in m_connections,  *)
(* under m_mutex, so a locked section is one step.  websocketpp is         *)
(* modelled from how the code uses it: an acceptor that accepts again      *)
(* after each connection, connections that shake hands, open, close and    *)
(* end in the close handler, or fail.  Creating the thread and resolving   *)
(* the host are taken to succeed: listen() lets both exceptions through.   *)
(***************************************************************************)
EXTENDS FiniteSets

CONSTANT Conns   \* the connections peers may make

ASSUME ConnsAssumption == IsFiniteSet(Conns)

VARIABLES
    listening,      \* m_listening, behind isListening()
    acceptor,       \* the endpoint's acceptor: "closed" or "listening"
    accepting,      \* an async_accept is outstanding
    stopped,        \* m_ioService.stopped(): nothing ever restarts it
    ioThread,       \* m_ioThread is not null
    io,             \* the thread: "none", "run" or "done"
    m_connections,  \* the open connections the server knows
    state,          \* each connection, in websocketpp
    user,           \* where the user's thread is
    dying           \* the destructor was called

vars == <<listening, acceptor, accepting, stopped, ioThread, io, m_connections,
          state, user, dying>>

\* "shutting": the session has ended and its close handler is still to come.
Live == {"handshake", "open", "closing", "shutting"}

Goto(step) == user' = step

-----------------------------------------------------------------------------
(* The user's thread.                                                        *)

\* listen() on an endpoint that is not listening.  With no thread running
\* nothing interleaves: a failed start_accept() leaves the acceptor listening
\* and m_listening unset.
Listen ==
    /\ user = "idle"
    /\ acceptor = "closed"
    /\ acceptor' = "listening"
    /\ \/ /\ listening' = TRUE
          /\ accepting' = TRUE
          /\ ioThread' = TRUE
          /\ io' = IF ioThread THEN io ELSE "run"
       \/ UNCHANGED <<listening, accepting, ioThread, io>>
    /\ UNCHANGED <<stopped, m_connections, state, user, dying>>

\* The endpoint listens already, or the address cannot be bound.
ListenRefused ==
    /\ user = "idle"
    /\ UNCHANGED vars

StopCall ==
    /\ user = "idle"
    /\ Goto("stop")
    /\ UNCHANGED <<listening, acceptor, accepting, stopped, ioThread, io,
                   m_connections, state, dying>>

\* m_server.stop_listening() closes the acceptor, from the user's thread.
StopListening ==
    /\ user = "stop"
    /\ acceptor' = IF listening THEN "closed" ELSE acceptor
    /\ listening' = FALSE
    /\ Goto("stop_conns")
    /\ UNCHANGED <<accepting, stopped, ioThread, io, m_connections, state,
                   dying>>

\* Under m_mutex: a close frame for every registered connection (errors are
\* ignored: a connection that is no longer open refuses), then an empty registry.
StopConnections ==
    /\ user = "stop_conns"
    /\ state' = [c \in Conns |-> IF c \in m_connections /\ state[c] = "open"
                                 THEN "closing" ELSE state[c]]
    /\ m_connections' = {}
    /\ Goto("stop_io")
    /\ UNCHANGED <<listening, acceptor, accepting, stopped, ioThread, io,
                   dying>>

\* Mutant: the io_service is not stopped, it should run out of work.
StopIoForgotten ==
    /\ user = "stop_io"
    /\ Goto("stop_join")
    /\ UNCHANGED <<listening, acceptor, accepting, stopped, ioThread, io,
                   m_connections, state, dying>>

\* Without a thread there is nothing to stop.
StopIo ==
    /\ user = "stop_io"
    /\ stopped' = (stopped \/ ioThread)
    /\ Goto("stop_join")
    /\ UNCHANGED <<listening, acceptor, accepting, ioThread, io, m_connections,
                   state, dying>>

\* Mutant: the thread is dropped without being joined.
StopJoinForgotten ==
    /\ user = "stop_join"
    /\ ioThread' = FALSE
    /\ Goto(IF dying THEN "gone" ELSE "idle")
    /\ UNCHANGED <<listening, acceptor, accepting, stopped, io, m_connections,
                   state, dying>>

\* Waits for the thread and drops it.
StopJoin ==
    /\ user = "stop_join"
    /\ ioThread => io = "done"
    /\ ioThread' = FALSE
    /\ io' = "none"
    /\ Goto(IF dying THEN "gone" ELSE "idle")
    /\ UNCHANGED <<listening, acceptor, accepting, stopped, m_connections,
                   state, dying>>

\* ~Impl() calls stop().
Destroy ==
    /\ user = "idle"
    /\ dying' = TRUE
    /\ Goto("stop")
    /\ UNCHANGED <<listening, acceptor, accepting, stopped, ioThread, io,
                   m_connections, state>>

Stop == StopListening \/ StopConnections \/ StopIo \/ StopJoin

-----------------------------------------------------------------------------
(* The io thread.                                                            *)

Running == io = "run" /\ ~stopped

\* A peer is accepted; the endpoint accepts again unless it stopped listening.
HandleAccept(c) ==
    /\ Running
    /\ accepting
    /\ state[c] = "away"
    /\ state' = [state EXCEPT ![c] = "handshake"]
    /\ accepting' = (acceptor = "listening")
    /\ UNCHANGED <<listening, acceptor, stopped, ioThread, io, m_connections,
                   user, dying>>

\* Closing the acceptor aborts the accept, which is not started again.
AcceptAborted ==
    /\ Running
    /\ accepting
    /\ acceptor = "closed"
    /\ accepting' = FALSE
    /\ UNCHANGED <<listening, acceptor, stopped, ioThread, io, m_connections,
                   state, user, dying>>

\* The open handler: the handshake is over, the connection is registered.
OpenHandler(c) ==
    /\ Running
    /\ state[c] = "handshake"
    /\ state' = [state EXCEPT ![c] = "open"]
    /\ m_connections' = m_connections \cup {c}
    /\ UNCHANGED <<listening, acceptor, accepting, stopped, ioThread, io, user,
                   dying>>

\* The fail handler, and the HTTP handler whose plain request is answered and
\* ends the connection: neither touches the server's state.
FailHandler(c) ==
    /\ Running
    /\ state[c] = "handshake"
    /\ state' = [state EXCEPT ![c] = "closed"]
    /\ UNCHANGED <<listening, acceptor, accepting, stopped, ioThread, io,
                   m_connections, user, dying>>

\* The peer closes or is lost, or the close handshake the server began ends or
\* times out.
SessionEnds(c) ==
    /\ Running
    /\ state[c] \in {"open", "closing"}
    /\ state' = [state EXCEPT ![c] = "shutting"]
    /\ UNCHANGED <<listening, acceptor, accepting, stopped, ioThread, io,
                   m_connections, user, dying>>

\* Mutant: the connection stays registered.
CloseHandlerNoErase(c) ==
    /\ Running
    /\ state[c] = "shutting"
    /\ state' = [state EXCEPT ![c] = "closed"]
    /\ UNCHANGED <<listening, acceptor, accepting, stopped, ioThread, io,
                   m_connections, user, dying>>

\* The close handler: a connection that is registered is erased.
CloseHandler(c) ==
    /\ Running
    /\ state[c] = "shutting"
    /\ state' = [state EXCEPT ![c] = "closed"]
    /\ m_connections' = m_connections \ {c}
    /\ UNCHANGED <<listening, acceptor, accepting, stopped, ioThread, io, user,
                   dying>>

\* run() returns when the service is stopped or has no work left.
RunReturns ==
    /\ io = "run"
    /\ stopped \/ (~accepting /\ \A c \in Conns : state[c] \notin Live)
    /\ stopped' = TRUE
    /\ io' = "done"
    /\ UNCHANGED <<listening, acceptor, accepting, ioThread, m_connections,
                   state, user, dying>>

\* What the thread does without waiting for a peer.
IoStep == AcceptAborted \/ RunReturns
            \/ \E c \in Conns : CloseHandler(c) \/ (state[c] = "closing" /\ SessionEnds(c))

-----------------------------------------------------------------------------
Init ==
    /\ listening = FALSE
    /\ acceptor = "closed"
    /\ accepting = FALSE
    /\ stopped = FALSE
    /\ ioThread = FALSE
    /\ io = "none"
    /\ m_connections = {}
    /\ state = [c \in Conns |-> "away"]
    /\ user = "idle"
    /\ dying = FALSE

Ended == user = "gone" /\ UNCHANGED vars

Next ==
    \/ Listen
    \/ ListenRefused
    \/ StopCall
    \/ Destroy
    \/ Stop
    \/ \E c \in Conns : HandleAccept(c) \/ OpenHandler(c) \/ FailHandler(c)
                            \/ SessionEnds(c) \/ CloseHandler(c)
    \/ AcceptAborted
    \/ RunReturns
    \/ Ended

Spec == Init /\ [][Next]_vars

\* The system runs both threads and closing connections time out; peers and the
\* user's decisions to call are not fair.
Fairness == WF_vars(Stop) /\ WF_vars(IoStep)

FairSpec == Spec /\ Fairness

-----------------------------------------------------------------------------
(* Properties.                                                               *)

StopSteps == {"stop", "stop_conns", "stop_io", "stop_join"}

\* Every variable keeps its type.
TypeOK ==
    /\ listening \in BOOLEAN
    /\ acceptor \in {"closed", "listening"}
    /\ accepting \in BOOLEAN
    /\ stopped \in BOOLEAN
    /\ ioThread \in BOOLEAN
    /\ io \in {"none", "run", "done"}
    /\ m_connections \subseteq Conns
    /\ state \in [Conns -> Live \cup {"away", "closed"}]
    /\ user \in StopSteps \cup {"idle", "gone"}
    /\ dying \in BOOLEAN

\* A connection in the registry is one whose open handler ran and whose close
\* handler did not, during and after a stop() too, which so never closes one a
\* second time; and until the first stop() clears it all of those are in it.
RegistryExact ==
    LET open == {c \in Conns : state[c] \in {"open", "closing", "shutting"}} IN
    /\ m_connections \subseteq open
    /\ ~stopped /\ user \notin {"stop_io", "stop_join"} => m_connections = open

\* Between calls, and when the server is gone, a thread that m_ioThread does not
\* own does not exist: no handler runs on a destroyed server.
ThreadIsOwned == user \in {"idle", "gone"} /\ ~ioThread => io = "none"

\* A stop() that was called returns, whatever the peers do and whichever
\* connection opens behind its back.
StopReturns == user \in StopSteps ~> user \in {"idle", "gone"}

\* server.hpp describes stop() as stopping the server and closing all
\* connections: when stop() has returned, no connection that had opened is left.
StopClosesAll ==
    user = "idle" /\ stopped => \A c \in Conns : state[c] \notin {"open", "closing"}
=============================================================================
