------------------------------- MODULE WsClient -------------------------------
(***************************************************************************)
(* WebSockets::Client (src/WebSockets/client.cpp): connect(),              *)
(* disconnect(), ping() and the destructor on the user's thread, against   *)
(* the websocketpp handlers and the ping timers on the thread that the     *)
(* first connect() starts.                                                 *)
(*                                                                         *)
(* A section under mutex or pingMutex is one step.  websocketpp is         *)
(* modelled from how the code uses it; its run() returns when nothing is   *)
(* outstanding, and the io_service is then stopped.  The bodies of         *)
(* sendText(), sendJson(), sendBinary() and of the two callback setters    *)
(* are empty and have no action.                                           *)
(***************************************************************************)
EXTENDS Naturals, Sequences

CONSTANTS
    Conns,      \* connection attempts, one per call of connect()
    MaxPings    \* bound: pings that get past the checks of ping()

ASSUME MaxPingsAssumption == MaxPings \in Nat

NoConn == "no connection"

ASSUME NoConnAssumption == NoConn \notin Conns

VARIABLES
    connected,     \* the flag behind isConnected()
    connection,    \* the handle the last open handler stored
    ioThread,      \* ioThread is not null
    io,            \* the thread: "none", "run" or "done"
    stopped,       \* ioService.stopped(): nothing ever restarts it
    state,         \* each attempt, in websocketpp
    nextPingId,    \* pings registered so far
    pendingPings,  \* their ids, as long as the promise has no value
    timers,        \* pings whose timer runs
    due,           \* pings whose timer handler is queued, not cancellable
    values,        \* the values given to each ping's promise, in order
    user           \* where the user's thread is

loopVars == <<ioThread, io, stopped>>
pingVars == <<nextPingId, pendingPings, timers, due, values>>
vars == <<connected, connection, ioThread, io, stopped, state, nextPingId,
          pendingPings, timers, due, values, user>>

\* "shutting": the session has ended and its close handler is still to come.
Live == {"connecting", "open", "closing", "shutting"}

Goto(step) == user' = step

\* set_value() on a ping's promise, and its removal from pendingPings.
Resolve(id, value) ==
    /\ values' = [values EXCEPT ![id] = Append(@, value)]
    /\ pendingPings' = pendingPings \ {id}

-----------------------------------------------------------------------------
(* The user's thread.                                                        *)

\* connect() has no guard; only the first call starts a thread.
Connect(c) ==
    /\ user = "idle"
    /\ state[c] = "unused"
    /\ state' = [state EXCEPT ![c] = "connecting"]
    /\ ioThread' = TRUE
    /\ io' = IF ioThread THEN io ELSE "run"
    /\ UNCHANGED <<connected, connection, stopped, pingVars, user>>

\* The body of disconnect(), under mutex.  close() throws when the connection
\* is not open or the code of the reason is refused; the flag is reset anyway.
CloseConnected ==
    IF ~connected
    THEN UNCHANGED <<connected, state>>
    ELSE /\ connected' = FALSE
         /\ \/ /\ state[connection] = "open"
               /\ state' = [state EXCEPT ![connection] = "closing"]
            \/ UNCHANGED state

Disconnect ==
    /\ user = "idle"
    /\ CloseConnected
    /\ UNCHANGED <<connection, loopVars, pingVars, user>>

\* The checks of ping(), without a lock.  A client that is not connected answers
\* -1 at once, and a size of 8 bytes or more throws: neither changes anything.
PingCheck ==
    /\ user = "idle"
    /\ connected /\ nextPingId < MaxPings
    /\ Goto("ping_register")
    /\ UNCHANGED <<connected, connection, loopVars, state, pingVars>>

\* Mutant: the timer is created and never waited for.
PingRegisterNoWait ==
    /\ user = "ping_register"
    /\ nextPingId' = nextPingId + 1
    /\ pendingPings' = pendingPings \cup {nextPingId}
    /\ Goto("ping_send")
    /\ UNCHANGED <<connected, connection, loopVars, state, timers, due, values>>

\* Under pingMutex: the next id, its promise and its timer.
PingRegister ==
    /\ user = "ping_register"
    /\ nextPingId' = nextPingId + 1
    /\ pendingPings' = pendingPings \cup {nextPingId}
    /\ timers' = timers \cup {nextPingId}
    /\ Goto("ping_send")
    /\ UNCHANGED <<connected, connection, loopVars, state, due, values>>

\* copy_n() takes its arguments in the wrong order: it overwrites id, and the
\* stack behind it, with the zeros of the payload.  The process may end there;
\* otherwise id is 0 from here on, also where a send error looks it up.
PingSend ==
    /\ user = "ping_send"
    /\ \/ Goto("crashed") /\ UNCHANGED pingVars
       \/ /\ state[connection] = "open" \/ 0 \notin pendingPings
          /\ Goto("idle")
          /\ UNCHANGED pingVars
       \/ /\ state[connection] # "open"
          /\ 0 \in pendingPings
          /\ Resolve(0, "failed")
          /\ timers' = timers \ {0}
          /\ Goto("idle")
          /\ UNCHANGED <<nextPingId, due>>
    /\ UNCHANGED <<connected, connection, loopVars, state>>

\* ~Impl(): disconnect(), then stop the service and join the thread.
Destroy ==
    /\ user = "idle"
    /\ CloseConnected
    /\ Goto("destroy")
    /\ UNCHANGED <<connection, loopVars, pingVars>>

\* Mutant: the service is not stopped, the thread should run out of work.
DestroyStopForgotten ==
    /\ user = "destroy"
    /\ Goto("destroy_join")
    /\ UNCHANGED <<connected, connection, loopVars, state, pingVars>>

DestroyStop ==
    /\ user = "destroy"
    /\ stopped' = (stopped \/ ioThread)
    /\ Goto("destroy_join")
    /\ UNCHANGED <<connected, connection, ioThread, io, state, pingVars>>

\* The thread is joined; then the members go, the pending promises with them.
DestroyJoin ==
    /\ user = "destroy_join"
    /\ ioThread => io = "done"
    /\ io' = "none"
    /\ Goto("gone")
    /\ UNCHANGED <<connected, connection, ioThread, stopped, state, pingVars>>

UserStep == PingRegister \/ PingSend \/ DestroyStop \/ DestroyJoin

-----------------------------------------------------------------------------
(* The io thread.                                                            *)

Running == io = "run" /\ ~stopped /\ user # "crashed"

\* Mutant: the flag is raised and the handle of the first connection kept.
OpenHandlerKeepsHandle(c) ==
    /\ Running
    /\ state[c] = "connecting"
    /\ state' = [state EXCEPT ![c] = "open"]
    /\ connection' = IF connection = NoConn THEN c ELSE connection
    /\ connected' = TRUE
    /\ UNCHANGED <<loopVars, pingVars, user>>

\* The open handler, under mutex.  The two greetings it sends change nothing.
OpenHandler(c) ==
    /\ Running
    /\ state[c] = "connecting"
    /\ state' = [state EXCEPT ![c] = "open"]
    /\ connection' = c
    /\ connected' = TRUE
    /\ UNCHANGED <<loopVars, pingVars, user>>

\* The fail handler: whichever attempt failed, the flag is reset.
FailHandler(c) ==
    /\ Running
    /\ state[c] = "connecting"
    /\ state' = [state EXCEPT ![c] = "closed"]
    /\ connected' = FALSE
    /\ UNCHANGED <<connection, loopVars, pingVars, user>>

\* The peer closes or is lost, or a close handshake ends or times out.
SessionEnds(c) ==
    /\ Running
    /\ state[c] \in {"open", "closing"}
    /\ state' = [state EXCEPT ![c] = "shutting"]
    /\ UNCHANGED <<connected, connection, loopVars, pingVars, user>>

\* The close handler: whichever connection ended, the flag is reset.
CloseHandler(c) ==
    /\ Running
    /\ state[c] = "shutting"
    /\ state' = [state EXCEPT ![c] = "closed"]
    /\ connected' = FALSE
    /\ UNCHANGED <<connection, loopVars, pingVars, user>>

\* Mutant: the promise is given its value and stays registered.
PongHandlerNoErase(id) ==
    /\ Running
    /\ \E c \in Conns : state[c] = "open"
    /\ id \in pendingPings
    /\ values' = [values EXCEPT ![id] = Append(@, "ok")]
    /\ timers' = timers \ {id}
    /\ UNCHANGED <<connected, connection, loopVars, state, nextPingId, pendingPings,
                   due, user>>

\* A pong of at least 8 bytes that begins with the id of a pending ping.  The
\* payloads ping() sends are shorter, so only the peer's own pongs come here.
PongHandler(id) ==
    /\ Running
    /\ \E c \in Conns : state[c] = "open"
    /\ id \in pendingPings
    /\ Resolve(id, "ok")
    /\ timers' = timers \ {id}
    /\ UNCHANGED <<connected, connection, loopVars, state, nextPingId, due, user>>

\* The timer expires and its handler is queued: a cancel comes too late now.
TimerExpires(id) ==
    /\ Running
    /\ id \in timers
    /\ timers' = timers \ {id}
    /\ due' = due \cup {id}
    /\ UNCHANGED <<connected, connection, loopVars, state, nextPingId, pendingPings,
                   values, user>>

\* The timer handler, under pingMutex: a ping that is still pending failed.
TimerHandler(id) ==
    /\ Running
    /\ id \in due
    /\ due' = due \ {id}
    /\ IF id \in pendingPings
       THEN Resolve(id, "failed")
       ELSE UNCHANGED <<values, pendingPings>>
    /\ UNCHANGED <<connected, connection, loopVars, state, nextPingId, timers, user>>

\* run() returns when the service is stopped or has no work left.
RunReturns ==
    /\ io = "run"
    /\ user # "crashed"
    /\ \/ stopped
       \/ /\ timers = {} /\ due = {}
          /\ \A c \in Conns : state[c] \notin Live
    /\ stopped' = TRUE
    /\ io' = "done"
    /\ UNCHANGED <<connected, connection, ioThread, state, pingVars, user>>

PingIds == 0..(MaxPings - 1)

-----------------------------------------------------------------------------
Init ==
    /\ connected = FALSE
    /\ connection = NoConn
    /\ ioThread = FALSE
    /\ io = "none"
    /\ stopped = FALSE
    /\ state = [c \in Conns |-> "unused"]
    /\ nextPingId = 0
    /\ pendingPings = {}
    /\ timers = {}
    /\ due = {}
    /\ values = [id \in PingIds |-> <<>>]
    /\ user = "idle"

Ended == user \in {"gone", "crashed"} /\ UNCHANGED vars

Next ==
    \/ \E c \in Conns : Connect(c) \/ OpenHandler(c) \/ FailHandler(c)
                            \/ SessionEnds(c) \/ CloseHandler(c)
    \/ Disconnect
    \/ PingCheck
    \/ UserStep
    \/ Destroy
    \/ \E id \in PingIds : PongHandler(id) \/ TimerExpires(id) \/ TimerHandler(id)
    \/ RunReturns
    \/ Ended

Spec == Init /\ [][Next]_vars

\* Both threads run, timers expire and a connection attempt ends one way or the
\* other (websocketpp bounds it with timeouts of its own); the user's calls and
\* the peer are not fair.
Fairness ==
    /\ WF_vars(UserStep)
    /\ WF_vars(RunReturns)
    /\ \A c \in Conns : WF_vars(OpenHandler(c) \/ FailHandler(c)) /\ WF_vars(CloseHandler(c))
    /\ \A id \in PingIds : WF_vars(TimerExpires(id)) /\ WF_vars(TimerHandler(id))

FairSpec == Spec /\ Fairness

-----------------------------------------------------------------------------
(* Properties.                                                               *)

\* Every variable keeps its type.
TypeOK ==
    /\ connected \in BOOLEAN
    /\ connection \in Conns \cup {NoConn}
    /\ ioThread \in BOOLEAN
    /\ io \in {"none", "run", "done"}
    /\ stopped \in BOOLEAN
    /\ state \in [Conns -> Live \cup {"unused", "closed"}]
    /\ nextPingId \in 0..MaxPings
    /\ pendingPings \subseteq PingIds
    /\ timers \subseteq PingIds
    /\ due \subseteq PingIds
    /\ values \in [PingIds -> Seq({"ok", "failed"})]
    /\ user \in {"idle", "ping_register", "ping_send", "destroy", "destroy_join",
                 "gone", "crashed"}

\* While isConnected() answers true, the stored handle is that of a connection
\* that opened and whose close handler has not run, however many were opened:
\* disconnect() and ping() never act on a dead one.
ConnectedHandleLives ==
    connected => connection \in Conns /\ state[connection] \in {"open", "shutting"}

\* A ping's promise is given at most one value, though a pong, the timer and a
\* send error compete for it: set_value() never throws on the io thread.
OneValuePerPing == \A id \in PingIds : Len(values[id]) <= 1

\* No ping is forgotten: one that is registered and has no value yet has a timer
\* that runs or whose handler is queued.
PendingHasTimer ==
    \A id \in PingIds : id < nextPingId /\ values[id] = <<>> =>
        id \in pendingPings /\ id \in timers \cup due

\* ping() keeps what std::future promises its user: the future of a registered ping
\* becomes ready once, with one value that is never set again, or is broken when the
\* client is destroyed; no pong, timer or send error touches it afterwards.
PingPromise(id) ==
    IF Len(values[id]) > 1 THEN "set twice"
    ELSE IF values[id] # <<>> THEN values[id][1]
    ELSE IF id >= nextPingId THEN "none"
    ELSE IF user = "gone" THEN "broken" ELSE "pending"

PR == INSTANCE Promises WITH
        Ids <- PingIds, Values <- {"ok", "failed"},
        promise <- [id \in PingIds |-> PingPromise(id)],
        keeper <- IF user = "gone" THEN "gone" ELSE "here"

PingsArePromises == PR!Spec

\* A ping registered while the loop runs gets its value, unless the client is
\* destroyed: its timer alone keeps the loop alive.
PingResolves ==
    \A id \in PingIds : id \in pendingPings /\ ~stopped ~>
        id \notin pendingPings \/ user \in {"destroy", "destroy_join", "gone", "crashed"}

\* The destructor returns.
DestructorReturns == user = "destroy" ~> user = "gone"

\* client.hpp says that connect() connects to the server: an attempt is carried
\* out, and opens or fails, as long as the client exists.
ConnectIsCarriedOut ==
    \A c \in Conns : state[c] = "connecting" ~>
        state[c] # "connecting" \/ user \in {"destroy", "destroy_join", "gone", "crashed"}

=============================================================================
