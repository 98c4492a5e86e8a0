------------------------------ MODULE LegacyTcp ------------------------------
(***************************************************************************)
(* The legacy Qt TCP classes: TcpCLientInstanceQ objects against the       *)
(* TcpServerInstanceQ, whose ThreadManager gives every connection a        *)
(* ConnectionWorker on a thread of its own.                                *)
(*                                                                         *)
(* The manager and the workers share no lock: they talk through queued     *)
(* signals and slots, so one step is one slot run by one event loop.       *)
(* An exchange packet is two units of the stream, numbered from 1, and a   *)
(* read returns any number of the units that have arrived.                 *)
(***************************************************************************)
EXTENDS Integers, FiniteSets, Functions

CONSTANTS
    Clients,        \* TcpCLientInstanceQ objects
    Conns,          \* TCP connections, each used once
    NoConn,         \* no connection
    Ids,            \* what std::rand() * std::rand() may yield, 0 included
    MaxThreads,     \* bound on setThreadCount()
    MaxSends        \* bound on the packets sent on one connection

ASSUME LegacyTcpAssumption ==
    /\ NoConn \notin Conns
    /\ 0 \in Ids /\ MaxThreads \in Nat /\ MaxSends \in Nat
    /\ IsFiniteSet(Ids) /\ Cardinality(Ids) > MaxThreads

VARIABLES
    \* ThreadManager
    maximum,    \* m_maximumThreadCount
    workers,    \* m_workers: the connection of the worker with an id
    threads,    \* m_threads: the connection whose worker runs on the thread
    \* ConnectionWorker, by connection
    phase,      \* "none", "incoming", "created", "serving", "ended", "gone", "rejected"
    workerId,   \* m_workerId
    received,   \* units read
    answered,   \* responses written
    \* TcpCLientInstanceQ
    link,       \* the connection of the socket
    state,      \* "unconnected", "connected", "closing"
    \* the connections
    sent,       \* units sent to the server
    status      \* "running", "over", or "undefined": anything may have happened

managerVars == <<maximum, workers, threads>>
workerVars == <<phase, workerId, received, answered>>
clientVars == <<link, state>>
vars == <<managerVars, workerVars, clientVars, sent, status>>

Init ==
    /\ maximum \in 1 .. MaxThreads       \* setThreadCount(idealThreadCount())
    /\ workers = [i \in {} |-> NoConn] /\ threads = [i \in {} |-> NoConn]
    /\ phase = [c \in Conns |-> "none"] /\ workerId = [c \in Conns |-> 0]
    /\ received = [c \in Conns |-> 0] /\ answered = [c \in Conns |-> 0]
    /\ link = [k \in Clients |-> NoConn] /\ state = [k \in Clients |-> "unconnected"]
    /\ sent = [c \in Conns |-> 0]
    /\ status = "running"

\* Whether the client's end of a connection is still open.
Held(c) == \E k \in Clients : link[k] = c /\ state[k] = "connected"

Extend(f, i, c) == [j \in DOMAIN f \cup {i} |-> IF j = i THEN c ELSE f[j]]
-----------------------------------------------------------------------------
(* ThreadManager, on the thread of the server *)

\* setThreadCount() is refused while there are workers.
SetThreadCount(n) ==
    /\ DOMAIN workers = {}
    /\ maximum' = n
    /\ UNCHANGED <<workers, threads, workerVars, clientVars, sent, status>>

\* Mutant: the id is not compared with the ids in use.
FreshIdsAny == Ids
FreshIds == Ids \ DOMAIN workers

\* incomingConnection(): without a free slot the connection is closed, else a
\* worker is created and its setConnection() queued to its thread.
CreateConnection(c) ==
    /\ phase[c] = "incoming"
    /\ IF Cardinality(DOMAIN workers) >= maximum
       THEN phase' = [phase EXCEPT ![c] = "rejected"] /\ UNCHANGED <<workers, threads>>
       ELSE \E i \in FreshIds :
               /\ workers' = Extend(workers, i, c) /\ threads' = Extend(threads, i, c)
               /\ phase' = [phase EXCEPT ![c] = "created"]
    /\ UNCHANGED <<maximum, workerId, received, answered, clientVars, sent, status>>

\* onFinished() looks the worker up by its id without checking that it is
\* there.  The worker itself is never destroyed: its deleteLater() is posted to
\* a thread that has ended.
OnFinished(c) ==
    /\ phase[c] = "ended"
    /\ LET i == workerId[c] IN
       IF i \notin DOMAIN threads
       THEN status' = "undefined" /\ UNCHANGED <<managerVars, phase>>
       ELSE /\ threads' = Restrict(threads, DOMAIN threads \ {i})
            /\ workers' = Restrict(workers, DOMAIN workers \ {i})
            /\ phase' = [phase EXCEPT ![c] = "gone"]
            /\ UNCHANGED <<maximum, status>>
    /\ UNCHANGED <<workerId, received, answered, clientVars, sent>>

\* The destructor changes m_workers while it iterates over it.
DestroyManager ==
    /\ status' \in IF DOMAIN workers = {} THEN {"over"} ELSE {"over", "undefined"}
    /\ UNCHANGED <<managerVars, workerVars, clientVars, sent>>
-----------------------------------------------------------------------------
(* ConnectionWorker, each on its own thread *)

\* setConnection() learns the id it was queued with and takes the socket.
SetConnection(c) ==
    /\ phase[c] = "created"
    /\ phase' = [phase EXCEPT ![c] = "serving"]
    /\ workerId' = [workerId EXCEPT ![c] = CHOOSE i \in DOMAIN workers : workers[i] = c]
    /\ UNCHANGED <<managerVars, received, answered, clientVars, sent, status>>

\* PacketConverter::convert() of n units after the first `from`: the first
\* packet, when it begins there and is complete; a packet that is cut may pass.
Convert(from, n) ==
    CASE from % 2 = 1 -> {FALSE}
      [] from % 2 = 0 /\ n = 1 -> {TRUE, FALSE}
      [] OTHER -> {TRUE}

\* Mutant: what did not convert is processed as well.
OnMessageUnchecked(c, n) ==
    /\ phase[c] = "serving" /\ received[c] + n <= sent[c]
    /\ received' = [received EXCEPT ![c] = @ + n]
    /\ answered' = [answered EXCEPT ![c] = @ + 1]
    /\ UNCHANGED <<managerVars, phase, workerId, clientVars, sent, status>>
\* onMessage(): a packet that does not convert, and a response the processors
\* leave invalid, are dropped.
OnMessage(c, n) ==
    /\ phase[c] = "serving" /\ received[c] + n <= sent[c]
    /\ received' = [received EXCEPT ![c] = @ + n]
    /\ \/ UNCHANGED answered
       \/ /\ TRUE \in Convert(received[c], n)
          /\ answered' = [answered EXCEPT ![c] = @ + 1]
    /\ UNCHANGED <<managerVars, phase, workerId, clientVars, sent, status>>

\* Mutant: a connection that ends before it was answered is not reported.
OnDisconnectAnswered(c) ==
    /\ phase[c] = "serving" /\ ~Held(c) /\ answered[c] > 0
    /\ phase' = [phase EXCEPT ![c] = "ended"]
    /\ UNCHANGED <<managerVars, workerId, received, answered, clientVars, sent, status>>
\* onDisconnect(): finished() is queued to the manager.
OnDisconnect(c) ==
    /\ phase[c] = "serving" /\ ~Held(c)
    /\ phase' = [phase EXCEPT ![c] = "ended"]
    /\ UNCHANGED <<managerVars, workerId, received, answered, clientVars, sent, status>>
-----------------------------------------------------------------------------
(* TcpCLientInstanceQ *)

Connect(k, c) ==
    /\ state[k] = "unconnected" /\ phase[c] = "none"
    /\ state' = [state EXCEPT ![k] = "connected"] /\ link' = [link EXCEPT ![k] = c]
    /\ phase' = [phase EXCEPT ![c] = "incoming"]
    /\ UNCHANGED <<managerVars, workerId, received, answered, sent, status>>

\* disconnect() ends the connection, or leaves it closing while bytes are unsent.
Disconnect(k) ==
    /\ state[k] = "connected"
    /\ \E s \in {"unconnected", "closing"} : state' = [state EXCEPT ![k] = s]
    /\ UNCHANGED <<managerVars, workerVars, link, sent, status>>

\* onFail(): the socket is closed at last, or the server has closed it.
OnFail(k) ==
    /\ \/ state[k] = "closing"
       \/ state[k] = "connected" /\ phase[link[k]] = "rejected"
    /\ state' = [state EXCEPT ![k] = "unconnected"]
    /\ UNCHANGED <<managerVars, workerVars, link, sent, status>>

\* sendMessageSlot() of a valid packet; any other converts to nothing.
SendMessage(k) ==
    /\ state[k] = "connected" /\ sent[link[k]] < 2 * MaxSends
    /\ sent' = [sent EXCEPT ![link[k]] = @ + 2]
    /\ UNCHANGED <<managerVars, workerVars, clientVars, status>>

\* getMessage() calls itself without end.
GetMessage ==
    /\ status' = "over"
    /\ UNCHANGED <<managerVars, workerVars, clientVars, sent>>
-----------------------------------------------------------------------------

Manager(c) == status = "running" /\ (CreateConnection(c) \/ OnFinished(c))
Worker(c) ==
    /\ status = "running"
    /\ SetConnection(c) \/ OnDisconnect(c) \/ \E n \in 1 .. 2 * MaxSends : OnMessage(c, n)

Next ==
    \/ \E c \in Conns : Manager(c) \/ Worker(c)
    \/ /\ status = "running"
       /\ \/ \E n \in 0 .. MaxThreads : SetThreadCount(n)
          \/ DestroyManager \/ GetMessage
          \/ \E k \in Clients :
                \/ Disconnect(k) \/ OnFail(k) \/ SendMessage(k)
                \/ \E c \in Conns : Connect(k, c)

Spec == Init /\ [][Next]_vars

\* Every event loop delivers what is queued to it; a worker reads, and sees the
\* end of its connection.
FairSpec ==
    /\ Spec
    /\ \A c \in Conns : WF_vars(Manager(c)) /\ WF_vars(status = "running" /\ SetConnection(c))
                        /\ WF_vars(status = "running" /\ OnDisconnect(c))
-----------------------------------------------------------------------------

\* Every variable keeps its type.
TypeOK ==
    /\ maximum \in 0 .. MaxThreads
    /\ DOMAIN workers \subseteq Ids /\ DOMAIN threads \subseteq Ids
    /\ \A i \in DOMAIN workers : workers[i] \in Conns
    /\ \A i \in DOMAIN threads : threads[i] \in Conns
    /\ phase \in [Conns -> {"none", "incoming", "created", "serving", "ended", "gone", "rejected"}]
    /\ workerId \in [Conns -> Ids]
    /\ received \in [Conns -> Nat] /\ answered \in [Conns -> Nat]
    /\ link \in [Clients -> Conns \cup {NoConn}]
    /\ state \in [Clients -> {"unconnected", "connected", "closing"}]
    /\ sent \in [Conns -> Nat] /\ status \in {"running", "over", "undefined"}

\* While the manager lives each slot belongs to one connection and each worker
\* that was created and not yet released is found under its id: onFinished()
\* never looks up an id that is not there and never ends another's thread.  There
\* are never more slots than setThreadCount() allows, so availableThreads() does
\* not wrap, although slots are freed only when finished() is handled.
SlotsAreOwned ==
    status = "running" =>
        /\ Cardinality(DOMAIN workers) <= maximum
        /\ \A c \in Conns :
            /\ phase[c] \in {"created", "serving", "ended"}
                  <=> \E i \in DOMAIN workers : workers[i] = c
            /\ phase[c] \in {"serving", "ended"} =>
                  /\ workerId[c] \in DOMAIN threads /\ threads[workerId[c]] = c
                  /\ workers[workerId[c]] = c

\* However the stream cuts and joins the packets, a client never gets more
\* responses than it has sent packets.
NoMoreAnswersThanPackets == \A c \in Conns : 2 * answered[c] <= sent[c]

\* The slot of a connection that the client has left is free in the end.
SlotIsFreed ==
    \A c \in Conns :
        phase[c] \in {"created", "serving"} /\ ~Held(c)
            ~> status # "running" \/ \A i \in DOMAIN workers : workers[i] # c
=============================================================================
