# Components-Network: TLA+ models, checks and proofs

Components-Network is a C++ library of network building blocks on Boost.Asio,
Boost.Beast and websocketpp: HTTP, UDP and WebSocket clients and servers, plus
older code under `Legacy/`. Paths below are relative to the repository
(`src/HTTP/server.cpp` is listed in `PROJECT.json` as `src/src/HTTP/server.cpp`).

This directory holds the models of that code (one module per component), the TLC
configurations that check them on small instances, and theorems proved with
TLAPS for every value of the constants. `PROJECT.json` maps every definition to
the lines it models and lists the hazards the properties are aimed at.

## 1. Inventory

| Component | State | Operations | Talks to |
|---|---|---|---|
| `UDP::Server` (`src/UDP/server.cpp`) | flag `isRunning`, io_context, socket, `ioThread`, one receive buffer, request processor | `start`, `stop`, `setRequestProcessor`, destructors, receive handler | owner thread and io thread share every member; the processor may call `stop()` back |
| `UDP::Client` (`src/UDP/client.cpp`) | host, endpoint, socket | `setHost`, `sendData`, ... (synchronous) | resolver, socket |
| `HTTP::ConnectionSession` (`src/HTTP/connectionsession.cpp`) | socket or TLS stream, read buffer, `m_request`, `m_response`, deadline timer | `handleRequests`, `sendResponse`, `checkDeadline`, `closeConnection`, the read, write and timer handlers | calls the request handler `HTTP::Server` installs; answered through a callback |
| `HTTP::Server` (`src/HTTP/server.cpp`) | io_context, acceptor, processors by target and method | `start`, `stop`, `setProcessor`, accept handler | creates sessions, dispatches their requests |
| `HTTP::Client` (`src/HTTP/client.cpp`) | socket or TLS stream, io_context and its thread, asynchronous requests in progress | `request`, `requestAsync`, `connectToHost`, `isConnected`, `disconnectFromHost`, `interruptRequestProcessing`, file transfers, destructor | an HTTP server, through one connection at a time; callbacks on its io thread |
| `WebSockets::Server` (`src/WebSockets/server.cpp`) | `m_listening`, `m_connections` under `m_mutex`, io_service, `m_ioThread` | `listen`, `stop`, destructor, open/close/fail/message/HTTP handlers | websocketpp endpoint |
| `WebSockets::Client` (`src/WebSockets/client.cpp`) | `connected`, handle, `ioThread`, pending pings and their timers | `connect`, `disconnect`, `ping`, destructor, open/close/fail/pong/timer handlers | websocketpp endpoint |
| `WebSocket::Session`, `SecureSession` (`src/WebSockets/websocketsession.cpp`), `Socket::Session` (`src/BasicSocket`) | stream, buffer, `m_isConnected` | connect, handshake, read and close chains | the caller's callbacks |
| Legacy transport (`Legacy/Transport`) | packets split in subpackets of 8000 bytes; the server's session: one read buffer, tasks on several threads; the client's parts by guid | `toSubpackets`, `fromSubpackets`, `request`, `connectToHost`, read handler, posted tasks | each other, over a TCP stream |
| Legacy TCP (`Legacy/threadmanager.cpp`, `connectionworker.cpp`, `tcpclientinstance.cpp`) | workers and threads by id, the limit; a client's socket | `createConnection`, `setConnection`, `onMessage`, `onDisconnect`, `onFinished`, destructor; `connect`, `disconnect`, `sendMessage` | queued calls and signals between the manager's thread and one thread per worker |
| Legacy UDP server (`Legacy/udpserverinstance.cpp`) | slots, `done`, `threadFinished` with mutex and condition variable, socket | constructor, `start`, `stop`, `onMessage`, the thread remover | owner thread and remover |
| Legacy HTTP (`Legacy/Implementation/HTTP`) | io_context, acceptor, the socket accepted into, processors; a session per connection | `start`, `stop`, `setProcessor*`, accept handler, `readRequest`, `processRequest` | handlers on the thread inside `start()` |
| Legacy database handler, UDP client, forwarding headers | none of their own | | SQLite, a socket |

**What is hard here.** Every server and the WebSocket client share an io_context
between the thread of the owner and one thread that runs handlers. The
difficulties are: the order of "flag, context, join, close" in `stop()` against
handlers that re-arm themselves; calls made from inside a handler; std::thread's
rule that a joinable thread must not be overwritten or destroyed; an io_context
that, once stopped, never runs again; one response object and one buffer reused
by successive asynchronous operations; timers whose expiry is queued when they
are cancelled; several events that compete to set one promise.

**What makes each component correct.**
`UDP::Client`: datagrams go to the host that was set, or the caller was told.
`UDP::Server`: no termination, one user of the buffer, no thread left when the
socket and the members go, never deaf while it says it works, `stop()` returns.
`ConnectionSession`: one reader, answers matched to requests, a response not
replaced while it is sent, every connection closed by its deadline at the latest.
`WebSockets::Server`: the registry agrees with the handlers, the thread is owned,
`stop()` returns and closes everything. `WebSockets::Client`: the handle is alive
while the client says it is connected, every ping is resolved exactly once, a
`connect()` is carried out. The sessions: the end of a connection reported once,
nothing lost, no handler on a destroyed session. `HTTP::Client`: an answer is the
answer to the request, calls return, and a request that was sent is called back (the
code calls back twice after a failed read and never after a failed connect, see the
observations). Legacy transport: joining the parts of what was split gives the packet
back, once, and a session ends with its connection. Legacy TCP: a slot has one owner
and is freed. Legacy UDP: `stop()` returns. Legacy HTTP: not deaf while its loop runs,
and an exception costs only the session it came from.

## 2. Modules and how they correspond to the code

| Module | Models | Kind |
|---|---|---|
| `EventLoop` | what a server promises of a loop that runs once | abstract specification |
| `UdpServer` | `UDP::Server` | component, implements `EventLoop` |
| `UdpServer_proofs` | proofs about `UdpServer` and `UdpExchange` | proofs |
| `UdpExchange` | `UDP::Client`, composed with `UdpServer` (EXTENDS) | composition |
| `HttpSession` | `ConnectionSession` on TCP, the dispatch of `HTTP::Server`, the client's end | component |
| `HttpExchange` | `HTTP::Client` on TCP, composed with `HttpSession` (EXTENDS) | composition |
| `HttpExchange_proofs` | proofs about `HttpSession` and `HttpExchange` | proofs |
| `WsServer` | `WebSockets::Server` and, from its use, the websocketpp endpoint | component |
| `WsServer_proofs` | proofs about `WsServer` | proofs |
| `Promises` | what the holder of a future is promised | abstract specification |
| `WsClient` | `WebSockets::Client` and, from its use, the websocketpp endpoint | component, implements `Promises` |
| `WsClient_proofs` | proofs about `WsClient` | proofs |
| `WsSession` | `WebSocket::Session`, `WebSocket::SecureSession`, `Socket::Session` | component |
| `WsSession_proofs` | proofs about `WsSession` | proofs |
| `Transport` | `TransportPacket`, `TransportClient`, the server's `ConnectionSession` and its threads | composition |
| `Transport_proofs` | proofs about `Transport` | proofs |
| `LegacyTcp` | `ThreadManager`, `ConnectionWorker`, `TcpCLientInstanceQ` | composition |
| `LegacyUdp` | `UdpServerInstanceQ` and its thread remover | component |
| `Legacy_proofs` | proofs about `LegacyTcp` and `LegacyUdp` | proofs |
| `OldHttp` | `HTTPOld::Server` and `HTTPOld::ClientSession` | component |
| `OldHttp_proofs` | proofs about `OldHttp` | proofs |

Definitions whose comment begins with "Mutant" are wrong versions of the
definition after them, with the bug a maintainer could plausibly introduce. They
are not part of any specification; substituting one must break the property
`PROJECT.json` pairs it with.

### UdpServer

Actors `user` (the owner's thread, one call at a time) and `io` (the thread of
`Impl::run()`). `pc` holds where each is; a step is the code between two accesses
to state the other thread touches, so `start()` is seven steps and `stop()` four.
`stop()` is one action family, `Stop(t)`, run by either actor: the owner, both
destructors (`~Server` and then `~Impl`, each of which calls it) and the request
processor. `armed` counts outstanding `async_receive_from` operations;
`Dispatch` is a completion handler, with a datagram, an empty datagram or an
error; `Rearm` is its end. Failures modelled: `open`, `bind` and the thread's
constructor may throw, the processor may throw, and replacing the processor while
it runs is undefined (the process may end). A processor's exception leaves `run()`,
and Asio stops a context that then has no other receive outstanding
(`ProcessorThrows`; `EndHandler` of `EventLoop` allows it).

### UdpExchange

The client is used by one thread and every call of it is synchronous, so a call is
one step. `host` is what `setHost()` stored, `endpoint` where `send_to()` goes:
they differ after a resolution that failed. A datagram for the server's endpoint,
or a broadcast, is `UdpServer`'s `Arrive`; anything else is lost, and a lost
datagram is a step that does not happen. The client's other calls report an error
and change nothing.

### HttpSession

One thread runs everything, so each completion handler is one action; `ready` is the
io_context's queue of handlers. `reading`, `writing` and `waits` are the operations
outstanding in the system. `HandleRequests`, `CheckDeadline`, `SendResponse` and
`CloseConnection` are the functions of the same names, and the handlers `ReadEnds`,
`ReadFails`, `ReadRequest`, `WriteHandled`, `Deadline` call them in the order the code
does. `taken` counts the requests that are in `m_buffer` and `nread` those that were
parsed: a read takes any number of requests from the stream, and `HandleRequests`
parses one that is in the buffer without the socket, on a closed one as well. So a
client that pipelines may have everything that was buffered dispatched after the
close; `OneLateRequest` is about one that waits. A request is its *kind*: what decides
which path it takes through the parser, the read handler and the server's dispatch.
`targetMethodType` is read uninitialised for methods other than the four that are
known, so `Statuses("otherVerb")` allows every outcome. A processor that keeps the
answer function calls it later, on the io thread (`AnswerLater`): the code has no lock
that would allow another thread. `expired` is the instant set when the timer is
constructed: the code cancels and re-waits but never moves the expiry, so the ten
seconds bound the whole connection. The client may send before it has its answers;
`pipelined` remembers whether it did, and the properties about answers are stated for
clients that did not.

### HttpExchange

The client's end that `HttpSession` leaves open is replaced by the real client;
the server's handlers are the actions of `HttpSession`, unchanged. The user's
thread makes one call at a time: `Call` (building the request), `Peek`
(`isConnected()`), `Connect` or `ConnectFails`, `Write`, `Read` or `ReadError`.
`Peek` is enabled only when there is a byte to see or the connection has ended:
the socket is a blocking one and asio's synchronous `receive()` waits. `Connect`
stands for a connection that replaces one that ended, so the session starts
afresh (`Fresh`). The server is not started again: once a processor has thrown
(`~alive`) its loop has ended, and connections are still accepted by the listening
socket but nobody serves them.

`chain` holds the asynchronous requests with the stage each is at. A write is done at
once or stays outstanding ("writing") until `WriteEnds`, the system's step; its
handler is `AsyncWritten`, and those of the read are `AsyncRead` and `AsyncReadFails`.
A read that failed has two calls of the callback in one handler, `AsyncReadFails` and
`AsyncCallsAgain`; the destructor, on the user's thread, comes between the two only as
far as the join in `Close`. `Interrupt` is `cancel()`: it cuts reads and writes
(`Cut`), and a write that is cut, or overlaps another, leaves the stream `torn`: from
then on what arrives may be the request, nothing, or a request the parser refuses
(`Arrives`). A request keeps its number only on the connection it was written to.
Reading drops what came with a response in the same segment, because the buffers are
local to the call. `mode` fixes whether the user calls `request()` or
`requestAsync()`: mixing them makes two threads read one socket without a lock, which
is undefined.

### WsServer and WsClient

A section under a mutex is one step. websocketpp is external: a connection goes
through handshake (or connecting), open, closing, shutting and closed;
"shutting" is the time between the end of the session and its close handler,
when websocketpp already refuses to send. `stopped` is never reset because
nothing in the code calls `restart()`/`reset()`.

`WsClient`'s `ping` is three steps: the check of the flag and the size without a lock,
the registration under `pingMutex`, the sending. The `std::copy_n` in between has its
source and destination exchanged: it writes the payload's zeros over `id` and past it.
The model lets the process end there and otherwise goes on with `id` 0. Because the
payload is shorter than 8 bytes, the peer's echo never matches a pending ping;
`PongHandler` stands for pongs the peer sends of its own. The pings implement
`Promises`: an id is "none" until it is given out, then "pending", and has its value
once `values` holds one (a second would make it "set twice", which no step of
`Promises` does); the promises still pending are broken by the step of the destructor
that destroys the members.

### WsSession

One module for three classes that differ in details the model keeps: `kind` is
chosen in `Init` and never changes. The session has one chain of asynchronous
operations: `op` is the current one and `done` how it completed, its handler then
being queued. `HandlersHold` says whose handlers hold a `shared_ptr`: such a
session is destroyed by the step that ends the chain or by the owner's `Release`,
whichever is last, and the destructor is part of that step (`EndChain`,
`Release`). A handler of a `SecureSession` may find the session gone
(`OrphanHandler`). `CloseWebSocket` and `CloseSocket` say when `close()` throws;
in the destructor that ends the process (`status = "terminated"`). Beast and Asio
are external: where Beast does not define what `close()` does, as on a stream
whose handshake is under way, both outcomes are allowed. `SecureSession` sets no
timeout, so that its opening handshake may wait for ever (`HandshakeUnbounded`). Both
callbacks are set.

### Transport

TCP is a stream of units, two to a packet; a read takes any number of them, so
packets arrive cut and run together. A request is named by the size of its
serialised form, which is what splitting looks at; a subpacket keeps the range of
the text it carries, so that `Joins` can tell whether what was joined is the whole.
`posted` only counts the tasks: they hold a pointer to the session's one buffer and
decode what it holds when they run. `TaskDecodes` and `TaskWrites` are two steps,
as several threads run tasks. A packet with other bytes behind it may or may not
decode (the cipher is external); a cut one does not. The chunks of one request are
taken to have different texts. The server's branch for a
packet whose token is in the list is reduced to the mark `byServer`, which
`OnlyEchoes` shows is never set: `serialize()` leaves the token out. Exceptions of
the decoder are not modelled. Sessions share nothing, so there is one at a time.

### LegacyTcp

The manager's thread, one thread per worker and the clients. `phase` follows a
connection: `CreateConnection` gives it a slot, `SetConnection` is the queued call
that tells the worker its id and hands it the socket, `OnDisconnect` queues
`finished()`, and `OnFinished` looks the worker's id up and frees the slot. `Ids`
is a small set in place of products of `std::rand()`, so that ids do collide.
`received` counts half packets: a `readyRead` brings any number of them and only
whole packets convert. `DestroyManager` erases from the map it walks over, which is
undefined when there are workers; `GetMessage` calls itself for ever and ends the
process.

### LegacyUdp

The owner with its event loop, and the thread remover that the constructor starts.
A section under `threadFinishedMx` is one step; `done` is written and read without
it. `Wake` may be spurious. `processThreadLoop` is never started (its line is
commented out), so no slot is ever in use, `Scan` finds nothing to join, and
`onMessage()` puts every datagram in the first slot. Names that `LegacyTcp` has too
carry the prefix `Udp`, so that one module can be about both.

### OldHttp

Handlers run one at a time on the thread inside `start()`. An accepted connection is
in `hand` between Asio's assignment of `socket` and the handler's move from it: the
only moment at which `stop()` on another thread finds that socket open. `Leave` is an
exception that leaves `run()`: `start()` catches it and returns, and Asio, which
counts the handler as done, stops a context that has no work left. `Start` may fail to
open the acceptor, which leaves it closed, or to bind it, which leaves it open.
`ProcessRequestThrows` covers `remote_endpoint()` of a peer that is gone, a processor
that throws and one that calls `stop()`. The calls of `start()` before `run()` are one
step; two threads inside `start()` are not modelled.

## 3. Runs

| Run | What it shows |
|---|---|
| `udp_exchange` | `UDP::Client` and `UDP::Server`: `NoTerminate`, `OneBufferUser`, `NoThreadAtClose`, `ServingIsArmed`, `AstrayWasTold`, `StopReturns`, and `RunsOnce`: the server implements `EventLoop` |
| `http_session` | to a client that waits: `AnswersMatch`, `OnlyDeadlineClobbers`, `OneLateRequest`; to any client: `OneReader`, `DeadlineArmed`, `EventuallyClosed`, `ComesToRest` |
| `http_exchange` | client and session together: `AnswerIsMine`; while no processor has thrown, `CallReturns` and `AsyncResolves` |
| `ws_server` | `RegistryExact`, `ThreadIsOwned`, `StopReturns` |
| `ws_client` | `ConnectedHandleLives`, `PingResolves`, `DestructorReturns`, and `PingsArePromises`: the pings implement `Promises` |
| `ws_session` | the three client sessions: `ReportsOnce`, `NothingLost`, `NoHandlerOutlives`, `EndIsReported`, `ReleasedGoes` |
| `transport` | client and server over a cutting, breaking stream: `OnlyEchoes`, `JoinedOnce`, `JoinedIsWhole`, `SessionEnds` |
| `legacy_tcp` | `SlotsAreOwned`, `NoMoreAnswersThanPackets`, `SlotIsFreed` |
| `legacy_udp` | `ScansWholeVectors`, `StopReturns` |
| `old_http` | `NeverDeaf`, `SessionsSurvive` |
| `ws_server_stop` | expected violation: connections survive `stop()` |
| `ws_client_reconnect` | expected violation: a later `connect()` is never carried out |

To repeat one: `tlc -config UdpExchange.cfg UdpExchange`.

**Bounds.** `Backlog = 2`: one datagram in a handler and two waiting is enough for
a receive to complete while another is processed. There is no bound on the number
of calls: `start()` and `stop()` repeat for ever and the state space is finite
because `armed` never exceeds two (proved). `MaxRequests = 3` in `http_session`:
a response in flight, a request being dispatched and one more read behind it. Its
five kinds take every path of the handlers; the kinds left out answer at once, as
"served" does, with a status that is among those of "otherVerb" (all nine kinds
with `MaxRequests = 2` also pass). In `http_exchange` `MaxRequests = 2` bounds
the requests on one connection and the asynchronous requests in progress, not the
calls: connections are replaced for ever. Its two kinds of request are one that a
processor answers at any time or never, which includes the orders in which the other
kinds that are answered come back, and one whose processor throws; "malformed" comes
of a torn stream.
`Conns` has two members: one connection
can open, fail or close behind the back of another. `MaxPings = 2`: ids 0 and 1,
which the overwritten id tells apart. `MaxMessages = 3`: messages before and after a
restart; the restarts themselves are not bounded. In `transport` `MaxPacket = 4` with
sizes 2, 10 and 12: a packet that is not split, one of three parts and one whose
size is a multiple. One request and one reply of a callback at a time; two requests
with sizes 2 and 10 pass as well (1.7 million states). `Threads = 2` and a buffer of
three units let a task see another packet than the one it was posted for. In
`legacy_tcp` one client that comes back, over two connections with two threads and
three ids, has a worker being wound up beside one being created; two clients pass
as well. In `legacy_udp` three slots and four datagrams. In `old_http` three
connections, and `MaxAccepts = 3` accept operations: restarts after an exception
pile them up without bound. Symmetry is not used: liveness is checked in
the same runs.

**Type invariants.** Every `TypeOK` (`UdpServer`, `WsServer`, `WsClient`,
`HttpSession`, `OldHttp`, `LegacyTcp`, `LegacyUdp`) is a theorem, so the runs do not
repeat it. `WsSession` and `Transport` have none: what the proofs need of their types
is in the inductive invariants.

**Deadlock** is checked in every run but `legacy_tcp`, where the manager's destructor
or the endless recursion of `getMessage()` ends everything. `Ended` is the stutter of
an object that is gone, of a process that has ended or of a closed connection.

**Fairness.** Weak fairness of the steps a running thread takes by itself: inside
`stop()`, in the loop, in a handler. The scheduler guarantees it. The clock and an
expired timer are fair. An attempt to connect ends and a closing handshake times out:
websocketpp arms timers for both. Not fair, and so free never to happen: the owner's
calls, datagrams, the peers, a failing receive, the completion of a write or of a
read, an answer a processor keeps. In `HttpExchange` the handlers of each asynchronous
request are fair by themselves, as the io_context runs its queue in order; strongly,
because all of them are disabled while one is between its two calls of a callback. An
outstanding write there ends when the connection has ended or while the server's loop
runs, as the session keeps reading. In `WsSession` the caller runs the io_context and
every operation but a read on a live connection completes: the resolver and the
operating system bound the first two, the timeouts that `WebSocket::Session` sets the
handshake. `SecureSession` sets none, and its handshake on a live connection is not
fair. In `Transport` the server's threads run what is due; neither the client nor the
network is fair. In `LegacyTcp` each thread's event loop delivers what is queued to
it. In `LegacyUdp` both threads go on and a notified thread wakes up; spurious
wake-ups are free not to happen. `Processor` in `UdpServer` is fair: `StopReturns` is
a statement about processors that return; a processor that never does blocks `stop()`
by design.

### Findings (expected violations)

1. `ws_server_stop`: `stop()` queues close frames and stops the io_service at
   once, and a connection may open between the clearing of the registry and that
   stop. The header says stop closes all connections.
2. `ws_client_reconnect`: `connect()` starts a thread only once. When the loop has
   run out of work a later attempt is queued and never carried out.

### Observations

- `WebSockets::Server`: after `stop()` nothing restarts the io_service. A second
  `listen()` succeeds and `isListening()`, which the header (`server.hpp:29`)
  describes as whether listening is active, answers true, but nothing is accepted.
- `WebSockets::Client::ping()`: the size check is inverted. The header
  (`client.hpp:72`) demands at least 8 bytes; the code throws for 8 or more, so the
  default `ping()` of a connected client always throws.
- `HTTP::Client::isConnected()`: the peek is a blocking receive, so the branch
  commented "No data, but connected" (`client.cpp:481`) is never taken. On an idle
  keep-alive connection the next request, or the destructor, waits for the server's
  deadline (`CallReturns` holds because that deadline comes).
- `UDP::Client`: after a `setHost()` that failed, data still goes to the endpoint
  resolved before, and `sendData()` returns true.
- `UDP::Server`: `start()` after `stop()` returns true on a context that stays stopped
  (`RunsOnce` states what is true instead). A failed `bind()` leaves the socket open,
  and every later `start()` fails until `stop()`. A processor's exception, or its own
  `stop()` after `ioThread` is stored, ends the loop; with the exception `isWorking()`
  stays true. A processor whose `stop()` runs before `ioThread` is stored leaves a
  thread that the next `start()` assigns over, which ends the process (the exception
  `selfStop` in `NoTerminate`).
- `ConnectionSession`: a pipelining client, or a late answer, replaces
  `m_response` under the write in flight (`OnlyDeadlineClobbers` is stated for
  clients that wait, and the deadline is an exception even there). `m_request` is
  not cleared between the requests of a connection. The read handler returns
  without closing on end of stream; only the deadline closes the socket then. After
  the close the requests that `m_buffer` still holds are parsed and dispatched one by
  one, as `async_read` needs no socket for them. The functions stored in
  `m_processors` capture the `shared_ptr` of the session that owns them
  (`server.cpp:46`, `:67-70`): the cycle keeps every session, and its closed socket,
  for as long as the process.
- `HTTP::Client`: because of the peek a connection to this library's server carries
  one request and then waits for the deadline's 504, which the peek takes as
  "connected": the request written next goes nowhere and the 504 is returned as its
  answer (the exception in `AnswerIsMine`). A processor that throws ends the server's
  loop with the connection open: the client's peek, its reads and its destructor then
  block for ever, and so do asynchronous requests (the exception in `CallReturns` and
  `AsyncResolves`). A write that is cancelled, or started while another is
  outstanding, tears the stream for the requests after it. An asynchronous read that
  fails calls back twice, the second time with an empty response of status 200; an
  asynchronous request that cannot connect is never called back. `AnswerIsMine` does
  not hold for overlapping asynchronous requests: reads are started by write handlers
  and take whatever response comes next. The error of `SSL_set_tlsext_host_name` is
  stored in a shadowing `ec` and lost.
- `WebSockets::Client`: the close or fail handler of any attempt resets
  `connected`, so the flag may be false while a connection is open
  (`ConnectedHandleLives` is the direction that holds). A ping that passes the
  check just before the loop runs out of work is never resolved (`PingResolves`
  is stated for loops that run). `disconnect` with the reason that maps to code
  1006 never sends a close frame: the code is reserved and refused.

- `WebSocket::Session`: `m_isConnected` is set before the handshake and reset only by
  a failed connect, and the chain holds the session until a read fails. So the
  destructor of a session that once connected calls `close()` on a stream that has
  ended, which throws in a destructor and ends the process, unless a later `start()`
  failed to connect and so reset the flag. A failed handshake or resolution is not
  reported. A `SecureSession` may be destroyed under its handlers. `Socket::Session`
  never calls `m_closeCallback`, and its destructor ends the process when the socket
  was never connected, was closed before, or was reset. `m_buffer` is never consumed:
  each read callback gets everything since the session was made (`NothingLost` states
  what it gets).

- Legacy transport: a packet whose text is a multiple of `MAX_PACKET_SIZE_B` loses
  its last chunk (`transportpacket.cpp:84`; the exception in `JoinedIsWhole`). The
  server cannot be asked anything: no packet passes its token check. The task posted
  for a read captures `tmpBuffer = data_` (`connectionsession.cpp:32`), a pointer to
  the session's array and not a copy, although the comment there says "Buffer is only
  to avoid errors caused by threading": after two reads both tasks decode the second
  packet, so that one part of a request comes back twice and another never. A part that
  came back twice makes the client join as soon as the number of parts is right, and the
  part it displaced changes nothing any more (`JoinedIsWhole`, `JoinedOnce`).
  `write_some()` may write a part of a packet, and its exception for a peer that
  is gone ends the process. The client answers a callback's request with the bare
  payload when the response was not split.
- Legacy TCP: the destructor of the manager with live workers is undefined;
  `getMessage()` calls itself; workers are handed to `deleteLater()` of a thread that
  has ended.
- Legacy UDP: `isRunning()` asks for a state a UDP socket never has; `start()` after
  `stop()` uses a deleted socket.
- Legacy HTTP: `stop()` throws at `socket.cancel()`, because that socket is open only
  inside the accept handler, and so never comes to `ioc.stop()`: the accept handler
  then fails and starts the next accept for ever, and `start()` does not return. A
  `stop()` from a processor does end `start()`, by its exception. A connection before
  all processors are set ends `start()`, and if there was no other session the
  context is stopped for good: every later `start()` returns at once. Each restart
  after an exception adds an accept operation. There is no deadline: a silent peer
  keeps its session.

## 4. Proofs

All theorems hold for every value of the constants, from the named assumptions
beside the declarations only. Each inductive invariant was checked by TLC on the
instance of the component's run before it was proved, but for `JoinInv` of
`Transport_proofs`, which quantifies over all sequences of parts.

**UdpServer_proofs.** `TypeCorrect`, `NoTerminateHolds`, `OneBufferUserHolds`,
`NoThreadAtCloseHolds`, `ServingIsArmedHolds`, `RunsOnceHolds`.
None of the safety invariants is inductive by itself. `IndInv` adds:
`ThreadInv` (the member `ioThread` and the thread disagree only between the
thread's creation and its assignment), `FlagInv` (what each step of `start()` and
`stop()` knows of the flag and the context), `SelfStopInv` (where a processor's
`stop()` that missed `ioThread` can be), `SocketInv` (the argument that carries
the rest: nothing in `start()` looks at `ioThread`; it is `socket.open()`, which
throws on an open socket, that keeps `start()` from running over a live thread, so
the socket is bound while a thread exists unless a self-stop closed it) and
`ArmedInv` (how many receives can be outstanding at each step). The proof has one
step per action and one per conjunct under it. `RunsOnceHolds` is the step
simulation of `EventLoop` under `IndInv`: each action maps to `Run`,
`BeginHandler`, `EndHandler`, `Halt` or a stutter.

The same module proves two facts about `UdpExchange`. `ServerInExchange` is that
the composition implies the server's specification (every step of the client is a
step of the server, a datagram that arrives, or a stutter), so that all of the
above holds of the composition the run checks. `AstrayWasToldHolds` rests on
`AcceptedInv`: after a `setHost()` that returned true the endpoint is the host's.

**WsServer_proofs.** `TypeCorrect`, `RegistryExactHolds`, `ThreadIsOwnedHolds`, for
any set of peers. `IndInv` adds `ThreadInv` (`m_ioThread` is set exactly when there is
a thread, and `stop()` waits only for one whose service it has stopped) and
`RegistryInv` (a server that never had a thread has no connection).

**WsClient_proofs.** `TypeCorrect`, `ConnectedHandleLivesHolds`,
`OneValuePerPingHolds`, `PendingHasTimerHolds`, for any set of connection attempts
and any `MaxPings`. `OneValuePerPing` is not inductive: the argument is
`PromiseInv`, that a ping still in `pendingPings` has no value and that an id not
given out yet has left no trace, so that a timer handler queued before a cancel
finds nothing to resolve; it also covers the send error that looks up id 0 instead
of its own. `RoomInv` ties the registration to the bound checked before it.
`PingsUntouched` and `ResolveKeeps` are the two lemmas every action reduces to.
`PingsArePromisesHolds` is the step simulation of `Promises` under `IndInv` and
`GoneInv` (a destroyed client has no thread that could still resolve a ping): the
registration is `Make`, a resolution of a pending ping is `Fulfil`, the end of the
destructor is `Leave`, and a timer or pong that finds its ping resolved stutters.

**OldHttp_proofs.** `TypeCorrect`, `NeverDeafHolds` and `SessionsSurviveHolds`, for
any set of peers and any `MaxAccepts`. `NeverDeaf` needs `AcceptInv`: accepts
outstanding, accept errors queued and the accept in its handler stay together within
the bound that `Start` checks, and a handler is under way only inside `run()`.
`SessionsSurvive` needs `StopInv`: when Asio stops the context by itself no accept
handler is under way that could still make a session. `LeaveInv` is what every
exception leaves behind, and `FlagsInv` the types that the others leave open.

**HttpExchange_proofs.** About `HttpSession`, for any set of kinds and any
`MaxRequests`: `TypeCorrect`, `OneReaderHolds`, `OneLateRequestHolds`,
`DeadlineArmedHolds`, `AnswersMatchHolds`, `OnlyDeadlineClobbersHolds`. `OneReader`
rests on `SessionInv`, which says of the queue of handlers that it holds at most one
read and then none is outstanding, that nothing is outstanding on a closed socket, and
that a read waits for the socket only when `m_buffer` holds no further request.
`OneLateRequest` rests on `LateInv`, about clients that wait: `m_buffer` never holds
more than the one request, and once one was dispatched too late no read in the queue
brings another. `TypeInv` adds, with `KnownRequests`, that a request in the queue or
at a processor is one that was sent. `DeadlineArmed` (`ArmedStep`) is the safety part
of `EventuallyClosed`: `checkDeadline()` cancels the wait and starts it again in one
step, an expiry leaves the system only for the queue, and nothing but its own handler
takes it from there (`StaysQueued`). The other two are about clients that wait, and
need to know where the one request of such a client is: `InPlace` says that it is in
the stream, in the queue behind every write handler, at a processor, in the only
write, or answered. "Behind every write handler" is what makes `InFlight` false when
the answer is written. `InPlace` is an operator of plain values, so its lemmas
(`InPlaceTail`, `InPlaceRead`, `InPlaceDispatch`, ...) speak of numbers and sequences
only, and each `Orderly...` lemma applies one of them to an action. Once the deadline
has fired the socket is closed and `InPlace` is no longer needed: what was received
does not change.

About `HttpExchange`: `AnswerIsMineHolds`, `SessionInExchange`, `SyncAnswersMatch` and
`DeadlineInExchange` (the safety part of `CallReturns`: a call that blocks waits for a
server whose deadline is armed). `SessionInExchange` holds in both modes: the session
keeps its invariants (`IndInv`) under whatever the client does to the stream, which
may grow by a request, by one the parser refuses, or not at all (`ArrivesInv`), and
begin anew. As long as asynchronous requests have not overlapped on a connection, the
promises to a client that waits hold there too; `SyncAnswersMatch` adds that those of
`request()` never do. `ExchangeInv` is `IndInv`, `CallInv` (what the user's thread is
about to send) and, for `request()`, `SyncInv`:
`Orderly` as above, `StatusInv` (only the deadline answers 504, and it closes),
`UserInv` (a connection carries at most one request, because the peek before a
second one sees either nothing or the 504) and `UnreadInv` (what the user has not
read is the answer he waits for or a 504). `UserInv` and `UnreadInv` need each
other: a leftover response would let a second request be written on an open
connection, and a second request would let its answer be taken for the first's.

**WsSession_proofs.** `ReportsOnceHolds`, `NothingLostHolds` and
`NoHandlerOutlivesHolds`, for the three classes and any `MaxMessages`. `ReportInv`:
while the chain runs nothing has been reported since `start()`, as a handler that
reports ends the chain. `BufferInv`: the buffer holds all that came (the last chunk,
for `Socket::Session`), and the callback was given it unless its handler is queued.
`NoHandlerOutlives` is a conjunct as it stands: whoever holds the last reference
destroys the session in the step that ends the chain.

**Transport_proofs.** `OnlyEchoesHolds`, `JoinedOnceHolds` and `JoinedIsWholeHolds`,
for any sizes, any `MaxPacket`, `Threads` and `BufferUnits`. `WireInv`: every unit on
the stream or in the shared buffer belongs to a packet of `Packets`, without a token,
not the server's own, and with the number of parts its request has. `PartsInv`: a
request that was joined has at least as many parts as it was split into, so no later
part makes the numbers equal again.

`JoinedIsWhole` needs to know what splitting and sorting compute. `ToSubpackets` sums
the sizes of the chunks before each one, recursively; `Split` shows that its chunks
are those of a closed form (`Chunk`), by the first boundary at which they would differ
(`LeastNat`, from the well-foundedness of the naturals), and `CutProperties` where
they begin and end: only at a multiple of `MaxPacket` does the last one not end with
the text. Sorting is a permutation (`PlacesBijective`, `Sorted`), and parts whose
numbers all differ come to the places their numbers name (`PlacesNumbered`,
`SortedInOrder`), where `JoinsWhole` finds them adjacent. Conversely parts that are
joined into the whole cannot have a number twice: chunks begin and end at places that
grow with their numbers (`CutGrows`), so that only the next one goes on where another
ended (`JoinsAll`). `JoinInv` carries this over the run:
the first parts of a request that was joined, as many as it has, are those that were
joined (`Kept`); later ones are put behind them.

**Legacy_proofs.** About `LegacyTcp`: `TypeCorrect`, `SlotsAreOwnedHolds` and
`NoMoreAnswersThanPacketsHolds`, for any clients and connections, any finite `Ids` and
any number of packets. `TableInv`: the two maps hold the same slots, one for each
connection with a worker, and a worker that was told its id is found under it.
`CountInv`: a worker may have answered a packet of which it read half, never more.
`RestInv` types the rest, the two tables of a manager that is gone among them.

About `LegacyUdp`, for any number of slots: `ScansWholeVectorsHolds`,
`NoLostWakeupHolds` (the safety part of `StopReturns`) and `UdpTypeCorrect`.
`UdpInv`: until `stop()` neither `done` nor
`threadFinished` is set, so that the remover passes its wait only after the
constructor has filled the vectors; once `stop()` has set `done` and signalled, a
remover that sleeps is notified, because one that was not yet asleep at the signal
finds `done` set before it sleeps. `UdpRest` adds that a readyRead that is due has a
datagram, without which a server with no slots could take one that is not there.

**Only model-checked.** The liveness properties (`StopReturns`, `EventuallyClosed`,
`ComesToRest`, `CallReturns`, `AsyncResolves`, `PingResolves`,
`DestructorReturns`, `EndIsReported`, `ReleasedGoes`, `SessionEnds`, `SlotIsFreed`),
which need fairness and ENABLED. Every invariant and every refinement that a passing
run checks is a theorem.

## 5. Not modelled

- TLS: handshake and shutdown are blocking calls inside a handler; the plain
  stream has the same handlers. Message bodies, headers and logging.
- The files of `HTTP::Client::downloadFile()` and `uploadFile()`; their connection
  handling is that of `request()`. Users that mix synchronous and asynchronous calls.
- `HTTP::Server::start()`/`stop()`: `start()` is that of the legacy server with a
  fresh context; `stop()` destroys the io_context that the thread inside `start()`
  is running (`server.cpp:144`), after which nothing is defined.
- The legacy TCP client's stored response and what the packet processors compute;
  the registration of processors, ports and callbacks.
- The legacy UDP client and SQLite wrapper, which keep no state, and the forwarding
  headers.

## 6. Plan

Done: every component with a thread, a session or a protocol of its own, the
compositions of clients and servers, and the proofs of their safety invariants.
What is left:

1. The request bodies that `m_request` accumulates over a connection
   (`connectionsession.cpp:117`), with a property that compares what a processor is
   given with what was sent.
2. The TLS path of `ConnectionSession` and of `HTTP::Client`: the blocking handshake
   inside a handler, and its `shutdown()` that throws.
3. `WsServer` as an implementation of `EventLoop`, with the refinement proved as for
   `UdpServer`.
