----------------------------- MODULE HttpExchange -----------------------------
(***************************************************************************)
(* HTTP::Client (src/HTTP/client.cpp) on a plain TCP stream, composed with *)
(* HTTP::ConnectionSession at the other end of its connection.             *)
(*                                                                         *)
(* The user's thread makes one call at a time.  The client's own           *)
(* io_context runs the completion handlers of requestAsync() on a thread   *)
(* of its own.  Before each request isConnected() peeks at the socket,     *)
(* and blocks until there is a byte to see or the connection has ended.    *)
(* A connection that has ended is replaced by a new one, which gets a new  *)
(* session.                                                                *)
(***************************************************************************)
EXTENDS HttpSession

VARIABLES
    mode,       \* what this client's user calls: request() or requestAsync()
    user,       \* where the user's thread is
    call,       \* the call in progress: "none", "destroy", the kind of the request,
                \* or "lost" once the request went nowhere
    linked,     \* the client's socket was connected and not closed since
    consumed,   \* responses taken from the socket
    chain,      \* asynchronous requests in progress, as their writes were started or ended
    torn,       \* the bytes of a request were cut off or mixed with another's
    outcome     \* what request() returned last, and the request it was asked

local == <<mode, user, call, linked, consumed, chain, torn, outcome>>
session == <<sent, clientOpen, received, pipelined, conn, taken, nread, reading, writing,
             waits, expired, ready, deferred, alive, fired, clobbered, late>>
allVars == <<session, local>>

\* What a request() that failed returns: an empty packet or an exception.
NoAnswer == Response(0, 0)

Unread == Len(received) - consumed

\* An asynchronous request: its number on the connection, 0 when it is not there, and
\* its stage: the write is outstanding ("writing") or its handler is queued ("sent",
\* "unsent"), the read is outstanding ("reading") or its handler is queued with an
\* error ("cut"), or that handler has called back once and will again ("failed").
Pending(id, stage) == [id |-> id, stage |-> stage]

Writing == {i \in DOMAIN chain : chain[i].stage = "writing"}

\* The operation of an asynchronous request is cancelled.
Cut(p) ==
    CASE p.stage = "reading" -> Pending(p.id, "cut")
      [] p.stage = "writing" -> Pending(0, "unsent")
      [] OTHER -> p

\* What the server gets of a request that was written: the request, or in a stream
\* that is torn perhaps nothing that it takes for a request, or for a good one.
Arrives(kind) ==
    /\ \/ sent' = Append(sent, kind)
       \/ torn /\ sent' \in {sent, Append(sent, "malformed")}
    /\ pipelined' = (pipelined \/ Len(received) # Len(sent))

\* The asynchronous request that was just written.
Written == Pending(IF sent' = sent THEN 0 ELSE Len(sent'), "sent")

Return(got) ==
    /\ user' = "idle"
    /\ call' = "none"
    /\ outcome' = [asked |-> IF call = "lost" THEN 0 ELSE Len(sent), got |-> got]

-----------------------------------------------------------------------------
(* The user's thread.                                                        *)

\* request(), requestAsync(), downloadFile() and uploadFile() build the request
\* and call connectToHost(), which asks isConnected() first.
Call(kind) ==
    /\ user = "idle"
    /\ Len(sent) + Cardinality(Writing) < MaxRequests \/ conn = "closed"
    /\ Len(chain) < MaxRequests
    /\ call' = kind
    /\ user' = IF linked THEN "peek" ELSE "connect"
    /\ UNCHANGED <<session, mode, linked, consumed, chain, torn, outcome>>

\* The receive() of isConnected(): a byte to see means connected, the end of the
\* connection means not connected, and without either the call blocks.
Peek ==
    /\ user = "peek"
    /\ \/ /\ Unread > 0
          /\ user' = IF call = "destroy" THEN "close" ELSE "write"
       \/ /\ Unread = 0
          /\ conn = "closed"
          /\ user' = IF call = "destroy" THEN "close" ELSE "connect"
    /\ UNCHANGED <<session, mode, call, linked, consumed, chain, torn, outcome>>

\* The old socket is closed, which aborts the operations on it; the server's host
\* accepts a new connection.  A write handler that is still queued will read from it.
NewConnection ==
    /\ linked' = TRUE
    /\ consumed' = 0
    /\ chain' = [i \in DOMAIN chain |-> Cut([chain[i] EXCEPT !.id = 0])]
    /\ torn' = FALSE
    /\ conn' = "accepted"
    /\ clientOpen' = TRUE
    /\ sent' = <<>> /\ received' = <<>> /\ writing' = <<>> /\ ready' = <<>>
    /\ taken' = 0 /\ nread' = 0 /\ reading' = 0 /\ waits' = 0 /\ late' = 0
    /\ deferred' = {}
    /\ pipelined' = FALSE /\ expired' = FALSE /\ fired' = FALSE /\ clobbered' = FALSE
    /\ UNCHANGED <<mode, alive, call, outcome>>

\* Mutant: the new connection is checked with isConnected() before it is used.
ConnectRechecks == user = "connect" /\ user' = "peek" /\ NewConnection
\* connectToHost() goes straight to the write.  The listening socket takes connections
\* even when the loop that would handle them has ended.
Connect == user = "connect" /\ user' = "write" /\ NewConnection

\* The host does not resolve, or it does not answer and the old socket is gone.
\* request() returns nothing or throws; requestAsync() never calls back.
ConnectFails ==
    /\ user = "connect"
    /\ \/ UNCHANGED <<linked, chain>>
       \/ linked' = FALSE /\ chain' = [i \in DOMAIN chain |-> Cut(chain[i])]
    /\ \/ mode = "sync" /\ Return(NoAnswer)
       \/ mode = "async" /\ user' = "idle" /\ call' = "none" /\ UNCHANGED outcome
    /\ UNCHANGED <<session, mode, consumed, torn>>

\* request() writes.  The server may have closed the connection since the peek, or
\* before it with its last response still unread: the write then goes nowhere or fails.
WriteSync ==
    /\ user = "write" /\ mode = "sync"
    /\ \/ /\ conn # "closed"
          /\ Arrives(call)
          /\ user' = "read"
          /\ UNCHANGED <<call, outcome>>
       \/ /\ conn = "closed"
          /\ user' = "read" /\ call' = "lost"
          /\ UNCHANGED <<sent, pipelined, outcome>>
       \/ /\ conn = "closed"
          /\ Return(NoAnswer)
          /\ UNCHANGED <<sent, pipelined>>
    /\ UNCHANGED <<chain, torn>>

\* requestAsync() starts the write and returns.  A request that fits into the socket's
\* buffer is written at once, unless another write is outstanding; otherwise the
\* write is outstanding, and mixes its pieces with those of another one.
WriteAsync ==
    /\ user = "write" /\ mode = "async"
    /\ user' = "idle" /\ call' = "none"
    /\ \/ /\ conn # "closed" /\ Writing = {}
          /\ Arrives(call)
          /\ chain' = Append(chain, Written)
          /\ UNCHANGED torn
       \/ /\ conn # "closed"
          /\ chain' = Append(chain, Pending(0, "writing"))
          /\ torn' = (torn \/ Writing # {})
          /\ UNCHANGED <<sent, pipelined>>
       \/ /\ conn = "closed"
          /\ \E stage \in {"sent", "unsent"} : chain' = Append(chain, Pending(0, stage))
          /\ UNCHANGED <<sent, pipelined, torn>>
    /\ UNCHANGED outcome

Write ==
    /\ WriteSync \/ WriteAsync
    /\ UNCHANGED <<mode, clientOpen, received, conn, taken, nread, reading, writing,
                   waits, expired, ready, deferred, alive, fired, clobbered, late,
                   linked, consumed>>

\* The blocking read of request(): the next response, and what came with it in
\* the same segment is dropped with the local buffer.
Read ==
    /\ user = "read"
    /\ Unread > 0
    /\ consumed' \in (consumed + 1)..Len(received)
    /\ Return(received[consumed + 1])
    /\ UNCHANGED <<session, mode, linked, chain, torn>>

\* Mutant: the read gives up while the answer is still to come.
ReadGivesUp ==
    /\ user = "read"
    /\ Return(NoAnswer)
    /\ UNCHANGED <<session, mode, linked, consumed, chain, torn>>

\* The connection ended: an empty packet or an exception.  A reset takes along
\* what was not read yet.
ReadError ==
    /\ user = "read"
    /\ conn = "closed"
    /\ consumed' = Len(received)
    /\ Return(NoAnswer)
    /\ UNCHANGED <<session, mode, linked, chain, torn>>

\* interruptRequestProcessing() cancels the operations that are outstanding.  A write
\* that is cancelled leaves the first part of its request in the stream.
Interrupt ==
    /\ user = "idle"
    /\ linked
    /\ chain' = [i \in DOMAIN chain |-> Cut(chain[i])]
    /\ torn' = (torn \/ Writing # {})
    /\ UNCHANGED <<session, mode, user, call, linked, consumed, outcome>>

\* ~Client calls disconnectFromHost(), which asks isConnected() too.
Destroy ==
    /\ user = "idle"
    /\ call' = "destroy"
    /\ user' = IF linked THEN "peek" ELSE "close"
    /\ UNCHANGED <<session, mode, linked, consumed, chain, torn, outcome>>

\* The io thread is inside a read handler, between its two calls of the callback.
Calling == \E i \in DOMAIN chain : chain[i].stage = "failed"

\* The socket is closed, here or with the members; ~Impl stops the context and
\* joins its thread once the handler that runs is done, so other requests still in
\* progress are never called back.
Close ==
    /\ user = "close"
    /\ ~Calling
    /\ user' = "gone"
    /\ clientOpen' = FALSE
    /\ linked' = FALSE
    /\ chain' = <<>>
    /\ UNCHANGED <<mode, sent, received, pipelined, conn, taken, nread, reading, writing,
                   waits, expired, ready, deferred, alive, fired, clobbered, late, call,
                   consumed, torn, outcome>>

UserStep == Peek \/ Connect \/ ConnectFails \/ Write \/ Read \/ ReadError \/ Close

-----------------------------------------------------------------------------
(* The handlers of requestAsync(), on the client's io thread.                *)

First(i, stages) ==
    chain[i].stage \in stages /\ \A j \in 1..(i - 1) : chain[j].stage \notin stages

\* The last call of the request's callback.  Which answer it is given decides nothing
\* here and is not recorded.
CallBack(i) == chain' = RemoveAt(chain, i)

\* The system's part of an outstanding write: the server's end takes all of it, or
\* the connection has ended.  Its handler is queued behind those that are.  The kind
\* of the request matters to no one before, and is chosen here.
WriteEnds(i) ==
    /\ i \in Writing
    /\ \/ /\ conn # "closed"
          /\ \E kind \in Kinds : Arrives(kind)
          /\ chain' = Append(RemoveAt(chain, i), Written)
       \/ /\ conn = "closed"
          /\ chain' = Append(RemoveAt(chain, i), Pending(0, "unsent"))
          /\ UNCHANGED <<sent, pipelined>>
    /\ UNCHANGED <<mode, clientOpen, received, conn, taken, nread, reading, writing,
                   waits, expired, ready, deferred, alive, fired, clobbered, late,
                   user, call, linked, consumed, torn, outcome>>

\* The write handler starts the read; after a failed write it calls back with
\* std::nullopt and returns.
AsyncWritten(i) ==
    /\ \/ /\ First(i, {"sent"})
          /\ chain' = [chain EXCEPT ![i].stage = "reading"]
       \/ /\ chain[i].stage = "unsent"
          /\ CallBack(i)
    /\ UNCHANGED <<session, mode, user, call, linked, consumed, torn, outcome>>

\* The read handler, for the read that has waited longest: the callback gets the
\* response, and what came with it in the same segment is dropped.
AsyncRead(i) ==
    /\ First(i, {"reading"})
    /\ Unread > 0
    /\ consumed' \in (consumed + 1)..Len(received)
    /\ CallBack(i)
    /\ UNCHANGED <<session, mode, user, call, linked, torn, outcome>>

\* The handler of a read that failed calls back with std::nullopt and goes on.
CallBackFirst(i) ==
    /\ chain' = [chain EXCEPT ![i].stage = "failed"]
    /\ UNCHANGED <<session, mode, user, call, linked, consumed, torn, outcome>>

\* Mutant: only a cancelled read is noticed, not the end of the connection.
AsyncReadFailsCutOnly(i) == chain[i].stage = "cut" /\ CallBackFirst(i)

\* The read was cancelled or the connection ended.
AsyncReadFails(i) ==
    /\ \/ chain[i].stage = "cut"
       \/ First(i, {"reading"}) /\ Unread = 0 /\ conn = "closed"
    /\ CallBackFirst(i)

\* The same handler calls back again, with an empty response, whose status is the
\* default 200.
AsyncCallsAgain(i) ==
    /\ chain[i].stage = "failed"
    /\ CallBack(i)
    /\ UNCHANGED <<session, mode, user, call, linked, consumed, torn, outcome>>

AsyncHandler(i) ==
    /\ i \in DOMAIN chain
    /\ \/ ~Calling /\ (AsyncWritten(i) \/ AsyncRead(i) \/ AsyncReadFails(i))
       \/ AsyncCallsAgain(i)

-----------------------------------------------------------------------------
(* The server's end, as HttpSession has it.                                  *)

Answer == \E id \in deferred : AnswerLater(id)

ServerStep == (Handler \/ Answer \/ System) /\ UNCHANGED local

\* There is no connection yet.
ExchangeInit ==
    /\ Fresh("closed")
    /\ mode \in {"sync", "async"}
    /\ user = "idle"
    /\ call = "none"
    /\ linked = FALSE
    /\ consumed = 0
    /\ chain = <<>>
    /\ torn = FALSE
    /\ outcome = [asked |-> 0, got |-> NoAnswer]

\* The client is gone, or may wait for ever for a server whose loop has ended.
ExchangeEnded == (user = "gone" \/ ~alive) /\ UNCHANGED allVars

ExchangeNext ==
    \/ \E kind \in Kinds : Call(kind)
    \/ UserStep
    \/ Interrupt
    \/ Destroy
    \/ \E i \in 1..MaxRequests : AsyncHandler(i) \/ WriteEnds(i)
    \/ ServerStep
    \/ ExchangeEnded

ExchangeSpec == ExchangeInit /\ [][ExchangeNext]_allVars

\* Both threads of the client run, and the server's as in HttpSession; the io thread
\* runs its handlers in turn, so that none is passed over for ever, although one that
\* is calling back keeps the others waiting.  A write ends once the connection has, or
\* the server reads what it is sent.  The user calls when he likes, and an answer that
\* a processor kept may never come.
ExchangeFairness ==
    /\ WF_allVars(UserStep)
    /\ \A i \in 1..MaxRequests : SF_allVars(AsyncHandler(i))
    /\ \A i \in 1..MaxRequests : WF_allVars((alive \/ conn = "closed") /\ WriteEnds(i))
    /\ WF_allVars(Handler /\ UNCHANGED local)
    /\ WF_allVars(TimeExpires /\ UNCHANGED local)
    /\ WF_allVars(WaitCompletes /\ UNCHANGED local)

ExchangeFairSpec == ExchangeSpec /\ ExchangeFairness

-----------------------------------------------------------------------------
(* Properties.                                                               *)

\* The client that only calls request() never gets another request's answer,
\* though it reuses connections, drops what it does not parse and may find the
\* deadline's 504 left over from before: a response is the answer to the request
\* or a 504.
AnswerIsMine ==
    mode = "sync" /\ outcome.got # NoAnswer =>
        outcome.got.for = outcome.asked \/ outcome.got.status = 504

\* Every call, the destructor too, returns: isConnected() and the reads block
\* until the server speaks or closes, and the server's deadline makes it do so, unless
\* a processor has thrown, which ends the server's loop with its connections open.
CallReturns == user \notin {"idle", "gone"} ~> user \in {"idle", "gone"} \/ ~alive

\* The callback of every asynchronous request that was sent is called, whichever way
\* its connection ends and whoever cancels, unless the client is destroyed or connects
\* anew, or a processor has thrown.
AsyncResolves ==
    \A id \in 1..MaxRequests :
        (\E i \in DOMAIN chain : chain[i].id = id)
            ~> (\A i \in DOMAIN chain : chain[i].id # id) \/ ~alive
=============================================================================
