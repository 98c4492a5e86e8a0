----------------------------- MODULE HttpSession -----------------------------
(***************************************************************************)
(* HTTP::ConnectionSession (src/HTTP/connectionsession.cpp) on a plain TCP *)
(* stream, with the dispatch HTTP::Server installs in it                   *)
(* (src/HTTP/server.cpp, handleConnections) and the client at the other    *)
(* end of the connection.                                                  *)
(*                                                                         *)
(* One thread runs the io_context.  An asynchronous operation is           *)
(* outstanding until the system completes it; its handler is then queued   *)
(* in ready, first in first out, and each handler is one action.  The      *)
(* handlers of cancelled waits do nothing and are left out.                *)
(***************************************************************************)
EXTENDS Naturals, Sequences, SequencesExt

CONSTANTS
    Kinds,         \* the kinds of request the client sends
    MaxRequests    \* bound: requests the client sends on the connection

\* What decides how a request is answered: its target and method have a
\* processor that answers while it is called ("served"), with a file that opens
\* ("file") or does not ("missingFile"), that keeps the answer function and
\* calls it later ("deferred"), or that throws ("throws"); there is no processor
\* for the target ("noTarget") or for its method ("noMethod"); the method is
\* none of the four the session knows ("otherVerb"); the parser refuses the
\* request ("malformed").
AllKinds == {"served", "file", "missingFile", "deferred", "throws", "noTarget",
             "noMethod", "otherVerb", "malformed"}

ASSUME KindsAssumption == Kinds \subseteq AllKinds
ASSUME MaxRequestsAssumption == MaxRequests \in Nat \ {0}

VARIABLES
    sent,         \* the requests the client has sent, by kind
    clientOpen,   \* the client has not closed its end
    received,     \* the responses that reached the client
    pipelined,    \* history: a request was sent before the one before was answered
    conn,         \* "accepted", "open" or "closed": the session's socket
    taken,        \* requests read from the stream into m_buffer
    nread,        \* requests parsed from m_buffer
    reading,      \* outstanding async_read operations
    writing,      \* outstanding async_write operations, oldest first
    waits,        \* outstanding waits of the deadline timer
    expired,      \* the timer's ten seconds, set at construction, are over
    ready,        \* completion handlers queued in the io_context
    deferred,     \* requests whose processor still holds the answer function
    alive,        \* io_context::run() has not been left by an exception
    fired,        \* history: the deadline handler ran
    clobbered,    \* history: m_response was replaced under a write that uses it
    late          \* history: requests dispatched after the socket was closed

client == <<sent, clientOpen, received, pipelined>>
vars == <<sent, clientOpen, received, pipelined, conn, taken, nread, reading, writing, waits,
          expired, ready, deferred, alive, fired, clobbered, late>>

\* A response and the request it answers; the deadline answers none: request 0.
Response(id, status) == [for |-> id, status |-> status]

ReadDone(result, id) == [op |-> "read", result |-> result, id |-> id]
WriteDone == [op |-> "write", result |-> "ok", id |-> 0]
Expiry == [op |-> "wait", result |-> "ok", id |-> 0]

Queued(op) == \E i \in DOMAIN ready : ready[i].op = op

\* Some write still refers to m_response.
InFlight == writing # <<>> \/ Queued("write")

\* The handler of the read that parses the next request.
NextRequest ==
    ReadDone(IF sent[nread + 1] = "malformed" THEN "bad" ELSE "data", nread + 1)

-----------------------------------------------------------------------------
(* The pieces the handlers are made of.                                      *)

\* Mutant: an error path sends its response and falls through to a second one.
SendResponseTwice(r) ==
    /\ clobbered' = TRUE
    /\ writing' = IF conn = "open" THEN writing \o <<r, r>> ELSE writing

\* sendResponse(): m_response is replaced whatever still uses it, and a write
\* of it is started.  On a closed socket the write fails, with no effect.
SendResponse(r) ==
    /\ clobbered' = (clobbered \/ InFlight)
    /\ writing' = IF conn = "open" THEN Append(writing, r) ELSE writing

\* Mutant: the wait is cancelled and not started again.
CheckDeadlineNoWait == waits' = 0

\* checkDeadline(): cancels the wait and starts one for the same instant.  An
\* expiry that is queued already is not cancelled.
CheckDeadline == waits' = 1

\* Mutant: two reads are started on the same buffer.
HandleRequestsTwice(q) ==
    /\ IF conn = "closed"
       THEN ready' = q \o <<ReadDone("bad", 0), ReadDone("bad", 0)>> /\ UNCHANGED reading
       ELSE ready' = q /\ reading' = reading + 2
    /\ UNCHANGED nread
    /\ CheckDeadline

\* handleRequests(): the next read and the deadline, after the queue q.  A request
\* that m_buffer holds already is parsed without the socket, closed or not, and
\* nothing aborts the handler of that read.  Without one, the read waits for the
\* socket; on a closed socket it fails at once.
HandleRequests(q) ==
    /\ \/ /\ nread < taken
          /\ nread' = nread + 1
          /\ ready' = Append(q, NextRequest)
          /\ UNCHANGED reading
       \/ /\ nread = taken
          /\ IF conn = "closed"
             THEN ready' = Append(q, ReadDone("bad", 0)) /\ UNCHANGED reading
             ELSE ready' = q /\ reading' = reading + 1
          /\ UNCHANGED nread
    /\ CheckDeadline

\* closeConnection(): cancels the wait; an open socket is shut down and closed,
\* which aborts the outstanding read and writes.  On a TCP socket that was
\* accepted shutdown() fails with not_connected or not at all, so the early
\* return for other errors is not taken.
CloseConnection(q) ==
    /\ waits' = 0
    /\ conn' = "closed"
    /\ writing' = <<>>
    /\ reading' = 0
    /\ ready' = q \o [i \in 1..reading |-> ReadDone("aborted", 0)]

\* The processor a request of this kind finds, as the status it answers with.
\* For a method the session does not know targetMethodType is never assigned:
\* the search may find any of the four methods or nothing.
Statuses(kind) ==
    CASE kind \in {"served", "file"} -> {200}
      [] kind = "missingFile" -> {400}
      [] kind = "noTarget" -> {501}
      [] kind = "noMethod" -> {404}
      [] kind = "otherVerb" -> {405, 501, 404, 200}
      [] OTHER -> {}

-----------------------------------------------------------------------------
(* The handlers, on the io thread.                                           *)

Runs(op) == alive /\ ready # <<>> /\ Head(ready).op = op

\* The accept handler builds the session and calls handleRequests().
Accept ==
    /\ alive
    /\ conn = "accepted"
    /\ conn' = "open"
    /\ HandleRequests(ready)
    /\ UNCHANGED <<client, taken, writing, expired, deferred, alive, fired,
                   clobbered, late>>

\* End of stream, reset and abort: the handler returns, the socket stays.
ReadEnds ==
    /\ Runs("read")
    /\ Head(ready).result \in {"end", "aborted"}
    /\ ready' = Tail(ready)
    /\ UNCHANGED <<client, conn, taken, nread, reading, writing, waits, expired,
                   deferred, alive, fired, clobbered, late>>

\* Mutant: the handler of a failed read closes and goes on to handleRequests().
ReadFailsGoesOn ==
    /\ Runs("read")
    /\ Head(ready).result = "bad"
    /\ conn' = "closed"
    /\ writing' = <<>>
    /\ ready' = Append(Tail(ready), ReadDone("bad", 0))
    /\ CheckDeadline
    /\ UNCHANGED <<client, taken, nread, reading, expired, deferred, alive, fired,
                   clobbered, late>>

\* Mutant: nor does it return: what m_request holds is dispatched, and the next awaited.
ReadFailsDispatches ==
    /\ Runs("read")
    /\ Head(ready).result = "bad"
    /\ conn' = "closed"
    /\ writing' = <<>>
    /\ ready' = Append(Tail(ready), ReadDone("bad", 0))
    /\ late' = late + 1
    /\ CheckDeadline
    /\ UNCHANGED <<client, taken, nread, reading, expired, deferred, alive, fired, clobbered>>

\* Any other error closes the connection.
ReadFails ==
    /\ Runs("read")
    /\ Head(ready).result = "bad"
    /\ CloseConnection(Tail(ready))
    /\ UNCHANGED <<client, taken, nread, expired, deferred, alive, fired, clobbered,
                   late>>

\* A request is dispatched and the next one awaited.
ReadRequest ==
    /\ Runs("read")
    /\ Head(ready).result = "data"
    /\ LET id == Head(ready).id
       IN \/ /\ \E status \in Statuses(sent[id]) : SendResponse(Response(id, status))
             /\ HandleRequests(Tail(ready))
             /\ UNCHANGED <<deferred, alive>>
          \/ /\ sent[id] = "deferred"
             /\ deferred' = deferred \cup {id}
             /\ HandleRequests(Tail(ready))
             /\ UNCHANGED <<writing, clobbered, alive>>
          \/ /\ sent[id] = "throws"
             /\ alive' = FALSE
             /\ ready' = Tail(ready)
             /\ UNCHANGED <<writing, clobbered, deferred, nread, reading, waits>>
    /\ late' = late + IF conn = "closed" THEN 1 ELSE 0
    /\ UNCHANGED <<client, conn, taken, expired, fired>>

\* The write handler only logs; its operation no longer uses m_response.
WriteHandled ==
    /\ Runs("write")
    /\ ready' = Tail(ready)
    /\ UNCHANGED <<client, conn, taken, nread, reading, writing, waits, expired,
                   deferred, alive, fired, clobbered, late>>

\* The deadline handler sends a 504 and closes.  The write is tried at once
\* when no other waits for the socket, so the response may reach the client.
Deadline ==
    /\ Runs("wait")
    /\ fired' = TRUE
    /\ clobbered' = (clobbered \/ InFlight)
    /\ \/ UNCHANGED received
       \/ /\ conn = "open" /\ clientOpen /\ writing = <<>>
          /\ received' = Append(received, Response(0, 504))
    /\ CloseConnection(Tail(ready))
    /\ UNCHANGED <<sent, clientOpen, pipelined, taken, nread, expired, deferred, alive, late>>

\* A processor that kept the answer function calls it, between two handlers.
AnswerLater(id) ==
    /\ alive
    /\ deferred' = deferred \ {id}
    /\ SendResponse(Response(id, 200))
    /\ UNCHANGED <<client, conn, taken, nread, reading, waits, expired, ready, alive,
                   fired, late>>

Handler == Accept \/ ReadEnds \/ ReadFails \/ ReadRequest \/ WriteHandled \/ Deadline

-----------------------------------------------------------------------------
(* The client, the network and the clock.                                    *)

ClientSends(kind) ==
    /\ clientOpen
    /\ conn # "closed"
    /\ Len(sent) < MaxRequests
    /\ pipelined' = (pipelined \/ Len(received) # Len(sent))
    /\ sent' = Append(sent, kind)
    /\ UNCHANGED <<clientOpen, received, conn, taken, nread, reading, writing, waits,
                   expired, ready, deferred, alive, fired, clobbered, late>>

ClientCloses ==
    /\ clientOpen
    /\ clientOpen' = FALSE
    /\ UNCHANGED <<sent, received, pipelined, conn, taken, nread, reading, writing, waits,
                   expired, ready, deferred, alive, fired, clobbered, late>>

\* m_buffer takes what has come, the requests behind the first one included.
ReadCompletes ==
    /\ reading > 0
    /\ reading' = reading - 1
    /\ \/ /\ taken < Len(sent)
          /\ taken' \in (taken + 1)..Len(sent)
          /\ nread' = nread + 1
          /\ ready' = Append(ready, NextRequest)
       \/ /\ ~clientOpen
          /\ ready' = Append(ready, ReadDone("end", 0))
          /\ UNCHANGED <<taken, nread>>
    /\ UNCHANGED <<client, conn, writing, waits, expired, deferred, alive, fired,
                   clobbered, late>>

WriteCompletes ==
    /\ writing # <<>>
    /\ received' = IF clientOpen THEN Append(received, Head(writing)) ELSE received
    /\ writing' = Tail(writing)
    /\ ready' = Append(ready, WriteDone)
    /\ UNCHANGED <<sent, clientOpen, pipelined, conn, taken, nread, reading, waits, expired,
                   deferred, alive, fired, clobbered, late>>

TimeExpires ==
    /\ conn # "accepted"
    /\ ~expired
    /\ expired' = TRUE
    /\ UNCHANGED <<client, conn, taken, nread, reading, writing, waits, ready, deferred,
                   alive, fired, clobbered, late>>

WaitCompletes ==
    /\ expired
    /\ waits > 0
    /\ waits' = waits - 1
    /\ ready' = Append(ready, Expiry)
    /\ UNCHANGED <<client, conn, taken, nread, reading, writing, expired, deferred,
                   alive, fired, clobbered, late>>

System == ReadCompletes \/ WriteCompletes \/ TimeExpires \/ WaitCompletes

-----------------------------------------------------------------------------
\* A connection and its session, before anything happened on it.
Fresh(state) ==
    /\ sent = <<>>
    /\ clientOpen = TRUE
    /\ received = <<>>
    /\ pipelined = FALSE
    /\ conn = state
    /\ taken = 0
    /\ nread = 0
    /\ reading = 0
    /\ writing = <<>>
    /\ waits = 0
    /\ expired = FALSE
    /\ ready = <<>>
    /\ deferred = {}
    /\ alive = TRUE
    /\ fired = FALSE
    /\ clobbered = FALSE
    /\ late = 0

Init == Fresh("accepted")

\* Nothing is left to run on the connection, or the server's loop has ended.
Ended ==
    /\ \/ ~alive
       \/ conn = "closed" /\ ready = <<>> /\ waits = 0
    /\ UNCHANGED vars

Next ==
    \/ Handler
    \/ \E id \in deferred : AnswerLater(id)
    \/ \E kind \in Kinds : ClientSends(kind)
    \/ ClientCloses
    \/ System
    \/ Ended

Spec == Init /\ [][Next]_vars

\* The io thread keeps running handlers, time passes, and an expired timer
\* completes its wait.  Neither the client nor a processor is obliged to act.
Fairness ==
    /\ WF_vars(Handler)
    /\ WF_vars(TimeExpires)
    /\ WF_vars(WaitCompletes)

FairSpec == Spec /\ Fairness

-----------------------------------------------------------------------------
(* Properties.                                                               *)

Responses == [for : Nat, status : Nat]
Events == [op : {"read", "write", "wait"},
           result : {"data", "end", "bad", "aborted", "ok"}, id : Nat]

\* Every variable keeps its type.
Flags == {clientOpen, pipelined, expired, alive, fired, clobbered} \subseteq BOOLEAN
Places ==
    /\ sent \in Seq(Kinds) /\ taken \in 0 .. Len(sent) /\ nread \in 0 .. taken
    /\ received \in Seq(Responses) /\ writing \in Seq(Responses)
    /\ conn \in {"accepted", "open", "closed"}
    /\ reading \in {0, 1} /\ waits \in {0, 1}
    /\ ready \in Seq(Events)
    /\ deferred \subseteq DOMAIN sent
    /\ late \in Nat
TypeOK == Flags /\ Places

\* m_buffer and m_request have one user: never two reads, outstanding or queued
\* for handling, so a handler never looks at a request that is being read.
OneReader ==
    /\ reading <= 1
    /\ \A i, j \in DOMAIN ready :
        ready[i].op = "read" /\ ready[j].op = "read" => i = j /\ reading = 0

\* A client that has waited for each answer gets them in order: the i-th response is
\* the answer to its i-th request or the 504 of the deadline, which is the last.
AnswersMatch ==
    ~pipelined => \A i \in DOMAIN received :
        \/ received[i].for = i
        \/ received[i].status = 504 /\ i = Len(received) /\ conn = "closed"

\* For such a client m_response is replaced under a write in flight only by the
\* deadline's 504.
OnlyDeadlineClobbers ==
    ~pipelined /\ clobbered => fired

\* Of a client that waits for each answer, at most one request reaches a processor
\* after the deadline or an error closed the connection, although every handler goes
\* on to the next read: none is dispatched twice, and none that came later.
OneLateRequest == ~pipelined => late <= 1

\* A connection that is open has its deadline ahead of it: the wait of the timer is
\* outstanding, or its handler is queued.  No order of reads, answers and new waits
\* for the same instant leaves a silent client with a connection that nothing closes.
DeadlineArmed == conn = "open" /\ alive => waits = 1 \/ Queued("wait")

\* Every connection is closed in the end, silent and half-closed clients and
\* processors that never answer included, as long as no processor threw.
EventuallyClosed == <>(conn = "closed" \/ ~alive)

\* When it is closed, the session comes to rest: no handler starts another
\* operation for ever.
ComesToRest == conn = "closed" ~> (ready = <<>> /\ waits = 0 /\ reading = 0) \/ ~alive

=============================================================================
