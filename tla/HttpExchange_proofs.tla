------------------------- MODULE HttpExchange_proofs -------------------------
(***************************************************************************)
(* HTTP::ConnectionSession by itself and composed with HTTP::Client, for   *)
(* any kinds of requests and any number of them.                           *)
(***************************************************************************)
EXTENDS HttpExchange, SequenceTheorems, TLAPS

NoOp(q, op) == \A i \in DOMAIN q : q[i].op # op
NoData(q) == \A i \in DOMAIN q : q[i].result # "data"

\* One read at a time, which uses the socket only when m_buffer holds no request; on a
\* socket that is closed no operation is outstanding, and the deadline handler has
\* closed it.
SessionInv ==
    /\ ready \in Seq(Events)
    /\ conn \in {"accepted", "open", "closed"}
    /\ sent \in Seq(AllKinds) /\ late \in Nat
    /\ reading \in {0, 1} /\ nread \in Nat
    /\ taken \in Nat /\ nread <= taken /\ (reading = 1 => taken = nread)
    /\ \A i \in DOMAIN ready : ready[i].result = "data" => ready[i].op = "read"
    /\ ~NoOp(ready, "read") => reading = 0
    /\ \A i, j \in DOMAIN ready : ready[i].op = "read" /\ ready[j].op = "read" => i = j
    /\ conn = "accepted" => reading = 0 /\ NoOp(ready, "read")
    /\ conn = "closed" => reading = 0 /\ writing = <<>>
    /\ fired => conn = "closed"

Numbers ==
    /\ sent \in Seq(AllKinds) /\ nread \in 0 .. Len(sent)
    /\ received \in Seq(Responses) /\ writing \in Seq(Responses)
    /\ deferred \subseteq Nat

\* Where the one request of a client that waits can be: in the stream, in the
\* queue behind every write handler, at a processor, in the write, or answered.
\* s requests were sent, n read and r answered; d are at a processor, w in
\* writes, and q is the queue of handlers.
InPlace(s, r, n, d, w, q) ==
    /\ s <= r + 1 /\ r <= s
    /\ r = s => n = s /\ NoData(q) /\ d = {} /\ w = <<>>
    /\ n < s => n + 1 = s /\ NoData(q) /\ d = {} /\ w = <<>>
    /\ \A i \in DOMAIN q : q[i].result = "data" =>
            /\ q[i].id = s /\ d = {} /\ w = <<>>
            /\ \A j \in DOMAIN q : j >= i => q[j].op # "write"
    /\ d # {} => d = {s} /\ w = <<>> /\ NoOp(q, "write")
    /\ w # <<>> => Len(w) = 1 /\ w[1].for = s /\ NoOp(q, "write")

OneRequest ==
    InPlace(Len(sent), Len(received), nread, deferred, writing, ready) /\ ~clobbered

\* The responses to a client that waits, before and after the deadline.
Matched ==
    \A i \in DOMAIN received :
        \/ received[i].for = i
        \/ received[i].status = 504 /\ i = Len(received) /\ conn = "closed"

Orderly == Numbers /\ Matched /\ (~fired => OneRequest)

\* m_buffer never holds more than the request of a client that waits, and when that
\* one is dispatched on a closed socket there is no other.
LateInv ==
    /\ taken = nread
    /\ late \in {0, 1}
    /\ late = 1 => conn = "closed" /\ NoData(ready)

IndInv == SessionInv /\ (~pipelined => Orderly /\ LateInv)

-----------------------------------------------------------------------------
\* Only the deadline answers with 504, and it closes the connection.
StatusInv ==
    /\ \A i \in DOMAIN writing : writing[i].status # 504
    /\ \A i \in DOMAIN received : received[i].status = 504 => conn = "closed"

\* Where the user of request() is with the one request of a connection.
UserInv ==
    /\ chain = <<>> /\ ~torn /\ ~pipelined
    /\ Len(sent) <= 1
    /\ user \in {"idle", "peek", "connect", "write", "read", "close", "gone"}
    /\ user = "write" => sent = <<>> \/ conn = "closed"
    /\ conn # "closed" /\ Len(sent) = 1 /\ Len(received) = 0 => user = "read" /\ call # "lost"

\* What the user has not read yet is the answer that is waited for, or a 504.
UnreadInv ==
    /\ consumed \in Nat /\ consumed <= Len(received)
    /\ \A i \in DOMAIN received : i > consumed =>
        \/ received[i].status = 504
        \/ received[i].for = 1 /\ user = "read" /\ call # "lost" /\ Len(sent) = 1

SyncInv == StatusInv /\ UserInv /\ UnreadInv /\ AnswerIsMine

\* What the user's thread is about to send, in either mode.
CallInv ==
    /\ user = "peek" => call \in Kinds \cup {"destroy"}
    /\ user \in {"connect", "write"} => call \in Kinds

\* request() sends one request on a connection, so that its client waits for
\* each answer; requestAsync() may send more.
ExchangeInv == IndInv /\ CallInv /\ (mode = "sync" => SyncInv)

-----------------------------------------------------------------------------
(* The queue of handlers.                                                    *)

\* What is left of a queue when its first handler runs.
LEMMA Popped ==
    ASSUME NEW q \in Seq(Events), q # <<>>
    PROVE  /\ Tail(q) \in Seq(Events)
           /\ Head(q) = q[1] /\ 1 \in DOMAIN q /\ Head(q) \in Events
           /\ \A i \in DOMAIN Tail(q) : i \in Nat \ {0} /\ i + 1 \in DOMAIN q /\ Tail(q)[i] = q[i + 1]
  <1>1. /\ Tail(q) \in Seq(Events) /\ Len(Tail(q)) = Len(q) - 1 /\ Head(q) \in Events
        /\ \A i \in 1 .. Len(Tail(q)) : Tail(q)[i] = q[i + 1]
    BY HeadTailProperties
  <1>2. DOMAIN q = 1 .. Len(q) /\ DOMAIN Tail(q) = 1 .. Len(Tail(q)) /\ Len(q) \in Nat \ {0}
    BY <1>1, LenProperties, EmptySeq
  <1> QED  BY <1>1, <1>2

\* A handler is queued behind the others.
LEMMA Pushed ==
    ASSUME NEW q \in Seq(Events), NEW e \in Events
    PROVE  /\ Append(q, e) \in Seq(Events)
           /\ \A i \in DOMAIN Append(q, e) :
                \/ i \in DOMAIN q /\ i < Len(q) + 1 /\ Append(q, e)[i] = q[i]
                \/ i = Len(q) + 1 /\ Append(q, e)[i] = e
           /\ \A i \in DOMAIN q : i \in DOMAIN Append(q, e)
           /\ Len(q) + 1 \in DOMAIN Append(q, e) /\ Len(q) \in Nat
  <1>1. /\ Append(q, e) \in Seq(Events) /\ Len(Append(q, e)) = Len(q) + 1
        /\ \A i \in 1 .. Len(q) : Append(q, e)[i] = q[i]
        /\ Append(q, e)[Len(q) + 1] = e
    BY AppendProperties
  <1>2. /\ DOMAIN q = 1 .. Len(q) /\ DOMAIN Append(q, e) = 1 .. Len(Append(q, e))
        /\ Len(q) \in Nat
    BY <1>1, LenProperties
  <1> QED  BY <1>1, <1>2

\* The events that the model queues.
LEMMA EventTypes ==
    /\ \A r \in {"data", "end", "bad", "aborted"}, n \in Nat : ReadDone(r, n) \in Events
    /\ WriteDone \in Events /\ Expiry \in Events
  BY DEF ReadDone, WriteDone, Expiry, Events

\* closeConnection() queues the handler of the aborted read, if there is one.
LEMMA Aborted ==
    ASSUME NEW q \in Seq(Events), NEW n \in {0, 1}, NEW e \in Events
    PROVE  q \o [i \in 1 .. n |-> e] = IF n = 0 THEN q ELSE Append(q, e)
  <1>1. CASE n = 0
    <2>1. [i \in 1 .. n |-> e] = <<>>
      BY <1>1
    <2> QED  BY <1>1, <2>1, ConcatEmptySeq
  <1>2. CASE n = 1
    <2>1. [i \in 1 .. n |-> e] = <<e>>
      BY <1>2
    <2> QED  BY <1>2, <2>1, AppendIsConcat
  <1> QED  BY <1>1, <1>2

-----------------------------------------------------------------------------
(* The session's handlers keep one read.                                      *)

\* A handler that closes the connection.
LEMMA CloseSession ==
    ASSUME SessionInv, ready # <<>>, CloseConnection(Tail(ready)),
           UNCHANGED <<sent, taken, nread>>, late' \in Nat
    PROVE  SessionInv'
  <1> USE DEF SessionInv, NoOp
  <1> DEFINE e == ReadDone("aborted", 0)
  <1>1. e \in Events /\ e.op = "read" /\ e.result = "aborted"
    BY EventTypes DEF ReadDone
  <1>2. ready' = Tail(ready) \/ (reading = 1 /\ ready' = Append(Tail(ready), e))
    BY <1>1, Popped, Aborted DEF CloseConnection
  <1>3. conn' = "closed" /\ writing' = <<>> /\ reading' = 0
    BY DEF CloseConnection
  <1> HIDE DEF e
  <1>4. CASE ready' = Tail(ready)
    BY <1>3, <1>4, Popped
  <1>5. CASE reading = 1 /\ ready' = Append(Tail(ready), e)
    <2>1. \A i \in DOMAIN ready : ready[i].op # "read" /\ ready[i].result # "data"
      BY <1>5
    <2>2. \A i \in DOMAIN Tail(ready) : Tail(ready)[i].op # "read" /\ Tail(ready)[i].result # "data"
      BY <2>1, Popped
    <2> QED  BY <1>1, <1>3, <1>5, <2>2, Popped, Pushed
  <1> QED  BY <1>2, <1>4, <1>5

\* The handler of the next request in m_buffer.
LEMMA NextRequestType ==
    ASSUME nread \in Nat
    PROVE  /\ NextRequest \in Events /\ NextRequest.op = "read" /\ NextRequest.id = nread + 1
           /\ \E r \in {"bad", "data"} : NextRequest = ReadDone(r, nread + 1)
  <1>1. \E r \in {"bad", "data"} : NextRequest = ReadDone(r, nread + 1)
    BY DEF NextRequest
  <1>2. nread + 1 \in Nat
    OBVIOUS
  <1> QED  BY <1>1, <1>2, EventTypes DEF ReadDone

\* The next read, after the handler of the one before: from m_buffer, or from the socket.
LEMMA NextRead ==
    ASSUME SessionInv, ready # <<>>, Head(ready).op = "read", HandleRequests(Tail(ready)),
           UNCHANGED <<sent, conn, fired, taken>>, late' \in Nat, conn = "closed" => writing' = writing
    PROVE  SessionInv'
  <1> USE DEF SessionInv, NoOp
  <1> DEFINE e == ReadDone("bad", 0)
             f == NextRequest
  <1>1. e \in Events /\ e.op = "read" /\ e.result = "bad" /\ f \in Events /\ f.op = "read"
    BY EventTypes, NextRequestType DEF ReadDone
  <1>2. \A i \in DOMAIN Tail(ready) : Tail(ready)[i].op # "read" /\ Tail(ready)[i].result # "data"
    BY Popped
  <1>3. reading = 0 /\ conn # "accepted"
    BY Popped
  <1>4. \/ /\ nread < taken /\ nread' = nread + 1 /\ reading' = reading
           /\ ready' = Append(Tail(ready), f)
        \/ /\ nread = taken /\ nread' = nread /\ conn = "closed" /\ reading' = reading
           /\ ready' = Append(Tail(ready), e)
        \/ /\ nread = taken /\ nread' = nread /\ conn # "closed" /\ reading' = reading + 1
           /\ ready' = Tail(ready)
    BY DEF HandleRequests
  <1> HIDE DEF e, f
  <1>5. CASE /\ nread < taken /\ nread' = nread + 1 /\ reading' = reading
             /\ ready' = Append(Tail(ready), f)
    BY <1>1, <1>2, <1>3, <1>5, Popped, Pushed
  <1>6. CASE /\ nread = taken /\ nread' = nread /\ conn = "closed" /\ reading' = reading
             /\ ready' = Append(Tail(ready), e)
    BY <1>1, <1>2, <1>3, <1>6, Popped, Pushed
  <1>7. CASE /\ nread = taken /\ nread' = nread /\ conn # "closed" /\ reading' = reading + 1
             /\ ready' = Tail(ready)
    BY <1>2, <1>3, <1>7, Popped
  <1> QED  BY <1>4, <1>5, <1>6, <1>7

LEMMA SessionStep == SessionInv /\ (Handler \/ Answer \/ System) => SessionInv'
  <1> SUFFICES ASSUME SessionInv, Handler \/ Answer \/ System PROVE SessionInv'
    OBVIOUS
  <1> USE DEF SessionInv, NoOp
  <1>0. sent' = sent /\ late' \in Nat
    <2>1. CASE Handler
      <3>1. late' \in {late, late + 1}
        BY <2>1 DEF Handler, Accept, ReadEnds, ReadFails, ReadRequest, WriteHandled, Deadline
      <3> QED  BY <2>1, <3>1 DEF Handler, Accept, ReadEnds, ReadFails, ReadRequest, WriteHandled,
                                 Deadline, client
    <2>2. CASE Answer \/ System
      BY <2>2 DEF Answer, AnswerLater, System, ReadCompletes, WriteCompletes, TimeExpires,
                  WaitCompletes, client
    <2> QED  BY <2>1, <2>2
  <1> USE <1>0
  <1>1. CASE Accept
    <2>1. conn = "accepted" /\ conn' = "open" /\ reading = 0 /\ UNCHANGED <<taken, writing, fired>>
      BY <1>1 DEF Accept
    <2>2. \/ /\ nread < taken /\ nread' = nread + 1 /\ reading' = reading
             /\ ready' = Append(ready, NextRequest)
          \/ nread = taken /\ nread' = nread /\ reading' = reading + 1 /\ ready' = ready
      BY <1>1 DEF Accept, HandleRequests
    <2>3. NextRequest \in Events /\ NextRequest.op = "read"
      BY NextRequestType
    <2>4. CASE nread < taken /\ nread' = nread + 1 /\ reading' = reading
               /\ ready' = Append(ready, NextRequest)
      BY <2>1, <2>3, <2>4, Pushed
    <2>5. CASE nread = taken /\ nread' = nread /\ reading' = reading + 1 /\ ready' = ready
      BY <2>1, <2>5
    <2> QED  BY <2>2, <2>4, <2>5
  <1>2. CASE ReadEnds
    BY <1>2, Popped DEF ReadEnds, Runs
  <1>3. CASE ReadFails
    BY <1>3, CloseSession DEF ReadFails, Runs
  <1>4. CASE ReadRequest
    <2>1. ready # <<>> /\ Head(ready).op = "read" /\ Head(ready).result = "data"
      BY <1>4 DEF ReadRequest, Runs
    <2>2. conn' = conn /\ fired' = fired /\ taken' = taken
      BY <1>4 DEF ReadRequest
    <2>3. conn = "closed" => writing' = writing
      BY <1>4 DEF ReadRequest, SendResponse
    <2>4. HandleRequests(Tail(ready)) \/ (ready' = Tail(ready) /\ UNCHANGED <<nread, reading>>)
      BY <1>4 DEF ReadRequest
    <2>5. CASE HandleRequests(Tail(ready))
      BY <2>1, <2>2, <2>3, <2>5, NextRead
    <2>6. CASE ready' = Tail(ready) /\ UNCHANGED <<nread, reading>>
      <3>1. \A i \in DOMAIN Tail(ready) : Tail(ready)[i].op # "read" /\ Tail(ready)[i].result # "data"
        BY <2>1, Popped
      <3> QED  BY <2>1, <2>2, <2>3, <2>6, <3>1, Popped
    <2> QED  BY <2>4, <2>5, <2>6
  <1>5. CASE WriteHandled
    BY <1>5, Popped DEF WriteHandled, Runs
  <1>6. CASE Deadline
    BY <1>6, CloseSession DEF Deadline, Runs
  <1>7. CASE Answer
    BY <1>7 DEF Answer, AnswerLater, SendResponse
  <1>8. CASE ReadCompletes
    <2>1. \E r \in {"data", "end", "bad"}, n \in Nat : ready' = Append(ready, ReadDone(r, n))
      BY <1>8, NextRequestType DEF ReadCompletes
    <2>2. PICK e \in Events : ready' = Append(ready, e) /\ e.op = "read"
      BY <2>1, EventTypes DEF ReadDone
    <2>3. /\ taken' \in Nat /\ nread' \in Nat /\ nread' <= taken' /\ reading' = 0 /\ reading = 1
          /\ UNCHANGED <<conn, writing, fired>>
      <3>1. \/ taken' \in Nat /\ taken' > taken /\ nread' = nread + 1
            \/ UNCHANGED <<taken, nread>>
        BY <1>8 DEF ReadCompletes
      <3> QED  BY <1>8, <3>1 DEF ReadCompletes
    <2> QED  BY <2>2, <2>3, Pushed
  <1>9. CASE WriteCompletes
    <2>1. WriteDone \in Events /\ WriteDone.op = "write" /\ WriteDone.result = "ok"
      BY EventTypes DEF WriteDone
    <2> QED  BY <1>9, <2>1, Pushed DEF WriteCompletes
  <1>10. CASE TimeExpires
    BY <1>10 DEF TimeExpires
  <1>11. CASE WaitCompletes
    <2>1. Expiry \in Events /\ Expiry.op = "wait" /\ Expiry.result = "ok"
      BY EventTypes DEF Expiry
    <2> QED  BY <1>11, <2>1, Pushed DEF WaitCompletes
  <1> QED
    BY <1>1, <1>2, <1>3, <1>4, <1>5, <1>6, <1>7, <1>8, <1>9, <1>10, <1>11 DEF Handler, System

-----------------------------------------------------------------------------
(* The deadline of a connection that is open.                                *)

\* The handler of the deadline stays queued while others run.
LEMMA StaysQueued ==
    ASSUME ready \in Seq(Events), Queued("wait")
    PROVE  /\ \A e \in Events : ready' = Append(ready, e) => Queued("wait")'
           /\ ready # <<>> /\ Head(ready).op # "wait" /\ ready' = Tail(ready) => Queued("wait")'
  <1>1. PICK i \in DOMAIN ready : ready[i].op = "wait"
    BY DEF Queued
  <1>2. ASSUME NEW e \in Events, ready' = Append(ready, e) PROVE Queued("wait")'
    <2>1. /\ i \in 1 .. Len(ready) /\ Append(ready, e)[i] = ready[i]
      BY AppendProperties, LenProperties
    <2>2. i \in DOMAIN Append(ready, e)
      BY Pushed
    <2> QED  BY <1>1, <1>2, <2>1, <2>2 DEF Queued
  <1>3. ASSUME ready # <<>>, Head(ready).op # "wait", ready' = Tail(ready) PROVE Queued("wait")'
    <2>1. /\ Len(Tail(ready)) = Len(ready) - 1 /\ Tail(ready) \in Seq(Events)
          /\ \A j \in 1 .. Len(Tail(ready)) : Tail(ready)[j] = ready[j + 1]
      BY <1>3, HeadTailProperties
    <2>2. DOMAIN Tail(ready) = 1 .. Len(Tail(ready)) /\ i \in 1 .. Len(ready) /\ Len(ready) \in Nat
      BY <2>1, LenProperties
    <2>3. i # 1
      BY <1>1, <1>3, Popped
    <2>4. i - 1 \in DOMAIN Tail(ready) /\ Tail(ready)[i - 1] = ready[i]
      BY <2>1, <2>2, <2>3
    <2> QED  BY <1>1, <1>3, <2>4 DEF Queued
  <1> QED  BY <1>2, <1>3

\* Every handler that goes on reading waits for the deadline again, and every
\* other one closes the connection, ends the loop or leaves the wait alone.
LEMMA ArmedStep ==
    ASSUME SessionInv, DeadlineArmed, Handler \/ Answer \/ System
    PROVE  DeadlineArmed'
  <1> USE DEF DeadlineArmed
  <1>1. ready \in Seq(Events)
    BY DEF SessionInv
  <1>2. CASE Accept
    BY <1>2 DEF Accept, HandleRequests, CheckDeadline
  <1>3. CASE ReadEnds \/ WriteHandled
    <2>1. /\ UNCHANGED <<conn, alive, waits>> /\ ready # <<>> /\ Head(ready).op # "wait"
          /\ ready' = Tail(ready)
      BY <1>3 DEF ReadEnds, WriteHandled, Runs
    <2> QED  BY <1>1, <2>1, StaysQueued
  <1>4. CASE ReadFails \/ Deadline
    BY <1>4 DEF ReadFails, Deadline, CloseConnection
  <1>5. CASE ReadRequest
    BY <1>5 DEF ReadRequest, HandleRequests, CheckDeadline
  <1>6. CASE Answer \/ TimeExpires
    <2>1. UNCHANGED <<conn, alive, waits, ready>>
      BY <1>6 DEF Answer, AnswerLater, TimeExpires
    <2> QED  BY <2>1 DEF Queued
  <1>7. CASE ReadCompletes
    <2>1. \E r \in {"data", "end", "bad"}, n \in Nat : ready' = Append(ready, ReadDone(r, n))
      BY <1>7, NextRequestType DEF ReadCompletes, SessionInv
    <2>2. PICK e \in Events : ready' = Append(ready, e)
      BY <2>1, EventTypes
    <2>3. UNCHANGED <<conn, alive, waits>>
      BY <1>7 DEF ReadCompletes
    <2> QED  BY <1>1, <2>2, <2>3, StaysQueued
  <1>8. CASE WriteCompletes
    <2>1. UNCHANGED <<conn, alive, waits>> /\ ready' = Append(ready, WriteDone)
      BY <1>8 DEF WriteCompletes
    <2> QED  BY <1>1, <2>1, StaysQueued, EventTypes
  <1>9. CASE WaitCompletes
    <2>1. ready' = Append(ready, Expiry)
      BY <1>9 DEF WaitCompletes
    <2>2. Expiry \in Events /\ Expiry.op = "wait"
      BY EventTypes DEF Expiry
    <2>3. /\ Len(ready) + 1 \in DOMAIN ready' /\ ready'[Len(ready) + 1] = Expiry
      BY <1>1, <2>1, <2>2, Pushed, AppendProperties
    <2> QED  BY <2>2, <2>3 DEF Queued
  <1> QED
    BY <1>2, <1>3, <1>4, <1>5, <1>6, <1>7, <1>8, <1>9 DEF Handler, System

-----------------------------------------------------------------------------
(* Types.                                                                    *)

\* The requests that wait for their handler were sent.
KnownRequests == \A i \in DOMAIN ready : ready[i].result = "data" => ready[i].id \in DOMAIN sent

\* What SessionInv does not say about types.
TypeInv ==
    /\ clientOpen \in BOOLEAN /\ pipelined \in BOOLEAN /\ expired \in BOOLEAN
    /\ alive \in BOOLEAN /\ fired \in BOOLEAN /\ clobbered \in BOOLEAN
    /\ sent \in Seq(Kinds) /\ taken \in 0 .. Len(sent) /\ nread \in 0 .. taken
    /\ received \in Seq(Responses) /\ writing \in Seq(Responses)
    /\ waits \in {0, 1}
    /\ deferred \subseteq DOMAIN sent
    /\ KnownRequests

LEMMA FlagsStep ==
    ASSUME TypeInv, Handler \/ Answer \/ System
    PROVE  /\ clientOpen' \in BOOLEAN /\ pipelined' \in BOOLEAN /\ expired' \in BOOLEAN
           /\ alive' \in BOOLEAN /\ fired' \in BOOLEAN /\ clobbered' \in BOOLEAN
           /\ sent' = sent
           /\ waits' \in {0, 1}
  <1> USE DEF TypeInv, client
  <1>1. CASE Accept
    BY <1>1 DEF Accept, HandleRequests, CheckDeadline
  <1>2. CASE ReadEnds \/ WriteHandled
    BY <1>2 DEF ReadEnds, WriteHandled
  <1>3. CASE ReadFails
    BY <1>3 DEF ReadFails, CloseConnection
  <1>4. CASE Deadline
    BY <1>4 DEF Deadline, CloseConnection
  <1>5. CASE ReadRequest
    <2>1. clobbered' \in BOOLEAN
      <3>1. CASE UNCHANGED clobbered
        BY <3>1
      <3>2. ASSUME NEW r, SendResponse(r) PROVE clobbered' \in BOOLEAN
        BY <3>2 DEF SendResponse
      <3> QED  BY <1>5, <3>1, <3>2 DEF ReadRequest
    <2>2. alive' \in BOOLEAN /\ waits' \in {0, 1}
      BY <1>5 DEF ReadRequest, HandleRequests, CheckDeadline
    <2>3. UNCHANGED <<clientOpen, pipelined, expired, fired, sent>>
      BY <1>5 DEF ReadRequest
    <2> QED  BY <2>1, <2>2, <2>3
  <1>6. CASE Answer
    BY <1>6 DEF Answer, AnswerLater, SendResponse
  <1>7. CASE ReadCompletes \/ WriteCompletes
    BY <1>7 DEF ReadCompletes, WriteCompletes
  <1>8. CASE TimeExpires
    BY <1>8 DEF TimeExpires
  <1>9. CASE WaitCompletes
    <2>1. waits' \in {0, 1}
      BY <1>9 DEF WaitCompletes
    <2>2. UNCHANGED <<clientOpen, pipelined, expired, alive, fired, clobbered, sent>>
      BY <1>9 DEF WaitCompletes
    <2> QED  BY <2>1, <2>2
  <1> QED  BY <1>1, <1>2, <1>3, <1>4, <1>5, <1>6, <1>7, <1>8, <1>9 DEF Handler, System

\* Responses that are written and received.
LEMMA ResponsesStep ==
    ASSUME SessionInv, TypeInv, Handler \/ Answer \/ System
    PROVE  received' \in Seq(Responses) /\ writing' \in Seq(Responses)
  <1>1. received \in Seq(Responses) /\ writing \in Seq(Responses) /\ <<>> \in Seq(Responses)
    BY EmptySeq DEF TypeInv
  <1>2. ASSUME NEW id \in Nat, NEW status \in Nat, SendResponse(Response(id, status))
        PROVE  writing' \in Seq(Responses)
    <2>1. Response(id, status) \in Responses
      BY DEF Response, Responses
    <2> QED  BY <1>1, <1>2, <2>1, AppendProperties DEF SendResponse
  <1>3. CASE ReadRequest
    <2>1. Head(ready).id \in Nat
      BY <1>3, Popped DEF ReadRequest, Runs, SessionInv, Events
    <2>2. \A kind : Statuses(kind) \subseteq Nat
      BY DEF Statuses
    <2>3. \/ writing' = writing
          \/ \E status \in Statuses(sent[Head(ready).id]) :
                  SendResponse(Response(Head(ready).id, status))
      BY <1>3 DEF ReadRequest
    <2>4. received' = received
      BY <1>3 DEF ReadRequest, client
    <2> QED  BY <1>1, <1>2, <2>1, <2>2, <2>3, <2>4
  <1>4. CASE Answer
    <2>1. PICK id \in deferred : AnswerLater(id)
      BY <1>4 DEF Answer
    <2>2. id \in Nat
      BY LenProperties DEF TypeInv
    <2> QED  BY <1>1, <1>2, <2>1, <2>2 DEF AnswerLater, client
  <1>5. CASE Deadline
    <2>1. Response(0, 504) \in Responses
      BY DEF Response, Responses
    <2>2. received' = received \/ received' = Append(received, Response(0, 504))
      BY <1>5 DEF Deadline
    <2>3. writing' = <<>>
      BY <1>5 DEF Deadline, CloseConnection
    <2>4. Append(received, Response(0, 504)) \in Seq(Responses)
      BY <1>1, <2>1, AppendProperties
    <2> QED  BY <1>1, <2>2, <2>3, <2>4, Zenon
  <1>6. CASE WriteCompletes
    <2>1. writing # <<>> /\ writing' = Tail(writing)
          /\ (received' = received \/ received' = Append(received, Head(writing)))
      BY <1>6 DEF WriteCompletes
    <2>2. Head(writing) \in Responses /\ Tail(writing) \in Seq(Responses)
      BY <1>1, <2>1, HeadTailProperties
    <2>3. Append(received, Head(writing)) \in Seq(Responses)
      BY <1>1, <2>2, AppendProperties
    <2> QED  BY <1>1, <2>1, <2>2, <2>3
  <1>7. CASE Accept \/ ReadEnds \/ ReadFails \/ WriteHandled \/ ReadCompletes
             \/ TimeExpires \/ WaitCompletes
    <2>1. received' = received /\ (writing' = writing \/ writing' = <<>>)
      BY <1>7 DEF Accept, ReadEnds, ReadFails, CloseConnection, WriteHandled, ReadCompletes,
                  TimeExpires, WaitCompletes, client
    <2> QED  BY <1>1, <2>1
  <1> QED  BY <1>3, <1>4, <1>5, <1>6, <1>7 DEF Handler, System

\* Requests are dispatched and kept only after they were sent.
LEMMA KnownStep ==
    ASSUME SessionInv, TypeInv, Handler \/ Answer \/ System
    PROVE  /\ taken' \in 0 .. Len(sent) /\ nread' \in 0 .. taken'
           /\ deferred' \subseteq DOMAIN sent
           /\ \A i \in DOMAIN ready' : ready'[i].result = "data" => ready'[i].id \in DOMAIN sent
  <1> USE DEF TypeInv, KnownRequests
  <1>1. /\ ready \in Seq(Events) /\ reading \in {0, 1}
        /\ DOMAIN sent = 1 .. Len(sent) /\ Len(sent) \in Nat
        /\ taken \in 0 .. Len(sent) /\ nread \in 0 .. taken
    BY LenProperties DEF SessionInv
  <1> DEFINE Known(q) == \A i \in DOMAIN q : q[i].result = "data" => q[i].id \in DOMAIN sent
  <1>2. Known(ready)
    OBVIOUS
  <1>3. ASSUME ready # <<>> PROVE Tail(ready) \in Seq(Events) /\ Known(Tail(ready))
    BY <1>1, <1>3, Popped
  <1>4. ASSUME NEW q \in Seq(Events), Known(q), NEW e \in Events,
               e.result # "data" \/ e.id \in DOMAIN sent
        PROVE  Known(Append(q, e))
    BY <1>4, Pushed
  <1> HIDE DEF Known
  <1>5. ASSUME nread < Len(sent) PROVE Known(ready) => Known(Append(ready, NextRequest))
    <2>1. NextRequest \in Events /\ NextRequest.id \in DOMAIN sent
      BY <1>1, <1>5, NextRequestType
    <2> QED  BY <1>1, <1>4, <2>1
  <1>6. CASE Answer \/ TimeExpires \/ ReadEnds \/ WriteHandled
    <2>1. UNCHANGED <<taken, nread>> /\ deferred' \subseteq deferred
          /\ (ready' = ready \/ (ready # <<>> /\ ready' = Tail(ready)))
      BY <1>6 DEF Answer, AnswerLater, TimeExpires, ReadEnds, WriteHandled, Runs
    <2> QED  BY <1>1, <1>2, <1>3, <2>1 DEF Known
  <1>7. CASE ReadFails \/ Deadline
    <2> DEFINE e == ReadDone("aborted", 0)
    <2>1. e \in Events /\ e.result # "data"
      BY EventTypes DEF ReadDone
    <2>2. UNCHANGED <<taken, nread, deferred>> /\ ready # <<>>
          /\ ready' = Tail(ready) \o [i \in 1 .. reading |-> e]
      BY <1>7 DEF ReadFails, Deadline, CloseConnection, Runs
    <2> HIDE DEF e
    <2>3. ready' = Tail(ready) \/ ready' = Append(Tail(ready), e)
      BY <1>1, <1>3, <2>1, <2>2, Aborted
    <2>4. Known(ready')
      BY <1>3, <1>4, <2>1, <2>2, <2>3
    <2> QED  BY <1>1, <2>2, <2>4 DEF Known
  <1>8. CASE Accept \/ ReadRequest
    <2> DEFINE e == ReadDone("bad", 0)
    <2>1. e \in Events /\ e.result # "data"
      BY EventTypes DEF ReadDone
    <2>2. PICK q \in Seq(Events) :
            /\ Known(q)
            /\ HandleRequests(q) \/ (ready' = q /\ nread' = nread)
      <3>1. CASE Accept
        BY <1>1, <1>2, <3>1 DEF Accept
      <3>2. CASE ReadRequest
        BY <1>3, <3>2 DEF ReadRequest, Runs
      <3> QED  BY <1>8, <3>1, <3>2
    <2>3. /\ taken' = taken
          /\ \/ deferred' = deferred
             \/ /\ ready # <<>> /\ Head(ready).result = "data"
                /\ deferred' = deferred \cup {Head(ready).id}
      BY <1>8 DEF Accept, ReadRequest, Runs
    <2>4. \/ nread < taken /\ nread' = nread + 1 /\ ready' = Append(q, NextRequest)
          \/ nread' = nread /\ (ready' = q \/ ready' = Append(q, e))
      BY <2>2 DEF HandleRequests
    <2> HIDE DEF e
    <2>5. nread < taken => NextRequest \in Events /\ NextRequest.id \in DOMAIN sent
      BY <1>1, NextRequestType
    <2>6. Known(ready')
      BY <1>4, <2>1, <2>2, <2>4, <2>5
    <2>7. ready # <<>> /\ Head(ready).result = "data" => Head(ready).id \in DOMAIN sent
      BY <1>1, <1>2, Popped DEF Known
    <2>8. nread' \in 0 .. taken'
      BY <1>1, <2>3, <2>4
    <2> QED  BY <1>1, <2>3, <2>6, <2>7, <2>8 DEF Known
  <1>9. CASE ReadCompletes
    <2>1. /\ deferred' = deferred
          /\ \/ /\ taken < Len(sent) /\ taken' \in (taken + 1) .. Len(sent) /\ nread' = nread + 1
                /\ ready' = Append(ready, NextRequest)
             \/ UNCHANGED <<taken, nread>> /\ ready' = Append(ready, ReadDone("end", 0))
      BY <1>9 DEF ReadCompletes
    <2>2. taken' \in 0 .. Len(sent) /\ nread' \in 0 .. taken'
      BY <1>1, <2>1
    <2>3. taken < Len(sent) => nread < Len(sent)
      BY <1>1
    <2>4. Known(Append(ready, ReadDone("end", 0)))
      <3> DEFINE e == ReadDone("end", 0)
      <3>1. e \in Events /\ e.result # "data"
        BY EventTypes DEF ReadDone
      <3> HIDE DEF e
      <3>2. Known(Append(ready, e))
        BY <1>1, <1>2, <1>4, <3>1
      <3> QED  BY <3>2 DEF e
    <2>5. Known(ready')
      BY <1>2, <1>5, <2>1, <2>3, <2>4
    <2> QED  BY <2>1, <2>2, <2>5 DEF Known
  <1>10. CASE WriteCompletes \/ WaitCompletes
    <2>1. PICK e \in {WriteDone, Expiry} : ready' = Append(ready, e)
      BY <1>10 DEF WriteCompletes, WaitCompletes
    <2>2. e \in Events /\ e.result # "data"
      BY EventTypes DEF WriteDone, Expiry
    <2>3. Known(ready')
      BY <1>1, <1>2, <1>4, <2>1, <2>2
    <2>4. UNCHANGED <<taken, nread, deferred>>
      BY <1>10 DEF WriteCompletes, WaitCompletes
    <2> QED  BY <1>1, <2>3, <2>4 DEF Known
  <1> QED  BY <1>6, <1>7, <1>8, <1>9, <1>10 DEF Handler, System

-----------------------------------------------------------------------------
(* The way of the one request of a client that waits.                        *)

\* A handler that is neither a write's nor a request's comes and goes.
LEMMA InPlaceTail ==
    ASSUME NEW s \in Nat, NEW r \in Nat, NEW n \in Nat, NEW d, NEW w, NEW q \in Seq(Events),
           q # <<>>, InPlace(s, r, n, d, w, q)
    PROVE  InPlace(s, r, n, d, w, Tail(q))
  BY Popped DEF InPlace, NoData, NoOp

LEMMA InPlacePush ==
    ASSUME NEW s \in Nat, NEW r \in Nat, NEW n \in Nat, NEW d, NEW w, NEW q \in Seq(Events),
           NEW e \in Events, e.op # "write", e.result # "data", InPlace(s, r, n, d, w, q)
    PROVE  InPlace(s, r, n, d, w, Append(q, e))
  BY Pushed DEF InPlace, NoData, NoOp

\* The writes of a connection that is closed are dropped.
LEMMA InPlaceDrop ==
    ASSUME NEW s \in Nat, NEW r \in Nat, NEW n \in Nat, NEW d, NEW w, NEW q,
           InPlace(s, r, n, d, w, q)
    PROVE  InPlace(s, r, n, d, <<>>, q)
  BY DEF InPlace

\* The client sends when it has the answer to everything.
LEMMA InPlaceSend ==
    ASSUME NEW s \in Nat, NEW n \in Nat, NEW d, NEW w, NEW q, InPlace(s, s, n, d, w, q)
    PROVE  InPlace(s + 1, s, n, d, w, q)
  BY DEF InPlace, NoData, NoOp

\* The request is taken from the stream.
LEMMA InPlaceRead ==
    ASSUME NEW s \in Nat, NEW r \in Nat, NEW n \in Nat, NEW d, NEW w, NEW q \in Seq(Events),
           n < s, NEW e \in Events, e.op = "read", e.id = n + 1, InPlace(s, r, n, d, w, q)
    PROVE  InPlace(s, r, n + 1, d, w, Append(q, e))
  BY Pushed DEF InPlace, NoData, NoOp

\* Its handler runs when no write's is queued any more.
LEMMA InPlaceDispatch ==
    ASSUME NEW s \in Nat, NEW r \in Nat, NEW n \in 0 .. s, NEW d, NEW w, NEW q \in Seq(Events),
           q # <<>>, Head(q).result = "data", InPlace(s, r, n, d, w, q),
           \A i, j \in DOMAIN q : q[i].result = "data" /\ q[j].result = "data" => i = j
    PROVE  /\ Head(q).id = s /\ d = {} /\ w = <<>> /\ NoOp(q, "write")
           /\ InPlace(s, r, n, {}, <<>>, Tail(q))
           /\ InPlace(s, r, n, {s}, <<>>, Tail(q))
           /\ \A a : a.for = s => InPlace(s, r, n, {}, <<a>>, Tail(q))
  <1>1. Head(q).id = s /\ d = {} /\ w = <<>> /\ NoOp(q, "write")
    BY Popped DEF InPlace, NoOp
  <1>2. r + 1 = s /\ n = s
    BY Popped DEF InPlace, NoData
  <1>3. NoOp(Tail(q), "write") /\ NoData(Tail(q))
    BY <1>1, Popped DEF NoOp, NoData
  <1> QED  BY <1>1, <1>2, <1>3 DEF InPlace, NoData

\* The answer that a processor kept is written.
LEMMA InPlaceAnswer ==
    ASSUME NEW s \in Nat, NEW r \in Nat, NEW n \in Nat, NEW d, NEW w, NEW q \in Seq(Events),
           NEW id \in d, InPlace(s, r, n, d, w, q)
    PROVE  /\ id = s /\ d \ {id} = {} /\ w = <<>> /\ NoOp(q, "write")
           /\ InPlace(s, r, n, {}, <<>>, q)
           /\ \A a : a.for = s => InPlace(s, r, n, {}, <<a>>, q)
  <1>1. id = s /\ d \ {id} = {} /\ w = <<>> /\ NoOp(q, "write")
    BY DEF InPlace
  <1>2. r # s /\ ~(n < s) /\ NoData(q)
    BY DEF InPlace, NoData
  <1> QED  BY <1>1, <1>2 DEF InPlace, NoData

\* The write completes, and its answer reaches the client or nobody.
LEMMA InPlaceWritten ==
    ASSUME NEW s \in Nat, NEW r \in Nat, NEW n \in 0 .. s, NEW d, NEW w, NEW q \in Seq(Events),
           w # <<>>, InPlace(s, r, n, d, w, q)
    PROVE  /\ w[1].for = r + 1 /\ Len(w) = 1
           /\ InPlace(s, r, n, d, <<>>, Append(q, WriteDone))
           /\ InPlace(s, r + 1, n, d, <<>>, Append(q, WriteDone))
  <1>1. WriteDone \in Events /\ WriteDone.op = "write" /\ WriteDone.result = "ok"
    BY EventTypes DEF WriteDone
  <1>2. d = {} /\ NoData(q) /\ n = s /\ s = r + 1 /\ w[1].for = s /\ Len(w) = 1
    BY DEF InPlace, NoData
  <1>3. NoData(Append(q, WriteDone))
    BY <1>1, <1>2, Pushed DEF NoData
  <1> QED  BY <1>2, <1>3 DEF InPlace, NoData

-----------------------------------------------------------------------------
(* What a client that waits gets.                                            *)

\* An action that neither sends, reads nor answers.
LEMMA OrderlyKept ==
    ASSUME SessionInv, Orderly, UNCHANGED <<sent, received, nread, deferred>>,
           writing' = writing \/ writing' = <<>>, conn = "closed" => conn' = "closed",
           ~fired' => ~fired /\ clobbered' = clobbered
                      /\ InPlace(Len(sent), Len(received), nread, deferred, writing, ready')
    PROVE  Orderly'
  <1>1. Numbers'
    <2>1. <<>> \in Seq(Responses)
      BY EmptySeq
    <2>2. writing' \in Seq(Responses)
      BY <2>1 DEF Orderly, Numbers
    <2> QED  BY <2>2 DEF Orderly, Numbers, Responses
  <1>2. Matched'
    BY DEF Orderly, Matched
  <1>3. ASSUME ~fired' PROVE OneRequest'
    <2>1. Len(sent) \in Nat /\ Len(received) \in Nat /\ nread \in Nat
      BY DEF Orderly, Numbers
    <2>2. InPlace(Len(sent), Len(received), nread, deferred, writing', ready')
      BY <1>3, <2>1, InPlaceDrop
    <2> QED  BY <1>3, <2>2 DEF Orderly, OneRequest
  <1> QED  BY <1>1, <1>2, <1>3 DEF Orderly

\* A request is dispatched: its answer is the first and only one to be written.
LEMMA OrderlyDispatch ==
    ASSUME SessionInv, Orderly, taken = nread, ReadRequest
    PROVE  Orderly'
  <1> DEFINE id == Head(ready).id
  <1>1. /\ ready \in Seq(Events) /\ ready # <<>> /\ Head(ready).result = "data"
        /\ Len(sent) \in Nat /\ Len(received) \in Nat /\ nread \in 0 .. Len(sent)
        /\ id \in Nat
    BY Popped DEF ReadRequest, Runs, SessionInv, Orderly, Numbers, Events
  <1>2. UNCHANGED <<sent, received, nread, conn, fired>>
    BY DEF ReadRequest, HandleRequests, client, SessionInv
  <1>3. \/ /\ \E status \in Nat : SendResponse(Response(id, status))
           /\ deferred' = deferred /\ HandleRequests(Tail(ready))
        \/ /\ deferred' = deferred \cup {id} /\ HandleRequests(Tail(ready))
           /\ UNCHANGED <<writing, clobbered>>
        \/ ready' = Tail(ready) /\ UNCHANGED <<writing, clobbered, deferred>>
    BY DEF ReadRequest, Statuses
  <1>4. Numbers'
    <2>1. writing \in Seq(Responses) /\ deferred \subseteq Nat
      BY DEF Orderly, Numbers
    <2>2. writing' \in Seq(Responses)
      <3>1. CASE UNCHANGED writing
        BY <2>1, <3>1
      <3>2. ASSUME NEW status \in Nat, SendResponse(Response(id, status))
            PROVE  writing' \in Seq(Responses)
        <4>1. Response(id, status) \in Responses
          BY <1>1 DEF Response, Responses
        <4> QED  BY <2>1, <3>2, <4>1, AppendProperties DEF SendResponse
      <3> QED  BY <1>3, <3>1, <3>2
    <2>3. deferred' \subseteq Nat
      BY <1>1, <1>3, <2>1
    <2> QED  BY <1>2, <2>2, <2>3 DEF Orderly, Numbers, Responses
  <1>5. Matched'
    BY <1>2 DEF Orderly, Matched
  <1>6. ASSUME ~fired' PROVE OneRequest'
    <2> DEFINE s == Len(sent)
               r == Len(received)
    <2>1. InPlace(s, r, nread, deferred, writing, ready) /\ ~clobbered
      BY <1>2, <1>6 DEF Orderly, OneRequest
    <2>2. \A i, j \in DOMAIN ready :
            ready[i].result = "data" /\ ready[j].result = "data" => i = j
      BY DEF SessionInv
    <2>3. s \in Nat /\ r \in Nat /\ nread \in 0 .. s /\ nread \in Nat
      BY <1>1
    <2> HIDE DEF s, r
    <2>4. /\ id = s /\ deferred = {} /\ writing = <<>> /\ NoOp(ready, "write")
          /\ InPlace(s, r, nread, {}, <<>>, Tail(ready))
          /\ InPlace(s, r, nread, {s}, <<>>, Tail(ready))
          /\ \A a : a.for = s => InPlace(s, r, nread, {}, <<a>>, Tail(ready))
      BY <1>1, <2>1, <2>2, <2>3, InPlaceDispatch
    <2>5. ~InFlight
      BY <2>4 DEF InFlight, Queued, NoOp
    <2>6. /\ ~clobbered'
          /\ \/ deferred' = {} /\ writing' = <<>>
             \/ deferred' = {s} /\ writing' = <<>>
             \/ deferred' = {} /\ \E status \in Nat : writing' = <<Response(id, status)>>
      <3>1. CASE UNCHANGED <<writing, clobbered>>
        BY <1>3, <2>1, <2>4, <3>1
      <3>2. ASSUME NEW status \in Nat, SendResponse(Response(id, status)), deferred' = deferred
            PROVE  /\ ~clobbered' /\ deferred' = {}
                   /\ writing' = <<>> \/ writing' = <<Response(id, status)>>
        <4>1. clobbered' = (clobbered \/ InFlight)
          BY <3>2 DEF SendResponse
        <4>2. ~clobbered'
          BY <2>1, <2>5, <4>1
        <4>3. writing' = writing \/ writing' = Append(writing, Response(id, status))
          BY <3>2 DEF SendResponse
        <4>4. \A a : Append(<<>>, a) = <<a>>
          OBVIOUS
        <4> QED  BY <2>4, <3>2, <4>2, <4>3, <4>4
      <3> QED  BY <1>3, <3>1, <3>2
    <2>7. InPlace(s, r, nread, deferred', writing', Tail(ready))
      BY <2>4, <2>6 DEF Response
    <2>8. InPlace(s, r, nread, deferred', writing', ready')
      <3> DEFINE e == ReadDone("bad", 0)
      <3>1. e \in Events /\ e.op # "write" /\ e.result # "data"
        BY EventTypes DEF ReadDone
      <3>2. ready' = Tail(ready) \/ ready' = Append(Tail(ready), e)
        BY <1>3 DEF HandleRequests, SessionInv
      <3>3. Tail(ready) \in Seq(Events)
        BY <1>1, Popped
      <3> HIDE DEF e
      <3> QED  BY <2>3, <2>7, <3>1, <3>2, <3>3, InPlacePush
    <2> QED  BY <1>2, <2>6, <2>8 DEF OneRequest, s, r
  <1> QED  BY <1>4, <1>5, <1>6 DEF Orderly

\* The answer function is called later: nothing else can be in a write.
LEMMA OrderlyAnswer ==
    ASSUME SessionInv, Orderly, NEW id \in deferred, AnswerLater(id)
    PROVE  Orderly'
  <1> DEFINE a == Response(id, 200)
             s == Len(sent)
             r == Len(received)
  <1>1. /\ ready \in Seq(Events) /\ s \in Nat /\ r \in Nat /\ nread \in Nat
        /\ writing \in Seq(Responses) /\ deferred \subseteq Nat
    BY DEF SessionInv, Orderly, Numbers
  <1>2. a \in Responses /\ a.for = id
    BY <1>1 DEF Response, Responses
  <1>3. UNCHANGED <<sent, received, nread, conn, fired, ready>> /\ deferred' = deferred \ {id}
    BY DEF AnswerLater, client
  <1>4. /\ clobbered' = (clobbered \/ InFlight)
        /\ writing' = writing \/ writing' = Append(writing, a)
    BY DEF AnswerLater, SendResponse
  <1> HIDE DEF a, s, r
  <1>5. Numbers'
    <2>1. writing' \in Seq(Responses)
      BY <1>1, <1>2, <1>4, AppendProperties
    <2> QED  BY <1>1, <1>3, <2>1 DEF Orderly, Numbers, Responses
  <1>6. Matched'
    BY <1>3 DEF Orderly, Matched
  <1>7. ASSUME ~fired' PROVE OneRequest'
    <2>1. InPlace(s, r, nread, deferred, writing, ready) /\ ~clobbered
      BY <1>3, <1>7 DEF Orderly, OneRequest, s, r
    <2>2. /\ id = s /\ deferred \ {id} = {} /\ writing = <<>> /\ NoOp(ready, "write")
          /\ InPlace(s, r, nread, {}, <<>>, ready)
          /\ \A b : b.for = s => InPlace(s, r, nread, {}, <<b>>, ready)
      BY <1>1, <2>1, InPlaceAnswer
    <2>3. ~InFlight
      BY <2>2 DEF InFlight, Queued, NoOp
    <2>4. ~clobbered'
      BY <1>4, <2>1, <2>3
    <2>5. Append(<<>>, a) = <<a>>
      OBVIOUS
    <2>6. InPlace(s, r, nread, deferred', writing', ready')
      BY <1>2, <1>3, <1>4, <2>2, <2>5
    <2> QED  BY <1>3, <2>4, <2>6 DEF OneRequest, s, r
  <1> QED  BY <1>5, <1>6, <1>7 DEF Orderly

\* The answer is the next one the client gets.
LEMMA OrderlyWritten ==
    ASSUME SessionInv, Orderly, WriteCompletes
    PROVE  Orderly'
  <1> DEFINE s == Len(sent)
             r == Len(received)
  <1>1. /\ ready \in Seq(Events) /\ s \in Nat /\ r \in Nat /\ nread \in 0 .. s
        /\ writing \in Seq(Responses) /\ received \in Seq(Responses)
    BY DEF SessionInv, Orderly, Numbers
  <1>2. /\ writing # <<>> /\ writing' = Tail(writing) /\ ready' = Append(ready, WriteDone)
        /\ UNCHANGED <<sent, nread, conn, deferred, fired, clobbered>>
        /\ received' = received \/ received' = Append(received, Head(writing))
    BY DEF WriteCompletes
  <1>3. ~fired /\ conn # "closed"
    BY <1>2 DEF SessionInv
  <1>4. InPlace(s, r, nread, deferred, writing, ready) /\ ~clobbered
    BY <1>3 DEF Orderly, OneRequest
  <1> HIDE DEF s, r
  <1>5. /\ writing[1].for = r + 1 /\ Len(writing) = 1
        /\ InPlace(s, r, nread, deferred, <<>>, Append(ready, WriteDone))
        /\ InPlace(s, r + 1, nread, deferred, <<>>, Append(ready, WriteDone))
    BY <1>1, <1>2, <1>4, InPlaceWritten
  <1>6. Head(writing) = writing[1] /\ Head(writing) \in Responses /\ writing' = <<>>
    <2>1. Tail(writing) \in Seq(Responses) /\ Len(Tail(writing)) = 0 /\ Head(writing) \in Responses
      BY <1>1, <1>2, <1>5, HeadTailProperties
    <2> QED  BY <1>1, <1>2, <2>1, EmptySeq
  <1>7. /\ received' \in Seq(Responses) /\ Len(received') \in {r, r + 1}
        /\ \A i \in DOMAIN received' :
              \/ i \in DOMAIN received /\ received'[i] = received[i]
              \/ i = r + 1 /\ received'[i] = writing[1]
    <2>1. CASE received' = received
      BY <1>1, <2>1 DEF r
    <2>2. CASE received' = Append(received, Head(writing))
      BY <1>1, <1>6, <2>2, AppendProperties, LenProperties DEF r
    <2> QED  BY <1>2, <2>1, <2>2
  <1>8. Numbers'
    <2>1. writing' \in Seq(Responses)
      BY <1>6, EmptySeq
    <2> QED  BY <1>1, <1>2, <1>7, <2>1 DEF Orderly, Numbers, Responses
  <1>9. Matched'
    BY <1>2, <1>3, <1>5, <1>7 DEF Orderly, Matched
  <1>10. OneRequest'
    BY <1>2, <1>4, <1>5, <1>6, <1>7 DEF OneRequest, s, r
  <1> QED  BY <1>8, <1>9, <1>10 DEF Orderly

\* A read completes with the request, or with the end of the stream.
LEMMA OrderlyRead ==
    ASSUME SessionInv, Orderly, ReadCompletes
    PROVE  Orderly'
  <1> DEFINE s == Len(sent)
             r == Len(received)
  <1>1. ready \in Seq(Events) /\ s \in Nat /\ r \in Nat /\ nread \in 0 .. s /\ nread \in Nat
    BY DEF SessionInv, Orderly, Numbers
  <1>2. UNCHANGED <<sent, received, conn, writing, deferred, fired, clobbered>>
    BY DEF ReadCompletes, client
  <1>3. \/ /\ nread < s /\ nread' = nread + 1
           /\ \E x \in {"bad", "data"} : ready' = Append(ready, ReadDone(x, nread + 1))
        \/ nread' = nread /\ ready' = Append(ready, ReadDone("end", 0))
    <2>1. taken < s => nread < s
      BY <1>1 DEF SessionInv
    <2> QED  BY <1>1, <2>1, NextRequestType DEF ReadCompletes
  <1>4. ASSUME ~fired' PROVE OneRequest'
    <2>1. InPlace(s, r, nread, deferred, writing, ready) /\ ~clobbered
      BY <1>2, <1>4 DEF Orderly, OneRequest
    <2> HIDE DEF s, r
    <2>2. ASSUME nread < s, NEW x \in {"bad", "data"}
          PROVE  InPlace(s, r, nread + 1, deferred, writing, Append(ready, ReadDone(x, nread + 1)))
      <3> DEFINE e == ReadDone(x, nread + 1)
      <3>1. e \in Events /\ e.op = "read" /\ e.id = nread + 1
        BY <1>1, EventTypes DEF ReadDone
      <3> HIDE DEF e
      <3>2. InPlace(s, r, nread + 1, deferred, writing, Append(ready, e))
        BY <1>1, <2>1, <2>2, <3>1, InPlaceRead
      <3> QED  BY <3>2 DEF e
    <2>3. InPlace(s, r, nread, deferred, writing, Append(ready, ReadDone("end", 0)))
      <3> DEFINE e == ReadDone("end", 0)
      <3>1. e \in Events /\ e.op # "write" /\ e.result # "data"
        BY EventTypes DEF ReadDone
      <3> HIDE DEF e
      <3>2. InPlace(s, r, nread, deferred, writing, Append(ready, e))
        BY <1>1, <2>1, <3>1, InPlacePush
      <3> QED  BY <3>2 DEF e
    <2>4. InPlace(s, r, nread', deferred, writing, ready')
      BY <1>3, <2>2, <2>3
    <2> QED  BY <1>2, <2>1, <2>4 DEF OneRequest, s, r
  <1>5. Numbers'
    BY <1>1, <1>2, <1>3 DEF Orderly, Numbers, Responses
  <1>6. Matched'
    BY <1>2 DEF Orderly, Matched
  <1> QED  BY <1>4, <1>5, <1>6 DEF Orderly

\* The deadline's 504 is the last response.
LEMMA OrderlyDeadline ==
    ASSUME SessionInv, Orderly, Deadline
    PROVE  Orderly'
  <1>1. /\ UNCHANGED <<sent, nread, deferred>> /\ fired' /\ conn' = "closed" /\ writing' = <<>>
        /\ \/ received' = received
           \/ conn = "open" /\ received' = Append(received, Response(0, 504))
    BY DEF Deadline, CloseConnection
  <1>2. Response(0, 504) \in Responses /\ Response(0, 504).status = 504
    BY DEF Response, Responses
  <1>3. received \in Seq(Responses) /\ <<>> \in Seq(Responses)
    BY EmptySeq DEF Orderly, Numbers
  <1>4. received' \in Seq(Responses)
    BY <1>1, <1>2, <1>3, AppendProperties
  <1>5. Numbers'
    BY <1>1, <1>3, <1>4 DEF Orderly, Numbers, Responses
  <1>6. Matched'
    <2>1. CASE received' = received
      BY <1>1, <2>1 DEF Orderly, Matched
    <2>2. CASE conn = "open" /\ received' = Append(received, Response(0, 504))
      <3>1. \A i \in DOMAIN received : received[i].for = i
        BY <2>2 DEF Orderly, Matched
      <3>2. /\ DOMAIN received' = 1 .. Len(received) + 1 /\ DOMAIN received = 1 .. Len(received)
            /\ Len(received) \in Nat /\ Len(received') = Len(received) + 1
            /\ \A i \in 1 .. Len(received) : received'[i] = received[i]
            /\ received'[Len(received) + 1] = Response(0, 504)
        BY <1>2, <1>3, <1>4, <2>2, AppendProperties, LenProperties
      <3> QED  BY <1>1, <1>2, <3>1, <3>2 DEF Matched
    <2> QED  BY <1>1, <2>1, <2>2
  <1> QED  BY <1>1, <1>5, <1>6 DEF Orderly

\* The client sends the next request when it has every answer.
LEMMA OrderlySend ==
    ASSUME Orderly, ~fired, NEW kind \in AllKinds, sent' = Append(sent, kind),
           Len(received) = Len(sent),
           UNCHANGED <<received, nread, conn, writing, ready, deferred, fired, clobbered>>
    PROVE  Orderly'
  <1>1. sent' \in Seq(AllKinds) /\ Len(sent') = Len(sent) + 1 /\ Len(sent) \in Nat
    BY AppendProperties, LenProperties DEF Orderly, Numbers
  <1>2. Numbers'
    BY <1>1 DEF Orderly, Numbers, Responses
  <1>3. Matched'
    BY DEF Orderly, Matched
  <1>4. InPlace(Len(sent) + 1, Len(received), nread, deferred, writing, ready)
    BY <1>1, InPlaceSend DEF Orderly, OneRequest, Numbers
  <1>5. OneRequest'
    BY <1>1, <1>4 DEF Orderly, OneRequest
  <1> QED  BY <1>2, <1>3, <1>5 DEF Orderly

\* Whatever the session and the system do, a client that waits is answered in order.
LEMMA OrderlyStep ==
    ASSUME SessionInv, Orderly, taken = nread, Handler \/ Answer \/ System
    PROVE  Orderly'
  <1> DEFINE Fits(q) == InPlace(Len(sent), Len(received), nread, deferred, writing, q)
  <1>1. /\ ready \in Seq(Events) /\ reading \in {0, 1}
        /\ Len(sent) \in Nat /\ Len(received) \in Nat /\ nread \in Nat
        /\ ~fired => Fits(ready)
    BY DEF SessionInv, Orderly, Numbers, OneRequest
  <1>2. ready # <<>> => Tail(ready) \in Seq(Events) /\ (~fired => Fits(Tail(ready)))
    BY <1>1, InPlaceTail, Popped
  <1>3. ASSUME NEW q \in Seq(Events), Fits(q), NEW e \in Events, e.op # "write", e.result # "data"
        PROVE  Fits(Append(q, e))
    BY <1>1, <1>3, InPlacePush
  <1>4. ASSUME UNCHANGED <<sent, received, nread, deferred, fired, clobbered>>,
               writing' = writing \/ writing' = <<>>, conn = "closed" => conn' = "closed",
               ~fired => Fits(ready')
        PROVE  Orderly'
    BY <1>4, OrderlyKept
  <1> HIDE DEF Fits
  <1>5. CASE Accept
    <2>1. /\ UNCHANGED <<sent, received, nread, deferred, fired, clobbered, writing>>
          /\ conn # "closed" /\ ready' = ready
      BY <1>5 DEF Accept, HandleRequests, SessionInv, client
    <2> QED  BY <1>1, <1>4, <2>1
  <1>6. CASE ReadEnds \/ WriteHandled
    <2>1. /\ UNCHANGED <<sent, received, nread, deferred, fired, clobbered, writing, conn>>
          /\ ready # <<>> /\ ready' = Tail(ready)
      BY <1>6 DEF ReadEnds, WriteHandled, Runs, client
    <2> QED  BY <1>2, <1>4, <2>1
  <1>7. CASE ReadFails
    <2> DEFINE e == ReadDone("aborted", 0)
    <2>1. /\ UNCHANGED <<sent, received, nread, deferred, fired, clobbered>>
          /\ conn' = "closed" /\ writing' = <<>> /\ ready # <<>>
          /\ ready' = Tail(ready) \o [i \in 1 .. reading |-> e]
      BY <1>7 DEF ReadFails, CloseConnection, Runs, client
    <2>2. e \in Events /\ e.op # "write" /\ e.result # "data"
      BY EventTypes DEF ReadDone
    <2> HIDE DEF e
    <2>3. ready' = Tail(ready) \/ ready' = Append(Tail(ready), e)
      BY <1>1, <1>2, <2>1, <2>2, Aborted
    <2>4. ~fired => Fits(ready')
      BY <1>2, <1>3, <2>1, <2>2, <2>3
    <2> QED  BY <1>4, <2>1, <2>4
  <1>8. CASE TimeExpires
    <2>1. UNCHANGED <<sent, received, nread, deferred, fired, clobbered, writing, conn, ready>>
      BY <1>8 DEF TimeExpires, client
    <2> QED  BY <1>1, <1>4, <2>1
  <1>9. CASE WaitCompletes
    <2>1. /\ UNCHANGED <<sent, received, nread, deferred, fired, clobbered, writing, conn>>
          /\ ready' = Append(ready, Expiry)
      BY <1>9 DEF WaitCompletes, client
    <2>2. Expiry \in Events /\ Expiry.op # "write" /\ Expiry.result # "data"
      BY EventTypes DEF Expiry
    <2>3. ~fired => Fits(ready')
      BY <1>1, <1>3, <2>1, <2>2
    <2> QED  BY <1>4, <2>1, <2>3
  <1> QED
    BY <1>5, <1>6, <1>7, <1>8, <1>9, OrderlyDispatch, OrderlyDeadline, OrderlyAnswer,
       OrderlyRead, OrderlyWritten DEF Handler, Answer, System

-----------------------------------------------------------------------------
(* The request that is dispatched late.                                      *)

LEMMA NoDataKept ==
    ASSUME NEW q \in Seq(Events), NoData(q)
    PROVE  /\ q # <<>> => NoData(Tail(q))
           /\ \A e \in Events : e.result # "data" => NoData(Append(q, e))
  BY Popped, Pushed DEF NoData

\* The one request of a client that waits is in m_buffer alone, and is gone from the
\* queue when it is dispatched.
LEMMA LateStep ==
    ASSUME SessionInv, Orderly, LateInv, Handler \/ Answer \/ System
    PROVE  LateInv'
  <1>1. /\ ready \in Seq(Events) /\ nread \in Nat /\ taken = nread /\ late \in {0, 1}
        /\ late = 1 => conn = "closed" /\ NoData(ready)
    BY DEF SessionInv, LateInv
  <1>2. ASSUME UNCHANGED <<taken, nread, late>>, conn = "closed" => conn' = "closed",
               NEW q \in Seq(Events), NoData(ready) => NoData(q),
               NEW e \in Events, e.result # "data", ready' = q \/ ready' = Append(q, e)
        PROVE  LateInv'
    BY <1>1, <1>2, NoDataKept DEF LateInv
  <1>3. CASE Accept
    <2>1. UNCHANGED <<taken, nread, late, ready>> /\ conn # "closed"
      BY <1>1, <1>3 DEF Accept, HandleRequests
    <2> QED  BY <1>1, <2>1 DEF LateInv, NoData
  <1>4. CASE ReadEnds \/ WriteHandled
    <2>1. UNCHANGED <<taken, nread, late, conn>> /\ ready # <<>> /\ ready' = Tail(ready)
      BY <1>4 DEF ReadEnds, WriteHandled, Runs
    <2> QED  BY <1>1, <2>1, NoDataKept DEF LateInv
  <1>5. CASE ReadFails \/ Deadline
    <2> DEFINE e == ReadDone("aborted", 0)
    <2>1. e \in Events /\ e.result # "data"
      BY EventTypes DEF ReadDone
    <2>2. /\ UNCHANGED <<taken, nread, late>> /\ conn' = "closed" /\ ready # <<>>
          /\ ready' = Tail(ready) \o [i \in 1 .. reading |-> e]
      BY <1>5 DEF ReadFails, Deadline, CloseConnection, Runs
    <2> HIDE DEF e
    <2>3. Tail(ready) \in Seq(Events) /\ (NoData(ready) => NoData(Tail(ready)))
      BY <1>1, <2>2, NoDataKept, Popped
    <2>4. ready' = Tail(ready) \/ ready' = Append(Tail(ready), e)
      BY <2>1, <2>2, <2>3, Aborted DEF SessionInv
    <2> QED  BY <1>2, <2>1, <2>2, <2>3, <2>4
  <1>6. CASE ReadRequest
    <2> DEFINE e == ReadDone("bad", 0)
    <2>1. e \in Events /\ e.result # "data"
      BY EventTypes DEF ReadDone
    <2>2. /\ ready # <<>> /\ Head(ready).op = "read" /\ Head(ready).result = "data"
          /\ conn' = conn /\ late' = late + (IF conn = "closed" THEN 1 ELSE 0)
      BY <1>6 DEF ReadRequest, Runs
    <2>3. UNCHANGED <<taken, nread>> /\ (ready' = Tail(ready) \/ ready' = Append(Tail(ready), e))
      BY <1>1, <1>6 DEF ReadRequest, HandleRequests
    <2> HIDE DEF e
    <2>4. late = 0
      BY <1>1, <2>2, Popped DEF NoData
    <2>5. Tail(ready) \in Seq(Events) /\ NoData(Tail(ready))
      BY <1>1, <2>2, Popped DEF SessionInv, NoData
    <2>6. NoData(ready')
      BY <2>1, <2>3, <2>5, NoDataKept
    <2> QED  BY <1>1, <2>2, <2>3, <2>4, <2>6 DEF LateInv
  <1>7. CASE Answer \/ TimeExpires
    <2>1. UNCHANGED <<taken, nread, late, conn, ready>>
      BY <1>7 DEF Answer, AnswerLater, TimeExpires
    <2> QED  BY <1>1, <2>1 DEF LateInv, NoData
  <1>8. CASE ReadCompletes
    <2>1. reading > 0 /\ UNCHANGED <<conn, late>>
      BY <1>8 DEF ReadCompletes
    <2>2. conn # "closed" /\ ~fired
      BY <2>1 DEF SessionInv
    <2>3. late = 0
      BY <1>1, <2>2
    <2>4. /\ Len(sent) \in Nat /\ (nread < Len(sent) => nread + 1 = Len(sent))
      BY <2>2 DEF Orderly, Numbers, OneRequest, InPlace
    <2>5. taken' = nread'
      BY <1>1, <1>8, <2>4 DEF ReadCompletes
    <2> QED  BY <2>1, <2>3, <2>5 DEF LateInv
  <1>9. CASE WriteCompletes \/ WaitCompletes
    <2>1. PICK e \in {WriteDone, Expiry} : ready' = Append(ready, e)
      BY <1>9 DEF WriteCompletes, WaitCompletes
    <2>2. e \in Events /\ e.result # "data"
      BY EventTypes DEF WriteDone, Expiry
    <2>3. UNCHANGED <<taken, nread, late, conn>>
      BY <1>9 DEF WriteCompletes, WaitCompletes
    <2> QED  BY <1>1, <1>2, <2>1, <2>2, <2>3
  <1> QED  BY <1>3, <1>4, <1>5, <1>6, <1>7, <1>8, <1>9 DEF Handler, System

-----------------------------------------------------------------------------
(* The session by itself, with a client that sends what and when it likes.   *)

LEMMA InitInv == Init => IndInv
  <1> SUFFICES ASSUME Init PROVE IndInv
    OBVIOUS
  <1>1. <<>> \in Seq(Events) /\ <<>> \in Seq(AllKinds) /\ <<>> \in Seq(Responses)
    BY EmptySeq
  <1>2. SessionInv /\ LateInv
    BY <1>1 DEF Init, Fresh, SessionInv, LateInv, NoOp, NoData
  <1>3. Orderly
    BY <1>1 DEF Init, Fresh, Orderly, Numbers, Matched, OneRequest, InPlace, NoOp, NoData
  <1> QED  BY <1>2, <1>3 DEF IndInv

\* The session's own steps, whoever is at the other end.
LEMMA ServerInv == IndInv /\ (Handler \/ Answer \/ System) => IndInv' /\ pipelined' = pipelined
  <1> SUFFICES ASSUME IndInv, Handler \/ Answer \/ System
               PROVE  IndInv' /\ pipelined' = pipelined
    OBVIOUS
  <1>1. pipelined' = pipelined
    BY DEF Handler, Accept, ReadEnds, ReadFails, ReadRequest, WriteHandled, Deadline,
           Answer, AnswerLater, System, ReadCompletes, WriteCompletes, TimeExpires,
           WaitCompletes, client
  <1>2. SessionInv'
    BY SessionStep DEF IndInv
  <1>3. ~pipelined => Orderly' /\ LateInv'
    <2> SUFFICES ASSUME SessionInv, Orderly, LateInv PROVE Orderly' /\ LateInv'
      BY DEF IndInv
    <2>1. taken = nread
      BY DEF LateInv
    <2> QED  BY <2>1, OrderlyStep, LateStep
  <1> QED  BY <1>1, <1>2, <1>3 DEF IndInv

\* A request comes into the stream.
LEMMA SendInv ==
    ASSUME IndInv, conn # "closed", NEW kind \in AllKinds,
           sent' = Append(sent, kind) \/ sent' = sent,
           pipelined' = (pipelined \/ Len(received) # Len(sent)),
           UNCHANGED <<received, conn, taken, nread, reading, writing, ready, deferred, fired,
                       clobbered, late>>
    PROVE  IndInv'
  <1>1. SessionInv'
    <2>1. sent' \in Seq(AllKinds)
      <3>1. sent \in Seq(AllKinds)
        BY DEF IndInv, SessionInv
      <3> QED  BY <3>1, AppendProperties
    <2>2. SessionInv
      BY DEF IndInv
    <2> QED  BY <2>1, <2>2 DEF SessionInv, NoOp, Events
  <1>2. LateInv => LateInv'
    BY DEF LateInv, NoData
  <1>3. ~fired
    BY DEF IndInv, SessionInv
  <1>4. ~pipelined' => ~pipelined /\ Len(received) = Len(sent)
    OBVIOUS
  <1>5. CASE sent' = Append(sent, kind)
    BY <1>1, <1>2, <1>3, <1>4, <1>5, OrderlySend DEF IndInv
  <1>6. CASE sent' = sent
    <2>1. Orderly => Orderly'
      BY <1>6 DEF Orderly, Numbers, Responses, Matched, OneRequest
    <2> QED  BY <1>1, <1>2, <1>4, <2>1 DEF IndInv
  <1> QED  BY <1>5, <1>6

\* A step that leaves the connection alone.
LEMMA SameSession ==
    ASSUME UNCHANGED <<sent, received, pipelined, conn, taken, nread, reading, writing, ready,
                       deferred, fired, clobbered, late>>
    PROVE  (IndInv => IndInv') /\ (StatusInv => StatusInv')
  <1>1. (SessionInv => SessionInv') /\ (LateInv => LateInv')
    BY DEF SessionInv, LateInv, NoOp, NoData, Events
  <1>2. Orderly => Orderly'
    BY DEF Orderly, Numbers, Responses, Matched, OneRequest
  <1>3. StatusInv => StatusInv'
    BY DEF StatusInv
  <1> QED  BY <1>1, <1>2, <1>3 DEF IndInv

LEMMA NextInv == IndInv /\ [Next]_vars => IndInv'
  <1> SUFFICES ASSUME IndInv, [Next]_vars PROVE IndInv'
    OBVIOUS
  <1>1. CASE Handler \/ Answer \/ System
    BY <1>1, ServerInv
  <1>2. ASSUME NEW kind \in Kinds, ClientSends(kind) PROVE IndInv'
    <2>1. kind \in AllKinds
      BY KindsAssumption
    <2> QED  BY <1>2, <2>1, SendInv DEF ClientSends
  <1>3. CASE ClientCloses \/ UNCHANGED vars
    BY <1>3, SameSession DEF ClientCloses, vars
  <1> QED  BY <1>1, <1>2, <1>3 DEF Next, Answer, Ended

\* One read is outstanding or queued at a time, and a client that sends a request
\* only when it has the answer to the one before has it in one place.
THEOREM Inductive == Spec => []IndInv
  BY InitInv, NextInv, PTL DEF Spec

\* Type correctness of the session, for any kinds and any number of requests.
THEOREM TypeCorrect == Spec => []TypeOK
  <1>1. Init => TypeInv
    <2> SUFFICES ASSUME Init PROVE TypeInv
      OBVIOUS
    <2> USE DEF Init, Fresh
    <2>1. sent \in Seq(Kinds) /\ received \in Seq(Responses) /\ writing \in Seq(Responses)
      BY EmptySeq
    <2>2. /\ clientOpen \in BOOLEAN /\ pipelined \in BOOLEAN /\ expired \in BOOLEAN
          /\ alive \in BOOLEAN /\ fired \in BOOLEAN /\ clobbered \in BOOLEAN
      OBVIOUS
    <2>3. taken \in 0 .. Len(sent) /\ nread \in 0 .. taken /\ waits \in {0, 1} /\ deferred \subseteq DOMAIN sent
      OBVIOUS
    <2>4. KnownRequests
      BY DEF KnownRequests
    <2> QED  BY <2>1, <2>2, <2>3, <2>4 DEF TypeInv
  <1>2. IndInv /\ TypeInv /\ [Next]_vars => TypeInv'
    <2> SUFFICES ASSUME IndInv, TypeInv, [Next]_vars PROVE TypeInv'
      OBVIOUS
    <2>1. CASE Handler \/ Answer \/ System
      <3>1. SessionInv /\ Responses = Responses'
        BY DEF IndInv, Responses
      <3>2. sent' = sent /\ sent' \in Seq(Kinds)
        BY <2>1, FlagsStep DEF TypeInv
      <3>3. received' \in Seq(Responses) /\ writing' \in Seq(Responses)
        BY <2>1, <3>1, ResponsesStep
      <3>4. /\ taken' \in 0 .. Len(sent') /\ nread' \in 0 .. taken'
            /\ deferred' \subseteq DOMAIN sent' /\ KnownRequests'
        BY <2>1, <3>1, <3>2, KnownStep DEF KnownRequests
      <3> QED  BY <2>1, <3>1, <3>2, <3>3, <3>4, FlagsStep DEF TypeInv
    <2>2. ASSUME NEW kind \in Kinds, ClientSends(kind) PROVE TypeInv'
      <3>1. /\ sent' = Append(sent, kind) /\ pipelined' = (pipelined \/ Len(received) # Len(sent))
            /\ UNCHANGED <<clientOpen, expired, alive, fired, clobbered, taken, nread, received,
                           writing, waits, deferred, ready>>
        BY <2>2 DEF ClientSends
      <3>2. /\ sent' \in Seq(Kinds) /\ Len(sent') = Len(sent) + 1 /\ Len(sent) \in Nat
            /\ DOMAIN sent = 1 .. Len(sent) /\ DOMAIN sent' = 1 .. Len(sent) + 1
        BY <3>1, AppendProperties, LenProperties DEF TypeInv
      <3>3. pipelined' \in BOOLEAN
        BY <3>1 DEF TypeInv
      <3>4. /\ taken' \in 0 .. Len(sent') /\ nread' \in 0 .. taken'
            /\ deferred' \subseteq DOMAIN sent' /\ KnownRequests'
        BY <3>1, <3>2 DEF TypeInv, KnownRequests
      <3> QED  BY <3>1, <3>2, <3>3, <3>4 DEF TypeInv, Responses
    <2>3. CASE ClientCloses \/ UNCHANGED vars
      BY <2>3 DEF ClientCloses, vars, TypeInv, KnownRequests, Responses
    <2> QED  BY <2>1, <2>2, <2>3 DEF Next, Answer, Ended
  <1>3. IndInv /\ TypeInv => TypeOK
    BY DEF IndInv, SessionInv, TypeInv, TypeOK, Flags, Places
  <1> QED  BY <1>1, <1>2, <1>3, Inductive, PTL DEF Spec

\* m_buffer and m_request have one user, whatever the client sends and whenever.
THEOREM OneReaderHolds == Spec => []OneReader
  <1>1. IndInv => OneReader
    BY DEF IndInv, SessionInv, NoOp, OneReader
  <1> QED  BY <1>1, Inductive, PTL

\* Of a client that waits for each answer, at most one request is dispatched after its
\* connection was closed, whatever the handlers find in m_buffer.
THEOREM OneLateRequestHolds == Spec => []OneLateRequest
  <1>1. IndInv => OneLateRequest
    BY DEF IndInv, LateInv, OneLateRequest
  <1> QED  BY <1>1, Inductive, PTL

\* A client that waits for each answer gets them in order, with the 504 of the
\* deadline last.
THEOREM AnswersMatchHolds == Spec => []AnswersMatch
  <1>1. IndInv => AnswersMatch
    BY DEF IndInv, Orderly, Matched, AnswersMatch
  <1> QED  BY <1>1, Inductive, PTL

\* For such a client only the deadline's 504 replaces a response that is being
\* written.
THEOREM OnlyDeadlineClobbersHolds == Spec => []OnlyDeadlineClobbers
  <1>1. IndInv => OnlyDeadlineClobbers
    BY DEF IndInv, Orderly, OneRequest, OnlyDeadlineClobbers
  <1> QED  BY <1>1, Inductive, PTL

\* Whatever the client sends or leaves unsent, an open connection has a deadline
\* that is waited for or about to be handled: the safety part of its being closed.
THEOREM DeadlineArmedHolds == Spec => []DeadlineArmed
  <1>1. Init => DeadlineArmed
    BY DEF Init, Fresh, DeadlineArmed
  <1>2. IndInv /\ DeadlineArmed /\ [Next]_vars => DeadlineArmed'
    <2> SUFFICES ASSUME IndInv, DeadlineArmed, [Next]_vars PROVE DeadlineArmed'
      OBVIOUS
    <2>1. CASE Handler \/ Answer \/ System
      BY <2>1, ArmedStep DEF IndInv
    <2>2. CASE (\E kind \in Kinds : ClientSends(kind)) \/ ClientCloses \/ UNCHANGED vars
      <3>1. UNCHANGED <<conn, alive, waits, ready>>
        BY <2>2 DEF ClientSends, ClientCloses, vars
      <3> QED  BY <3>1 DEF DeadlineArmed, Queued
    <2> QED  BY <2>1, <2>2 DEF Next, Answer, Ended
  <1> QED  BY <1>1, <1>2, Inductive, PTL DEF Spec

-----------------------------------------------------------------------------
(* The session with HTTP::Client at the other end.                           *)

\* What the server's end leaves to the client.
LEMMA ServerFrame ==
    ASSUME Handler \/ Answer \/ System
    PROVE  /\ sent' = sent
           /\ conn = "closed" => conn' = "closed"
           /\ WriteCompletes \/ Deadline \/ received' = received
  <1>1. CASE Handler
    BY <1>1 DEF Handler, Accept, ReadEnds, ReadFails, ReadRequest, WriteHandled, Deadline,
                CloseConnection, client
  <1>2. CASE Answer \/ System
    BY <1>2 DEF Answer, AnswerLater, System, ReadCompletes, WriteCompletes, TimeExpires,
                WaitCompletes, client
  <1> QED  BY <1>1, <1>2

\* What the writes hold afterwards.
LEMMA WritesStep ==
    ASSUME SessionInv, Numbers, Handler \/ Answer \/ System,
           \A i \in DOMAIN writing : writing[i].status # 504
    PROVE  \A i \in DOMAIN writing' : writing'[i].status # 504
  <1>1. writing \in Seq(Responses)
    BY DEF Numbers
  <1>2. \/ writing' = writing \/ writing' = <<>>
        \/ writing # <<>> /\ writing' = Tail(writing)
        \/ \E id \in Nat, status \in Nat \ {504} : writing' = Append(writing, Response(id, status))
    <2>1. CASE ReadRequest
      <3>1. ready \in Seq(Events) /\ ready # <<>>
        BY <2>1 DEF ReadRequest, Runs, SessionInv
      <3>2. Head(ready).id \in Nat
        BY <3>1, Popped DEF Events
      <3>3. \/ writing' = writing
            \/ \E status \in Statuses(sent[Head(ready).id]) :
                    SendResponse(Response(Head(ready).id, status))
        BY <2>1 DEF ReadRequest
      <3>4. \A kind : Statuses(kind) \subseteq Nat \ {504}
        BY DEF Statuses
      <3> QED  BY <3>2, <3>3, <3>4 DEF SendResponse
    <2>2. CASE Answer
      <3>1. PICK id \in deferred : AnswerLater(id)
        BY <2>2 DEF Answer
      <3>2. id \in Nat
        BY DEF Numbers
      <3> QED  BY <3>1, <3>2 DEF AnswerLater, SendResponse
    <2>3. CASE WriteCompletes
      BY <2>3 DEF WriteCompletes
    <2>4. CASE Accept \/ ReadEnds \/ ReadFails \/ WriteHandled \/ Deadline
               \/ ReadCompletes \/ TimeExpires \/ WaitCompletes
      BY <2>4 DEF Accept, ReadEnds, ReadFails, WriteHandled, Deadline, CloseConnection,
                  ReadCompletes, TimeExpires, WaitCompletes
    <2> QED  BY <2>1, <2>2, <2>3, <2>4 DEF Handler, System
  <1>3. CASE writing # <<>> /\ writing' = Tail(writing)
    <2>1. /\ writing' \in Seq(Responses) /\ Len(writing') = Len(writing) - 1
          /\ \A i \in 1 .. Len(writing') : writing'[i] = writing[i + 1]
      BY <1>1, <1>3, HeadTailProperties
    <2>2. /\ DOMAIN writing = 1 .. Len(writing) /\ DOMAIN writing' = 1 .. Len(writing')
          /\ Len(writing) \in Nat
      BY <1>1, <2>1, LenProperties
    <2>3. \A i \in DOMAIN writing' : i + 1 \in DOMAIN writing /\ writing'[i] = writing[i + 1]
      BY <2>1, <2>2
    <2> QED  BY <2>3
  <1>4. ASSUME NEW id \in Nat, NEW status \in Nat \ {504},
               writing' = Append(writing, Response(id, status))
        PROVE  \A i \in DOMAIN writing' : writing'[i].status # 504
    <2> DEFINE a == Response(id, status)
    <2>1. a \in Responses /\ a.status # 504
      BY DEF Response, Responses
    <2>2. writing' = Append(writing, a)
      BY <1>4
    <2> HIDE DEF a
    <2>3. /\ writing' \in Seq(Responses) /\ Len(writing') = Len(writing) + 1
          /\ \A i \in 1 .. Len(writing) : writing'[i] = writing[i]
          /\ writing'[Len(writing) + 1] = a
      BY <1>1, <2>1, <2>2, AppendProperties
    <2> QED  BY <1>1, <2>1, <2>3, LenProperties
  <1> QED  BY <1>2, <1>3, <1>4

\* What the client receives: what it has, and perhaps one more response, which is
\* the deadline's or the answer to the request of the connection.
LEMMA ReceivedStep ==
    ASSUME SessionInv, Orderly, StatusInv, Len(sent) <= 1, Handler \/ Answer \/ System
    PROVE  /\ Len(received') >= Len(received) /\ Len(received') \in Nat
           /\ \A i \in DOMAIN received' :
                \/ i \in DOMAIN received /\ received'[i] = received[i]
                \/ received'[i].status = 504 /\ conn' = "closed"
                \/ /\ received'[i].for = 1 /\ received'[i].status # 504
                   /\ conn # "closed" /\ Len(sent) = 1 /\ Len(received) = 0
  <1>1. received \in Seq(Responses) /\ writing \in Seq(Responses) /\ Len(received) \in Nat
    BY DEF Orderly, Numbers
  <1>2. CASE received' = received
    BY <1>1, <1>2
  <1>3. ASSUME NEW a \in Responses, received' = Append(received, a)
        PROVE  /\ Len(received') = Len(received) + 1
               /\ \A i \in DOMAIN received' :
                    \/ i \in DOMAIN received /\ received'[i] = received[i]
                    \/ received'[i] = a
    BY <1>1, <1>3, AppendProperties, LenProperties
  <1>4. CASE Deadline
    <2>1. conn' = "closed" /\ (received' = received \/ received' = Append(received, Response(0, 504)))
      BY <1>4 DEF Deadline, CloseConnection
    <2>2. Response(0, 504) \in Responses /\ Response(0, 504).status = 504
      BY DEF Response, Responses
    <2> QED  BY <1>1, <1>2, <1>3, <2>1, <2>2
  <1>5. CASE WriteCompletes
    <2>1. writing # <<>> /\ (received' = received \/ received' = Append(received, Head(writing)))
      BY <1>5 DEF WriteCompletes
    <2>2. conn # "closed" /\ ~fired
      BY <2>1 DEF SessionInv
    <2>3. /\ ready \in Seq(Events) /\ Len(sent) \in Nat /\ nread \in 0 .. Len(sent)
          /\ InPlace(Len(sent), Len(received), nread, deferred, writing, ready)
      BY <2>2 DEF SessionInv, Orderly, Numbers, OneRequest
    <2>4. Len(writing) = 1 /\ writing[1].for = Len(sent) /\ Len(received) # Len(sent)
          /\ Len(received) <= Len(sent)
      BY <2>1, <2>3 DEF InPlace
    <2>5. Len(sent) = 1 /\ Len(received) = 0
      <3>1. ASSUME NEW s \in Nat, NEW r \in Nat, s <= 1, r # s, r <= s PROVE s = 1 /\ r = 0
        BY <3>1
      <3> QED  BY <1>1, <2>3, <2>4, <3>1
    <2>6. Head(writing) \in Responses /\ Head(writing) = writing[1] /\ 1 \in DOMAIN writing
      BY <1>1, <2>1, <2>4, HeadTailProperties, LenProperties
    <2>7. Head(writing).for = 1 /\ Head(writing).status # 504
      BY <2>4, <2>5, <2>6 DEF StatusInv
    <2> QED  BY <1>1, <1>2, <1>3, <2>1, <2>2, <2>5, <2>6, <2>7
  <1> QED  BY <1>2, <1>4, <1>5, ServerFrame

\* A new connection starts with a session of its own.
LEMMA FreshSession ==
    ASSUME NewConnection
    PROVE  IndInv' /\ StatusInv'
  <1>1. <<>> \in Seq(Events) /\ <<>> \in Seq(AllKinds) /\ <<>> \in Seq(Responses)
    BY EmptySeq
  <1>2. SessionInv' /\ LateInv'
    BY <1>1 DEF NewConnection, SessionInv, LateInv, NoOp, NoData, Events
  <1>3. Orderly'
    BY <1>1 DEF NewConnection, Orderly, Numbers, Responses, Matched, OneRequest, InPlace, NoOp, NoData
  <1>4. StatusInv'
    BY DEF NewConnection, StatusInv
  <1> QED  BY <1>2, <1>3, <1>4 DEF IndInv

\* The server's steps: an answer comes while the user waits for it.
LEMMA SyncServer ==
    ASSUME IndInv, SyncInv, mode = "sync", ServerStep
    PROVE  SyncInv'
  <1> USE DEF SyncInv
  <1>1. (Handler \/ Answer \/ System) /\ UNCHANGED <<mode, user, call, linked, consumed, chain, torn, outcome>>
    BY DEF ServerStep, local
  <1>2. SessionInv /\ Orderly /\ pipelined' = pipelined
    BY <1>1, ServerInv DEF IndInv, UserInv
  <1>3. sent' = sent /\ (conn = "closed" => conn' = "closed") /\ Len(sent) <= 1
    BY <1>1, ServerFrame DEF UserInv
  <1>4. /\ Len(received') >= Len(received) /\ Len(received') \in Nat /\ Len(received) \in Nat
        /\ \A i \in DOMAIN received' :
                \/ i \in DOMAIN received /\ received'[i] = received[i]
                \/ received'[i].status = 504 /\ conn' = "closed"
                \/ /\ received'[i].for = 1 /\ received'[i].status # 504
                   /\ conn # "closed" /\ Len(sent) = 1 /\ Len(received) = 0
    BY <1>1, <1>2, <1>3, ReceivedStep DEF Orderly, Numbers
  <1>5. StatusInv'
    BY <1>1, <1>2, <1>3, <1>4, WritesStep DEF StatusInv, Orderly
  <1>6. UserInv'
    BY <1>1, <1>2, <1>3, <1>4 DEF UserInv
  <1>7. UnreadInv'
    BY <1>1, <1>3, <1>4 DEF UnreadInv, UserInv
  <1>8. AnswerIsMine'
    BY <1>1 DEF AnswerIsMine
  <1> QED  BY <1>5, <1>6, <1>7, <1>8

\* The steps of the user's thread.
LEMMA SyncUser ==
    ASSUME IndInv, CallInv, SyncInv, mode = "sync",
           (\E kind \in Kinds : Call(kind)) \/ UserStep \/ Interrupt \/ Destroy
    PROVE  SyncInv'
  <1> USE DEF SyncInv
  <1> DEFINE server == <<conn, received, writing>>
             Kept == UNCHANGED <<server, consumed>> /\ chain' = <<>> /\ ~torn'
  <1>1. /\ Len(received) \in Nat /\ DOMAIN received = 1 .. Len(received)
        /\ Len(sent) \in Nat /\ chain = <<>> /\ ~torn /\ ~pipelined
        /\ SessionInv /\ Orderly
    BY LenProperties DEF IndInv, Orderly, Numbers, UserInv
  <1>2. ASSUME user # "read"
        PROVE  /\ \A i \in DOMAIN received : i > consumed => received[i].status = 504
               /\ ~(conn # "closed" /\ Len(sent) = 1 /\ Len(received) = 0)
    BY <1>2 DEF UserInv, UnreadInv
  <1>3. consumed \in Nat /\ consumed <= Len(received)
    BY DEF UnreadInv
  <1>4. ASSUME Kept, sent' = sent, pipelined' = pipelined,
               AnswerIsMine', user # "read", user' # "write",
               user' \in {"idle", "peek", "connect", "close", "gone"}
        PROVE  SyncInv'
    <2>1. StatusInv'
      BY <1>4 DEF StatusInv
    <2>2. UserInv' /\ UnreadInv'
      BY <1>1, <1>2, <1>3, <1>4 DEF UserInv, UnreadInv
    <2> QED  BY <1>4, <2>1, <2>2
  <1>5. ASSUME outcome'.got = NoAnswer PROVE AnswerIsMine'
    BY <1>5 DEF AnswerIsMine, NoAnswer
  <1>6. ASSUME outcome' = outcome, mode' = mode PROVE AnswerIsMine'
    BY <1>6 DEF AnswerIsMine, NoAnswer
  <1>7. ASSUME NEW kind \in Kinds, Call(kind) PROVE SyncInv'
    <2>1. /\ user = "idle" /\ user' \in {"peek", "connect"}
          /\ Kept /\ UNCHANGED <<sent, pipelined, mode, outcome>>
      BY <1>1, <1>7 DEF Call, session
    <2> QED  BY <1>4, <1>6, <2>1
  <1>8. CASE Peek
    <2>1. user = "peek" /\ call' = call /\ Kept /\ UNCHANGED <<sent, pipelined, mode, outcome>>
      BY <1>1, <1>8 DEF Peek, session
    <2>2. CASE user' \in {"close", "connect"}
      BY <1>4, <1>6, <2>1, <2>2
    <2>3. CASE user' = "write" /\ Unread > 0
      <3>1. Len(received) \in DOMAIN received /\ Len(received) > consumed
        BY <1>1, <1>3, <2>3 DEF Unread
      <3>2. conn = "closed"
        BY <1>2, <2>1, <3>1 DEF StatusInv
      <3>3. StatusInv'
        BY <2>1 DEF StatusInv
      <3>4. UserInv' /\ UnreadInv'
        BY <1>1, <1>2, <1>3, <2>1, <2>3, <3>2 DEF UserInv, UnreadInv
      <3> QED  BY <1>6, <2>1, <3>3, <3>4
    <2> QED  BY <1>8, <2>2, <2>3 DEF Peek
  <1>9. CASE Connect
    <2>1. /\ user = "connect" /\ user' = "write" /\ NewConnection /\ consumed' = 0 /\ chain' = <<>>
          /\ ~torn' /\ ~pipelined' /\ sent' = <<>> /\ received' = <<>>
          /\ UNCHANGED <<mode, call, outcome>>
      BY <1>1, <1>9 DEF Connect, NewConnection
    <2>2. StatusInv'
      BY <2>1, FreshSession
    <2>3. UserInv' /\ UnreadInv'
      BY <2>1 DEF UserInv, UnreadInv
    <2> QED  BY <1>6, <2>1, <2>2, <2>3
  <1>10. CASE ConnectFails
    <2>1. /\ user = "connect" /\ user' = "idle" /\ outcome'.got = NoAnswer
          /\ Kept /\ UNCHANGED <<sent, pipelined>>
      BY <1>1, <1>10 DEF ConnectFails, Return, session
    <2> QED  BY <1>4, <1>5, <2>1
  <1>11. CASE Write
    <2>1. /\ user = "write" /\ call \in Kinds /\ (sent = <<>> \/ conn = "closed")
          /\ UNCHANGED <<server, mode, consumed>>
      BY <1>11 DEF Write, WriteSync, WriteAsync, UserInv, CallInv
    <2>2. WriteSync
      BY <1>11 DEF Write, WriteAsync
    <2>3. Kept
      BY <1>1, <2>1, <2>2 DEF WriteSync
    <2>4. \/ /\ conn = "closed" /\ UNCHANGED <<sent, pipelined>>
             /\ user' = "idle" /\ outcome'.got = NoAnswer
          \/ /\ conn = "closed" /\ UNCHANGED <<sent, pipelined, outcome>>
             /\ user' = "read" /\ call' = "lost"
          \/ conn # "closed" /\ Arrives(call) /\ user' = "read" /\ UNCHANGED <<call, outcome>>
      BY <2>2 DEF WriteSync, Return
    <2>5. CASE /\ conn = "closed" /\ UNCHANGED <<sent, pipelined>>
               /\ user' = "idle" /\ outcome'.got = NoAnswer
      BY <1>4, <1>5, <2>1, <2>3, <2>5
    <2>6. CASE /\ conn = "closed" /\ UNCHANGED <<sent, pipelined, outcome>>
               /\ user' = "read" /\ call' = "lost"
      <3>1. StatusInv'
        BY <2>3 DEF StatusInv
      <3>2. UserInv' /\ UnreadInv'
        BY <1>1, <1>2, <1>3, <2>1, <2>3, <2>6 DEF UserInv, UnreadInv
      <3> QED  BY <1>6, <2>1, <2>6, <3>1, <3>2
    <2>7. CASE conn # "closed" /\ Arrives(call) /\ user' = "read" /\ UNCHANGED <<call, outcome>>
      <3>1. ~fired
        BY <1>1, <2>7 DEF SessionInv
      <3>2. InPlace(Len(sent), Len(received), nread, deferred, writing, ready)
        BY <1>1, <3>1 DEF Orderly, OneRequest
      <3>3. sent = <<>> /\ Len(sent) = 0
        BY <2>1, <2>7
      <3>4. Len(received) = 0
        BY <1>1, <3>2, <3>3 DEF InPlace
      <3>5. sent' = Append(sent, call) /\ Len(sent') = 1
        BY <1>1, <2>7, <3>3 DEF Arrives
      <3>6. ~pipelined'
        BY <1>1, <2>7, <3>3, <3>4 DEF Arrives
      <3>7. StatusInv'
        BY <2>3 DEF StatusInv
      <3>8. call # "lost"
        BY <2>1, KindsAssumption DEF AllKinds
      <3>9. UserInv' /\ UnreadInv'
        BY <1>1, <1>3, <2>1, <2>3, <2>7, <3>4, <3>5, <3>6, <3>8 DEF UserInv, UnreadInv
      <3> QED  BY <1>6, <2>1, <2>7, <3>7, <3>9
    <2> QED  BY <2>4, <2>5, <2>6, <2>7
  <1>12. CASE Read
    <2> DEFINE n == consumed + 1
    <2>1. /\ user = "read" /\ user' = "idle" /\ n \in DOMAIN received /\ n > consumed
          /\ consumed' \in n .. Len(received)
          /\ outcome' = [asked |-> IF call = "lost" THEN 0 ELSE Len(sent), got |-> received[n]]
          /\ UNCHANGED <<server, sent, pipelined, torn, mode, chain>>
      BY <1>1, <1>3, <1>12 DEF Read, Return, Unread, session
    <2>2. StatusInv'
      BY <2>1 DEF StatusInv
    <2>3. \/ received[n].status = 504
          \/ received[n].for = 1 /\ call # "lost" /\ Len(sent) = 1
      BY <2>1 DEF UnreadInv
    <2>4. AnswerIsMine'
      <3> DEFINE a == received[n]
                 k == IF call = "lost" THEN 0 ELSE Len(sent)
      <3>1. outcome'.got = a /\ outcome'.asked = k
        BY <2>1
      <3>2. a.for = k \/ a.status = 504
        BY <2>3
      <3> HIDE DEF a, k
      <3> QED  BY <3>1, <3>2 DEF AnswerIsMine
    <2>5. UserInv'
      BY <1>1, <2>1 DEF UserInv
    <2>6. ASSUME NEW i \in DOMAIN received, i > consumed' PROVE received[i].status = 504
      <3>1. i > consumed /\ i # 1
        BY <1>1, <1>3, <2>1, <2>6
      <3> QED  BY <1>1, <3>1 DEF UnreadInv, Orderly, Matched
    <2>7. UnreadInv'
      BY <1>1, <1>3, <2>1, <2>6 DEF UnreadInv
    <2> QED  BY <2>2, <2>4, <2>5, <2>7
  <1>13. CASE ReadError
    <2>1. /\ conn = "closed" /\ user' = "idle" /\ outcome'.got = NoAnswer
          /\ consumed' = Len(received)
          /\ UNCHANGED <<server, sent, pipelined, torn, mode, chain>>
      BY <1>13 DEF ReadError, Return, session
    <2>2. StatusInv'
      BY <2>1 DEF StatusInv
    <2>3. UserInv' /\ UnreadInv'
      BY <1>1, <2>1 DEF UserInv, UnreadInv
    <2> QED  BY <1>5, <2>1, <2>2, <2>3
  <1>14. CASE Interrupt
    <2>1. Writing = {}
      BY <1>1 DEF Writing
    <2>2. ~torn'
      BY <1>1, <1>14, <2>1 DEF Interrupt
    <2>3. user = "idle" /\ user' = user /\ Kept /\ UNCHANGED <<sent, pipelined, mode, outcome>>
      BY <1>1, <1>14, <2>2 DEF Interrupt, session
    <2> QED  BY <1>4, <1>6, <2>3
  <1>15. CASE Destroy
    <2>1. /\ user = "idle" /\ user' \in {"peek", "close"}
          /\ Kept /\ UNCHANGED <<sent, pipelined, mode, outcome>>
      BY <1>1, <1>15 DEF Destroy, session
    <2> QED  BY <1>4, <1>6, <2>1
  <1>16. CASE Close
    <2>1. /\ user = "close" /\ user' = "gone" /\ Kept /\ UNCHANGED <<sent, pipelined, mode, outcome>>
      BY <1>1, <1>16 DEF Close
    <2> QED  BY <1>4, <1>6, <2>1
  <1> QED
    BY <1>7, <1>8, <1>9, <1>10, <1>11, <1>12, <1>13, <1>14, <1>15, <1>16 DEF UserStep

LEMMA ExchangeInitInv == ExchangeInit => ExchangeInv
  <1> SUFFICES ASSUME ExchangeInit PROVE ExchangeInv
    OBVIOUS
  <1>1. <<>> \in Seq(Events) /\ <<>> \in Seq(AllKinds) /\ <<>> \in Seq(Responses)
    BY EmptySeq
  <1>2. SessionInv /\ LateInv
    BY <1>1 DEF ExchangeInit, Fresh, SessionInv, LateInv, NoOp, NoData
  <1>3. Orderly
    BY <1>1 DEF ExchangeInit, Fresh, Orderly, Numbers, Matched, OneRequest, InPlace, NoOp, NoData
  <1>4. StatusInv /\ UserInv /\ UnreadInv /\ AnswerIsMine /\ CallInv
    BY DEF ExchangeInit, Fresh, StatusInv, UserInv, UnreadInv, AnswerIsMine, CallInv
  <1> QED  BY <1>2, <1>3, <1>4 DEF ExchangeInv, SyncInv, IndInv

\* What comes into the stream is a request of some kind, wherever it was written.
LEMMA ArrivesInv ==
    ASSUME IndInv, conn # "closed", NEW kind \in Kinds, Arrives(kind),
           UNCHANGED <<received, conn, taken, nread, reading, writing, ready, deferred, fired,
                       clobbered, late>>
    PROVE  IndInv'
  <1>1. kind \in AllKinds /\ "malformed" \in AllKinds
    BY KindsAssumption DEF AllKinds
  <1>2. sent' = sent \/ sent' = Append(sent, kind) \/ sent' = Append(sent, "malformed")
    BY DEF Arrives
  <1>3. pipelined' = (pipelined \/ Len(received) # Len(sent))
    BY DEF Arrives
  <1>4. CASE sent' = Append(sent, "malformed")
    BY <1>1, <1>3, <1>4, SendInv
  <1> QED  BY <1>1, <1>2, <1>3, <1>4, SendInv

\* The client's steps that leave the connection as it is.
LEMMA ClientInv ==
    ASSUME IndInv,
           \/ \E kind \in Kinds : Call(kind)
           \/ Peek \/ ConnectFails \/ Read \/ ReadError \/ Close \/ Interrupt \/ Destroy
           \/ \E i \in 1 .. MaxRequests : AsyncHandler(i)
           \/ ExchangeEnded \/ UNCHANGED allVars
    PROVE  IndInv'
  <1>1. UNCHANGED <<sent, received, pipelined, conn, taken, nread, reading, writing, ready,
                    deferred, fired, clobbered, late>>
    <2>1. CASE ~Close
      <3>1. UNCHANGED session
        BY <2>1 DEF Call, Peek, ConnectFails, Read, ReadError, Interrupt, Destroy, AsyncHandler,
                    AsyncWritten, AsyncRead, AsyncReadFails, CallBackFirst, AsyncCallsAgain,
                    ExchangeEnded, allVars
      <3> QED  BY <3>1 DEF session
    <2>2. CASE Close
      BY <2>2 DEF Close
    <2> QED  BY <2>1, <2>2
  <1> QED  BY <1>1, SameSession

LEMMA ExchangeSession ==
    ASSUME IndInv, CallInv, [ExchangeNext]_allVars
    PROVE  IndInv'
  <1>1. CASE Connect
    BY <1>1, FreshSession DEF Connect
  <1>2. CASE Write
    <2>1. user = "write" /\ call \in Kinds
          /\ UNCHANGED <<received, conn, taken, nread, reading, writing, ready, deferred, fired,
                         clobbered, late>>
      BY <1>2 DEF Write, WriteSync, WriteAsync, CallInv
    <2>2. (conn # "closed" /\ Arrives(call)) \/ UNCHANGED <<sent, pipelined>>
      BY <1>2 DEF Write, WriteSync, WriteAsync
    <2> QED  BY <2>1, <2>2, ArrivesInv, SameSession
  <1>3. ASSUME NEW i \in 1 .. MaxRequests, WriteEnds(i) PROVE IndInv'
    <2>1. UNCHANGED <<received, conn, taken, nread, reading, writing, ready, deferred, fired,
                      clobbered, late>>
      BY <1>3 DEF WriteEnds
    <2>2. (conn # "closed" /\ \E kind \in Kinds : Arrives(kind)) \/ UNCHANGED <<sent, pipelined>>
      BY <1>3 DEF WriteEnds
    <2> QED  BY <2>1, <2>2, ArrivesInv, SameSession
  <1>4. CASE ServerStep
    BY <1>4, ServerInv DEF ServerStep
  <1> QED  BY <1>1, <1>2, <1>3, <1>4, ClientInv DEF ExchangeNext, UserStep

\* What the user's thread sends is what it was called for.
LEMMA CallStep ==
    ASSUME CallInv, [ExchangeNext]_allVars
    PROVE  CallInv' /\ mode' = mode
  <1> USE DEF CallInv
  <1>1. ASSUME NEW kind \in Kinds, Call(kind) PROVE CallInv' /\ mode' = mode
    BY <1>1 DEF Call
  <1>2. CASE Peek
    BY <1>2 DEF Peek
  <1>3. CASE Connect
    BY <1>3 DEF Connect, NewConnection
  <1>4. CASE ConnectFails \/ Read \/ ReadError \/ Close \/ Destroy
    BY <1>4 DEF ConnectFails, Read, ReadError, Close, Destroy, Return
  <1>5. CASE Write
    BY <1>5 DEF Write, WriteSync, WriteAsync, Return
  <1>6. CASE Interrupt \/ \E i \in 1 .. MaxRequests : AsyncHandler(i) \/ WriteEnds(i)
    <2>1. UNCHANGED <<mode, user, call>>
      BY <1>6 DEF Interrupt, AsyncHandler, AsyncWritten, AsyncRead, AsyncReadFails,
                  CallBackFirst, AsyncCallsAgain, WriteEnds
    <2> QED  BY <2>1
  <1>7. CASE ServerStep \/ ExchangeEnded \/ UNCHANGED allVars
    <2>1. UNCHANGED <<mode, user, call>>
      BY <1>7 DEF ServerStep, ExchangeEnded, allVars, local
    <2> QED  BY <2>1
  <1> QED  BY <1>1, <1>2, <1>3, <1>4, <1>5, <1>6, <1>7 DEF ExchangeNext, UserStep

LEMMA ExchangeNextInv == ExchangeInv /\ [ExchangeNext]_allVars => ExchangeInv'
  <1> SUFFICES ASSUME ExchangeInv, [ExchangeNext]_allVars PROVE ExchangeInv'
    OBVIOUS
  <1>1. IndInv /\ CallInv /\ (mode = "sync" => SyncInv)
    BY DEF ExchangeInv
  <1>2. IndInv' /\ CallInv' /\ mode' = mode
    BY <1>1, ExchangeSession, CallStep
  <1>3. ASSUME mode = "sync" PROVE SyncInv'
    <2>1. CASE (\E kind \in Kinds : Call(kind)) \/ UserStep \/ Interrupt \/ Destroy
      BY <1>1, <1>3, <2>1, SyncUser
    <2>2. CASE ServerStep
      BY <1>1, <1>3, <2>2, SyncServer
    <2>3. ASSUME NEW i \in 1 .. MaxRequests PROVE ~AsyncHandler(i) /\ ~WriteEnds(i)
      <3>1. chain = <<>>
        BY <1>1, <1>3 DEF SyncInv, UserInv
      <3> QED  BY <3>1 DEF AsyncHandler, WriteEnds, Writing
    <2>4. CASE ExchangeEnded \/ UNCHANGED allVars
      <3>1. UNCHANGED session /\ UNCHANGED local
        BY <2>4 DEF ExchangeEnded, allVars
      <3>2. UserInv => UserInv'
        BY <3>1 DEF UserInv, session, local
      <3>3. UnreadInv => UnreadInv'
        BY <3>1 DEF UnreadInv, session, local
      <3>4. AnswerIsMine => AnswerIsMine'
        BY <3>1 DEF AnswerIsMine, local
      <3> QED  BY <1>1, <1>3, <3>1, <3>2, <3>3, <3>4, SameSession DEF SyncInv, session
    <2> QED  BY <2>1, <2>2, <2>3, <2>4 DEF ExchangeNext
  <1> QED  BY <1>2, <1>3 DEF ExchangeInv

\* Whatever the client calls, and however often it connects anew.
THEOREM ExchangeInductive == ExchangeSpec => []ExchangeInv
  BY ExchangeInitInv, ExchangeNextInv, PTL DEF ExchangeSpec

\* request() returns the answer to its own request, a 504 or nothing: never the
\* answer to an earlier request, though connections are reused and responses
\* may be left unread.
THEOREM AnswerIsMineHolds == ExchangeSpec => []AnswerIsMine
  <1>1. ExchangeInv => AnswerIsMine
    BY DEF ExchangeInv, SyncInv, AnswerIsMine
  <1> QED  BY <1>1, ExchangeInductive, PTL

\* With HTTP::Client at the other end, whichever way it is called and however often it
\* connects anew, cuts its own requests and mixes them: a session has one read at a time,
\* and as long as requestAsync() did not pipeline on a connection, the connection's
\* requests are answered in order, and at most one is dispatched too late.
THEOREM SessionInExchange ==
    ExchangeSpec => [](OneReader /\ AnswersMatch /\ OnlyDeadlineClobbers /\ OneLateRequest)
  <1>1. IndInv => OneReader /\ OneLateRequest
    BY DEF IndInv, SessionInv, LateInv, NoOp, OneReader, OneLateRequest
  <1>2. IndInv => AnswersMatch /\ OnlyDeadlineClobbers
    BY DEF IndInv, Orderly, Matched, OneRequest, AnswersMatch, OnlyDeadlineClobbers
  <1>3. ExchangeInv => OneReader /\ AnswersMatch /\ OnlyDeadlineClobbers /\ OneLateRequest
    BY <1>1, <1>2 DEF ExchangeInv
  <1> QED  BY <1>3, ExchangeInductive, PTL

\* The user of request() never pipelines, although nothing in the server keeps a client
\* from it: a 504 or an answer that is still unread makes it look connected, but then the
\* server has closed.  So the server answers it in order, replaces its responses under a
\* write only for the deadline, and dispatches at most one of its requests too late.
THEOREM SyncAnswersMatch ==
    ExchangeSpec => [](mode = "sync" =>
                        ~pipelined /\ AnswersMatch /\ OnlyDeadlineClobbers /\ OneLateRequest)
  <1>1. ExchangeInv => (mode = "sync" => ~pipelined)
    BY DEF ExchangeInv, SyncInv, UserInv
  <1> QED  BY <1>1, ExchangeInductive, SessionInExchange, PTL

\* A call of the client that blocks in isConnected() or in a read is never left to
\* a server that forgot it: while the connection is open, its deadline is armed,
\* on the connections that replace a closed one too.
THEOREM DeadlineInExchange == ExchangeSpec => []DeadlineArmed
  <1>1. ExchangeInit => DeadlineArmed
    BY DEF ExchangeInit, Fresh, DeadlineArmed
  <1>2. ExchangeInv /\ DeadlineArmed /\ [ExchangeNext]_allVars => DeadlineArmed'
    <2> SUFFICES ASSUME ExchangeInv, DeadlineArmed, [ExchangeNext]_allVars PROVE DeadlineArmed'
      OBVIOUS
    <2>1. CASE ServerStep
      BY <2>1, ArmedStep DEF ServerStep, ExchangeInv, IndInv
    <2>2. CASE Connect
      BY <2>2 DEF Connect, NewConnection, DeadlineArmed
    <2>3. CASE ~ServerStep /\ ~Connect
      <3>1. UNCHANGED <<conn, alive, waits, ready>>
        BY <2>3 DEF ExchangeNext, Call, UserStep, Peek, ConnectFails, Write, Read, ReadError,
                    Close, Interrupt, Destroy, AsyncHandler, AsyncWritten, AsyncRead,
                    AsyncReadFails, CallBackFirst, AsyncCallsAgain, WriteEnds, ExchangeEnded,
                    allVars, session
      <3> QED  BY <3>1 DEF DeadlineArmed, Queued
    <2> QED  BY <2>1, <2>2, <2>3
  <1> QED  BY <1>1, <1>2, ExchangeInductive, PTL DEF ExchangeSpec

==============================================================================
