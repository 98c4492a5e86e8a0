------------------------------ MODULE Transport ------------------------------
(***************************************************************************)
(* The legacy transport: TransportPacket, TransportClient and the server's *)
(* ConnectionSession over one TCP connection at a time.                    *)
(*                                                                         *)
(* TCP is a stream: a packet is put on it as two units and a read returns  *)
(* any number of units, so packets arrive cut or run together.  A request  *)
(* is named by the size of its serialised form (hexadecimal, hence twice   *)
(* its payload); size 0 names the packets a callback asks to send.         *)
(***************************************************************************)
EXTENDS Integers, Sequences, FiniteSets, SequencesExt

CONSTANTS
    Sizes,          \* the requests the user makes, each at most once
    MaxPacket,      \* MAX_PACKET_SIZE_B
    Threads,        \* threads that run the server's io_context
    BufferUnits,    \* dataBufferSize_, in units
    MaxRequests,    \* bound on the calls of request()
    MaxReplies      \* bound on the callbacks that return true

ASSUME TransportAssumption ==
    /\ Sizes \subseteq Nat \ {0}
    /\ {MaxPacket, Threads, BufferUnits} \subseteq Nat \ {0}
    /\ {MaxRequests, MaxReplies} \subseteq Nat

VARIABLES
    \* TransportClient
    hasToken, hasTarget,    \* setToken(); setAddress() and setProcessor()
    conn,                   \* the connection: "closed", "open", "reset"
    asked,                  \* requests that were sent
    replies,                \* callbacks that returned true
    parts,                  \* subpacketVectors, by guid
    got,                    \* what the processor callback was given, in order
    \* the TCP connection
    toServer, toClient,
    \* ConnectionSession
    session,                \* "none", "reading", "ended" (no read is started again)
    buffer,                 \* data_, up to its first zero byte
    posted,                 \* tasks posted and not begun
    running,                \* packets that tasks on threads are about to write
    crashed                 \* an exception left io_context::run()

clientVars == <<hasToken, hasTarget, conn, asked, replies, parts, got>>
serverVars == <<session, buffer, posted, running, crashed>>
vars == <<clientVars, toServer, toClient, serverVars>>

-----------------------------------------------------------------------------
(* TransportPacket *)

TokenList == {"DEVELOP_TOKEN"}

MustBeSeparated(n) == n \div 2 > MaxPacket

Packet(n) ==
    [req |-> n, token |-> "DEVELOP_TOKEN", no |-> 0, total |-> 0,
     from |-> 0, to |-> n, packed |-> TRUE, byServer |-> FALSE]

\* The text of a packet.  serialize() leaves the token out, so that a packet
\* that was read has none.
\* Mutant: the token is serialised too.
TextWithToken(p) == p
Text(p) == [p EXCEPT !.token = ""]

TotalCount(n) == n \div MaxPacket + 1

ChunkSize(n, i) ==
    IF i * MaxPacket + MaxPacket < n THEN MaxPacket ELSE n % MaxPacket

\* The i-th chunk begins where the chunks before it end.
ToSubpackets(n) ==
    LET begin[i \in 0 .. TotalCount(n)] ==
            IF i = 0 THEN 0 ELSE begin[i - 1] + ChunkSize(n, i - 1)
    IN  [k \in 1 .. TotalCount(n) |->
            [Packet(n) EXCEPT !.token = "", !.no = k - 1, !.total = TotalCount(n),
                              !.from = begin[k - 1], !.to = begin[k]]]

\* Whether the chunks, joined, are the text of the packet that was split.
Joins(s) ==
    /\ s[1].from = 0
    /\ \A k \in 1 .. Len(s) - 1 : s[k].to = s[k + 1].from
    /\ s[Len(s)].to = s[Len(s)].req

\* Mutant: the chunks are joined in the order of their arrival.
FromSubpacketsUnsorted(s) == s
\* The order in which the subpackets are left and joined: by their numbers.
\* Those with the same number are alike.
FromSubpackets(s) ==
    LET Place(k) ==
            Cardinality({j \in DOMAIN s : s[j].no < s[k].no \/ (s[j].no = s[k].no /\ j <= k)})
    IN  [i \in DOMAIN s |-> s[CHOOSE k \in DOMAIN s : Place(k) = i]]

\* What fromString() makes of a text: it needs one packet from its beginning;
\* when other bytes follow, the cipher may or may not accept the text.
FromString(text) ==
    LET p == text[1].packet
        ok == /\ Len(text) >= 2
              /\ text[1] = [packet |-> p, half |-> 1]
              /\ text[2] = [packet |-> p, half |-> 2]
              /\ p.packed
    IN  (IF ok THEN {p} ELSE {}) \cup (IF ok /\ Len(text) = 2 THEN {} ELSE {[packed |-> FALSE]})

Units(p) == <<[packet |-> p, half |-> 1], [packet |-> p, half |-> 2]>>
UnitsOf(ps) ==
    [i \in 1 .. 2 * Len(ps) |-> [packet |-> ps[(i + 1) \div 2], half |-> 2 - (i % 2)]]
-----------------------------------------------------------------------------

Init ==
    /\ hasToken = FALSE /\ hasTarget = FALSE
    /\ conn = "closed" /\ asked = {} /\ replies = 0
    /\ parts = [n \in Sizes |-> <<>>] /\ got = <<>>
    /\ toServer = <<>> /\ toClient = <<>>
    /\ session = "none" /\ buffer = <<>> /\ posted = 0 /\ running = <<>>
    /\ crashed = FALSE
-----------------------------------------------------------------------------
(* TransportClient.  A call that is refused only reports an error. *)

SetToken ==
    /\ hasToken' = ~hasToken
    /\ UNCHANGED <<hasTarget, conn, asked, replies, parts, got, toServer, toClient, serverVars>>

\* setAddress() and setProcessor() refuse while connected.
SetTarget ==
    /\ conn # "open"
    /\ hasTarget' = ~hasTarget
    /\ UNCHANGED <<hasToken, conn, asked, replies, parts, got, toServer, toClient, serverVars>>

\* connectToHost(), and the server's accept handler, which starts a session.
\* Sessions share nothing, so the model follows one at a time.
ConnectToHost ==
    /\ hasToken /\ hasTarget
    /\ \/ conn = "open" /\ UNCHANGED <<conn, session, buffer>>
       \/ /\ conn = "closed" /\ session = "none" /\ ~crashed
          /\ conn' = "open" /\ session' = "reading" /\ buffer' = <<>>

\* request() connects first; send() hands everything to the socket at once.
Request(n) ==
    /\ n \notin asked /\ Cardinality(asked) < MaxRequests
    /\ ConnectToHost
    /\ asked' = asked \cup {n}
    /\ toServer' = toServer \o
          UnitsOf(IF MustBeSeparated(n)
                  THEN [k \in 1 .. TotalCount(n) |-> Text(ToSubpackets(n)[k])]
                  ELSE <<Text(Packet(n))>>)
    /\ UNCHANGED <<hasToken, hasTarget, replies, parts, got, toClient, posted, running, crashed>>

DisconnectFromHost ==
    /\ conn = "open"
    /\ conn' = "closed" /\ toClient' = <<>>
    /\ UNCHANGED <<hasToken, hasTarget, asked, replies, parts, got, toServer, serverVars>>

\* The connection breaks: what was on its way is lost.
Break ==
    /\ conn = "open"
    /\ conn' = "reset" /\ toServer' = <<>> /\ toClient' = <<>>
    /\ UNCHANGED <<hasToken, hasTarget, asked, replies, parts, got, serverVars>>

\* The processor callback is given what came; when it returns true the client
\* sends what the callback asks for, as a packet or as the bare payload.
Callback(delivery, packed) ==
    /\ got' = Append(got, delivery)
    /\ \/ UNCHANGED <<replies, toServer>>
       \/ /\ replies < MaxReplies
          /\ replies' = replies + 1
          /\ toServer' = toServer \o Units([Text(Packet(0)) EXCEPT !.packed = packed])

\* Mutant: the packet counts as complete from its last part on.
ProcessSubpacketAtLeast(p) ==
    LET s == Append(parts[p.req], p) IN
    IF Len(s) >= p.total
    THEN /\ parts' = [parts EXCEPT ![p.req] = FromSubpackets(s)]
         /\ Callback([req |-> p.req, split |-> TRUE, whole |-> Joins(FromSubpackets(s))], TRUE)
    ELSE /\ parts' = [parts EXCEPT ![p.req] = s]
         /\ UNCHANGED <<got, replies, toServer>>
\* The result of fromSubpackets() is not looked at: when the text does not
\* decode the callback is given the last part instead.
ProcessSubpacket(p) ==
    LET s == Append(parts[p.req], p) IN
    IF Len(s) = p.total
    THEN /\ parts' = [parts EXCEPT ![p.req] = FromSubpackets(s)]
         /\ Callback([req |-> p.req, split |-> TRUE, whole |-> Joins(FromSubpackets(s))], TRUE)
    ELSE /\ parts' = [parts EXCEPT ![p.req] = s]
         /\ UNCHANGED <<got, replies, toServer>>

\* readyRead: readAll() returns what has arrived.
GotResponse(k) ==
    /\ conn = "open" /\ k <= Len(toClient)
    /\ toClient' = SubSeq(toClient, k + 1, Len(toClient))
    /\ \E p \in FromString(SubSeq(toClient, 1, k)) :
          \/ ~p.packed /\ UNCHANGED <<parts, got, replies, toServer>>
          \/ p.packed /\ p.total # 0 /\ ProcessSubpacket(p)
          \/ /\ p.packed /\ p.total = 0
             /\ Callback([req |-> p.req, split |-> FALSE, whole |-> ~p.byServer], FALSE)
             /\ UNCHANGED parts
    /\ UNCHANGED <<hasToken, hasTarget, conn, asked, serverVars>>
-----------------------------------------------------------------------------
(* ConnectionSession: handlers and tasks run on any free thread. *)

FreeThread == session = "reading" /\ Len(running) < Threads /\ ~crashed

\* The read handler.  The task holds a pointer to data_, not a copy, so that
\* all tasks that wait are alike.  The next read is started at once.
ReadSome(k) ==
    /\ FreeThread /\ k <= Len(toServer) /\ k <= BufferUnits
    /\ buffer' = SubSeq(toServer, 1, k) \o SubSeq(buffer, k + 1, Len(buffer))
    /\ toServer' = SubSeq(toServer, k + 1, Len(toServer))
    /\ posted' = posted + 1
    /\ UNCHANGED <<clientVars, toClient, session, running, crashed>>

\* An error other than the end of the stream is logged; a task is posted and
\* the read started again, which now meets the end.
ReadError ==
    /\ FreeThread /\ conn = "reset"
    /\ conn' = "closed" /\ posted' = posted + 1
    /\ UNCHANGED <<hasToken, hasTarget, asked, replies, parts, got, toServer, toClient,
                   session, buffer, running, crashed>>

\* Mutant: the end of the stream is treated like the other errors.
ReadEofGoesOn ==
    /\ FreeThread /\ conn = "closed" /\ toServer = <<>>
    /\ posted' = 1
    /\ UNCHANGED <<clientVars, toServer, toClient, session, buffer, running, crashed>>
ReadEof ==
    /\ FreeThread /\ conn = "closed" /\ toServer = <<>>
    /\ session' = "ended"
    /\ UNCHANGED <<clientVars, toServer, toClient, buffer, posted, running, crashed>>

\* A packet whose token is in the list is handed to the callback, whose answer
\* is the server's own; any other packet is sent back.
Answer(p) == [Text(p) EXCEPT !.byServer = p.token \in TokenList]

\* A task begins: it decodes what the buffer holds now.
TaskDecodes ==
    /\ session \in {"reading", "ended"} /\ posted > 0 /\ Len(running) < Threads /\ ~crashed
    /\ posted' = posted - 1
    /\ \E p \in IF buffer = <<>> THEN {[packed |-> FALSE]} ELSE FromString(buffer) :
          running' = IF p.packed THEN Append(running, Answer(p)) ELSE running
    /\ UNCHANGED <<clientVars, toServer, toClient, session, buffer, crashed>>

\* writeSocket(): write_some() may write a part only, and it throws when the
\* peer is gone and the system has noticed.
TaskWrites(i) ==
    /\ ~crashed
    /\ \/ /\ conn = "open"
          /\ \E k \in 1 .. 2 : toClient' = toClient \o SubSeq(Units(running[i]), 1, k)
          /\ UNCHANGED crashed
       \/ conn # "open" /\ crashed' \in BOOLEAN /\ UNCHANGED toClient
    /\ running' = RemoveAt(running, i)
    /\ UNCHANGED <<clientVars, toServer, session, buffer, posted>>

\* The last handler and the last task let the session go.
SessionGoes ==
    /\ session = "ended" /\ posted = 0 /\ running = <<>> /\ ~crashed
    /\ session' = "none" /\ buffer' = <<>>
    /\ UNCHANGED <<clientVars, toServer, toClient, posted, running, crashed>>
-----------------------------------------------------------------------------

Server ==
    \/ \E k \in 1 .. BufferUnits : ReadSome(k)
    \/ ReadError \/ ReadEof \/ TaskDecodes \/ SessionGoes
    \/ \E i \in DOMAIN running : TaskWrites(i)

Next ==
    \/ SetToken \/ SetTarget \/ DisconnectFromHost \/ Break
    \/ \E n \in Sizes : Request(n)
    \/ \E k \in 1 .. Len(toClient) : GotResponse(k)
    \/ Server

Spec == Init /\ [][Next]_vars

\* The threads of the server run what is due.
FairSpec == Spec /\ WF_vars(Server)
-----------------------------------------------------------------------------

\* Because serialize() leaves the token out, no packet passes the server's
\* token check: whatever it is sent, with a token of its list or without, it
\* only ever sends packets back and its own callback is never asked.
OnlyEchoes ==
    \A p \in Range(running) \cup {u.packet : u \in Range(toClient)} : ~p.byServer

\* However often the pieces of a request come back, cut, doubled by the shared
\* read buffer or out of order, the client's callback is called at most once
\* with the joined request.
JoinedOnce ==
    \A i, j \in DOMAIN got :
        got[i].split /\ got[j].split /\ got[i].req = got[j].req => i = j

\* The numbers of the parts that came back first, as many as the request has.
FirstParts(n) == [k \in 1 .. TotalCount(n) |-> parts[n][k].no]

\* When as many parts of a request have come as it has, the callback has been told,
\* and these parts decide what: the request, if they are all different, in whatever order
\* the server's threads sent them, and its size is no multiple of MAX_PACKET_SIZE_B;
\* otherwise something else.  By JoinedOnce that is for good: a part that the server
\* doubled costs the request, though the part it pushed out may still come.
JoinedIsWhole ==
    \A n \in Sizes : Len(parts[n]) >= TotalCount(n) =>
        [req |-> n, split |-> TRUE,
         whole |-> IsInjective(FirstParts(n)) /\ n % MaxPacket # 0] \in Range(got)

\* A session whose client is gone, by a disconnect or a broken connection,
\* comes to its end: the chain of reads stops and the tasks run out.
SessionEnds == conn # "open" ~> session = "none" \/ conn = "open" \/ crashed
=============================================================================
