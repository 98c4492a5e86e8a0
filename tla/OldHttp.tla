------------------------------- MODULE OldHttp -------------------------------
(***************************************************************************)
(* HTTPOld::Server and HTTPOld::ClientSession (Legacy/Implementation/HTTP).*)
(* One thread is inside start(), and so runs the io_context and with it    *)
(* every handler; stop() comes from another thread or from a processor.    *)
(* Handlers run one at a time; an exception of one leaves run(), which     *)
(* start() catches.  restartTimeout() is never called: no session has a    *)
(* deadline, and a silent peer keeps its session.                          *)
(***************************************************************************)
EXTENDS Naturals

CONSTANTS
    Peers,        \* the connections made to the server
    NoPeer,       \* not a peer
    MaxAccepts    \* bound: accept operations that restarts may pile up

ASSUME OldHttpAssumption == NoPeer \notin Peers /\ MaxAccepts \in Nat \ {0}

VARIABLES
    inRun,        \* start() is inside ioc.run()
    acceptor,     \* "closed", "open" or "listening"
    accepts,      \* accept operations outstanding
    failed,       \* accept handlers queued with an error
    hand,         \* the peer whose accept handler begins: `socket` is open
    socketOpen,
    processors,   \* all four are set
    session,      \* of each peer
    stopper,      \* where another thread's stop() is
    stopped,      \* the io_context is stopped; nothing restarts it
    stopDone      \* history: some stop() came to ioc.stop()

listening == <<acceptor, accepts, failed>>
context == <<inRun, stopped>>
vars == <<listening, context, hand, socketOpen, processors, session, stopper, stopDone>>

\* What keeps the io_context busy: each is an operation or a queued handler.
Alive == {"reading", "request", "failing", "answering", "answered"}

Init ==
    /\ inRun = FALSE /\ acceptor = "closed" /\ accepts = 0 /\ failed = 0
    /\ hand = NoPeer /\ socketOpen = FALSE /\ processors = FALSE
    /\ session = [p \in Peers |-> "none"]
    /\ stopper = "idle" /\ stopped = FALSE /\ stopDone = FALSE

\* A handler may run.
Runs == inRun /\ ~stopped /\ hand = NoPeer

\* async_accept() on an acceptor that is closed fails at once.
AcceptConnections(waiting, errors) ==
    /\ accepts' = IF acceptor = "listening" THEN waiting + 1 ELSE waiting
    /\ failed' = IF acceptor = "listening" THEN errors ELSE errors + 1
    /\ UNCHANGED acceptor

\* Mutant: start() stops the io_context when it catches an exception.
LeaveStops == inRun' = FALSE /\ stopped' = TRUE
\* An exception leaves run().  Asio counts the handler it was thrown from as
\* done, and stops a context that then has no work.
Leave ==
    /\ inRun' = FALSE
    /\ stopped' = (stopped \/ (accepts' = 0 /\ failed' = 0 /\ \A p \in Peers : session'[p] \notin Alive))
-----------------------------------------------------------------------------
(* The owner *)

SetProcessors ==
    /\ ~inRun /\ ~processors /\ processors' = TRUE
    /\ UNCHANGED <<listening, context, hand, socketOpen, session, stopper, stopDone>>

\* start() closes an open acceptor, which aborts what waits on it, and opens and
\* binds it anew; each of the two may throw, which leaves it closed or open.
Start ==
    /\ ~inRun /\ stopper = "idle" /\ accepts + failed < MaxAccepts
    /\ failed' = failed + accepts
    /\ \/ acceptor' = "listening" /\ accepts' = 1 /\ inRun' = TRUE
       \/ acceptor' \in {"closed", "open"} /\ accepts' = 0 /\ UNCHANGED inRun
    /\ UNCHANGED <<stopped, hand, socketOpen, processors, session, stopper, stopDone>>

\* run() of a stopped context returns.
RunReturns ==
    /\ inRun /\ stopped /\ hand = NoPeer /\ inRun' = FALSE
    /\ UNCHANGED <<listening, stopped, hand, socketOpen, processors, session, stopper, stopDone>>

\* stop() on another thread: acceptor.cancel() throws when it is not open.
StopAcceptor ==
    /\ stopper = "idle" /\ acceptor # "closed"
    /\ acceptor' = "closed" /\ accepts' = 0 /\ failed' = failed + accepts
    /\ stopper' = "socket"
    /\ UNCHANGED <<context, hand, socketOpen, processors, session, stopDone>>

\* socket.cancel() throws on a socket that is not open, so stop() goes on only
\* when it meets an accepted connection that is not moved away yet.
StopSocket ==
    /\ stopper = "socket"
    /\ stopper' = IF socketOpen THEN "context" ELSE "idle"
    /\ socketOpen' = FALSE
    /\ UNCHANGED <<listening, context, hand, processors, session, stopDone>>

StopContext ==
    /\ stopper = "context"
    /\ stopper' = "idle" /\ stopped' = TRUE /\ stopDone' = TRUE
    /\ UNCHANGED <<listening, inRun, hand, socketOpen, processors, session>>
-----------------------------------------------------------------------------
(* The accept handler *)

\* A connection is accepted into `socket`, and its handler begins.
Accept(p) ==
    /\ Runs /\ accepts > 0 /\ session[p] = "none"
    /\ accepts' = accepts - 1 /\ hand' = p /\ socketOpen' = TRUE
    /\ UNCHANGED <<acceptor, failed, context, processors, session, stopper, stopDone>>

\* The system refuses a connection: too many files, or it is gone again.
AcceptFails ==
    /\ inRun /\ accepts > 0 /\ accepts' = accepts - 1 /\ failed' = failed + 1
    /\ UNCHANGED <<acceptor, context, hand, socketOpen, processors, session, stopper, stopDone>>

\* Mutant: an error ends the handler.
AcceptErrorReturns ==
    /\ Runs /\ failed > 0 /\ failed' = failed - 1
    /\ UNCHANGED <<acceptor, accepts, context, hand, socketOpen, processors, session, stopper, stopDone>>
\* The handler with an error: logged, and the next accept.
AcceptError ==
    /\ Runs /\ failed > 0
    /\ AcceptConnections(accepts, failed - 1)
    /\ UNCHANGED <<context, hand, socketOpen, processors, session, stopper, stopDone>>

\* readRequest() with all processors set; a socket that stop() closed fails.
ReadRequest(p) ==
    session' = [session EXCEPT ![p] = IF socketOpen THEN "reading" ELSE "failing"]

\* The handler with a connection.  Without all processors readRequest() throws,
\* before the next accept.
AcceptHandler ==
    /\ hand # NoPeer /\ hand' = NoPeer /\ socketOpen' = FALSE
    /\ \/ /\ processors
          /\ ReadRequest(hand)
          /\ AcceptConnections(accepts, failed) /\ UNCHANGED context
       \/ /\ ~processors
          /\ session' = [session EXCEPT ![hand] = "gone"]
          /\ UNCHANGED listening /\ Leave
    /\ UNCHANGED <<processors, stopper, stopDone>>
-----------------------------------------------------------------------------
(* A session *)

Becomes(p, from, to) == session[p] = from /\ session' = [session EXCEPT ![p] = to]

\* The read and the write are the system's.
ReadCompletes(p) ==
    /\ Becomes(p, "reading", "request") \/ Becomes(p, "reading", "failing")
    /\ UNCHANGED <<listening, context, hand, socketOpen, processors, stopper, stopDone>>

WriteCompletes(p) ==
    /\ Becomes(p, "answering", "answered")
    /\ UNCHANGED <<listening, context, hand, socketOpen, processors, stopper, stopDone>>

\* The read handler with an error returns, the write handler shuts the sending
\* side; both let the session go.
HandlerEnds(p) ==
    /\ Runs /\ (Becomes(p, "failing", "gone") \/ Becomes(p, "answered", "gone"))
    /\ UNCHANGED <<listening, context, hand, socketOpen, processors, stopper, stopDone>>

\* processRequest(): the processor of the method, or a 400 for another method,
\* and the response is written.
ProcessRequest(p) ==
    /\ Runs /\ Becomes(p, "request", "answering")
    /\ UNCHANGED <<listening, context, hand, socketOpen, processors, stopper, stopDone>>

\* It throws: remote_endpoint() of a peer that is gone, or the processor.  A
\* processor that calls stop() closes the acceptor and gets the exception of
\* acceptor.cancel() or of socket.cancel().
ProcessRequestThrows(p) ==
    /\ Runs /\ Becomes(p, "request", "gone")
    /\ \/ UNCHANGED listening
       \/ acceptor # "closed" /\ acceptor' = "closed" /\ accepts' = 0 /\ failed' = failed + accepts
    /\ Leave
    /\ UNCHANGED <<hand, socketOpen, processors, stopper, stopDone>>
-----------------------------------------------------------------------------

\* The bound is reached outside start().
Ended == ~inRun /\ accepts + failed = MaxAccepts /\ UNCHANGED vars

Next ==
    \/ SetProcessors \/ Start \/ RunReturns \/ Ended
    \/ StopAcceptor \/ StopSocket \/ StopContext
    \/ AcceptFails \/ AcceptError \/ AcceptHandler
    \/ \E p \in Peers :
        \/ Accept(p) \/ ReadCompletes(p) \/ WriteCompletes(p)
        \/ HandlerEnds(p) \/ ProcessRequest(p) \/ ProcessRequestThrows(p)

Spec == Init /\ [][Next]_vars

\* Every variable keeps its type.
Flags == {inRun, socketOpen, processors, stopped, stopDone} \subseteq BOOLEAN
Places ==
    /\ acceptor \in {"closed", "open", "listening"}
    /\ accepts \in 0 .. MaxAccepts /\ failed \in 0 .. MaxAccepts
    /\ hand \in Peers \cup {NoPeer}
    /\ session \in [Peers -> {"none", "gone"} \cup Alive]
    /\ stopper \in {"idle", "socket", "context"}
TypeOK == Flags /\ Places

\* The server is not deaf while its loop runs: as long as start() runs the loop on
\* a listening acceptor and the context is not stopped, an accept is outstanding,
\* has failed and will be repeated, or is in its handler, whatever failed,
\* restarted or was stopped before.
NeverDeaf ==
    inRun /\ ~stopped /\ acceptor = "listening" => accepts + failed > 0 \/ hand # NoPeer

\* An exception that ends start() costs no other session: the context is
\* stopped by itself only when no session is left, so a further start() goes on
\* with all of them, and only a stop() that came to its last line ends them.
SessionsSurvive ==
    stopped /\ ~stopDone => \A p \in Peers : session[p] \notin Alive
=============================================================================
