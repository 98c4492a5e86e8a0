------------------------------ MODULE UdpServer ------------------------------
(***************************************************************************)
(* UDP::Server (src/UDP/server.cpp): the life cycle of the socket, of the  *)
(* io_context and of the thread that runs it, and the receive chain.       *)
(*                                                                         *)
(* Two actors interleave.  "user" is the thread that owns the Server and   *)
(* calls start(), stop(), setRequestProcessor() and the destructor, one    *)
(* call at a time.  "io" is the thread start() spawns: it runs the         *)
(* io_context and, inside a completion handler, the request processor,     *)
(* which may itself call stop().  A step is the stretch of code between    *)
(* two accesses to state the other thread also touches.                    *)
(***************************************************************************)
EXTENDS Naturals

CONSTANTS
    Backlog,           \* datagrams the kernel keeps for the socket
    ProcessorMayStop   \* the request processor may call Server::stop()

ASSUME BacklogAssumption == Backlog \in Nat \ {0}
ASSUME ProcessorMayStopAssumption == ProcessorMayStop \in BOOLEAN

VARIABLES
    isRunning,   \* the atomic flag behind isWorking()
    stopped,     \* ioContext.stopped(): nothing in the code ever restarts it
    socket,      \* "closed", "open" (opened, not bound) or "bound"
    armed,       \* outstanding async_receive_from operations on the socket
    inbox,       \* datagrams waiting in the kernel's socket buffer
    ioThread,    \* the std::thread member: "none" or "joinable"
    processor,   \* requestProcessor holds a callable
    pc,          \* where each actor is
    stage,       \* "live", "dtor1" (~Server), "dtor2" (~Impl), "gone"
    selfStop,    \* history: a processor's stop() found ioThread not yet set
    aborted      \* "no", or what ended the process: "assign", "swap", "join"

vars == <<isRunning, stopped, socket, armed, inbox, ioThread, processor, pc,
          stage, selfStop, aborted>>

Actors == {"user", "io"}

StopSteps == {"stop", "stop_ctx", "stop_join", "stop_close"}

UserSteps == StopSteps \cup {"idle", "start_open", "start_bind",
    "start_store", "start_receive", "start_spawn", "start_assign", "gone"}

\* "none": no thread, "run": in ioContext.run() between two handlers,
\* "call": in the request processor, "rearm": back in the handler after it,
\* "done": the thread function has returned.
IoSteps == StopSteps \cup {"none", "run", "call", "rearm", "done"}

\* The request processor is on the io thread's stack.
InProcessor == pc["io"] \in StopSteps \cup {"call"}

InHandler == InProcessor \/ pc["io"] = "rearm"

At(t, step) == pc[t] = step /\ aborted = "no"

Goto(t, step) == pc' = [pc EXCEPT ![t] = step]

-----------------------------------------------------------------------------
(* Server::start(), user thread. *)

\* A server that runs already is left alone: start() returns false.
StartCheck ==
    /\ At("user", "idle")
    /\ IF isRunning THEN UNCHANGED pc ELSE Goto("user", "start_open")
    /\ UNCHANGED <<isRunning, stopped, socket, armed, inbox, ioThread,
                   processor, stage, selfStop, aborted>>

\* socket.open() throws when the socket is open already or the system refuses;
\* the catch block makes start() return false.
StartOpen ==
    /\ At("user", "start_open")
    /\ \/ /\ socket = "closed"
          /\ socket' = "open"
          /\ Goto("user", "start_bind")
       \/ /\ UNCHANGED socket
          /\ Goto("user", "idle")
    /\ UNCHANGED <<isRunning, stopped, armed, inbox, ioThread, processor,
                   stage, selfStop, aborted>>

\* A bind() that throws leaves the socket open.
StartBind ==
    /\ At("user", "start_bind")
    /\ \/ /\ socket' = "bound"
          /\ Goto("user", "start_store")
       \/ /\ UNCHANGED socket
          /\ Goto("user", "idle")
    /\ UNCHANGED <<isRunning, stopped, armed, inbox, ioThread, processor,
                   stage, selfStop, aborted>>

StartStore ==
    /\ At("user", "start_store")
    /\ isRunning' = TRUE
    /\ Goto("user", "start_receive")
    /\ UNCHANGED <<stopped, socket, armed, inbox, ioThread, processor, stage,
                   selfStop, aborted>>

StartReceive ==
    /\ At("user", "start_receive")
    /\ armed' = armed + 1
    /\ Goto("user", "start_spawn")
    /\ UNCHANGED <<isRunning, stopped, socket, inbox, ioThread, processor,
                   stage, selfStop, aborted>>

\* The right-hand side of ioThread = std::thread(...).  The new thread may run
\* before the assignment.  The constructor may throw: start() returns false and
\* isRunning stays set.  When ioThread is joinable the assignment will end the
\* process, and the thread it would have stored is left out.
StartSpawn ==
    /\ At("user", "start_spawn")
    /\ \/ pc' = [pc EXCEPT !["user"] = "start_assign",
                           !["io"] = IF ioThread = "none" THEN "run" ELSE @]
       \/ Goto("user", "idle")
    /\ UNCHANGED <<isRunning, stopped, socket, armed, inbox, ioThread,
                   processor, stage, selfStop, aborted>>

\* Move-assigning to a joinable std::thread calls std::terminate.
StartAssign ==
    /\ At("user", "start_assign")
    /\ IF ioThread = "joinable"
       THEN aborted' = "assign" /\ UNCHANGED <<ioThread, pc>>
       ELSE /\ ioThread' = "joinable"
            /\ Goto("user", "idle")
            /\ UNCHANGED aborted
    /\ UNCHANGED <<isRunning, stopped, socket, armed, inbox, processor, stage,
                   selfStop>>

Start == StartCheck \/ StartOpen \/ StartBind \/ StartStore \/ StartReceive
            \/ StartSpawn \/ StartAssign

-----------------------------------------------------------------------------
(* Impl::stop(), called by the user, by both destructors and, when           *)
(* ProcessorMayStop, by the request processor on the io thread.              *)

StopCall ==
    /\ At("user", "idle")
    /\ Goto("user", "stop")
    /\ UNCHANGED <<isRunning, stopped, socket, armed, inbox, ioThread,
                   processor, stage, selfStop, aborted>>

\* ~Server calls stop(); ~Impl, run after it, calls stop() once more.
Destroy ==
    /\ At("user", "idle")
    /\ stage' = "dtor1"
    /\ Goto("user", "stop")
    /\ UNCHANGED <<isRunning, stopped, socket, armed, inbox, ioThread,
                   processor, selfStop, aborted>>

ProcessorCallsStop ==
    /\ ProcessorMayStop
    /\ At("io", "call")
    /\ Goto("io", "stop")
    /\ UNCHANGED <<isRunning, stopped, socket, armed, inbox, ioThread,
                   processor, stage, selfStop, aborted>>

StopStore(t) ==
    /\ At(t, "stop")
    /\ isRunning' = FALSE
    /\ Goto(t, "stop_ctx")
    /\ UNCHANGED <<stopped, socket, armed, inbox, ioThread, processor, stage,
                   selfStop, aborted>>

\* Mutant: stop() forgets ioContext.stop().
StopContextForgotten(t) ==
    /\ At(t, "stop_ctx")
    /\ Goto(t, "stop_join")
    /\ UNCHANGED <<isRunning, stopped, socket, armed, inbox, ioThread, processor,
                   stage, selfStop, aborted>>

\* Mutant: stop() goes on to the socket without joining the thread.
StopContextNoJoin(t) ==
    /\ At(t, "stop_ctx")
    /\ stopped' = TRUE
    /\ Goto(t, "stop_close")
    /\ UNCHANGED <<isRunning, socket, armed, inbox, ioThread, processor, stage,
                   selfStop, aborted>>

StopContext(t) ==
    /\ At(t, "stop_ctx")
    /\ stopped' = TRUE
    /\ Goto(t, "stop_join")
    /\ UNCHANGED <<isRunning, socket, armed, inbox, ioThread, processor, stage,
                   selfStop, aborted>>

\* The user waits for the thread.  The io thread joining itself gets a
\* std::system_error, which leaves the processor and the handler and ends in
\* the catch block of run().
StopJoin(t) ==
    /\ At(t, "stop_join")
    /\ \/ /\ ioThread = "none"
          /\ Goto(t, "stop_close")
          /\ selfStop' = (selfStop \/ t = "io")
          /\ UNCHANGED ioThread
       \/ /\ t = "user"
          /\ ioThread = "joinable"
          /\ pc["io"] = "done"
          /\ pc' = [pc EXCEPT !["user"] = "stop_close", !["io"] = "none"]
          /\ ioThread' = "none"
          /\ UNCHANGED selfStop
       \/ /\ t = "io"
          /\ ioThread = "joinable"
          /\ Goto("io", "done")
          /\ UNCHANGED <<ioThread, selfStop>>
    /\ UNCHANGED <<isRunning, stopped, socket, armed, inbox, processor, stage,
                   aborted>>

\* Closing aborts the outstanding receives.  Their completions stay queued in a
\* context that stop() has stopped for good, so they are dropped here.
CloseSocket ==
    /\ socket' = "closed"
    /\ armed' = IF socket = "closed" THEN armed ELSE 0
    /\ inbox' = 0

\* The last step of stop(), and the return to its caller.  A processor that
\* called stop() returns to the handler.
StopClose(t) ==
    /\ At(t, "stop_close")
    /\ CloseSocket
    /\ \/ t = "io" /\ Goto("io", "rearm") /\ UNCHANGED <<stage, aborted>>
       \/ /\ t = "user" /\ stage = "live"
          /\ Goto("user", "idle")
          /\ UNCHANGED <<stage, aborted>>
       \/ /\ t = "user" /\ stage = "dtor1"
          /\ stage' = "dtor2"
          /\ Goto("user", "stop")
          /\ UNCHANGED aborted
       \/ /\ t = "user" /\ stage = "dtor2"
          /\ stage' = "gone"
          /\ Goto("user", "gone")
          \* destroying a joinable std::thread calls std::terminate
          /\ aborted' = IF ioThread = "joinable" THEN "join" ELSE aborted
    /\ UNCHANGED <<isRunning, stopped, ioThread, processor, selfStop>>

Stop(t) == StopStore(t) \/ StopContext(t) \/ StopJoin(t) \/ StopClose(t)

\* A plain assignment to the std::function.  Replacing it while the io thread
\* executes it is undefined: the process may or may not survive.
SetRequestProcessor ==
    /\ At("user", "idle")
    /\ processor' \in BOOLEAN
    /\ aborted' \in IF InProcessor THEN {"no", "swap"} ELSE {"no"}
    /\ UNCHANGED <<isRunning, stopped, socket, armed, inbox, ioThread, pc,
                   stage, selfStop>>

-----------------------------------------------------------------------------
(* The io thread: Impl::run() and the completion handler of startReceive().  *)

\* A datagram reaches the bound socket; a full buffer drops it.
Arrive ==
    /\ aborted = "no"
    /\ socket = "bound"
    /\ inbox < Backlog
    /\ inbox' = inbox + 1
    /\ UNCHANGED <<isRunning, stopped, socket, armed, ioThread, processor, pc,
                   stage, selfStop, aborted>>

\* Mutant: the next receive is armed before the datagram is processed.
DispatchArmsFirst(result) ==
    /\ At("io", "run")
    /\ ~stopped
    /\ armed > 0
    /\ result # "error" => inbox > 0
    /\ inbox' = IF result = "error" THEN inbox ELSE inbox - 1
    /\ Goto("io", IF result = "data" /\ processor THEN "call" ELSE "rearm")
    /\ UNCHANGED <<isRunning, stopped, socket, armed, ioThread, processor, stage,
                   selfStop, aborted>>

\* Mutant: an error returns from the handler at once.
DispatchErrorReturns(result) ==
    /\ At("io", "run")
    /\ ~stopped
    /\ armed > 0
    /\ armed' = armed - 1
    /\ result # "error" => inbox > 0
    /\ inbox' = IF result = "error" THEN inbox ELSE inbox - 1
    /\ Goto("io", IF result = "error" THEN "run"
                  ELSE IF result = "data" /\ processor THEN "call" ELSE "rearm")
    /\ UNCHANGED <<isRunning, stopped, socket, ioThread, processor, stage,
                   selfStop, aborted>>

\* A receive completes with a datagram or with an error, and its handler runs.
\* Only a datagram of at least one byte reaches the processor, and only when
\* one is set.
Dispatch(result) ==
    /\ At("io", "run")
    /\ ~stopped
    /\ armed > 0
    /\ armed' = armed - 1
    /\ result # "error" => inbox > 0
    /\ inbox' = IF result = "error" THEN inbox ELSE inbox - 1
    /\ Goto("io", IF result = "data" /\ processor THEN "call" ELSE "rearm")
    /\ UNCHANGED <<isRunning, stopped, socket, ioThread, processor, stage,
                   selfStop, aborted>>

ProcessorReturns ==
    /\ At("io", "call")
    /\ Goto("io", "rearm")
    /\ UNCHANGED <<isRunning, stopped, socket, armed, inbox, ioThread,
                   processor, stage, selfStop, aborted>>

\* A std::exception leaves the handler, which stops a context that has no other
\* work, and then ioContext.run(); run() logs it and the thread ends.  isRunning
\* is not touched.
ProcessorThrows ==
    /\ At("io", "call")
    /\ stopped' = (stopped \/ armed = 0)
    /\ Goto("io", "done")
    /\ UNCHANGED <<isRunning, socket, armed, inbox, ioThread, processor, stage,
                   selfStop, aborted>>

\* The end of the handler: arm the next receive while isRunning is set.
Rearm ==
    /\ At("io", "rearm")
    /\ armed' = IF isRunning THEN armed + 1 ELSE armed
    /\ Goto("io", "run")
    /\ UNCHANGED <<isRunning, stopped, socket, inbox, ioThread, processor,
                   stage, selfStop, aborted>>

\* run() returns when the context is stopped, or out of work, which stops it.
LoopEnds ==
    /\ At("io", "run")
    /\ stopped \/ armed = 0
    /\ stopped' = TRUE
    /\ Goto("io", "done")
    /\ UNCHANGED <<isRunning, socket, armed, inbox, ioThread, processor, stage,
                   selfStop, aborted>>

IoLoop == (\E r \in {"data", "empty", "error"} : Dispatch(r)) \/ Rearm \/ LoopEnds

Processor == ProcessorReturns \/ ProcessorThrows \/ ProcessorCallsStop

-----------------------------------------------------------------------------
Init ==
    /\ isRunning = FALSE
    /\ stopped = FALSE
    /\ socket = "closed"
    /\ armed = 0
    /\ inbox = 0
    /\ ioThread = "none"
    /\ processor = FALSE
    /\ pc = [t \in Actors |-> IF t = "user" THEN "idle" ELSE "none"]
    /\ stage = "live"
    /\ selfStop = FALSE
    /\ aborted = "no"

\* The object is gone or the process has ended: nothing more happens.
Ended ==
    /\ pc["user"] = "gone" \/ aborted # "no"
    /\ UNCHANGED vars

Next ==
    \/ Start
    \/ StopCall
    \/ Destroy
    \/ SetRequestProcessor
    \/ \E t \in Actors : Stop(t)
    \/ Arrive
    \/ IoLoop
    \/ Processor
    \/ Ended

Spec == Init /\ [][Next]_vars

\* The operating system runs both threads, and a call that was entered goes on:
\* the user's own decisions to call, the arrival of datagrams and the failure of
\* a receive are not fair.
Fairness ==
    /\ WF_vars(Stop("user"))
    /\ WF_vars(Stop("io"))
    /\ WF_vars(Dispatch("data") \/ Dispatch("empty") \/ Rearm \/ LoopEnds)
    /\ WF_vars(Processor)

FairSpec == Spec /\ Fairness

-----------------------------------------------------------------------------
(* Properties. *)

\* Every variable keeps its type; at most two receives are ever outstanding.
TypeOK ==
    /\ isRunning \in BOOLEAN
    /\ stopped \in BOOLEAN
    /\ socket \in {"closed", "open", "bound"}
    /\ armed \in 0..2
    /\ inbox \in 0..Backlog
    /\ ioThread \in {"none", "joinable"}
    /\ processor \in BOOLEAN
    /\ pc \in [Actors -> UserSteps \cup IoSteps]
    /\ pc["user"] \in UserSteps
    /\ pc["io"] \in IoSteps
    /\ stage \in {"live", "dtor1", "dtor2", "gone"}
    /\ selfStop \in BOOLEAN
    /\ aborted \in {"no", "assign", "swap", "join"}

\* start() and the destructors never end the process: ioThread is not joinable
\* when start() assigns to it, nor when ~Impl destroys it.  The one exception is
\* a processor whose stop() ran before start() had stored the thread: start()
\* then leaves behind a thread that the next start() assigns over.
NoTerminate ==
    /\ aborted # "join"
    /\ aborted = "assign" => selfStop

\* datagramBuffer and senderEndpoint have one user at a time: the outstanding
\* receive or the handler that reads them, never two receives, never both.
OneBufferUser ==
    selfStop \/ armed + (IF InHandler THEN 1 ELSE 0) <= 1

\* When the user's stop() reaches the socket, and when the object is gone, no
\* thread runs the context: nothing uses the members that are closed or freed.
NoThreadAtClose ==
    pc["user"] \in {"stop_close", "gone"} => pc["io"] = "none"

\* While isWorking() holds and the loop is between two handlers of a context
\* nobody stopped, a receive is outstanding: no error, empty datagram, missing
\* processor or concurrent call leaves the server deaf but running.
ServingIsArmed ==
    isRunning /\ ~stopped /\ pc["io"] = "run" => armed > 0

\* The server's life cycle implements the loop that runs once: no processor
\* begins before the context runs, two never overlap, and after the first
\* stop() no processor begins, whatever later calls of start() answer.
EL == INSTANCE EventLoop WITH
        loop <- IF stopped THEN "halted"
                ELSE IF pc["io"] = "none" THEN "fresh" ELSE "running",
        busy <- InProcessor

RunsOnce == EL!Spec

\* A stop() or a destructor that was entered ends: the user never waits forever
\* for the io thread, not even when the processor calls stop() meanwhile.
StopReturns ==
    pc["user"] = "stop" ~>
        pc["user"] \in {"idle", "gone"} \/ aborted # "no"

=============================================================================
