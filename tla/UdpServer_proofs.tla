-------------------------- MODULE UdpServer_proofs --------------------------
(***************************************************************************)
(* UDP::Server: the invariants of the life cycle and of the receive chain, *)
(* and the implementation of EventLoop, for every Backlog and whether or   *)
(* not the request processor calls stop(); and its composition with        *)
(* UDP::Client, in which all of that still holds.                          *)
(***************************************************************************)
EXTENDS UdpExchange, TLAPS

\* The member ioThread and the thread itself: they disagree only while start()
\* stands between creating the thread and storing it.
ThreadInv ==
    /\ ioThread = "joinable" => pc["io"] # "none"
    /\ pc["io"] # "none" => ioThread = "joinable" \/ pc["user"] = "start_assign"
    /\ pc["user"] = "start_assign" => pc["io"] # "none"
    /\ pc["user"] \in {"stop_close", "gone"} => ioThread = "none"

\* What start() and stop() know about the flag and the context at each step.
FlagInv ==
    /\ pc["user"] \in {"start_open", "start_bind", "start_store"} => ~isRunning
    /\ pc["user"] = "start_receive" => isRunning
    /\ pc["user"] \in {"stop_ctx", "stop_join", "stop_close"} => ~isRunning
    /\ pc["io"] \in {"stop_ctx", "stop_join", "stop_close"} => ~isRunning
    /\ pc["user"] \in {"stop_join", "stop_close"} => stopped
    /\ pc["io"] \in {"stop_join", "stop_close"} => stopped

\* Where a processor's stop() that missed ioThread can be: past its join, on a
\* context that is stopped.
SelfStopInv ==
    /\ selfStop => stopped /\ pc["io"] \notin {"call", "stop", "stop_ctx", "stop_join"}
    /\ pc["io"] = "stop_close" => selfStop

\* The socket is what keeps start() from running over a live thread: without a
\* self-stop it is bound as long as there is a thread.
SocketInv ==
    /\ isRunning => socket = "bound"
    /\ armed > 0 => socket = "bound"
    /\ pc["io"] # "none" /\ socket # "bound" => selfStop
    /\ pc["user"] \in {"start_store", "start_receive", "start_spawn"} => socket = "bound"
    /\ pc["user"] \in {"start_bind", "start_store", "start_receive", "start_spawn"}
            /\ pc["io"] # "none" => selfStop
    /\ pc["user"] = "start_assign" /\ ioThread = "joinable" => selfStop
    /\ pc["io"] = "stop_close" =>
            /\ socket = "bound"
            /\ pc["user"] \notin {"start_bind", "start_store", "start_receive", "start_spawn"}

\* How many receives can be outstanding.
ArmedInv ==
    /\ ~isRunning /\ pc["user"] \notin StopSteps => armed = 0
    /\ InHandler => armed <= 1
    /\ pc["user"] = "start_receive" =>
            /\ InHandler => armed = 0
            /\ armed <= 1
            /\ armed > 0 => selfStop
    /\ pc["user"] = "start_spawn" => armed > 0

\* The inductive invariant.
IndInv ==
    /\ TypeOK
    /\ ThreadInv
    /\ FlagInv
    /\ SelfStopInv
    /\ SocketInv
    /\ ArmedInv
    /\ NoTerminate
    /\ OneBufferUser
    /\ ServingIsArmed

-----------------------------------------------------------------------------
\* A server that was just constructed satisfies the inductive invariant.
LEMMA InitIndInv == Init => IndInv
  <1> SUFFICES ASSUME Init PROVE IndInv
    OBVIOUS
  <1>1. pc \in [Actors -> UserSteps \cup IoSteps] /\ pc["user"] = "idle" /\ pc["io"] = "none"
    BY DEF Init, Actors, UserSteps, IoSteps, StopSteps
  <1>2. /\ ~isRunning /\ ~stopped /\ socket = "closed" /\ armed = 0 /\ inbox = 0
        /\ ioThread = "none" /\ processor = FALSE /\ stage = "live"
        /\ selfStop = FALSE /\ aborted = "no"
        /\ isRunning \in BOOLEAN /\ stopped \in BOOLEAN
    BY DEF Init
  <1>3. TypeOK
    <2>1. pc["user"] \in UserSteps /\ pc["io"] \in IoSteps
      BY <1>1 DEF UserSteps, IoSteps
    <2>2. armed \in 0..2 /\ inbox \in 0..Backlog
      BY <1>2, BacklogAssumption
    <2> QED
      BY <1>1, <1>2, <2>1, <2>2 DEF TypeOK
  <1>4. ThreadInv
    BY <1>1, <1>2, BacklogAssumption DEF ThreadInv, UserSteps, IoSteps, StopSteps,
       InHandler, InProcessor
  <1>5. FlagInv
    BY <1>1, <1>2, BacklogAssumption DEF FlagInv, UserSteps, IoSteps, StopSteps,
       InHandler, InProcessor
  <1>6. SelfStopInv
    BY <1>1, <1>2, BacklogAssumption DEF SelfStopInv, UserSteps, IoSteps, StopSteps,
       InHandler, InProcessor
  <1>7. SocketInv
    BY <1>1, <1>2, BacklogAssumption DEF SocketInv, UserSteps, IoSteps, StopSteps,
       InHandler, InProcessor
  <1>8. ArmedInv
    BY <1>1, <1>2, BacklogAssumption DEF ArmedInv, UserSteps, IoSteps, StopSteps,
       InHandler, InProcessor
  <1>9. NoTerminate
    BY <1>1, <1>2, BacklogAssumption DEF NoTerminate, UserSteps, IoSteps, StopSteps,
       InHandler, InProcessor
  <1>10. OneBufferUser
    BY <1>1, <1>2, BacklogAssumption DEF OneBufferUser, UserSteps, IoSteps, StopSteps,
       InHandler, InProcessor
  <1>11. ServingIsArmed
    BY <1>1, <1>2, BacklogAssumption DEF ServingIsArmed, UserSteps, IoSteps, StopSteps,
       InHandler, InProcessor
  <1> QED
    BY <1>3, <1>4, <1>5, <1>6, <1>7, <1>8, <1>9, <1>10, <1>11 DEF IndInv

\* No step of start(), stop(), the destructors, the io thread or the request
\* processor leaves the inductive invariant.
LEMMA NextIndInv == IndInv /\ [Next]_vars => IndInv'
  <1> SUFFICES ASSUME IndInv, [Next]_vars PROVE IndInv'
    OBVIOUS
  <1> USE BacklogAssumption
  <1> USE DEF IndInv, TypeOK, ThreadInv, FlagInv, SelfStopInv, SocketInv,
        ArmedInv, NoTerminate, OneBufferUser, ServingIsArmed, Actors, UserSteps,
        IoSteps, StopSteps, InHandler, InProcessor, At, Goto
  <1>1. CASE StartCheck
    BY <1>1 DEF StartCheck
  <1>2. CASE StartOpen
    BY <1>2 DEF StartOpen
  <1>3. CASE StartBind
    BY <1>3 DEF StartBind
  <1>4. CASE StartStore
    BY <1>4 DEF StartStore
  <1>5. CASE StartReceive
    BY <1>5 DEF StartReceive
  <1>6. CASE StartSpawn
    BY <1>6 DEF StartSpawn
  <1>7. CASE StartAssign
    BY <1>7 DEF StartAssign
  <1>8. CASE StopCall
    BY <1>8 DEF StopCall
  <1>9. CASE Destroy
    BY <1>9 DEF Destroy
  <1>10. CASE SetRequestProcessor
    BY <1>10 DEF SetRequestProcessor
  <1>11. ASSUME NEW t \in Actors, StopStore(t) PROVE IndInv'
    <2>1. CASE t = "user"
      <3>1. TypeOK'
        BY <1>11, <2>1 DEF StopStore
      <3>2. ThreadInv'
        BY <1>11, <2>1 DEF StopStore
      <3>3. FlagInv'
        BY <1>11, <2>1 DEF StopStore
      <3>4. SelfStopInv'
        BY <1>11, <2>1 DEF StopStore
      <3>5. SocketInv'
        BY <1>11, <2>1 DEF StopStore
      <3>6. ArmedInv'
        BY <1>11, <2>1 DEF StopStore
      <3>7. NoTerminate'
        BY <1>11, <2>1 DEF StopStore
      <3>8. OneBufferUser'
        BY <1>11, <2>1 DEF StopStore
      <3>9. ServingIsArmed'
        BY <1>11, <2>1 DEF StopStore
      <3> QED
        BY <3>1, <3>2, <3>3, <3>4, <3>5, <3>6, <3>7, <3>8, <3>9
    <2>2. CASE t = "io"
      <3>1. TypeOK'
        BY <1>11, <2>2 DEF StopStore
      <3>2. ThreadInv'
        BY <1>11, <2>2 DEF StopStore
      <3>3. FlagInv'
        BY <1>11, <2>2 DEF StopStore
      <3>4. SelfStopInv'
        BY <1>11, <2>2 DEF StopStore
      <3>5. SocketInv'
        BY <1>11, <2>2 DEF StopStore
      <3>6. ArmedInv'
        BY <1>11, <2>2 DEF StopStore
      <3>7. NoTerminate'
        BY <1>11, <2>2 DEF StopStore
      <3>8. OneBufferUser'
        BY <1>11, <2>2 DEF StopStore
      <3>9. ServingIsArmed'
        BY <1>11, <2>2 DEF StopStore
      <3> QED
        BY <3>1, <3>2, <3>3, <3>4, <3>5, <3>6, <3>7, <3>8, <3>9
    <2> QED
      BY <2>1, <2>2
  <1>12. ASSUME NEW t \in Actors, StopContext(t) PROVE IndInv'
    <2>1. CASE t = "user"
      BY <1>12, <2>1 DEF StopContext
    <2>2. CASE t = "io"
      BY <1>12, <2>2 DEF StopContext
    <2> QED
      BY <2>1, <2>2
  <1>13. ASSUME NEW t \in Actors, StopJoin(t) PROVE IndInv'
    <2>1. CASE t = "user"
      BY <1>13, <2>1 DEF StopJoin
    <2>2. CASE t = "io"
      <3>1. TypeOK'
        <4>1. selfStop' \in BOOLEAN
          BY <1>13, <2>2 DEF StopJoin
        <4>2. /\ \E step \in {"stop_close", "done"} : pc' = [pc EXCEPT !["io"] = step]
              /\ UNCHANGED <<isRunning, stopped, socket, armed, inbox, ioThread, processor, stage,
                             aborted>>
          BY <1>13, <2>2 DEF StopJoin
        <4> QED  BY <4>1, <4>2
      <3>2. ThreadInv'
        BY <1>13, <2>2 DEF StopJoin
      <3>3. FlagInv'
        BY <1>13, <2>2 DEF StopJoin
      <3>4. SelfStopInv'
        BY <1>13, <2>2 DEF StopJoin
      <3>5. SocketInv'
        BY <1>13, <2>2 DEF StopJoin
      <3>6. ArmedInv'
        BY <1>13, <2>2 DEF StopJoin
      <3>7. NoTerminate'
        BY <1>13, <2>2 DEF StopJoin
      <3>8. OneBufferUser'
        BY <1>13, <2>2 DEF StopJoin
      <3>9. ServingIsArmed'
        BY <1>13, <2>2 DEF StopJoin
      <3> QED
        BY <3>1, <3>2, <3>3, <3>4, <3>5, <3>6, <3>7, <3>8, <3>9
    <2> QED
      BY <2>1, <2>2
  <1>14. ASSUME NEW t \in Actors, StopClose(t) PROVE IndInv'
    <2>1. CASE t = "user"
      BY <1>14, <2>1 DEF StopClose, CloseSocket
    <2>2. CASE t = "io"
      BY <1>14, <2>2 DEF StopClose, CloseSocket
    <2> QED
      BY <2>1, <2>2
  <1>15. CASE Arrive
    BY <1>15 DEF Arrive
  <1>16. ASSUME NEW r \in {"data", "empty", "error"}, Dispatch(r) PROVE IndInv'
    BY <1>16 DEF Dispatch
  <1>17. CASE Rearm
    BY <1>17 DEF Rearm
  <1>18. CASE LoopEnds
    BY <1>18 DEF LoopEnds
  <1>19. CASE ProcessorReturns
    BY <1>19 DEF ProcessorReturns
  <1>20. CASE ProcessorThrows
    <2>1. stopped' \in BOOLEAN /\ (stopped => stopped')
      BY <1>20 DEF ProcessorThrows
    <2>2. /\ pc["io"] = "call" /\ pc' = [pc EXCEPT !["io"] = "done"]
          /\ UNCHANGED <<isRunning, socket, armed, inbox, ioThread, processor, stage, selfStop,
                         aborted>>
      BY <1>20 DEF ProcessorThrows
    <2> QED  BY <2>1, <2>2
  <1>21. CASE ProcessorCallsStop
    BY <1>21 DEF ProcessorCallsStop
  <1>22. CASE UNCHANGED vars
    BY <1>22 DEF vars
  <1> QED
    BY <1>1, <1>2, <1>3, <1>4, <1>5, <1>6, <1>7, <1>8, <1>9, <1>10, <1>11,
       <1>12, <1>13, <1>14, <1>15, <1>16, <1>17, <1>18, <1>19, <1>20, <1>21, <1>22
    DEF Next, Start, Stop, IoLoop, Processor, Ended

\* The inductive invariant holds in every execution of the server.
THEOREM IndInvariant == Spec => []IndInv
  BY InitIndInv, NextIndInv, PTL DEF Spec

-----------------------------------------------------------------------------
\* Every variable of the server keeps its type in every execution: in
\* particular no history of start(), stop() and processor calls leaves more
\* than two receives outstanding on the socket.
THEOREM TypeCorrect == Spec => []TypeOK
  <1>1. IndInv => TypeOK
    BY DEF IndInv
  <1> QED
    BY <1>1, IndInvariant, PTL

\* start() assigns over a joinable ioThread only after a self-stop, and the
\* destructors never destroy a joinable one.
THEOREM NoTerminateHolds == Spec => []NoTerminate
  <1>1. IndInv => NoTerminate
    BY DEF IndInv
  <1> QED
    BY <1>1, IndInvariant, PTL

\* Without a self-stop the receive buffer never has two users.
THEOREM OneBufferUserHolds == Spec => []OneBufferUser
  <1>1. IndInv => OneBufferUser
    BY DEF IndInv
  <1> QED
    BY <1>1, IndInvariant, PTL

\* The user's stop() closes the socket, and the destructor returns, only when
\* no thread runs the context.
THEOREM NoThreadAtCloseHolds == Spec => []NoThreadAtClose
  <1>1. IndInv => NoThreadAtClose
    BY DEF IndInv, ThreadInv, NoThreadAtClose, TypeOK
  <1> QED
    BY <1>1, IndInvariant, PTL

\* A working server that nobody stopped always has a receive outstanding.
THEOREM ServingIsArmedHolds == Spec => []ServingIsArmed
  <1>1. IndInv => ServingIsArmed
    BY DEF IndInv
  <1> QED
    BY <1>1, IndInvariant, PTL

-----------------------------------------------------------------------------
\* Every step of the server is a step of the loop that runs once, or changes
\* nothing in it.
LEMMA NextRunsOnce == IndInv /\ [Next]_vars => [EL!Next]_(EL!vars)
  <1> SUFFICES ASSUME IndInv, [Next]_vars PROVE [EL!Next]_(EL!vars)
    OBVIOUS
  <1> USE DEF IndInv, TypeOK, ThreadInv, FlagInv, SelfStopInv, Actors, UserSteps,
        IoSteps, StopSteps, InProcessor, At, Goto, EL!Next, EL!vars, EL!Run,
        EL!BeginHandler, EL!EndHandler, EL!Halt
  <1>1. CASE StartCheck
    BY <1>1 DEF StartCheck
  <1>2. CASE StartOpen
    BY <1>2 DEF StartOpen
  <1>3. CASE StartBind
    BY <1>3 DEF StartBind
  <1>4. CASE StartStore
    BY <1>4 DEF StartStore
  <1>5. CASE StartReceive
    BY <1>5 DEF StartReceive
  <1>6. CASE StartSpawn
    BY <1>6 DEF StartSpawn
  <1>7. CASE StartAssign
    BY <1>7 DEF StartAssign
  <1>8. CASE StopCall
    BY <1>8 DEF StopCall
  <1>9. CASE Destroy
    BY <1>9 DEF Destroy
  <1>10. CASE SetRequestProcessor
    BY <1>10 DEF SetRequestProcessor
  <1>11. ASSUME NEW t \in Actors, StopStore(t) PROVE [EL!Next]_(EL!vars)
    BY <1>11 DEF StopStore
  <1>12. ASSUME NEW t \in Actors, StopContext(t) PROVE [EL!Next]_(EL!vars)
    BY <1>12 DEF StopContext
  <1>13. ASSUME NEW t \in Actors, StopJoin(t) PROVE [EL!Next]_(EL!vars)
    BY <1>13 DEF StopJoin
  <1>14. ASSUME NEW t \in Actors, StopClose(t) PROVE [EL!Next]_(EL!vars)
    BY <1>14 DEF StopClose, CloseSocket
  <1>15. CASE Arrive
    BY <1>15 DEF Arrive
  <1>16. ASSUME NEW r \in {"data", "empty", "error"}, Dispatch(r)
        PROVE [EL!Next]_(EL!vars)
    BY <1>16 DEF Dispatch
  <1>17. CASE Rearm
    BY <1>17 DEF Rearm
  <1>18. CASE LoopEnds
    BY <1>18 DEF LoopEnds
  <1>19. CASE ProcessorReturns
    BY <1>19 DEF ProcessorReturns
  <1>20. CASE ProcessorThrows
    <2>1. stopped' \in BOOLEAN /\ (stopped => stopped')
      BY <1>20 DEF ProcessorThrows
    <2>2. pc["io"] = "call" /\ pc' = [pc EXCEPT !["io"] = "done"]
      BY <1>20 DEF ProcessorThrows
    <2> QED  BY <2>1, <2>2
  <1>21. CASE ProcessorCallsStop
    BY <1>21 DEF ProcessorCallsStop
  <1>22. CASE UNCHANGED vars
    BY <1>22 DEF vars
  <1> QED
    BY <1>1, <1>2, <1>3, <1>4, <1>5, <1>6, <1>7, <1>8, <1>9, <1>10, <1>11,
       <1>12, <1>13, <1>14, <1>15, <1>16, <1>17, <1>18, <1>19, <1>20, <1>21, <1>22
    DEF Next, Start, Stop, IoLoop, Processor, Ended

\* UDP::Server implements EventLoop: processors run one at a time, none before
\* the context runs and none begins after the first stop(), even when a later
\* start() reports success.
THEOREM RunsOnceHolds == Spec => RunsOnce
  <1>1. Init => EL!Init
    BY DEF Init, EL!Init, Actors, InProcessor, StopSteps
  <1> QED
    BY <1>1, IndInvariant, NextRunsOnce, PTL DEF Spec, RunsOnce, EL!Spec

-----------------------------------------------------------------------------
\* Every step of the composition is a step of the server or leaves it alone: the
\* client reaches it only through datagrams that arrive.
LEMMA ExchangeStep == [ExchangeNext]_<<vars, clientVars>> => [Next]_vars
  <1> SUFFICES ASSUME [ExchangeNext]_<<vars, clientVars>> PROVE [Next]_vars
    OBVIOUS
  <1>1. ASSUME NEW name \in Names, NEW port \in {0, 1}, SetHost(name, port) PROVE UNCHANGED vars
    BY <1>1 DEF SetHost
  <1>2. ASSUME NEW enable \in BOOLEAN, EnableBroadcast(enable) PROVE UNCHANGED vars
    BY <1>2 DEF EnableBroadcast
  <1>3. CASE SendData
    BY <1>3 DEF SendData, Next
  <1> QED  BY <1>1, <1>2, <1>3 DEF ExchangeNext

\* The server composed with the client behaves as the server by itself, so that
\* each of the theorems above holds of the composition.
THEOREM ServerInExchange == ExchangeFairSpec => Spec
  <1>1. ExchangeInit => Init
    BY DEF ExchangeInit
  <1> QED  BY <1>1, ExchangeStep, PTL DEF ExchangeFairSpec, Spec

\* setHost() returned true only for the endpoint in use.
AcceptedInv == accepted => endpoint = host

\* A datagram never goes astray without a setHost() that had returned false.
THEOREM AstrayWasToldHolds == ExchangeFairSpec => []AstrayWasTold
  <1>1. ExchangeInit => AcceptedInv
    BY DEF ExchangeInit, AcceptedInv
  <1>2. AcceptedInv /\ [ExchangeNext]_<<vars, clientVars>> => AcceptedInv'
    <2> SUFFICES ASSUME AcceptedInv, [ExchangeNext]_<<vars, clientVars>> PROVE AcceptedInv'
      OBVIOUS
    <2> USE DEF AcceptedInv, clientVars
    <2>1. ASSUME NEW name \in Names, NEW port \in {0, 1}, SetHost(name, port) PROVE AcceptedInv'
      BY <2>1 DEF SetHost
    <2>2. ASSUME NEW enable \in BOOLEAN, EnableBroadcast(enable) PROVE AcceptedInv'
      BY <2>2 DEF EnableBroadcast
    <2>3. CASE UNCHANGED clientVars
      BY <2>3
    <2> QED  BY <2>1, <2>2, <2>3 DEF ExchangeNext, SendData
  <1>3. AcceptedInv => AstrayWasTold
    BY DEF AcceptedInv, AstrayWasTold
  <1> QED  BY <1>1, <1>2, <1>3, PTL DEF ExchangeFairSpec
=============================================================================
