--------------------------- MODULE WsClient_proofs ---------------------------
(***************************************************************************)
(* WebSockets::Client: the stored handle and the promises of the pings,    *)
(* which implement Promises, for any set of connection attempts and any    *)
(* number of pings.                                                        *)
(***************************************************************************)
EXTENDS WsClient, SequenceTheorems, TLAPS

\* A ping is registered only while the bound leaves room for its id.
RoomInv == user = "ping_register" => nextPingId < MaxPings

\* A pending ping has no value; an id that was not given out has left no trace.
PromiseInv ==
    /\ \A id \in pendingPings : values[id] = <<>>
    /\ \A id \in PingIds : id >= nextPingId =>
            /\ values[id] = <<>>
            /\ id \notin pendingPings

\* The inductive invariant.
IndInv ==
    /\ TypeOK
    /\ ConnectedHandleLives
    /\ RoomInv
    /\ PromiseInv
    /\ OneValuePerPing
    /\ PendingHasTimer

\* A client that was just constructed satisfies it.
LEMMA InitIndInv == Init => IndInv
  <1> SUFFICES ASSUME Init PROVE IndInv
    OBVIOUS
  <1>1. <<>> \in Seq({"ok", "failed"}) /\ Len(<<>>) = 0
    OBVIOUS
  <1>2. values \in [PingIds -> Seq({"ok", "failed"})]
    BY <1>1 DEF Init
  <1>3. TypeOK
    <2>1. nextPingId \in 0..MaxPings
      BY MaxPingsAssumption DEF Init
    <2>2. state \in [Conns -> Live \cup {"unused", "closed"}]
      BY DEF Init
    <2>3. /\ connected \in BOOLEAN /\ ioThread \in BOOLEAN /\ stopped \in BOOLEAN
          /\ connection \in Conns \cup {NoConn}
          /\ io \in {"none", "run", "done"}
          /\ pendingPings \subseteq PingIds /\ timers \subseteq PingIds
          /\ due \subseteq PingIds
          /\ user \in {"idle", "ping_register", "ping_send", "destroy", "destroy_join",
                       "gone", "crashed"}
      BY DEF Init
    <2> QED
      BY <1>2, <2>1, <2>2, <2>3 DEF TypeOK
  <1>4. ConnectedHandleLives /\ RoomInv /\ PromiseInv
    BY DEF Init, ConnectedHandleLives, RoomInv, PromiseInv
  <1>5. OneValuePerPing
    BY <1>1 DEF Init, OneValuePerPing
  <1>6. PendingHasTimer
    BY DEF Init, PendingHasTimer, PingIds
  <1> QED
    BY <1>3, <1>4, <1>5, <1>6 DEF IndInv

\* The parts of the invariant that look at the pings.
PingInv == RoomInv /\ PromiseInv /\ OneValuePerPing /\ PendingHasTimer

\* A step that leaves the pings alone, and does not begin to register one,
\* preserves what is known of them.
LEMMA PingsUntouched ==
    ASSUME PingInv, UNCHANGED pingVars,
           user' = "ping_register" => nextPingId < MaxPings
    PROVE  PingInv'
  BY DEF PingInv, RoomInv, PromiseInv, OneValuePerPing, PendingHasTimer, pingVars

\* set_value() on a pending ping: it is the first value, and the ping leaves
\* pendingPings.
LEMMA ResolveKeeps ==
    ASSUME NEW id \in pendingPings, NEW v \in {"ok", "failed"}, TypeOK, PingInv,
           Resolve(id, v), UNCHANGED nextPingId,
           user' = "ping_register" => nextPingId < MaxPings,
           \A p \in PingIds : p # id /\ p \in timers \cup due => p \in timers' \cup due'
    PROVE  /\ values' \in [PingIds -> Seq({"ok", "failed"})]
           /\ pendingPings' \subseteq PingIds
           /\ PingInv'
  <1>1. /\ id \in PingIds /\ values[id] = <<>>
        /\ values' = [values EXCEPT ![id] = Append(@, v)]
        /\ pendingPings' = pendingPings \ {id}
        /\ nextPingId' = nextPingId
        /\ values \in [PingIds -> Seq({"ok", "failed"})]
        /\ pendingPings \subseteq PingIds
    BY DEF Resolve, TypeOK, PingInv, PromiseInv
  <1>2. /\ Append(<<>>, v) \in Seq({"ok", "failed"})
        /\ Append(<<>>, v) # <<>>
        /\ Len(Append(<<>>, v)) = 1
    OBVIOUS
  <1>3. values'[id] = Append(<<>>, v) /\ \A p \in PingIds : p # id => values'[p] = values[p]
    BY <1>1
  <1>4. values' \in [PingIds -> Seq({"ok", "failed"})] /\ pendingPings' \subseteq PingIds
    BY <1>1, <1>2
  <1>5. PromiseInv'
    <2>1. id < nextPingId
      BY <1>1, MaxPingsAssumption DEF TypeOK, PingInv, PromiseInv, PingIds
    <2> QED
      BY <1>1, <1>3, <2>1, MaxPingsAssumption DEF PingInv, PromiseInv, PingIds, TypeOK
  <1>6. OneValuePerPing'
    <2> SUFFICES ASSUME NEW p \in PingIds PROVE Len(values'[p]) <= 1
      BY DEF OneValuePerPing, PingIds
    <2>1. CASE p = id
      <3>1. Len(values'[p]) = 1
        BY <1>2, <1>3, <2>1, Zenon
      <3> QED  BY <3>1
    <2>2. CASE p # id
      BY <1>3, <2>2 DEF PingInv, OneValuePerPing
    <2> QED  BY <2>1, <2>2
  <1>7. PendingHasTimer'
    BY <1>1, <1>2, <1>3 DEF PingInv, PendingHasTimer, PingIds
  <1> QED
    BY <1>4, <1>5, <1>6, <1>7 DEF PingInv, RoomInv

\* No call of the user, no handler and no timer leaves the invariant.
LEMMA NextIndInv == IndInv /\ [Next]_vars => IndInv'
  <1> SUFFICES ASSUME IndInv, [Next]_vars PROVE IndInv'
    OBVIOUS
  <1>t. TypeOK /\ ConnectedHandleLives /\ PingInv
    BY DEF IndInv, PingInv
  <1>q. TypeOK' /\ ConnectedHandleLives' /\ PingInv' => IndInv'
    BY DEF IndInv, PingInv
  <1>1. CASE \E c \in Conns : Connect(c)
    <2> PICK c \in Conns : Connect(c)
      BY <1>1
    <2>1. TypeOK' /\ ConnectedHandleLives'
      BY <1>t DEF Connect, TypeOK, ConnectedHandleLives, pingVars, Live
    <2>2. PingInv'
      BY <1>t, PingsUntouched DEF Connect
    <2> QED  BY <1>q, <2>1, <2>2
  <1>2. CASE \E c \in Conns : OpenHandler(c)
    <2> PICK c \in Conns : OpenHandler(c)
      BY <1>2
    <2>1. TypeOK' /\ ConnectedHandleLives'
      BY <1>t DEF OpenHandler, TypeOK, ConnectedHandleLives, pingVars, loopVars, Live
    <2>2. PingInv'
      BY <1>t, PingsUntouched DEF OpenHandler, PingInv, RoomInv
    <2> QED  BY <1>q, <2>1, <2>2
  <1>3. CASE \E c \in Conns : FailHandler(c) \/ CloseHandler(c)
    <2> PICK c \in Conns : FailHandler(c) \/ CloseHandler(c)
      BY <1>3
    <2>1. TypeOK' /\ ConnectedHandleLives'
      BY <1>t DEF FailHandler, CloseHandler, TypeOK, ConnectedHandleLives, pingVars,
            loopVars, Live
    <2>2. PingInv'
      BY <1>t, PingsUntouched DEF FailHandler, CloseHandler, PingInv, RoomInv
    <2> QED  BY <1>q, <2>1, <2>2
  <1>4. CASE \E c \in Conns : SessionEnds(c)
    <2> PICK c \in Conns : SessionEnds(c)
      BY <1>4
    <2>1. TypeOK' /\ ConnectedHandleLives'
      BY <1>t DEF SessionEnds, TypeOK, ConnectedHandleLives, pingVars, loopVars, Live
    <2>2. PingInv'
      BY <1>t, PingsUntouched DEF SessionEnds, PingInv, RoomInv
    <2> QED  BY <1>q, <2>1, <2>2
  <1>5. CASE Disconnect \/ Destroy
    <2>1. TypeOK' /\ ConnectedHandleLives'
      BY <1>t, <1>5 DEF Disconnect, Destroy, CloseConnected, TypeOK, ConnectedHandleLives,
            pingVars, loopVars, Live, Goto
    <2>2. PingInv'
      BY <1>t, <1>5, PingsUntouched DEF Disconnect, Destroy, PingInv, RoomInv, Goto
    <2> QED  BY <1>q, <2>1, <2>2
  <1>6. CASE PingCheck
    <2>1. TypeOK' /\ ConnectedHandleLives'
      BY <1>t, <1>6 DEF PingCheck, TypeOK, ConnectedHandleLives, pingVars, loopVars, Goto
    <2>2. user' = "ping_register" => nextPingId < MaxPings
      BY <1>6 DEF PingCheck, Goto
    <2>3. PingInv'
      BY <1>t, <1>6, <2>2, PingsUntouched DEF PingCheck
    <2> QED  BY <1>q, <2>1, <2>3
  <1>7. CASE PingRegister
    <2>1. nextPingId \in PingIds /\ nextPingId + 1 \in 0..MaxPings
      BY <1>t, <1>7, MaxPingsAssumption DEF PingRegister, PingInv, RoomInv, PingIds, TypeOK
    <2>2. TypeOK' /\ ConnectedHandleLives'
      BY <1>t, <1>7, <2>1 DEF PingRegister, TypeOK, ConnectedHandleLives, loopVars, Goto
    <2>3. RoomInv' /\ OneValuePerPing'
      BY <1>t, <1>7 DEF PingRegister, PingInv, RoomInv, OneValuePerPing, Goto
    <2>4. PromiseInv' /\ PendingHasTimer'
      BY <1>t, <1>7, <2>1, MaxPingsAssumption
         DEF PingRegister, PingInv, PromiseInv, PendingHasTimer, PingIds, TypeOK
    <2> QED  BY <1>q, <2>2, <2>3, <2>4 DEF PingInv
  <1>8. CASE PingSend
    <2>1. CASE UNCHANGED pingVars
      <3>1. TypeOK' /\ ConnectedHandleLives'
        BY <1>t, <1>8, <2>1 DEF PingSend, TypeOK, ConnectedHandleLives, pingVars, loopVars, Goto
      <3>2. PingInv'
        BY <1>t, <1>8, <2>1, PingsUntouched DEF PingSend, Goto
      <3> QED  BY <1>q, <3>1, <3>2
    <2>2. CASE ~UNCHANGED pingVars
      <3>1. /\ 0 \in pendingPings
            /\ Resolve(0, "failed")
            /\ timers' = timers \ {0}
            /\ Goto("idle")
            /\ UNCHANGED <<nextPingId, due, connected, connection, loopVars, state>>
        BY <1>8, <2>2 DEF PingSend
      <3>2. /\ values' \in [PingIds -> Seq({"ok", "failed"})]
            /\ pendingPings' \subseteq PingIds
            /\ PingInv'
        BY <1>t, <3>1, ResolveKeeps DEF Goto
      <3>3. TypeOK' /\ ConnectedHandleLives'
        BY <1>t, <3>1, <3>2 DEF TypeOK, ConnectedHandleLives, loopVars, Goto
      <3> QED  BY <1>q, <3>2, <3>3
    <2> QED  BY <2>1, <2>2
  <1>9. CASE DestroyStop \/ DestroyJoin \/ RunReturns
    <2>1. /\ UNCHANGED <<connected, connection, ioThread, state, pingVars>>
          /\ io' \in {"none", "done", io}
          /\ user' \in {"destroy_join", "gone", user}
      BY <1>9 DEF DestroyStop, DestroyJoin, RunReturns, Goto
    <2>s. stopped' \in BOOLEAN
      <3>1. CASE DestroyStop
        BY <3>1 DEF DestroyStop
      <3>2. CASE DestroyJoin \/ RunReturns
        BY <1>t, <3>2 DEF DestroyJoin, RunReturns, TypeOK
      <3> QED  BY <1>9, <3>1, <3>2
    <2>3. TypeOK' /\ ConnectedHandleLives'
      BY <1>t, <2>1, <2>s DEF TypeOK, ConnectedHandleLives, pingVars
    <2>2. PingInv'
      BY <1>t, <1>9, PingsUntouched DEF DestroyStop, DestroyJoin, RunReturns, Goto, PingInv,
            RoomInv
    <2> QED  BY <1>q, <2>2, <2>3
  <1>10. CASE \E id \in PingIds : PongHandler(id)
    <2> PICK id \in PingIds : PongHandler(id)
      BY <1>10
    <2>1. /\ values' \in [PingIds -> Seq({"ok", "failed"})]
          /\ pendingPings' \subseteq PingIds
          /\ PingInv'
      BY <1>t, ResolveKeeps DEF PongHandler, PingInv, RoomInv
    <2>2. TypeOK' /\ ConnectedHandleLives'
      BY <1>t, <2>1 DEF PongHandler, TypeOK, ConnectedHandleLives, loopVars
    <2> QED  BY <1>q, <2>1, <2>2
  <1>11. CASE \E id \in PingIds : TimerExpires(id)
    <2> PICK id \in PingIds : TimerExpires(id)
      BY <1>11
    <2>1. TypeOK' /\ ConnectedHandleLives'
      BY <1>t DEF TimerExpires, TypeOK, ConnectedHandleLives, loopVars
    <2>2. PingInv'
      BY <1>t DEF TimerExpires, PingInv, RoomInv, PromiseInv, OneValuePerPing, PendingHasTimer
    <2> QED  BY <1>q, <2>1, <2>2
  <1>12. CASE \E id \in PingIds : TimerHandler(id)
    <2> PICK id \in PingIds : TimerHandler(id)
      BY <1>12
    <2>1. CASE id \in pendingPings
      <3>1. Resolve(id, "failed") /\ due' = due \ {id}
            /\ UNCHANGED <<connected, connection, loopVars, state, nextPingId, timers, user>>
        BY <2>1 DEF TimerHandler
      <3>2. /\ values' \in [PingIds -> Seq({"ok", "failed"})]
            /\ pendingPings' \subseteq PingIds
            /\ PingInv'
        BY <1>t, <2>1, <3>1, ResolveKeeps DEF PingInv, RoomInv
      <3>3. TypeOK' /\ ConnectedHandleLives'
        BY <1>t, <3>1, <3>2 DEF TypeOK, ConnectedHandleLives, loopVars
      <3> QED  BY <1>q, <3>2, <3>3
    <2>2. CASE id \notin pendingPings
      <3>1. due' = due \ {id}
            /\ UNCHANGED <<connected, connection, loopVars, state, nextPingId, timers,
                           pendingPings, values, user>>
        BY <2>2 DEF TimerHandler
      <3>2. TypeOK' /\ ConnectedHandleLives'
        BY <1>t, <3>1 DEF TypeOK, ConnectedHandleLives, loopVars
      <3>3. PingInv'
        BY <1>t, <2>2, <3>1 DEF PingInv, RoomInv, PromiseInv, OneValuePerPing, PendingHasTimer
      <3> QED  BY <1>q, <3>2, <3>3
    <2> QED  BY <2>1, <2>2
  <1>13. CASE UNCHANGED vars
    <2>1. TypeOK' /\ ConnectedHandleLives'
      BY <1>t, <1>13 DEF vars, TypeOK, ConnectedHandleLives
    <2>2. PingInv'
      BY <1>t, <1>13, PingsUntouched DEF vars, pingVars, PingInv, RoomInv
    <2> QED  BY <1>q, <2>1, <2>2
  <1> QED
    BY <1>1, <1>2, <1>3, <1>4, <1>5, <1>6, <1>7, <1>8, <1>9, <1>10, <1>11, <1>12, <1>13
       DEF Next, UserStep, Ended

\* Every behaviour of the client satisfies the inductive invariant.
THEOREM IndInvariant == Spec => []IndInv
  BY InitIndInv, NextIndInv, PTL DEF Spec

\* Type correctness of WebSockets::Client: ids stay within the pings made.
THEOREM TypeCorrect == Spec => []TypeOK
  BY IndInvariant, PTL DEF IndInv

\* While isConnected() answers true the stored handle is that of a connection
\* whose close handler has not run, for any number of connection attempts.
THEOREM ConnectedHandleLivesHolds == Spec => []ConnectedHandleLives
  BY IndInvariant, PTL DEF IndInv

\* Pong, timer and send error never give a ping's promise two values.
THEOREM OneValuePerPingHolds == Spec => []OneValuePerPing
  BY IndInvariant, PTL DEF IndInv

\* A ping without a value is pending and its timer runs or is due.
THEOREM PendingHasTimerHolds == Spec => []PendingHasTimer
  BY IndInvariant, PTL DEF IndInv

-----------------------------------------------------------------------------
(* The pings implement Promises.                                             *)

\* A client that was destroyed has no thread left.
GoneInv == user = "gone" => io = "none"

LEMMA GoneStep == GoneInv /\ [Next]_vars => GoneInv'
  <1> SUFFICES ASSUME GoneInv, [Next]_vars PROVE GoneInv'
    OBVIOUS
  <1> USE DEF GoneInv, Goto, loopVars
  <1>1. CASE DestroyJoin
    BY <1>1 DEF DestroyJoin
  <1>2. CASE RunReturns
    BY <1>2 DEF RunReturns
  <1>3. ASSUME NEW c \in Conns, Connect(c) PROVE GoneInv'
    BY <1>3 DEF Connect
  <1>4. CASE UNCHANGED <<io, user>>
    BY <1>4
  <1>5. CASE user' # "gone"
    BY <1>5
  <1> QED
    BY <1>1, <1>2, <1>3, <1>4, <1>5
       DEF Next, OpenHandler, FailHandler, SessionEnds, CloseHandler, Disconnect, PingCheck,
           UserStep, PingRegister, PingSend, DestroyStop, Destroy, PongHandler, TimerExpires,
           TimerHandler, Ended, vars

\* What Promises sees of the client.
Promised == [id \in PingIds |-> PingPromise(id)]
Keeper == IF user = "gone" THEN "gone" ELSE "here"

\* A step that neither makes a promise, gives one a value nor ends the client.
LEMMA PromisesSame ==
    ASSUME UNCHANGED <<nextPingId, values>>, user' = "gone" <=> user = "gone"
    PROVE  UNCHANGED PR!vars
  <1>1. \A id \in PingIds : PingPromise(id)' = PingPromise(id)
    BY DEF PingPromise
  <1> QED  BY <1>1 DEF PR!vars

\* Registering a ping makes a promise under a new id.
LEMMA PromiseMade ==
    ASSUME IndInv, PingRegister
    PROVE  PR!Make(nextPingId) /\ nextPingId \in PingIds
  <1>1. PICK n \in PingIds : n = nextPingId /\ n \in Nat
    BY MaxPingsAssumption DEF PingRegister, IndInv, RoomInv, PingIds, TypeOK
  <1>2. /\ nextPingId' = n + 1 /\ values' = values /\ user # "gone" /\ user' # "gone"
        /\ values[n] = <<>>
    BY <1>1 DEF PingRegister, Goto, IndInv, PromiseInv
  <1>3. PingPromise(n) = "none" /\ PingPromise(n)' = "pending"
    BY <1>1, <1>2 DEF PingPromise
  <1>4. ASSUME NEW id \in PingIds, id # n PROVE PingPromise(id)' = PingPromise(id)
    <2>1. id \in Nat
      BY MaxPingsAssumption DEF PingIds
    <2>2. id >= n + 1 <=> id >= n
      BY <1>1, <1>4, <2>1
    <2> QED  BY <1>1, <1>2, <2>2 DEF PingPromise
  <1>5. Promised' = [Promised EXCEPT ![n] = "pending"]
    BY <1>3, <1>4 DEF Promised
  <1> QED  BY <1>1, <1>2, <1>3, <1>5 DEF PR!Make, Promised

\* A pong, the timer or a send error fulfils a promise that is pending.
LEMMA PromiseFulfilled ==
    ASSUME IndInv, NEW id \in pendingPings, NEW v \in {"ok", "failed"}, Resolve(id, v),
           UNCHANGED nextPingId, user # "gone", user' # "gone"
    PROVE  PR!Fulfil(id, v) /\ id \in PingIds
  <1>1. /\ id \in PingIds /\ values[id] = <<>> /\ nextPingId \in Nat
        /\ values' = [values EXCEPT ![id] = Append(@, v)]
        /\ values \in [PingIds -> Seq({"ok", "failed"})]
        /\ ~(id >= nextPingId)
    BY DEF Resolve, IndInv, TypeOK, PromiseInv
  <1>2. values'[id] = <<v>> /\ \A p \in PingIds : p # id => values'[p] = values[p]
    BY <1>1
  <1>3. PingPromise(id) = "pending"
    BY <1>1 DEF PingPromise
  <1>4. PingPromise(id)' = v
    <2>1. <<v>> # <<>> /\ ~(Len(<<v>>) > 1) /\ <<v>>[1] = v
      OBVIOUS
    <2> QED  BY <1>2, <2>1, Zenon DEF PingPromise
  <1>5. ASSUME NEW p \in PingIds, p # id PROVE PingPromise(p)' = PingPromise(p)
    BY <1>2, <1>5 DEF PingPromise
  <1>6. Promised' = [Promised EXCEPT ![id] = v]
    BY <1>1, <1>4, <1>5 DEF Promised
  <1> QED  BY <1>1, <1>3, <1>6 DEF PR!Fulfil, Promised

\* With the client go the promises it has not fulfilled.
LEMMA PromisesLeft ==
    ASSUME IndInv, DestroyJoin
    PROVE  PR!Leave
  <1>1. user # "gone" /\ user' = "gone" /\ UNCHANGED <<values, nextPingId>>
    BY DEF DestroyJoin, Goto, pingVars
  <1>2. ASSUME NEW id \in PingIds
        PROVE  PingPromise(id)' = IF PingPromise(id) = "pending" THEN "broken" ELSE PingPromise(id)
    <2>1. CASE values[id] # <<>>
      <3>1. values[id] \in Seq({"ok", "failed"})
        BY DEF IndInv, TypeOK
      <3>2. values[id][1] \in {"ok", "failed"}
        BY <2>1, <3>1, EmptySeq, LenProperties, ElementOfSeq
      <3> QED  BY <1>1, <2>1, <3>2 DEF PingPromise
    <2>2. CASE values[id] = <<>>
      BY <1>1, <2>2 DEF PingPromise
    <2> QED  BY <2>1, <2>2
  <1> QED  BY <1>1, <1>2 DEF PR!Leave

\* Every step of the client is a step of Promises, or none.
LEMMA PromisesStep == IndInv /\ GoneInv /\ [Next]_vars => [PR!Next]_(PR!vars)
  <1> SUFFICES ASSUME IndInv, GoneInv, [Next]_vars PROVE [PR!Next]_(PR!vars)
    OBVIOUS
  <1>1. CASE PingRegister
    BY <1>1, PromiseMade DEF PR!Next
  <1>2. CASE DestroyJoin
    BY <1>2, PromisesLeft DEF PR!Next
  <1>3. ASSUME NEW id \in pendingPings, NEW v \in {"ok", "failed"}, Resolve(id, v),
               UNCHANGED nextPingId, user # "gone", user' # "gone"
        PROVE  PR!Next
    <2>1. PR!Fulfil(id, v) /\ id \in PingIds
      BY <1>3, PromiseFulfilled
    <2> QED  BY <2>1 DEF PR!Next
  <1>4. Running => user # "gone"
    BY DEF Running, GoneInv
  <1>5. ASSUME NEW id \in PingIds, PongHandler(id) PROVE PR!Next
    BY <1>3, <1>4, <1>5 DEF PongHandler
  <1>6. ASSUME NEW id \in PingIds, TimerHandler(id), id \in pendingPings PROVE PR!Next
    BY <1>3, <1>4, <1>6 DEF TimerHandler
  <1>7. CASE PingSend /\ ~UNCHANGED pingVars
    <2>1. /\ 0 \in pendingPings /\ Resolve(0, "failed") /\ UNCHANGED nextPingId
          /\ user # "gone" /\ user' # "gone"
      BY <1>7 DEF PingSend, Goto
    <2> QED  BY <1>3, <2>1
  <1>8. CASE UNCHANGED <<nextPingId, values>> /\ (user' = "gone" <=> user = "gone")
    BY <1>8, PromisesSame
  <1>9. ASSUME NEW c \in Conns,
               Connect(c) \/ OpenHandler(c) \/ FailHandler(c) \/ SessionEnds(c) \/ CloseHandler(c)
        PROVE  UNCHANGED <<nextPingId, values, user>>
    BY <1>9 DEF Connect, OpenHandler, FailHandler, SessionEnds, CloseHandler, pingVars
  <1>10. ASSUME NEW id \in PingIds,
                TimerExpires(id) \/ (TimerHandler(id) /\ id \notin pendingPings)
         PROVE  UNCHANGED <<nextPingId, values, user>>
    BY <1>10 DEF TimerExpires, TimerHandler
  <1>11. ASSUME \/ Disconnect \/ PingCheck \/ DestroyStop \/ Destroy
                \/ (PingSend /\ UNCHANGED pingVars)
         PROVE  UNCHANGED <<nextPingId, values>> /\ user # "gone" /\ user' # "gone"
    BY <1>11 DEF Disconnect, PingCheck, DestroyStop, Destroy, PingSend, Goto, pingVars
  <1>12. ASSUME RunReturns \/ UNCHANGED vars PROVE UNCHANGED <<nextPingId, values, user>>
    BY <1>12 DEF RunReturns, vars, pingVars
  <1> QED
    BY <1>1, <1>2, <1>5, <1>6, <1>7, <1>8, <1>9, <1>10, <1>11, <1>12 DEF Next, UserStep, Ended

\* WebSockets::Client implements Promises: every registered ping's future becomes
\* ready once, with a value that never changes, or is broken with the client, for
\* any number of pings and connections.
THEOREM PingsArePromisesHolds == Spec => PingsArePromises
  <1>1. Init => PR!Init /\ GoneInv
    <2> SUFFICES ASSUME Init PROVE PR!Init /\ GoneInv
      OBVIOUS
    <2>1. ASSUME NEW id \in PingIds PROVE PingPromise(id) = "none"
      <3>1. id \in Nat
        BY MaxPingsAssumption DEF PingIds
      <3> QED  BY <3>1 DEF Init, PingPromise
    <2> QED  BY <2>1 DEF Init, PR!Init, GoneInv
  <1> QED  BY <1>1, IndInvariant, GoneStep, PromisesStep, PTL DEF Spec, PingsArePromises, PR!Spec

=============================================================================
