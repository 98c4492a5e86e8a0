---------------------------- MODULE OldHttp_proofs ----------------------------
(***************************************************************************)
(* Proofs about OldHttp, for any set of peers and any bound on accepts.    *)
(***************************************************************************)
EXTENDS OldHttp, TLAPS

\* Accept operations, queued accept errors and the accept in its handler.
Pending == accepts + failed + (IF hand = NoPeer THEN 0 ELSE 1)

\* The bound that start() checks is kept, and a handler is under way only
\* inside run().
AcceptInv == Pending <= MaxAccepts /\ (hand # NoPeer => inRun)

\* A context that Asio stopped by itself has no handler under way that could
\* still create a session.
StopInv == stopped /\ ~stopDone => hand = NoPeer

IndInv == Places /\ AcceptInv /\ StopInv /\ NeverDeaf /\ SessionsSurvive

\* Two counters whose sum is bounded are bounded each.
LEMMA SumBound ==
    ASSUME NEW a \in Nat, NEW b \in Nat, a + b <= MaxAccepts
    PROVE  a \in 0 .. MaxAccepts /\ b \in 0 .. MaxAccepts
  BY OldHttpAssumption

\* start() leaves room for the one accept that it adds to the aborted ones.
LEMMA StartBound ==
    ASSUME NEW a \in Nat, NEW b \in Nat, a + b + 1 <= MaxAccepts, NEW c \in {0, 1}
    PROVE  c + (b + a) <= MaxAccepts /\ c + (b + a) \in Nat
  BY OldHttpAssumption

\* The accept that a handler repeats takes the place of the one it came from.
LEMMA RepeatBound ==
    ASSUME NEW a \in Nat, NEW b \in Nat, a + b + 1 <= MaxAccepts,
           NEW c \in Nat, NEW d \in Nat, c + d = a + b + 1
    PROVE  c + d <= MaxAccepts /\ c + d > 0
  BY OldHttpAssumption

\* A server that was never started satisfies the invariant.
LEMMA InitInv == Init => IndInv
  BY OldHttpAssumption DEF Init, IndInv, Places, AcceptInv, Pending, StopInv, NeverDeaf,
        SessionsSurvive, Alive

\* An exception stops the context only when no session is left.
LEMMA LeaveInv ==
    ASSUME Leave
    PROVE  /\ ~inRun'
           /\ stopped' => stopped \/ \A p \in Peers : session'[p] \notin Alive
  BY DEF Leave

\* One step per group of actions: the owner's, the accept handler's, a session's.
LEMMA NextInv == IndInv /\ [Next]_vars => IndInv'
  <1> SUFFICES ASSUME IndInv, [Next]_vars PROVE IndInv'
    OBVIOUS
  <1> USE OldHttpAssumption DEF IndInv, Places, AcceptInv, Pending, StopInv, NeverDeaf,
        SessionsSurvive, Alive, listening, context
  <1>1. CASE SetProcessors
    BY <1>1 DEF SetProcessors
  <1>2. CASE Start
    <2>1. hand = NoPeer /\ hand' = NoPeer /\ accepts + failed + 1 <= MaxAccepts
      BY <1>2 DEF Start
    <2>2. accepts' \in {0, 1} /\ failed' = failed + accepts
      BY <1>2 DEF Start
    <2>3. acceptor' \in {"closed", "open", "listening"} /\ (inRun' => accepts' = 1)
      BY <1>2 DEF Start
    <2>4. UNCHANGED <<stopped, socketOpen, processors, session, stopper, stopDone>>
      BY <1>2 DEF Start
    <2>5. Places'
      BY <2>1, <2>2, <2>3, <2>4
    <2>6. accepts' + failed' <= MaxAccepts /\ accepts' + failed' \in Nat
      <3>1. accepts \in Nat /\ failed \in Nat
        OBVIOUS
      <3> QED  BY <2>1, <2>2, <3>1, StartBound
    <2>7. Pending' = accepts' + failed'
      BY <2>1, <2>6
    <2>8. AcceptInv'
      BY <2>1, <2>6, <2>7
    <2>9. NeverDeaf'
      <3>1. inRun' => accepts' + failed' > 0
        BY <2>2, <2>3
      <3> QED  BY <3>1
    <2>10. StopInv' /\ SessionsSurvive'
      BY <2>1, <2>4
    <2> QED  BY <2>5, <2>8, <2>9, <2>10
  <1>3. CASE RunReturns
    BY <1>3 DEF RunReturns
  <1>4. CASE StopAcceptor
    BY <1>4 DEF StopAcceptor
  <1>5. CASE StopSocket
    BY <1>5 DEF StopSocket
  <1>6. CASE StopContext
    BY <1>6 DEF StopContext
  <1>7. CASE AcceptFails
    BY <1>7 DEF AcceptFails
  <1>8. CASE AcceptError
    BY <1>8 DEF AcceptError, AcceptConnections, Runs
  <1>9. CASE AcceptHandler
    <2>1. hand \in Peers /\ inRun /\ hand' = NoPeer
      BY <1>9 DEF AcceptHandler
    <2>2. UNCHANGED <<processors, stopper, stopDone>> /\ socketOpen' = FALSE
      BY <1>9 DEF AcceptHandler
    <2>3. CASE processors
      <3>1. UNCHANGED <<inRun, stopped, acceptor>> /\ (stopped => stopDone)
        BY <1>9, <2>1, <2>3 DEF AcceptHandler, AcceptConnections
      <3>2. /\ accepts' \in Nat /\ failed' \in Nat
            /\ accepts' + failed' = accepts + failed + 1
        BY <1>9, <2>3 DEF AcceptHandler, AcceptConnections
      <3>3. session' \in [Peers -> {"none", "gone"} \cup Alive]
        BY <1>9, <2>1, <2>3 DEF AcceptHandler, ReadRequest
      <3>4. accepts + failed + 1 <= MaxAccepts
        BY <2>1
      <3>5. accepts' \in 0 .. MaxAccepts /\ failed' \in 0 .. MaxAccepts
        BY <3>2, <3>4, SumBound
      <3>6. Pending' = accepts' + failed'
        BY <2>1, <3>5
      <3>7. Places'
        BY <2>1, <2>2, <3>1, <3>5, <3>3
      <3>8. Pending' <= MaxAccepts /\ accepts' + failed' > 0
        <4>1. accepts' + failed' <= MaxAccepts /\ accepts' + failed' > 0
          <5>1. accepts \in Nat /\ failed \in Nat
            OBVIOUS
          <5>2. accepts' + failed' = accepts + failed + 1 /\ accepts' \in Nat /\ failed' \in Nat
            BY <3>2
          <5> HIDE DEF IndInv, Places, AcceptInv, Pending, NeverDeaf, StopInv, SessionsSurvive
          <5> QED  BY <5>1, <5>2, <3>4, RepeatBound
        <4> QED  BY <3>6, <4>1
      <3>9. AcceptInv' /\ NeverDeaf'
        BY <2>1, <3>8
      <3>10. StopInv' /\ SessionsSurvive'
        BY <2>1, <2>2, <3>1
      <3> QED  BY <3>7, <3>9, <3>10
    <2>4. CASE ~processors
      <3>1. UNCHANGED <<acceptor, accepts, failed>> /\ Leave
        BY <1>9, <2>4 DEF AcceptHandler
      <3>2. session' = [session EXCEPT ![hand] = "gone"]
        BY <1>9, <2>4 DEF AcceptHandler
      <3> QED  BY <2>1, <2>2, <3>1, <3>2, LeaveInv
    <2> QED  BY <2>3, <2>4
  <1>10. ASSUME NEW p \in Peers, Accept(p) PROVE IndInv'
    BY <1>10 DEF Accept, Runs
  <1>11. ASSUME NEW p \in Peers, ReadCompletes(p) \/ WriteCompletes(p) PROVE IndInv'
    BY <1>11 DEF ReadCompletes, WriteCompletes, Becomes
  <1>12. ASSUME NEW p \in Peers, HandlerEnds(p) \/ ProcessRequest(p) PROVE IndInv'
    BY <1>12 DEF HandlerEnds, ProcessRequest, Becomes, Runs
  <1>13. ASSUME NEW p \in Peers, ProcessRequestThrows(p) PROVE IndInv'
    <2>1. hand = NoPeer /\ inRun /\ UNCHANGED <<hand, socketOpen, processors, stopper, stopDone>>
      BY <1>13 DEF ProcessRequestThrows, Runs
    <2>2. Leave /\ session' = [session EXCEPT ![p] = "gone"]
      BY <1>13 DEF ProcessRequestThrows, Becomes
    <2>3. /\ accepts' \in Nat /\ failed' \in Nat /\ accepts' + failed' = accepts + failed
          /\ acceptor' \in {acceptor, "closed"}
      BY <1>13 DEF ProcessRequestThrows
    <2>4. accepts + failed <= MaxAccepts
      BY <2>1
    <2>5. accepts' \in 0 .. MaxAccepts /\ failed' \in 0 .. MaxAccepts
      BY <2>3, <2>4, SumBound
    <2>6. session' \in [Peers -> {"none", "gone"} \cup Alive]
      BY <2>2
    <2>7. Places'
      BY <2>1, <2>3, <2>5, <2>6
    <2>8. AcceptInv' /\ NeverDeaf' /\ StopInv'
      BY <2>1, <2>2, <2>3, LeaveInv
    <2>9. SessionsSurvive'
      BY <2>1, <2>2, LeaveInv
    <2> QED  BY <2>7, <2>8, <2>9
  <1>14. CASE UNCHANGED vars
    BY <1>14 DEF vars
  <1> QED
    BY <1>1, <1>2, <1>3, <1>4, <1>5, <1>6, <1>7, <1>8, <1>9, <1>10, <1>11, <1>12, <1>13, <1>14
       DEF Next, Ended

\* The invariant holds throughout.
LEMMA Inductive == Spec => []IndInv
  BY InitInv, NextInv, PTL DEF Spec

\* While start() runs the loop on a listening acceptor an accept is under way.
THEOREM NeverDeafHolds == Spec => []NeverDeaf
  <1>1. IndInv => NeverDeaf
    BY DEF IndInv
  <1> QED  BY <1>1, Inductive, PTL

\* An exception that ends start() costs no session but the one it came from.
THEOREM SessionsSurviveHolds == Spec => []SessionsSurvive
  <1>1. IndInv => SessionsSurvive
    BY DEF IndInv
  <1> QED  BY <1>1, Inductive, PTL

\* The flags: those that an exception and its Leave may change among them.
FlagsInv ==
    /\ inRun \in BOOLEAN /\ socketOpen \in BOOLEAN /\ processors \in BOOLEAN
    /\ stopped \in BOOLEAN /\ stopDone \in BOOLEAN

LEMMA FlagsStep == FlagsInv /\ [Next]_vars => FlagsInv'
  <1> SUFFICES ASSUME FlagsInv, [Next]_vars PROVE FlagsInv'
    OBVIOUS
  <1> USE DEF FlagsInv, listening, context
  <1>1. CASE SetProcessors \/ Start \/ RunReturns
    BY <1>1 DEF SetProcessors, Start, RunReturns
  <1>2. CASE StopAcceptor \/ StopSocket \/ StopContext
    BY <1>2 DEF StopAcceptor, StopSocket, StopContext
  <1>3. CASE AcceptFails \/ AcceptError
    BY <1>3 DEF AcceptFails, AcceptError
  <1>4. ASSUME Leave PROVE inRun' \in BOOLEAN /\ stopped' \in BOOLEAN
    BY <1>4 DEF Leave
  <1>5. CASE AcceptHandler
    BY <1>4, <1>5 DEF AcceptHandler
  <1>6. ASSUME NEW p \in Peers, ProcessRequestThrows(p) PROVE FlagsInv'
    BY <1>4, <1>6 DEF ProcessRequestThrows
  <1>7. ASSUME NEW p \in Peers,
               \/ Accept(p) \/ ReadCompletes(p) \/ WriteCompletes(p)
               \/ HandlerEnds(p) \/ ProcessRequest(p)
        PROVE  FlagsInv'
    BY <1>7 DEF Accept, ReadCompletes, WriteCompletes, HandlerEnds, ProcessRequest
  <1>8. CASE UNCHANGED vars
    BY <1>8 DEF vars
  <1> QED  BY <1>1, <1>2, <1>3, <1>5, <1>6, <1>7, <1>8 DEF Next, Ended

\* Type correctness of HTTPOld::Server: the accept operations that restarts pile up
\* stay within the bound that start() checks.
THEOREM TypeCorrect == Spec => []TypeOK
  <1>1. Init => FlagsInv
    BY DEF Init, FlagsInv
  <1>2. IndInv /\ FlagsInv => TypeOK
    BY DEF IndInv, FlagsInv, TypeOK, Flags
  <1> QED  BY <1>1, <1>2, FlagsStep, Inductive, PTL DEF Spec
=============================================================================
