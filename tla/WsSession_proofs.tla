-------------------------- MODULE WsSession_proofs --------------------------
(***************************************************************************)
(* The client sessions: what their chain of handlers guarantees, for each  *)
(* of the three classes and any number of messages.                        *)
(***************************************************************************)
EXTENDS WsSession, TLAPS

\* Where a session and its chain can be.
Places ==
    /\ kind \in {"plain", "secure", "socket"}
    /\ status \in {"alive", "gone", "terminated", "dangling"}
    /\ op \in {"none", "resolve", "connect", "handshake", "read"}
    /\ done \in {"no", "ok", "error"}

\* While the chain runs nothing has been reported since start(): a handler that
\* reports ends the chain.
ReportInv == reports \in {0, 1} /\ (op # "none" => reports = 0)

\* What the reads have put in the buffer when n messages have come.
Expected(n) == IF WebSocketKind \/ n = 0 THEN [i \in 1..n |-> i] ELSE <<n>>

\* The buffer holds what came, and the callback was given it unless its handler
\* is still queued.
BufferInv ==
    /\ arrived \in Nat
    /\ m_buffer = Expected(arrived)
    /\ status = "alive" /\ ~(op = "read" /\ done = "ok") => given = m_buffer

IndInv == Places /\ ReportInv /\ BufferInv /\ NoHandlerOutlives

-----------------------------------------------------------------------------
\* A session that was never started satisfies the invariant.
LEMMA InitInv == Init => IndInv
  <1> SUFFICES ASSUME Init PROVE IndInv
    OBVIOUS
  <1>1. m_buffer = Expected(arrived)
    BY DEF Init, Expected
  <1> QED
    BY <1>1 DEF Init, IndInv, Places, ReportInv, BufferInv, NoHandlerOutlives

\* The numbers to n, and one more.
LEMMA AppendNext ==
    ASSUME NEW n \in Nat
    PROVE  Append([i \in 1..n |-> i], n + 1) = [i \in 1..(n + 1) |-> i]
  OBVIOUS

\* A handler that starts nothing leaves the session alive, or ends the chain
\* before the session goes.
LEMMA EndChainInv ==
    ASSUME NEW flag, EndChain(flag), status = "alive"
    PROVE  op' = "none" /\ done' = "no" /\ status' \in {"alive", "gone", "terminated"}
  BY DEF EndChain, Destructor

\* What an action that leaves the messages alone keeps.
LEMMA BufferKept ==
    ASSUME BufferInv, UNCHANGED <<kind, arrived, m_buffer, given>>,
           status' = "alive" /\ ~(op' = "read" /\ done' = "ok")
              => status = "alive" /\ ~(op = "read" /\ done = "ok")
    PROVE  BufferInv'
  BY DEF BufferInv, Expected, WebSocketKind

\* The chain of handlers: each action starts from a session that is alive.
LEMMA HandlerInv == IndInv /\ Handler => IndInv'
  <1> SUFFICES ASSUME IndInv, Handler PROVE IndInv'
    OBVIOUS
  <1> USE DEF IndInv, Places, ReportInv, NoHandlerOutlives, Runs, Proceed, Begin
  <1>1. CASE OnResolve
    <2>1. BufferInv'
      BY <1>1, BufferKept, EndChainInv DEF OnResolve
    <2> QED  BY <1>1, <2>1, EndChainInv DEF OnResolve
  <1>2. CASE OnConnect
    <2>1. BufferInv'
      BY <1>2, BufferKept, EndChainInv DEF OnConnect
    <2>2. CASE done = "ok"
      BY <1>2, <2>1, <2>2 DEF OnConnect
    <2>3. CASE done # "ok"
      <3>1. op' = "none" /\ done' = "no" /\ status' \in {"alive", "gone", "terminated"}
        BY <1>2, <2>3 DEF OnConnect, EndChain, Destructor
      <3> QED  BY <1>2, <2>1, <2>3, <3>1 DEF OnConnect
    <2> QED  BY <2>2, <2>3
  <1>3. CASE OnSocketConnect
    <2>1. BufferInv'
      BY <1>3, BufferKept, EndChainInv DEF OnSocketConnect
    <2> QED  BY <1>3, <2>1, EndChainInv DEF OnSocketConnect
  <1>4. CASE OnHandshake
    <2>1. BufferInv'
      BY <1>4, BufferKept, EndChainInv DEF OnHandshake
    <2> QED  BY <1>4, <2>1, EndChainInv DEF OnHandshake
  <1>5. CASE OnRead
    <2>1. BufferInv'
      <3>1. CASE done = "ok"
        BY <1>5, <3>1 DEF OnRead, BufferInv, Expected, WebSocketKind
      <3>2. CASE done # "ok"
        BY <1>5, <3>2, BufferKept, EndChainInv DEF OnRead
      <3> QED  BY <3>1, <3>2
    <2> QED  BY <1>5, <2>1, EndChainInv DEF OnRead
  <1>6. CASE OnSocketRead
    <2>1. BufferInv'
      <3>1. CASE done = "ok"
        BY <1>6, <3>1 DEF OnSocketRead, BufferInv, Expected, WebSocketKind
      <3>2. CASE done # "ok"
        BY <1>6, <3>2, BufferKept, EndChainInv DEF OnSocketRead
      <3> QED  BY <3>1, <3>2
    <2> QED  BY <1>6, <2>1, EndChainInv DEF OnSocketRead
  <1> QED  BY <1>1, <1>2, <1>3, <1>4, <1>5, <1>6 DEF Handler

\* The owner, the operations and the peer.
LEMMA NextInv == IndInv /\ [Next]_vars => IndInv'
  <1> SUFFICES ASSUME IndInv, [Next]_vars PROVE IndInv'
    OBVIOUS
  <1> USE DEF IndInv, Places, ReportInv, NoHandlerOutlives, MayStart, Begin
  <1>1. CASE StartPlain \/ StartSecure \/ StartSocket
    <2>1. BufferInv'
      BY <1>1, BufferKept DEF StartPlain, StartSecure, StartSocket
    <2> QED  BY <1>1, <2>1 DEF StartPlain, StartSecure, StartSocket
  <1>2. CASE Close
    <2>1. BufferInv'
      BY <1>2, BufferKept DEF Close
    <2> QED  BY <1>2, <2>1 DEF Close
  <1>3. CASE Release
    <2>1. BufferInv'
      BY <1>3, BufferKept DEF Release
    <2>2. /\ status' \in {"alive", "gone", "terminated"}
          /\ status' = "gone" => op = "none" \/ kind = "secure"
      BY <1>3 DEF Release, Destructor, HandlersHold
    <2> QED  BY <1>3, <2>1, <2>2 DEF Release
  <1>4. CASE Handler
    BY <1>4, HandlerInv
  <1>5. CASE OrphanHandler
    <2>1. BufferInv'
      BY <1>5, BufferKept DEF OrphanHandler
    <2> QED  BY <1>5, <2>1 DEF OrphanHandler
  <1>6. CASE Receive
    <2>1. m_buffer' = Expected(arrived)'
      <3>1. arrived \in Nat /\ arrived' = arrived + 1 /\ UNCHANGED kind
        BY <1>6 DEF Receive, BufferInv
      <3>2. CASE WebSocketKind
        <4>1. m_buffer = [i \in 1..arrived |-> i] /\ m_buffer' = Append(m_buffer, arrived + 1)
          BY <1>6, <3>2 DEF Receive, BufferInv, Expected
        <4> QED  BY <3>1, <3>2, <4>1, AppendNext DEF Expected, WebSocketKind
      <3>3. CASE ~WebSocketKind
        BY <1>6, <3>1, <3>3 DEF Receive, Expected, WebSocketKind
      <3> QED  BY <3>2, <3>3
    <2>2. BufferInv'
      BY <1>6, <2>1 DEF Receive, BufferInv
    <2> QED  BY <1>6, <2>2 DEF Receive
  <1>7. CASE Complete
    <2>1. BufferInv'
      BY <1>7, BufferKept DEF Complete, Outstanding
    <2> QED  BY <1>7, <2>1 DEF Complete, Outstanding
  <1>8. CASE PeerEnds
    <2>1. BufferInv'
      BY <1>8, BufferKept DEF PeerEnds
    <2> QED  BY <1>8, <2>1 DEF PeerEnds
  <1>9. CASE UNCHANGED vars
    <2>1. BufferInv'
      BY <1>9, BufferKept DEF vars
    <2> QED  BY <1>9, <2>1 DEF vars
  <1> QED
    BY <1>1, <1>2, <1>3, <1>4, <1>5, <1>6, <1>7, <1>8, <1>9 DEF Next, Ended

\* The invariant holds throughout.
LEMMA Inductive == Spec => []IndInv
  BY InitInv, NextInv, PTL DEF Spec

-----------------------------------------------------------------------------
\* The close callback is called at most once for a start(), whichever operation
\* of the chain fails.
THEOREM ReportsOnceHolds == Spec => []ReportsOnce
  <1>1. IndInv => ReportsOnce
    BY DEF IndInv, ReportInv, ReportsOnce
  <1> QED  BY <1>1, Inductive, PTL

\* The read callback was given every message in order, or the latest chunk.
THEOREM NothingLostHolds == Spec => []NothingLost
  <1>1. IndInv => NothingLost
    BY DEF IndInv, BufferInv, Expected, NothingLost
  <1> QED  BY <1>1, Inductive, PTL

\* No handler of a session that is held by its handlers is left when it goes.
THEOREM NoHandlerOutlivesHolds == Spec => []NoHandlerOutlives
  <1>1. IndInv => NoHandlerOutlives
    BY DEF IndInv
  <1> QED  BY <1>1, Inductive, PTL
=============================================================================
