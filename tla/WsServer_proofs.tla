--------------------------- MODULE WsServer_proofs ---------------------------
(***************************************************************************)
(* WebSockets::Server: the registry of connections and the ownership of    *)
(* the io thread, for any set of peers.                                    *)
(***************************************************************************)
EXTENDS WsServer, TLAPS

\* m_ioThread and the thread agree, and stop() waits only for a thread whose
\* service it has stopped.
ThreadInv ==
    /\ ioThread <=> io # "none"
    /\ user = "stop_join" /\ ioThread => stopped

\* A server that never had a thread has no connection.
RegistryInv == ~ioThread /\ ~stopped => \A c \in Conns : state[c] = "away"

\* The inductive invariant.
IndInv == TypeOK /\ ThreadInv /\ RegistryInv /\ RegistryExact

\* A server that was just constructed satisfies it.
LEMMA InitIndInv == Init => IndInv
  BY DEF Init, IndInv, TypeOK, ThreadInv, RegistryInv, RegistryExact, Live, StopSteps

\* No call of the user, no handler and no end of the loop leaves it.
LEMMA NextIndInv == IndInv /\ [Next]_vars => IndInv'
  <1> SUFFICES ASSUME IndInv, [Next]_vars PROVE IndInv'
    OBVIOUS
  <1> USE DEF IndInv, TypeOK, ThreadInv, RegistryInv, RegistryExact, Live,
        StopSteps, Goto, Running
  <1>1. CASE Listen
    <2>1. TypeOK'
      BY <1>1 DEF Listen
    <2>2. ThreadInv'
      BY <1>1 DEF Listen
    <2>3. RegistryInv'
      BY <1>1 DEF Listen
    <2>4. RegistryExact'
      BY <1>1 DEF Listen
    <2> QED
      BY <2>1, <2>2, <2>3, <2>4
  <1>2. CASE ListenRefused
    BY <1>2 DEF ListenRefused, vars
  <1>3. CASE StopCall
    BY <1>3 DEF StopCall
  <1>4. CASE Destroy
    BY <1>4 DEF Destroy
  <1>5. CASE StopListening
    BY <1>5 DEF StopListening
  <1>6. CASE StopConnections
    BY <1>6 DEF StopConnections
  <1>7. CASE StopIo
    BY <1>7 DEF StopIo
  <1>8. CASE StopJoin
    BY <1>8 DEF StopJoin
  <1>9. ASSUME NEW c \in Conns, HandleAccept(c) PROVE IndInv'
    BY <1>9 DEF HandleAccept
  <1>10. ASSUME NEW c \in Conns, OpenHandler(c) PROVE IndInv'
    BY <1>10 DEF OpenHandler
  <1>11. ASSUME NEW c \in Conns, FailHandler(c) PROVE IndInv'
    BY <1>11 DEF FailHandler
  <1>12. ASSUME NEW c \in Conns, SessionEnds(c) PROVE IndInv'
    BY <1>12 DEF SessionEnds
  <1>13. ASSUME NEW c \in Conns, CloseHandler(c) PROVE IndInv'
    BY <1>13 DEF CloseHandler
  <1>14. CASE AcceptAborted
    BY <1>14 DEF AcceptAborted
  <1>15. CASE RunReturns
    BY <1>15 DEF RunReturns
  <1>16. CASE UNCHANGED vars
    BY <1>16 DEF vars
  <1> QED
    BY <1>1, <1>2, <1>3, <1>4, <1>5, <1>6, <1>7, <1>8, <1>9, <1>10, <1>11, <1>12, <1>13, <1>14, <1>15, <1>16
    DEF Next, Stop, Ended

\* It holds in every execution.
THEOREM IndInvariant == Spec => []IndInv
  BY InitIndInv, NextIndInv, PTL DEF Spec

\* Every variable of the server keeps its type.
THEOREM TypeCorrect == Spec => []TypeOK
  <1>1. IndInv => TypeOK
    BY DEF IndInv
  <1> QED
    BY <1>1, IndInvariant, PTL

\* The registry holds only connections between their open and their close
\* handler, and all of them until the first stop() clears it, for any peers.
THEOREM RegistryExactHolds == Spec => []RegistryExact
  <1>1. IndInv => RegistryExact
    BY DEF IndInv
  <1> QED
    BY <1>1, IndInvariant, PTL

\* Whenever no call is in progress, a thread m_ioThread does not own does not
\* exist; in particular none is left when the server is gone.
THEOREM ThreadIsOwnedHolds == Spec => []ThreadIsOwned
  <1>1. IndInv => ThreadIsOwned
    BY DEF IndInv, ThreadInv, ThreadIsOwned
  <1> QED
    BY <1>1, IndInvariant, PTL
=============================================================================
