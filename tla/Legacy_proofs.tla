---------------------------- MODULE Legacy_proofs ----------------------------
(***************************************************************************)
(* The legacy TCP server's slots and responses, for any clients, any       *)
(* connections, any bound on the threads and any number of packets; and,   *)
(* at the end, the legacy UDP server for any number of slots.              *)
(***************************************************************************)
EXTENDS LegacyTcp, LegacyUdp, FiniteSetTheorems, TLAPS

\* The connections whose worker was created and not yet released.
Working(c) == phase[c] \in {"created", "serving", "ended"}

\* m_workers and m_threads hold the same slots, each of one connection.
TableInv ==
    /\ threads = workers
    /\ DOMAIN workers \subseteq Ids
    /\ \A i \in DOMAIN workers : workers[i] \in Conns
    /\ \A i, j \in DOMAIN workers : workers[i] = workers[j] => i = j
    /\ \A c \in Conns : Working(c) <=> \E i \in DOMAIN workers : workers[i] = c
    /\ \A c \in Conns : phase[c] \in {"serving", "ended"} =>
            workerId[c] \in DOMAIN workers /\ workers[workerId[c]] = c

RoomInv == maximum \in Nat /\ Cardinality(DOMAIN workers) <= maximum

\* A worker that has read half a packet may have answered it already; what was
\* sent is whole packets.
CountInv ==
    /\ answered \in [Conns -> Nat] /\ received \in [Conns -> Nat] /\ sent \in [Conns -> Nat]
    /\ \A c \in Conns :
        /\ 2 * answered[c] <= received[c] + (received[c] % 2)
        /\ received[c] <= sent[c]
        /\ sent[c] % 2 = 0

PhaseInv ==
    /\ phase \in [Conns -> {"none", "incoming", "created", "serving", "ended", "gone", "rejected"}]
    /\ workerId \in [Conns -> Ids]

IndInv == PhaseInv /\ CountInv /\ (status = "running" => TableInv /\ RoomInv)

-----------------------------------------------------------------------------
\* A server without connections satisfies the invariant.
LEMMA InitInv == Init => IndInv
  <1> SUFFICES ASSUME Init PROVE IndInv
    OBVIOUS
  <1>1. PhaseInv
    BY LegacyTcpAssumption DEF Init, PhaseInv
  <1>2. CountInv
    BY DEF Init, CountInv
  <1>3. TableInv
    BY DEF Init, TableInv, Working
  <1>4. RoomInv
    BY LegacyTcpAssumption, FS_EmptySet DEF Init, RoomInv
  <1> QED  BY <1>1, <1>2, <1>3, <1>4 DEF IndInv

\* The ids in use are finitely many.
LEMMA SlotsFinite ==
    ASSUME TableInv
    PROVE  IsFiniteSet(DOMAIN workers) /\ Cardinality(DOMAIN workers) \in Nat
  BY LegacyTcpAssumption, FS_Subset, FS_CardinalityType DEF TableInv

\* What one read of a connection does to the count of its responses.
LEMMA ReadCount ==
    ASSUME NEW a \in Nat, NEW r \in Nat, NEW n \in Nat \ {0}, 2 * a <= r + (r % 2)
    PROVE  /\ 2 * a <= (r + n) + ((r + n) % 2)
           /\ r % 2 = 0 => 2 * (a + 1) <= (r + n) + ((r + n) % 2)
  OBVIOUS

\* Parity, of the units of a stream.
LEMMA Parity == \A n \in Nat : n % 2 \in {0, 1} /\ (n % 2 = 0 => (n + 2) % 2 = 0)
  OBVIOUS

\* Responses never outnumber the whole packets.
LEMMA WholePackets ==
    ASSUME NEW a \in Nat, NEW r \in Nat, NEW s \in Nat,
           2 * a <= r + (r % 2), r <= s, s % 2 = 0
    PROVE  2 * a <= s
  OBVIOUS

-----------------------------------------------------------------------------
\* incomingConnection() gives a connection a slot of its own, or rejects it.
LEMMA CreateConnectionInv ==
    ASSUME IndInv, status = "running", NEW c \in Conns, CreateConnection(c)
    PROVE  IndInv'
  <1> USE DEF IndInv, PhaseInv
  <1>1. PhaseInv'
    BY DEF CreateConnection
  <1>2. CountInv'
    BY DEF CreateConnection, CountInv
  <1>3. CASE Cardinality(DOMAIN workers) >= maximum
    <2>1. TableInv'
      BY <1>3 DEF CreateConnection, TableInv, Working
    <2>2. RoomInv'
      BY <1>3 DEF CreateConnection, RoomInv
    <2> QED  BY <1>1, <1>2, <2>1, <2>2
  <1>4. CASE ~(Cardinality(DOMAIN workers) >= maximum)
    <2>1. PICK i \in FreshIds :
            /\ workers' = Extend(workers, i, c) /\ threads' = Extend(threads, i, c)
            /\ phase' = [phase EXCEPT ![c] = "created"]
      BY <1>4 DEF CreateConnection
    <2>2. DOMAIN workers' = DOMAIN workers \cup {i} /\ i \notin DOMAIN workers /\ i \in Ids
      BY <2>1 DEF Extend, FreshIds
    <2>3. workers'[i] = c /\ \A j \in DOMAIN workers : workers'[j] = workers[j]
      BY <2>1, <2>2 DEF Extend
    <2>4. \A j \in DOMAIN workers : workers[j] # c
      BY DEF CreateConnection, TableInv, Working
    <2>5. TableInv'
      <3>1. threads' = workers'
        BY <2>1 DEF TableInv
      <3>2. DOMAIN workers' \subseteq Ids /\ \A j \in DOMAIN workers' : workers'[j] \in Conns
        BY <2>2, <2>3 DEF TableInv
      <3>3. \A j, k \in DOMAIN workers' : workers'[j] = workers'[k] => j = k
        BY <2>2, <2>3, <2>4 DEF TableInv
      <3>4. ASSUME NEW d \in Conns
            PROVE  Working(d)' <=> \E j \in DOMAIN workers' : workers'[j] = d
        BY <2>1, <2>2, <2>3 DEF TableInv, Working
      <3>5. ASSUME NEW d \in Conns, phase'[d] \in {"serving", "ended"}
            PROVE  workerId'[d] \in DOMAIN workers' /\ workers'[workerId'[d]] = d
        BY <2>1, <2>2, <2>3, <3>5 DEF TableInv, CreateConnection
      <3> QED  BY <3>1, <3>2, <3>3, <3>4, <3>5 DEF TableInv
    <2>6. RoomInv'
      <3>1. Cardinality(DOMAIN workers') = Cardinality(DOMAIN workers) + 1
        BY <2>2, SlotsFinite, FS_AddElement
      <3> QED  BY <1>4, <3>1, SlotsFinite DEF RoomInv, CreateConnection
    <2> QED  BY <1>1, <1>2, <2>5, <2>6
  <1> QED  BY <1>3, <1>4

\* onFinished() finds the slot under the worker's id and frees that one.
LEMMA OnFinishedInv ==
    ASSUME IndInv, status = "running", NEW c \in Conns, OnFinished(c)
    PROVE  IndInv'
  <1> USE DEF IndInv, PhaseInv
  <1> DEFINE i == workerId[c]
  <1>1. i \in DOMAIN workers /\ workers[i] = c /\ threads = workers
    BY DEF OnFinished, TableInv
  <1>2. /\ threads' = Restrict(threads, DOMAIN threads \ {i})
        /\ workers' = Restrict(workers, DOMAIN workers \ {i})
        /\ phase' = [phase EXCEPT ![c] = "gone"]
        /\ UNCHANGED <<maximum, status>>
    BY <1>1 DEF OnFinished
  <1>3. UNCHANGED <<workerId, received, answered, sent>>
    BY DEF OnFinished
  <1>4. /\ DOMAIN workers' = DOMAIN workers \ {i}
        /\ \A j \in DOMAIN workers' : workers'[j] = workers[j]
    BY <1>2 DEF Restrict
  <1>5. PhaseInv'
    BY <1>2, <1>3
  <1>6. CountInv'
    BY <1>3 DEF CountInv
  <1>7. TableInv'
    <2>1. threads' = workers'
      BY <1>1, <1>2
    <2>2. /\ DOMAIN workers' \subseteq Ids /\ \A j \in DOMAIN workers' : workers'[j] \in Conns
          /\ \A j, k \in DOMAIN workers' : workers'[j] = workers'[k] => j = k
      BY <1>4 DEF TableInv
    <2>3. ASSUME NEW d \in Conns
          PROVE  Working(d)' <=> \E j \in DOMAIN workers' : workers'[j] = d
      BY <1>1, <1>2, <1>4 DEF TableInv, Working
    <2>4. ASSUME NEW d \in Conns, phase'[d] \in {"serving", "ended"}
          PROVE  workerId'[d] \in DOMAIN workers' /\ workers'[workerId'[d]] = d
      BY <1>1, <1>2, <1>3, <1>4, <2>4 DEF TableInv
    <2> QED  BY <2>1, <2>2, <2>3, <2>4 DEF TableInv
  <1>8. RoomInv'
    <2>1. Cardinality(DOMAIN workers') <= Cardinality(DOMAIN workers)
      BY <1>4, SlotsFinite, FS_Subset
    <2>2. Cardinality(DOMAIN workers') \in Nat
      BY <1>4, SlotsFinite, FS_Subset, FS_CardinalityType
    <2> QED  BY <1>2, <2>1, <2>2, SlotsFinite DEF RoomInv
  <1> QED  BY <1>5, <1>6, <1>7, <1>8

\* setConnection() learns the id of the slot that holds its connection.
LEMMA SetConnectionInv ==
    ASSUME IndInv, status = "running", NEW c \in Conns, SetConnection(c)
    PROVE  IndInv'
  <1> USE DEF IndInv, PhaseInv
  <1> DEFINE i == CHOOSE j \in DOMAIN workers : workers[j] = c
  <1>1. \E j \in DOMAIN workers : workers[j] = c
    BY DEF SetConnection, TableInv, Working
  <1>2. i \in DOMAIN workers /\ workers[i] = c /\ i \in Ids
    BY <1>1 DEF TableInv
  <1>3. phase' = [phase EXCEPT ![c] = "serving"] /\ workerId' = [workerId EXCEPT ![c] = i]
    BY DEF SetConnection
  <1>4. UNCHANGED <<maximum, workers, threads, received, answered, sent, status>>
    BY DEF SetConnection, managerVars
  <1> HIDE DEF i
  <1>5. PhaseInv'
    BY <1>2, <1>3
  <1>6. CountInv' /\ RoomInv'
    BY <1>4 DEF CountInv, RoomInv
  <1>7. TableInv'
    <2>1. ASSUME NEW d \in Conns
          PROVE  Working(d)' <=> \E j \in DOMAIN workers' : workers'[j] = d
      BY <1>1, <1>3, <1>4 DEF TableInv, Working
    <2>2. ASSUME NEW d \in Conns, phase'[d] \in {"serving", "ended"}
          PROVE  workerId'[d] \in DOMAIN workers' /\ workers'[workerId'[d]] = d
      BY <1>2, <1>3, <1>4, <2>2 DEF TableInv
    <2> QED  BY <1>4, <2>1, <2>2 DEF TableInv
  <1> QED  BY <1>5, <1>6, <1>7

\* onMessage() answers at most once for a read that begins with a packet.
LEMMA OnMessageInv ==
    ASSUME IndInv, status = "running", NEW c \in Conns, NEW n \in Nat \ {0}, OnMessage(c, n)
    PROVE  IndInv'
  <1> USE DEF IndInv, PhaseInv
  <1>1. /\ UNCHANGED <<maximum, workers, threads, phase, workerId, sent, status>>
        /\ received' = [received EXCEPT ![c] = received[c] + n]
        /\ received[c] + n <= sent[c]
    BY DEF OnMessage, managerVars
  <1>2. \/ answered' = answered
        \/ received[c] % 2 = 0 /\ answered' = [answered EXCEPT ![c] = answered[c] + 1]
    <2>1. TRUE \in Convert(received[c], n) => received[c] % 2 = 0
      <3>1. received[c] \in Nat /\ received[c] % 2 \in {0, 1}
        BY Parity DEF CountInv
      <3>2. ASSUME received[c] % 2 = 1 PROVE Convert(received[c], n) = {FALSE}
        BY <3>2, <3>1 DEF Convert
      <3>3. TRUE \notin {FALSE}
        BY Zenon
      <3> QED  BY <3>1, <3>2, <3>3
    <2> QED  BY <2>1 DEF OnMessage
  <1>3. /\ answered[c] \in Nat /\ received[c] \in Nat
        /\ 2 * answered[c] <= received[c] + (received[c] % 2)
    BY DEF CountInv
  <1>4. 2 * answered'[c] <= received'[c] + (received'[c] % 2)
    BY <1>1, <1>2, <1>3, ReadCount DEF CountInv
  <1>5. CountInv'
    <2>1. answered' \in [Conns -> Nat] /\ received' \in [Conns -> Nat]
      <3>1. answered \in [Conns -> Nat] /\ received \in [Conns -> Nat]
        BY DEF CountInv
      <3> HIDE DEF IndInv, CountInv
      <3> QED  BY <1>1, <1>2, <1>3, <3>1
    <2>2. ASSUME NEW d \in Conns
          PROVE  /\ 2 * answered'[d] <= received'[d] + (received'[d] % 2)
                 /\ received'[d] <= sent'[d] /\ sent'[d] % 2 = 0
      <3>1. CASE d = c
        BY <1>1, <1>4, <3>1 DEF CountInv
      <3>2. CASE d # c
        BY <1>1, <1>2, <3>2 DEF CountInv
      <3> QED  BY <3>1, <3>2
    <2> QED  BY <1>1, <2>1, <2>2 DEF CountInv
  <1>6. TableInv' /\ RoomInv'
    BY <1>1 DEF TableInv, RoomInv, Working
  <1> QED  BY <1>1, <1>5, <1>6

\* The manager, the workers and the clients.
LEMMA NextInv == IndInv /\ [Next]_vars => IndInv'
  <1> SUFFICES ASSUME IndInv, [Next]_vars PROVE IndInv'
    OBVIOUS
  <1> USE DEF IndInv, PhaseInv, managerVars, workerVars, clientVars
  <1>1. ASSUME NEW c \in Conns, Manager(c) PROVE IndInv'
    BY <1>1, CreateConnectionInv, OnFinishedInv DEF Manager
  <1>2. ASSUME NEW c \in Conns, Worker(c) PROVE IndInv'
    <2>1. CASE OnDisconnect(c)
      <3>1. CountInv' /\ RoomInv' 
        BY <1>2, <2>1 DEF Worker, OnDisconnect, CountInv, RoomInv
      <3>2. TableInv'
        BY <1>2, <2>1 DEF Worker, OnDisconnect, TableInv, Working
      <3> QED  BY <1>2, <2>1, <3>1, <3>2 DEF Worker, OnDisconnect
    <2>2. ASSUME NEW n \in 1 .. 2 * MaxSends, OnMessage(c, n) PROVE IndInv'
      <3>1. n \in Nat \ {0}
        BY LegacyTcpAssumption
      <3> QED  BY <1>2, <2>2, <3>1, OnMessageInv DEF Worker
    <2> QED  BY <1>2, <2>1, <2>2, SetConnectionInv DEF Worker
  <1>3. ASSUME status = "running", NEW n \in 0 .. MaxThreads, SetThreadCount(n) PROVE IndInv'
    <2>1. RoomInv'
      BY <1>3, LegacyTcpAssumption, FS_EmptySet DEF SetThreadCount, RoomInv
    <2> QED  BY <1>3, <2>1 DEF SetThreadCount, TableInv, CountInv, Working
  <1>4. CASE DestroyManager \/ GetMessage
    BY <1>4 DEF DestroyManager, GetMessage, CountInv
  <1>5. ASSUME status = "running", NEW k \in Clients, Disconnect(k) \/ OnFail(k) PROVE IndInv'
    BY <1>5 DEF Disconnect, OnFail, TableInv, CountInv, RoomInv, Working
  <1>6. ASSUME status = "running", NEW k \in Clients, SendMessage(k) PROVE IndInv'
    <2> DEFINE l == link[k]
    <2>1. sent' = [sent EXCEPT ![l] = sent[l] + 2] /\ UNCHANGED <<received, answered>>
      BY <1>6 DEF SendMessage
    <2> HIDE DEF l
    <2>2. sent \in [Conns -> Nat]
      BY DEF CountInv
    <2>3. sent' \in [Conns -> Nat] /\ \A c \in Conns : sent'[c] \in {sent[c], sent[c] + 2}
      <3> HIDE DEF IndInv, PhaseInv
      <3>1. CASE l \in Conns
        BY <2>1, <2>2, <3>1
      <3>2. CASE l \notin Conns
        BY <2>1, <2>2, <3>2
      <3> QED  BY <3>1, <3>2
    <2>4. ASSUME NEW c \in Conns
          PROVE  received[c] <= sent'[c] /\ sent'[c] % 2 = 0
      <3>1. received[c] \in Nat /\ sent[c] \in Nat /\ received[c] <= sent[c] /\ sent[c] % 2 = 0
        BY DEF CountInv
      <3> HIDE DEF IndInv, PhaseInv
      <3> QED  BY <2>3, <3>1, Parity
    <2>5. CountInv'
      BY <2>1, <2>3, <2>4 DEF CountInv
    <2> QED  BY <1>6, <2>5 DEF SendMessage, TableInv, RoomInv, Working
  <1>7. ASSUME status = "running", NEW k \in Clients, NEW c \in Conns, Connect(k, c) PROVE IndInv'
    <2>1. TableInv'
      BY <1>7 DEF Connect, TableInv, Working
    <2> QED  BY <1>7, <2>1 DEF Connect, CountInv, RoomInv
  <1>8. CASE UNCHANGED vars
    BY <1>8 DEF vars, TableInv, CountInv, RoomInv, Working
  <1> QED
    BY <1>1, <1>2, <1>3, <1>4, <1>5, <1>6, <1>7, <1>8 DEF Next

\* The invariant holds throughout.
LEMMA Inductive == Spec => []IndInv
  BY InitInv, NextInv, PTL DEF Spec

-----------------------------------------------------------------------------
\* While the manager lives each slot belongs to one connection and is found under
\* its worker's id, and there are never more slots than setThreadCount() allows.
THEOREM SlotsAreOwnedHolds == Spec => []SlotsAreOwned
  <1>1. IndInv => SlotsAreOwned
    BY DEF IndInv, TableInv, RoomInv, Working, SlotsAreOwned
  <1> QED  BY <1>1, Inductive, PTL

\* However the stream cuts and joins the packets, a client never gets more
\* responses than it has sent packets.
THEOREM NoMoreAnswersThanPacketsHolds == Spec => []NoMoreAnswersThanPackets
  <1>1. IndInv => NoMoreAnswersThanPackets
    BY WholePackets DEF IndInv, CountInv, NoMoreAnswersThanPackets
  <1> QED  BY <1>1, Inductive, PTL

\* Each action keeps the types that IndInv leaves open: the bound on the threads, the
\* two tables also when the manager is gone, the clients' sockets and the status.
RestInv ==
    /\ maximum \in 0 .. MaxThreads
    /\ DOMAIN workers \subseteq Ids /\ DOMAIN threads \subseteq Ids
    /\ \A i \in DOMAIN workers : workers[i] \in Conns
    /\ \A i \in DOMAIN threads : threads[i] \in Conns
    /\ link \in [Clients -> Conns \cup {NoConn}]
    /\ state \in [Clients -> {"unconnected", "connected", "closing"}]
    /\ status \in {"running", "over", "undefined"}

LEMMA RestStep == RestInv /\ [Next]_vars => RestInv'
  <1> SUFFICES ASSUME RestInv, [Next]_vars PROVE RestInv'
    OBVIOUS
  <1> USE DEF RestInv, managerVars, clientVars
  <1>1. ASSUME NEW c \in Conns, CreateConnection(c) PROVE RestInv'
    <2>1. UNCHANGED <<maximum, link, state, status>>
      BY <1>1 DEF CreateConnection
    <2>2. CASE UNCHANGED <<workers, threads>>
      BY <2>1, <2>2
    <2>3. CASE \E i \in FreshIds :
                  workers' = Extend(workers, i, c) /\ threads' = Extend(threads, i, c)
      BY <2>1, <2>3 DEF FreshIds, Extend
    <2> QED  BY <1>1, <2>2, <2>3 DEF CreateConnection
  <1>2. ASSUME NEW c \in Conns, OnFinished(c) PROVE RestInv'
    <2>1. UNCHANGED <<maximum, link, state>> /\ status' \in {status, "undefined"}
      BY <1>2 DEF OnFinished
    <2>2. CASE UNCHANGED <<workers, threads>>
      BY <2>1, <2>2
    <2>3. CASE /\ threads' = Restrict(threads, DOMAIN threads \ {workerId[c]})
               /\ workers' = Restrict(workers, DOMAIN workers \ {workerId[c]})
      BY <2>1, <2>3 DEF Restrict
    <2> QED  BY <1>2, <2>2, <2>3 DEF OnFinished
  <1>3. ASSUME NEW c \in Conns, Worker(c) PROVE RestInv'
    <2>1. UNCHANGED <<maximum, workers, threads, link, state, status>>
      BY <1>3 DEF Worker, SetConnection, OnDisconnect, OnMessage
    <2> QED  BY <2>1
  <1>4. ASSUME NEW n \in 0 .. MaxThreads, SetThreadCount(n) PROVE RestInv'
    BY <1>4 DEF SetThreadCount
  <1>5. CASE DestroyManager \/ GetMessage
    BY <1>5 DEF DestroyManager, GetMessage
  <1>6. ASSUME NEW k \in Clients, Disconnect(k) \/ OnFail(k) PROVE RestInv'
    BY <1>6 DEF Disconnect, OnFail
  <1>7. ASSUME NEW k \in Clients, SendMessage(k) PROVE RestInv'
    BY <1>7 DEF SendMessage
  <1>8. ASSUME NEW k \in Clients, NEW c \in Conns, Connect(k, c) PROVE RestInv'
    BY <1>8 DEF Connect
  <1>9. CASE UNCHANGED vars
    BY <1>9 DEF vars
  <1> QED
    BY <1>1, <1>2, <1>3, <1>4, <1>5, <1>6, <1>7, <1>8, <1>9 DEF Next, Manager

\* Type correctness of the legacy TCP server and its clients: the tables hold slots of
\* known connections even after the manager's destructor.
THEOREM TypeCorrect == Spec => []TypeOK
  <1>1. Init => RestInv
    BY LegacyTcpAssumption DEF Init, RestInv
  <1>2. IndInv /\ RestInv => TypeOK
    BY DEF IndInv, PhaseInv, CountInv, RestInv, TypeOK
  <1> QED  BY <1>1, <1>2, RestStep, Inductive, PTL DEF Spec

-----------------------------------------------------------------------------
(* The legacy UDP server.                                                    *)

\* Until stop() the remover has nothing to pass its wait with; the vectors are
\* whole when the constructor has returned; stop() sets `done` first and then
\* wakes up a remover that sleeps.
UdpInv ==
    /\ filled \in 0 .. ThreadCount
    /\ owner # "construct" => filled = ThreadCount
    /\ owner \in {"construct", "idle"} =>
            ~done /\ ~threadFinished /\ remover \notin {"scan", "ended"}
    /\ owner \notin {"construct", "idle"} => done
    /\ owner = "join" /\ remover = "asleep" => notified

LEMMA UdpInitInv == UdpInit => UdpInv
  BY LegacyUdpAssumption DEF UdpInit, UdpInv

\* One step of the owner or of the remover.
LEMMA UdpStep == UdpInv /\ [UdpNext]_udpVars => UdpInv'
  <1> SUFFICES ASSUME UdpInv, [UdpNext]_udpVars PROVE UdpInv'
    OBVIOUS
  <1> USE LegacyUdpAssumption DEF UdpInv
  <1>1. CASE Construct
    BY <1>1 DEF Construct
  <1>2. CASE Start
    BY <1>2 DEF Start
  <1>3. CASE Stop
    BY <1>3 DEF Stop
  <1>4. CASE ThreadFinishedSignal
    BY <1>4 DEF ThreadFinishedSignal
  <1>5. CASE StopJoin \/ StopDelete
    BY <1>5 DEF StopJoin, StopDelete
  <1>6. CASE Arrive \/ UdpOnMessage
    BY <1>6 DEF Arrive, UdpOnMessage
  <1>7. CASE CheckDone \/ Scan
    BY <1>7 DEF CheckDone, Scan, serverVars
  <1>8. CASE WaitForThreadFinished
    BY <1>8 DEF WaitForThreadFinished, MayPass, serverVars
  <1>9. CASE Wake
    BY <1>9 DEF Wake, MayPass, serverVars
  <1>10. CASE UNCHANGED udpVars
    BY <1>10 DEF udpVars, serverVars
  <1> QED
    BY <1>1, <1>2, <1>3, <1>4, <1>5, <1>6, <1>7, <1>8, <1>9, <1>10
       DEF UdpNext, Owner, Remover

\* The legacy UDP server's invariant holds however many slots it is built with.
THEOREM UdpInductive == UdpFairSpec => []UdpInv
  BY UdpInitInv, UdpStep, PTL DEF UdpFairSpec

\* The remover, which the constructor starts before it fills the vectors, never
\* goes over them before they are whole, however many slots there are.
THEOREM ScansWholeVectorsHolds == UdpFairSpec => []ScansWholeVectors
  <1>1. UdpInv => ScansWholeVectors
    BY DEF UdpInv, ScansWholeVectors
  <1> QED  BY <1>1, UdpInductive, PTL

\* While stop() waits for the remover, one that sleeps has been woken up and finds
\* its condition true: join() never waits for a thread that nothing will wake.
THEOREM NoLostWakeupHolds == UdpFairSpec => []NoLostWakeup
  <1>1. UdpInv => NoLostWakeup
    BY DEF UdpInv, NoLostWakeup, MayPass
  <1> QED  BY <1>1, UdpInductive, PTL

\* The types that UdpInv leaves open.  A readyRead that is due has a datagram, so
\* that onMessage() of a server without slots takes one that is there.
UdpRest ==
    /\ owner \in {"construct", "idle", "signal", "join", "delete", "stopped"}
    /\ remover \in {"check", "wait", "asleep", "scan", "ended"}
    /\ socket \in {"unbound", "bound", "deleted"}
    /\ pending \in 0 .. Backlog /\ (pending = 0 => ready = FALSE)
    /\ done \in BOOLEAN /\ threadFinished \in BOOLEAN /\ notified \in BOOLEAN
    /\ ready \in BOOLEAN /\ undefined \in BOOLEAN

LEMMA UdpRestStep == UdpRest /\ [UdpNext]_udpVars => UdpRest'
  <1> SUFFICES ASSUME UdpRest, [UdpNext]_udpVars PROVE UdpRest'
    OBVIOUS
  <1> USE LegacyUdpAssumption DEF UdpRest
  <1>1. CASE Construct
    BY <1>1 DEF Construct
  <1>2. CASE Start
    BY <1>2 DEF Start
  <1>3. CASE Stop
    BY <1>3 DEF Stop
  <1>4. CASE ThreadFinishedSignal
    <2>1. notified' = (remover = "asleep") /\ threadFinished' = TRUE
      BY <1>4 DEF ThreadFinishedSignal
    <2>2. notified' \in BOOLEAN /\ threadFinished' \in BOOLEAN
      BY <2>1, Zenon
    <2>3. /\ owner' = "join" /\ remover' = remover /\ socket' = socket /\ pending' = pending
          /\ done' = done /\ ready' = ready /\ undefined' = undefined
      BY <1>4 DEF ThreadFinishedSignal
    <2> QED  BY <2>2, <2>3
  <1>5. CASE StopJoin
    BY <1>5 DEF StopJoin
  <1>6. CASE StopDelete
    <2>1. pending' = 0 /\ ready' = FALSE /\ socket' = "deleted" /\ owner' = "stopped"
      BY <1>6 DEF StopDelete
    <2>2. ready' \in BOOLEAN
      BY <2>1, Zenon
    <2>3. pending' \in 0 .. Backlog
      BY <2>1
    <2>4. /\ remover' = remover /\ undefined' = undefined /\ done' = done
          /\ threadFinished' = threadFinished /\ notified' = notified
      BY <1>6 DEF StopDelete
    <2> QED  BY <2>1, <2>2, <2>3, <2>4
  <1>7. CASE Arrive
    <2>1. ready' = (ready \/ pending = 0)
      BY <1>7 DEF Arrive
    <2>2. ready' \in BOOLEAN
      BY <2>1, Zenon
    <2>3. pending' \in 0 .. Backlog /\ pending' > 0
      BY <1>7 DEF Arrive
    <2>4. /\ owner' = owner /\ remover' = remover /\ socket' = socket /\ undefined' = undefined
          /\ done' = done /\ threadFinished' = threadFinished /\ notified' = notified
      BY <1>7 DEF Arrive
    <2> QED  BY <2>2, <2>3, <2>4
  <1>8. CASE UdpOnMessage
    <2>1. ready' = FALSE /\ ready /\ (pending' = pending - 1 \/ pending' = 0)
      BY <1>8 DEF UdpOnMessage
    <2>2. ready' \in BOOLEAN /\ ready # FALSE
      BY <2>1, Zenon
    <2>3. pending' \in 0 .. Backlog
      BY <2>1, <2>2
    <2>4. /\ owner' = owner /\ remover' = remover /\ socket' = socket /\ undefined' = undefined
          /\ done' = done /\ threadFinished' = threadFinished /\ notified' = notified
      BY <1>8 DEF UdpOnMessage
    <2> QED  BY <2>1, <2>2, <2>3, <2>4
  <1>9. CASE CheckDone \/ Scan
    BY <1>9 DEF CheckDone, Scan, serverVars
  <1>10. CASE WaitForThreadFinished
    BY <1>10 DEF WaitForThreadFinished, serverVars
  <1>11. CASE Wake
    BY <1>11 DEF Wake, serverVars
  <1>12. CASE UNCHANGED udpVars
    BY <1>12 DEF udpVars, serverVars
  <1> QED
    BY <1>1, <1>2, <1>3, <1>4, <1>5, <1>6, <1>7, <1>8, <1>9, <1>10, <1>11, <1>12
       DEF UdpNext, Owner, Remover

\* Type correctness of UdpServerInstanceQ: the datagrams in the socket never become
\* fewer than none, also when there is no slot to put them in.
THEOREM UdpTypeCorrect == UdpFairSpec => []UdpTypeOK
  <1>1. UdpInit => UdpRest
    <2> SUFFICES ASSUME UdpInit PROVE UdpRest
      OBVIOUS
    <2>1. pending \in 0 .. Backlog /\ (pending = 0 => ready = FALSE)
      BY LegacyUdpAssumption DEF UdpInit
    <2>2. /\ done \in BOOLEAN /\ threadFinished \in BOOLEAN /\ notified \in BOOLEAN
          /\ ready \in BOOLEAN /\ undefined \in BOOLEAN
      BY DEF UdpInit
    <2> QED  BY <2>1, <2>2 DEF UdpInit, UdpRest
  <1>2. UdpInv /\ UdpRest => UdpTypeOK
    BY DEF UdpInv, UdpRest, UdpTypeOK
  <1> QED  BY <1>1, <1>2, UdpRestStep, UdpInductive, PTL DEF UdpFairSpec

=============================================================================
