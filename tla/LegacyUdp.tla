------------------------------ MODULE LegacyUdp ------------------------------
(***************************************************************************)
(* The legacy UdpServerInstanceQ: the thread that owns it, with its event  *)
(* loop, and the thread remover that its Impl starts.  They share `done`   *)
(* without a lock, and `threadFinished` under threadFinishedMx with a      *)
(* condition variable.  A section under the mutex is one step.             *)
(*                                                                         *)
(* The line that would start processing threads is commented out, so no    *)
(* slot is ever in use and a datagram goes no further than threadInputs.   *)
(***************************************************************************)
EXTENDS Naturals

CONSTANTS
    ThreadCount,    \* the constructor's argument
    Backlog         \* datagrams the socket keeps

ASSUME LegacyUdpAssumption == ThreadCount \in Nat /\ Backlog \in Nat \ {0}

VARIABLES
    owner,          \* "construct", "idle", "signal", "join", "delete", "stopped"
    remover,        \* "check", "wait", "asleep", "scan", "ended"
    filled,         \* entries that the vectors of slots have
    done, threadFinished,
    notified,       \* a notify_one() has woken the remover
    socket,         \* "unbound", "bound", "deleted"
    pending,        \* datagrams that wait in the socket
    ready,          \* readyRead is due
    undefined       \* a deleted socket was used

serverVars == <<owner, filled, done, socket, pending, ready, undefined>>
udpVars == <<serverVars, remover, threadFinished, notified>>

\* Impl's constructor starts the remover before the vectors are filled.
UdpInit ==
    /\ owner = "construct" /\ remover = "check" /\ filled = 0
    /\ done = FALSE /\ threadFinished = FALSE /\ notified = FALSE
    /\ socket = "unbound" /\ pending = 0 /\ ready = FALSE /\ undefined = FALSE
-----------------------------------------------------------------------------
(* The owner *)

\* m_threadCount is set, then the vectors grow.
Construct ==
    /\ owner = "construct"
    /\ IF filled < ThreadCount
       THEN filled' = filled + 1 /\ UNCHANGED owner
       ELSE owner' = "idle" /\ UNCHANGED filled
    /\ UNCHANGED <<done, socket, pending, ready, undefined, remover, threadFinished, notified>>

\* start(): bind() may fail; after stop() the socket is a dangling pointer.
Start ==
    /\ owner \in {"idle", "stopped"}
    /\ \/ socket # "deleted" /\ socket' \in {socket, "bound"} /\ UNCHANGED undefined
       \/ socket = "deleted" /\ undefined' = TRUE /\ UNCHANGED socket
    /\ UNCHANGED <<owner, filled, done, pending, ready, remover, threadFinished, notified>>

\* stop() and the destructor: `done` is set without the lock.
Stop ==
    /\ owner = "idle"
    /\ done' = TRUE /\ owner' = "signal"
    /\ UNCHANGED <<filled, socket, pending, ready, undefined, remover, threadFinished, notified>>

\* threadFinishedSignal(-1)
ThreadFinishedSignal ==
    /\ owner = "signal"
    /\ threadFinished' = TRUE /\ notified' = (remover = "asleep") /\ owner' = "join"
    /\ UNCHANGED <<filled, done, socket, pending, ready, undefined, remover>>

StopJoin ==
    /\ owner = "join" /\ remover = "ended"
    /\ owner' = "delete"
    /\ UNCHANGED <<filled, done, socket, pending, ready, undefined, remover, threadFinished, notified>>

StopDelete ==
    /\ owner = "delete"
    /\ owner' = "stopped" /\ socket' = "deleted" /\ pending' = 0 /\ ready' = FALSE
    /\ UNCHANGED <<filled, done, undefined, remover, threadFinished, notified>>

\* A datagram arrives; readyRead is emitted when none was waiting.
Arrive ==
    /\ socket = "bound" /\ pending < Backlog
    /\ pending' = pending + 1 /\ ready' = (ready \/ pending = 0)
    /\ UNCHANGED <<owner, filled, done, socket, undefined, remover, threadFinished, notified>>

\* onMessage() takes every datagram to the first slot without a thread, which
\* is the first one; without slots it returns after one.
UdpOnMessage ==
    /\ owner = "idle" /\ ready /\ ready' = FALSE
    /\ pending' = IF ThreadCount = 0 THEN pending - 1 ELSE 0
    /\ UNCHANGED <<owner, filled, done, socket, undefined, remover, threadFinished, notified>>
-----------------------------------------------------------------------------
(* The thread remover *)

\* while (!done)
CheckDone ==
    /\ remover = "check"
    /\ remover' = IF done THEN "ended" ELSE "wait"
    /\ UNCHANGED <<serverVars, threadFinished, notified>>

\* Mutant: the wait is for threadFinished alone.
MayPassFinished(finished) == finished
\* Mutant: a wait without a condition, which a spurious wake-up ends.
MayPassAlways(finished) == remover = "asleep" \/ finished \/ done
\* The condition of wait().
MayPass(finished) == finished \/ done

\* waitForThreadFinished(): the flag is cleared, then the condition looked at.
WaitForThreadFinished ==
    /\ remover = "wait"
    /\ threadFinished' = FALSE
    /\ remover' = IF MayPass(FALSE) THEN "scan" ELSE "asleep"
    /\ UNCHANGED <<serverVars, notified>>

\* The remover wakes up, notified or spuriously, and looks again.
Wake ==
    /\ remover = "asleep"
    /\ notified' = FALSE
    /\ remover' = IF MayPass(threadFinished) THEN "scan" ELSE "asleep"
    /\ UNCHANGED <<serverVars, threadFinished>>

\* The loop over the m_threadCount slots: no thread is there to join.
Scan ==
    /\ remover = "scan"
    /\ remover' = "check"
    /\ UNCHANGED <<serverVars, threadFinished, notified>>
-----------------------------------------------------------------------------

Remover == CheckDone \/ WaitForThreadFinished \/ Scan \/ (notified /\ Wake)
Owner == Construct \/ ThreadFinishedSignal \/ StopJoin \/ StopDelete

UdpNext == Owner \/ Start \/ Stop \/ Arrive \/ UdpOnMessage \/ Remover \/ Wake

\* Both threads go on; a sleeping thread wakes up when it was notified.
UdpFairSpec == UdpInit /\ [][UdpNext]_udpVars /\ WF_udpVars(Owner) /\ WF_udpVars(Remover) /\ WF_udpVars(UdpOnMessage)
-----------------------------------------------------------------------------

\* Every variable keeps its type.
UdpTypeOK ==
    /\ owner \in {"construct", "idle", "signal", "join", "delete", "stopped"}
    /\ remover \in {"check", "wait", "asleep", "scan", "ended"}
    /\ filled \in 0 .. ThreadCount /\ pending \in 0 .. Backlog
    /\ {done, threadFinished, notified, ready, undefined} \subseteq BOOLEAN
    /\ socket \in {"unbound", "bound", "deleted"}

\* stop() returns: whenever `done` and the signal come, before the remover's
\* check, between the check and the clearing of threadFinished, or while it
\* sleeps, the remover sees one of them and ends.
StopReturns == owner = "signal" ~> owner = "stopped"

\* The remover runs from the first line of the constructor, yet it never goes
\* over the slots before all of them are there, spurious wake-ups included.
ScansWholeVectors == remover = "scan" => filled = ThreadCount /\ owner # "construct"

\* No wake-up is lost, although stop() sets `done` without the lock: while it waits
\* in join(), a remover that sleeps has been notified, and the condition it finds
\* when it wakes up lets it pass.
NoLostWakeup == owner = "join" /\ remover = "asleep" => notified /\ MayPass(threadFinished)
=============================================================================
