----------------------------- MODULE UdpExchange -----------------------------
(***************************************************************************)
(* UDP::Client (src/UDP/client.cpp) composed with UdpServer: what the      *)
(* client sends to the server's endpoint is a datagram that arrives there, *)
(* or is lost.  The client is used by one thread, so a call is one step;   *)
(* its socket is open from its constructor to its destructor.              *)
(***************************************************************************)
EXTENDS UdpServer

VARIABLES
    host,        \* the pair setHost() stored: a name and a port
    endpoint,    \* serverEndpoint: where datagrams go
    accepted,    \* what the last setHost() returned
    broadcast    \* the socket option

clientVars == <<host, endpoint, accepted, broadcast>>

\* The server, another host, the broadcast address, a name nobody resolves.
Names == {"server", "other", "broadcast", "unknown"}

\* Port 0 stands for "not set" and is what an endpoint has at first.
Unset == [name |-> "other", port |-> 0]

\* Mutant: a name that is not found is no error.
SetHostTolerant(name, port) ==
    /\ host' = [name |-> name, port |-> port]
    /\ \/ name # "unknown" /\ endpoint' = host' /\ accepted' = TRUE
       \/ UNCHANGED endpoint /\ accepted' = TRUE
    /\ UNCHANGED <<broadcast, vars>>
\* setHost() stores the host first; when it is not resolved, for the name or for
\* want of a resolver, the endpoint stays what it was and false is returned.
SetHost(name, port) ==
    /\ host' = [name |-> name, port |-> port]
    /\ \/ name # "unknown" /\ endpoint' = host' /\ accepted' = TRUE
       \/ UNCHANGED endpoint /\ accepted' = FALSE
    /\ UNCHANGED <<broadcast, vars>>

EnableBroadcast(enable) ==
    /\ broadcast' = enable
    /\ UNCHANGED <<host, endpoint, accepted, vars>>

\* sendData() and sendByteData().  The port of the host is looked at, the
\* endpoint is used; the system refuses port 0 and a broadcast not asked for.
SendData ==
    /\ host.port # 0 /\ endpoint.port # 0
    /\ endpoint.name = "broadcast" => broadcast
    /\ endpoint.name \in {"server", "broadcast"} /\ Arrive
    /\ UNCHANGED clientVars

ExchangeInit ==
    /\ Init
    /\ host = Unset /\ endpoint = Unset /\ accepted = FALSE /\ broadcast = FALSE

ExchangeNext ==
    \/ Next /\ UNCHANGED clientVars
    \/ \E name \in Names, port \in {0, 1} : SetHost(name, port)
    \/ \E enable \in BOOLEAN : EnableBroadcast(enable)
    \/ SendData

ExchangeFairSpec ==
    ExchangeInit /\ [][ExchangeNext]_<<vars, clientVars>> /\ Fairness

\* A datagram never goes astray silently: when the client would send to another
\* endpoint than the host it was last given, the setHost() that gave it had
\* returned false, however many hosts were set, resolved or not, before.
AstrayWasTold ==
    host.port # 0 /\ endpoint.port # 0 /\ endpoint # host => ~accepted
=============================================================================
