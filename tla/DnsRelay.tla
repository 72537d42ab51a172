------------------------------ MODULE DnsRelay ------------------------------
(***************************************************************************)
(* The DNS relay (easyDNS/easyDNS.c, dns_socket.c): it answers the names   *)
(* its callback knows, sends any other query on to DNS_SERVER, and sends   *)
(* the answer back to the address it keeps for the number of the query.    *)
(*                                                                         *)
(* Datagrams are lost, overtake each other and arrive more than once: one  *)
(* that was sent stays in net.                                             *)
(***************************************************************************)
EXTENDS Integers

CONSTANTS
    Client,         \* addresses of the clients
    Server, Relay,  \* DNS_SERVER; the address of the relay
    NoAddr,         \* the zero address rec_addr is full of at first
    QueryId,        \* numbers of queries
    Queries,        \* the queries the clients may send
    Known           \* the names callback has an address for

Queried(c, id, name) == [client |-> c, id |-> id, name |-> name]

ASSUME DnsRelayAssumption ==
    /\ {Server, Relay, NoAddr} \cap Client = {}
    /\ Server # Relay /\ Server # NoAddr /\ Relay # NoAddr
    /\ \A a \in Queries :
        /\ a.client \in Client /\ a.id \in QueryId
        /\ a = Queried(a.client, a.id, a.name)

VARIABLES
    rec_addr,       \* rec_addr
    net,            \* datagrams sent
    asked, got      \* history: queries of the clients; answers they received

dnsVars == <<rec_addr, net, asked, got>>

-----------------------------------------------------------------------------
Datagram(from, to, id, name, response) ==
    [from |-> from, to |-> to, id |-> id, name |-> name, response |-> response]

DnsInit ==
    /\ rec_addr = [id \in QueryId |-> NoAddr]
    /\ net = {}
    /\ asked = {} /\ got = {}

(* External: a client asks, again perhaps.                                 *)
Query(a) ==
    /\ net' = net \cup {Datagram(a.client, Relay, a.id, a.name, FALSE)}
    /\ asked' = asked \cup {a}
    /\ UNCHANGED <<rec_addr, got>>

(* External: DNS_SERVER answers what reaches it.                           *)
Serve(d) ==
    /\ d.to = Server
    /\ net' = net \cup {Datagram(Server, d.from, d.id, d.name, TRUE)}
    /\ UNCHANGED <<rec_addr, asked, got>>

(* External: an answer reaches the client.                                 *)
Receive(d) ==
    /\ d.to \in Client
    /\ got' = got \cup {Queried(d.to, d.id, d.name)}
    /\ UNCHANGED <<rec_addr, net, asked>>

(* Fault: one address is kept for all numbers.                             *)
AddrLast(d) ==
    IF d.response \/ d.name \in Known THEN rec_addr ELSE [id \in QueryId |-> d.from]

(* The address that is kept when d is received: not for a response, nor    *)
(* for a query that is answered here.                                      *)
AddrAfter(d) ==
    IF d.response \/ d.name \in Known THEN rec_addr
    ELSE [rec_addr EXCEPT ![d.id] = d.from]

(* What is sent when d is received; nothing can be sent to no address.     *)
Sent(d) ==
    CASE d.response -> {Datagram(Relay, a, d.id, d.name, TRUE) :
                                    a \in {AddrAfter(d)[d.id]} \ {NoAddr}}
      [] ~d.response /\ d.name \in Known ->
            {Datagram(Relay, d.from, d.id, d.name, TRUE)}
      [] OTHER -> {Datagram(Relay, Server, d.id, d.name, FALSE)}

(* One turn of easyDNS_run.                                                *)
Run(d) ==
    /\ d.to = Relay
    /\ rec_addr' = AddrAfter(d)
    /\ net' = net \cup Sent(d)
    /\ UNCHANGED <<asked, got>>

DnsNext ==
    \/ \E a \in Queries : Query(a)
    \/ \E d \in net : Serve(d) \/ Receive(d) \/ Run(d)

DnsSpec == DnsInit /\ [][DnsNext]_dnsVars

-----------------------------------------------------------------------------
(* A client receives answers to its own queries only, unless it and        *)
(* another client have ever used the same number, however late or often    *)
(* answers arrive (easyDNS.c:24-60).                                       *)
AnswersGoBack ==
    \A g \in got :
        \/ g \in asked
        \/ \E a, b \in asked :
                /\ a.id = g.id /\ a.client = g.client
                /\ b.id = g.id /\ b.client # g.client

=============================================================================
