--------------------------- MODULE DnsRelayProofs ---------------------------
(***************************************************************************)
(* Proof about DnsRelay, for any clients, numbers, queries and known names.*)
(***************************************************************************)
EXTENDS DnsRelay, TLAPS

(* The client has asked with that number.                                  *)
Used(c, id) == c \in Client /\ \E name : Queried(c, id, name) \in asked

(* Somebody has asked that.                                                *)
AskedBy(c, id, name) == c \in Client /\ Queried(c, id, name) \in asked

(* An answer with which the client has no reason to be unhappy.            *)
Expected(c, id, name) ==
    \/ AskedBy(c, id, name)
    \/ Used(c, id) /\ \E b \in Client : b # c /\ Used(b, id)

(* A datagram goes to a client that may expect it, or comes from one that  *)
(* asked, or is on its way to DNS_SERVER and back.                         *)
Justified(d) ==
    /\ d.id \in QueryId
    /\ \/ d.to \in Client /\ Expected(d.to, d.id, d.name)
       \/ d.to = Relay /\ ~d.response /\ AskedBy(d.from, d.id, d.name)
       \/ d.to = Server /\ d.from = Relay /\ \E c : AskedBy(c, d.id, d.name)
       \/ d.to = Relay /\ d.response /\ \E c : AskedBy(c, d.id, d.name)

DInv ==
    /\ rec_addr \in [QueryId -> Client \cup {NoAddr}]
    /\ \A id \in QueryId : rec_addr[id] # NoAddr => Used(rec_addr[id], id)
    /\ \A d \in net : Justified(d)
    /\ \A g \in got :
        /\ g = Queried(g.client, g.id, g.name)
        /\ Expected(g.client, g.id, g.name)

-----------------------------------------------------------------------------
(* What was justified stays so when more is asked.                         *)
LEMMA Later ==
    ASSUME asked \subseteq asked'
    PROVE  /\ \A c, id : Used(c, id) => Used(c, id)'
           /\ \A c, id, name : AskedBy(c, id, name) => AskedBy(c, id, name)'
           /\ \A c, id, name : Expected(c, id, name) => Expected(c, id, name)'
           /\ \A d : Justified(d) => Justified(d)'
<1>1. \A c, id : Used(c, id) => Used(c, id)'
  BY DEF Used
<1>2. \A c, id, name : AskedBy(c, id, name) => AskedBy(c, id, name)'
  BY DEF AskedBy
<1>3. \A c, id, name : Expected(c, id, name) => Expected(c, id, name)'
  BY <1>1, <1>2 DEF Expected
<1> QED
  BY <1>1, <1>2, <1>3 DEF Justified

(* The relay sends nothing that is not justified.                          *)
LEMMA SentJustified ==
    ASSUME DInv, NEW d \in net, d.to = Relay
    PROVE  /\ \A e \in Sent(d) : Justified(e)
           /\ AddrAfter(d) \in [QueryId -> Client \cup {NoAddr}]
           /\ \A id \in QueryId :
                AddrAfter(d)[id] # NoAddr => Used(AddrAfter(d)[id], id)
<1>1. Justified(d)
  BY DEF DInv
<1>2. CASE d.response
  <2>1. AddrAfter(d) = rec_addr
    BY <1>2 DEF AddrAfter
  <2>2. PICK c : AskedBy(c, d.id, d.name)
    BY <1>1, <1>2, DnsRelayAssumption DEF Justified
  <2>3. ASSUME NEW e \in Sent(d) PROVE Justified(e)
    <3> DEFINE a == rec_addr[d.id]
    <3>1. a # NoAddr /\ e = Datagram(Relay, a, d.id, d.name, TRUE)
      BY <1>2, <2>1, <2>3 DEF Sent
    <3>2. Used(a, d.id) /\ d.id \in QueryId
      BY <1>1, <3>1 DEF DInv, Justified
    <3>3. Expected(a, d.id, d.name)
      <4>1. CASE c = a
        BY <2>2, <4>1 DEF Expected
      <4>2. CASE c # a
        BY <2>2, <3>2, <4>2 DEF Expected, AskedBy, Used
      <4> QED
        BY <4>1, <4>2
    <3>4. /\ e.to = a /\ e.id = d.id /\ e.name = d.name
      BY <3>1 DEF Datagram
    <3> QED
      BY <3>2, <3>3, <3>4 DEF Justified, Used
  <2> QED
    BY <2>1, <2>3 DEF DInv
<1>3. CASE ~d.response
  <2>1. AskedBy(d.from, d.id, d.name) /\ d.id \in QueryId
    BY <1>1, <1>3, DnsRelayAssumption DEF Justified
  <2>2. CASE d.name \in Known
    <3>1. /\ AddrAfter(d) = rec_addr
          /\ Sent(d) = {Datagram(Relay, d.from, d.id, d.name, TRUE)}
      BY <1>3, <2>2 DEF AddrAfter, Sent
    <3>2. Expected(d.from, d.id, d.name) /\ d.from \in Client
      BY <2>1 DEF Expected, AskedBy
    <3> QED
      BY <2>1, <3>1, <3>2 DEF Justified, Datagram, DInv
  <2>3. CASE d.name \notin Known
    <3>1. /\ AddrAfter(d) = [rec_addr EXCEPT ![d.id] = d.from]
          /\ Sent(d) = {Datagram(Relay, Server, d.id, d.name, FALSE)}
      BY <1>3, <2>3 DEF AddrAfter, Sent
    <3>2. Used(d.from, d.id) /\ d.from \in Client
      BY <2>1 DEF Used, AskedBy
    <3>3. \A e \in Sent(d) : Justified(e)
      BY <2>1, <3>1 DEF Justified, Datagram
    <3>4. /\ AddrAfter(d) \in [QueryId -> Client \cup {NoAddr}]
          /\ \A id \in QueryId :
                AddrAfter(d)[id] = IF id = d.id THEN d.from ELSE rec_addr[id]
      BY <2>1, <3>1, <3>2 DEF DInv
    <3> QED
      BY <3>2, <3>3, <3>4 DEF DInv
  <2> QED
    BY <2>2, <2>3
<1> QED
  BY <1>2, <1>3

LEMMA StepDInv == DInv /\ [DnsNext]_dnsVars => DInv'
<1> SUFFICES ASSUME DInv, [DnsNext]_dnsVars PROVE DInv'
  OBVIOUS
<1>1. ASSUME NEW a \in Queries, Query(a) PROVE DInv'
  <2> DEFINE d == Datagram(a.client, Relay, a.id, a.name, FALSE)
  <2>1. /\ asked \subseteq asked' /\ a \in asked' /\ net' = net \cup {d}
        /\ UNCHANGED <<rec_addr, got>>
    BY <1>1 DEF Query
  <2>2. AskedBy(a.client, a.id, a.name)' /\ a.id \in QueryId
    BY <2>1, DnsRelayAssumption DEF AskedBy
  <2>3. Justified(d)'
    BY <2>2 DEF Justified, Datagram
  <2> HIDE DEF d
  <2> QED
    BY <2>1, <2>3, Later DEF DInv
<1>2. ASSUME NEW d \in net, Serve(d) PROVE DInv'
  <2> DEFINE e == Datagram(Server, d.from, d.id, d.name, TRUE)
  <2>1. /\ d.to = Server /\ net' = net \cup {e}
        /\ UNCHANGED <<rec_addr, asked, got>>
    BY <1>2 DEF Serve
  <2>2. d.from = Relay /\ d.id \in QueryId /\ \E c : AskedBy(c, d.id, d.name)
    BY <2>1, DnsRelayAssumption DEF DInv, Justified
  <2>3. Justified(e)
    BY <2>2 DEF Justified, Datagram
  <2> HIDE DEF e
  <2> QED
    BY <2>1, <2>3, Later DEF DInv
<1>3. ASSUME NEW d \in net, Receive(d) PROVE DInv'
  <2>1. /\ d.to \in Client /\ got' = got \cup {Queried(d.to, d.id, d.name)}
        /\ UNCHANGED <<rec_addr, net, asked>>
    BY <1>3 DEF Receive
  <2>2. Expected(d.to, d.id, d.name)
    BY <2>1, DnsRelayAssumption DEF DInv, Justified
  <2> DEFINE g == Queried(d.to, d.id, d.name)
  <2>3. g = Queried(g.client, g.id, g.name) /\ Expected(g.client, g.id, g.name)
    BY <2>2 DEF Queried
  <2> HIDE DEF g
  <2> QED
    BY <2>1, <2>3, Later DEF DInv, g
<1>4. ASSUME NEW d \in net, Run(d) PROVE DInv'
  <2>1. /\ d.to = Relay /\ rec_addr' = AddrAfter(d)
        /\ net' = net \cup Sent(d) /\ UNCHANGED <<asked, got>>
    BY <1>4 DEF Run
  <2> QED
    BY <2>1, SentJustified, Later DEF DInv
<1>5. CASE UNCHANGED dnsVars
  BY <1>5, Later DEF dnsVars, DInv
<1> QED
  BY <1>1, <1>2, <1>3, <1>4, <1>5 DEF DnsNext

(* A client receives answers to its own queries only, unless it and        *)
(* another client have ever used the same number, however late or often    *)
(* answers arrive (easyDNS.c:24-60).                                       *)
THEOREM AnswersReturned == DnsSpec => []AnswersGoBack
<1>1. DnsInit => DInv
  BY DEF DnsInit, DInv
<1>2. DInv => AnswersGoBack
  <2> SUFFICES ASSUME DInv, NEW g \in got
               PROVE  \/ g \in asked
                      \/ \E a, b \in asked :
                            /\ a.id = g.id /\ a.client = g.client
                            /\ b.id = g.id /\ b.client # g.client
    BY DEF AnswersGoBack
  <2>1. /\ g = Queried(g.client, g.id, g.name)
        /\ Expected(g.client, g.id, g.name)
    BY DEF DInv
  <2>2. CASE AskedBy(g.client, g.id, g.name)
    BY <2>1, <2>2 DEF AskedBy
  <2>3. CASE Used(g.client, g.id) /\ \E b \in Client : b # g.client /\ Used(b, g.id)
    BY <2>3 DEF Used, Queried
  <2> QED
    BY <2>1, <2>2, <2>3 DEF Expected
<1> QED
  BY <1>1, <1>2, StepDInv, PTL DEF DnsSpec

=============================================================================
