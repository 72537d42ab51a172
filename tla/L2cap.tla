------------------------------- MODULE L2cap -------------------------------
(***************************************************************************)
(* The transmit half of the host: eb_l2cap_send cuts a PDU into ACL        *)
(* fragments, queues them in l2cap_buffer and hands them to the controller *)
(* while fewer than MAX_PKT_NUM are unacknowledged (easyBtHost/eb_l2cap.c).*)
(*                                                                         *)
(* The host is single threaded: every action below is one call made from   *)
(* eb_schedule or from the application's event callback.  The controller   *)
(* and the USB pipe are external: they keep the handed over fragments in   *)
(* order (air), transmit them, acknowledge them, and flush them silently   *)
(* when the link is lost.                                                  *)
(***************************************************************************)
EXTENDS Integers, Sequences, SequencesExt, FiniteSets

CONSTANTS
    AclMax,         \* ACL_MAX_SIZE: payload bytes of one fragment
    MaxPkt,         \* MAX_PKT_NUM: fragments the controller may hold
    Half,           \* 2^7: host_pkt_num is an int8_t in -Half .. Half-1
    PduLen,         \* the lengths a PDU can have
    MaxPdus,        \* bound: PDUs sent in a behaviour
    MaxConns,       \* bound: connections made in a behaviour
    MaxLost,        \* bound: fragments usb_hci_send fails to hand over
    MaxEarly        \* bound: fragments sent ahead of the connection event

ASSUME L2capAssumption ==
    /\ AclMax \in Nat \ {0}
    /\ MaxPkt \in Nat \ {0}
    /\ Half \in Nat \ {0}
    /\ PduLen \subseteq Nat
    /\ MaxPdus \in Nat
    /\ MaxConns \in Nat
    /\ MaxLost \in Nat
    /\ MaxEarly \in Nat

VARIABLES
    fifo,           \* l2cap_buffer between fr and ra, one entry per fragment
    host_pkt_num,   \* PDUs whose last fragment is still in fifo
    ctrl_pkt_num,   \* fragments handed over and not acknowledged
    conn,           \* the application's view: "idle" or "open"
    air,            \* fragments the controller holds
    done,           \* transmitted fragments the host has not been told of
    link,           \* the controller's view: "down" or "up"
    evts,           \* link events the host has not handled
    rx,             \* fragments the peer received on this link
    sent,           \* history: fragments accepted since the connection event
    pdus,           \* history: number of PDUs sent
    conns,          \* history: number of connections made
    lost,           \* history: fragments of this link lost at the USB
    early           \* history: fragments of this link that the controller
                    \* got before the host handled the connection event

hostVars == <<fifo, host_pkt_num, ctrl_pkt_num, conn>>
ctrlVars == <<air, done, link, evts, rx>>
histVars == <<sent, pdus, conns, lost, early>>
vars == <<hostVars, ctrlVars, histVars>>

-----------------------------------------------------------------------------
(* Conversion to int8_t.                                                   *)
Int8(x) == ((x + Half) % (2 * Half)) - Half

(* Number of fragments of a PDU of n bytes: at least one.                  *)
NumFrags(n) == IF n <= AclMax THEN 1 ELSE (n + AclMax - 1) \div AclMax

(* The i-th fragment: pb is the packet boundary flag, last the END_FLAG;   *)
(* total is what the L2CAP header of the PDU says.                         *)
Frag(p, n, i) ==
    [ pdu   |-> p,
      total |-> n,
      off   |-> (i - 1) * AclMax,
      len   |-> IF i = NumFrags(n) THEN n - (i - 1) * AclMax ELSE AclMax,
      pb    |-> IF i = 1 THEN "start" ELSE "cont",
      last  |-> i = NumFrags(n) ]

(* Fault: the boundary flag of continuations (buf[2] |= 0x10) forgotten.   *)
FragmentsNoCont(p, n) ==
    [i \in 1..NumFrags(n) |-> [Frag(p, n, i) EXCEPT !.pb = "start"]]

Fragments(p, n) == [i \in 1..NumFrags(n) |-> Frag(p, n, i)]

Fragment ==
    [pdu : Nat, total : Nat, off : Nat, len : Int, pb : {"start", "cont"},
     last : BOOLEAN]

(* How many PDUs end in the fragments s.                                   *)
Ends(s) == Cardinality({i \in DOMAIN s : s[i].last})

(* Faults a change to the loop could bring: a window one too wide, and an  *)
(* "if" in place of the "while".                                           *)
RoomOneTooMany(f, ctrl) ==
    IF ctrl > MaxPkt THEN 0
    ELSE IF Len(f) <= MaxPkt + 1 - ctrl THEN Len(f) ELSE MaxPkt + 1 - ctrl
RoomOneAtATime(f, ctrl) == IF ctrl >= MaxPkt \/ f = <<>> THEN 0 ELSE 1

(* How many fragments the loop of l2cap_buffer_send moves out of queue f.  *)
Room(f, ctrl) ==
    IF ctrl >= MaxPkt THEN 0
    ELSE IF Len(f) <= MaxPkt - ctrl THEN Len(f) ELSE MaxPkt - ctrl

(* l2cap_buffer_send, started with queue f, host_pkt_num = host and        *)
(* ctrl_pkt_num = ctrl.  A controller without a link drops what it gets.   *)
BufferSend(f, host, ctrl) ==
    LET k == Room(f, ctrl)
        moved == SubSeq(f, 1, k)
    IN  /\ fifo' = SubSeq(f, k + 1, Len(f))
        /\ host_pkt_num' = Int8(host - Ends(moved))
        /\ ctrl_pkt_num' = ctrl + k
        /\ air' = IF link = "up" THEN air \o moved ELSE air

(* Faults: eb_l2cap_init forgets one of the counters it resets.            *)
L2capInitKeepsHost ==
    fifo' = <<>> /\ ctrl_pkt_num' = 0 /\ UNCHANGED host_pkt_num
L2capInitKeepsCtrl ==
    fifo' = <<>> /\ host_pkt_num' = 0 /\ UNCHANGED ctrl_pkt_num

(* eb_l2cap_init.                                                          *)
L2capInit ==
    /\ fifo' = <<>>
    /\ host_pkt_num' = 0
    /\ ctrl_pkt_num' = 0

-----------------------------------------------------------------------------
Init ==
    /\ fifo = <<>>
    /\ host_pkt_num = 0
    /\ ctrl_pkt_num = 0
    /\ conn = "idle"
    /\ air = <<>>
    /\ done = 0
    /\ link = "down"
    /\ evts = <<>>
    /\ rx = <<>>
    /\ sent = <<>>
    /\ pdus = 0
    /\ conns = 0
    /\ lost = 0
    /\ early = 0

(* eb_l2cap_send: push every fragment, count the PDU, send what fits.      *)
SendPdu(n) ==
    /\ pdus < MaxPdus
    /\ LET fr == Fragments(pdus + 1, n)
       IN  /\ BufferSend(fifo \o fr, Int8(host_pkt_num + 1), ctrl_pkt_num)
           /\ sent' = sent \o fr
    /\ pdus' = pdus + 1
    /\ UNCHANGED <<conn, done, link, evts, rx, conns, lost>>

Send(n) == conn = "open" /\ SendPdu(n) /\ UNCHANGED early

(* The answer to a request that overtook the connection event: ACL data    *)
(* and events come in on two endpoints, through two reader threads.        *)
SendEarly(n) ==
    /\ conn = "idle" /\ link = "up"
    /\ early < MaxEarly
    /\ SendPdu(n)
    /\ early' = early + (Len(air') - Len(air))

(* Number Of Completed Packets with a count of num: l2cap_packet_comp.     *)
(* The controller groups acknowledgements as it likes: 1 <= num <= done.   *)
PacketComp(num) ==
    /\ conn = "open"
    /\ done' = done - num
    /\ BufferSend(fifo, host_pkt_num, ctrl_pkt_num - num)
    /\ UNCHANGED <<conn, link, evts, rx, histVars>>

(* LE Connection Complete: eb_gap_connected_handler runs eb_l2cap_init.    *)
ConnectionComplete ==
    /\ evts # <<>> /\ Head(evts) = "conn"
    /\ evts' = Tail(evts)
    /\ conn' = "open"
    /\ L2capInit
    /\ sent' = <<>>
    /\ UNCHANGED <<air, done, link, rx, pdus, conns, lost, early>>

(* Disconnection Complete: eb_l2cap.c is not told, its queue stays.  The   *)
(* acknowledgements sent before it are handled before it.                  *)
DisconnectionComplete ==
    /\ evts # <<>> /\ Head(evts) = "disc"
    /\ done = 0
    /\ evts' = Tail(evts)
    /\ conn' = "idle"
    /\ UNCHANGED <<fifo, host_pkt_num, ctrl_pkt_num, air, done, link, rx,
                   histVars>>

-----------------------------------------------------------------------------
(* External: the controller and the USB pipe.                              *)

(* The host scans or advertises again only after it saw the disconnection. *)
LinkUp ==
    /\ link = "down" /\ conn = "idle" /\ evts = <<>>
    /\ conns < MaxConns
    /\ link' = "up"
    /\ evts' = <<"conn">>
    /\ rx' = <<>>
    /\ conns' = conns + 1
    /\ lost' = 0
    /\ early' = 0
    /\ UNCHANGED <<hostVars, air, done, sent, pdus>>

LinkLoss ==
    /\ link = "up"
    /\ link' = "down"
    /\ evts' = Append(evts, "disc")
    /\ air' = <<>>
    /\ UNCHANGED <<hostVars, done, rx, histVars>>

Transmit ==
    /\ air # <<>>
    /\ rx' = Append(rx, Head(air))
    /\ air' = Tail(air)
    /\ done' = done + 1
    /\ UNCHANGED <<hostVars, link, evts, histVars>>

(* usb_hci_send failed for a fragment: its result is ignored, so the host  *)
(* counts the fragment although the controller never got it.               *)
UsbLost ==
    /\ lost < MaxLost
    /\ \E i \in DOMAIN air : air' = RemoveAt(air, i)
    /\ lost' = lost + 1
    /\ UNCHANGED <<hostVars, done, link, evts, rx, sent, pdus, conns,
                   early>>

Host ==
    \/ \E n \in PduLen : Send(n)
    \/ \E n \in PduLen : SendEarly(n)
    \/ \E num \in 1..done : PacketComp(num)
    \/ ConnectionComplete
    \/ DisconnectionComplete

Controller == LinkUp \/ LinkLoss \/ Transmit \/ UsbLost

Next == Host \/ Controller

Spec == Init /\ [][Next]_vars

(* eb_schedule is polled for ever and hands every event to its handler;    *)
(* the link layer retransmits, so a fragment arrives or the link is lost.  *)
Fairness ==
    /\ WF_vars(\E num \in 1..done : PacketComp(num))
    /\ WF_vars(ConnectionComplete)
    /\ WF_vars(DisconnectionComplete)
    /\ WF_vars(Transmit)

FairSpec == Spec /\ Fairness

-----------------------------------------------------------------------------
TypeOK ==
    /\ fifo \in Seq(Fragment)
    /\ host_pkt_num \in -Half .. Half - 1
    /\ ctrl_pkt_num \in Int
    /\ conn \in {"idle", "open"}
    /\ air \in Seq(Fragment)
    /\ done \in Nat
    /\ link \in {"down", "up"}
    /\ evts \in {<<>>, <<"conn">>, <<"conn", "disc">>, <<"disc">>}
    /\ rx \in Seq(Fragment)
    /\ sent \in Seq(Fragment)
    /\ pdus \in Nat
    /\ conns \in Nat
    /\ lost \in Nat
    /\ early \in Nat

(* The connection is up and both sides know it.                            *)
Live == link = "up" /\ conn = "open"

(* Every credit is accounted for: on a live link what the host believes to *)
(* be outstanding, and what it forgot when the connection event reset its  *)
(* count, is what the controller holds, what it has yet to report, and     *)
(* what the USB lost (eb_l2cap.c:51-55, 101-102, 144-149).                 *)
CreditsAccounted == Live => ctrl_pkt_num + early = Len(air) + done + lost

(* The controller is never given more than MAX_PKT_NUM fragments, on any   *)
(* connection, whatever happened on the earlier ones, beyond those that    *)
(* went out ahead of the connection event (eb_l2cap.c:92).                 *)
ControllerNotOverrun == Len(air) + done <= MaxPkt + early

(* No fragment waits in the queue while a credit is free: nothing but an   *)
(* acknowledgement can restart a stalled queue (eb_l2cap.c:54, 92, 141).   *)
NeverIdle == fifo # <<>> => ctrl_pkt_num = MaxPkt

(* The number of queued PDUs the applications pace themselves by           *)
(* (l2cap_packet_num) is, up to the width of int8_t, the number of PDUs    *)
(* with an unsent end (eb_l2cap.c:38-49, 94-96, 140).                      *)
QueuedPdusCounted == host_pkt_num = Int8(Ends(fifo))

(* On a live link nothing is lost, duplicated or reordered between the     *)
(* call of eb_l2cap_send and the peer (eb_l2cap.c:57-82, 89-142).          *)
StreamIntact == Live /\ lost + early = 0 => rx \o air \o fifo = sent

(* The window never closes for good: on a live link the queue empties,     *)
(* unless the USB has swallowed a whole window of fragments, whose credits *)
(* nothing gives back (eb_l2cap.c:51-55, 89-104).                          *)
QueueDrains == Live ~> (fifo = <<>> \/ ~Live \/ lost >= MaxPkt)

=============================================================================
