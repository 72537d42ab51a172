------------------------------ MODULE L2capPeer ------------------------------
(***************************************************************************)
(* The transmit half of one host (L2cap) and the receive half of another:  *)
(* eb_hci_handler puts the fragments that arrive together again            *)
(* (easyBtHost/eb_hci.c).  Its length and buffer are static: they survive  *)
(* the link, and only a first fragment sets them anew.                     *)
(***************************************************************************)
EXTENDS L2cap

VARIABLES
    data_remain,    \* bytes the PDU in the buffer still lacks
    buffer,         \* the fragments in the buffer, as they were copied
    got             \* PDUs handed to the upper layers on this link

peerVars == <<data_remain, buffer, got>>
allVars == <<vars, peerVars>>

PeerInit ==
    /\ Init
    /\ data_remain = 0
    /\ buffer = <<>>
    /\ got = <<>>

(* Fault: a first fragment does not begin a new PDU.                       *)
StoredAppend(f) == Append(buffer, f)

(* A continuation must not hold more than is missing.                      *)
Fits(f) == f.pb = "cont" => f.len <= data_remain

(* The buffer after a fragment that fits.                                  *)
Stored(f) == IF f.pb = "start" THEN <<f>> ELSE Append(buffer, f)

(* The ACL case of eb_hci_handler.                                         *)
Receive(f) ==
    IF ~Fits(f)
    THEN data_remain' = 0 /\ UNCHANGED <<buffer, got>>
    ELSE /\ data_remain' = (IF f.pb = "start" THEN f.total ELSE data_remain) - f.len
         /\ buffer' = Stored(f)
         /\ got' = IF data_remain' = 0 THEN Append(got, buffer') ELSE got

PeerNext ==
    \/ Transmit /\ Receive(Head(air))
    \/ LinkUp /\ got' = <<>> /\ UNCHANGED <<data_remain, buffer>>
    \/ (Host \/ LinkLoss \/ UsbLost) /\ UNCHANGED peerVars

PeerSpec ==
    /\ PeerInit
    /\ [][PeerNext]_allVars
    /\ Fairness

-----------------------------------------------------------------------------
Whole(parts) == parts = Fragments(parts[1].pdu, parts[1].total)

(* As long as one thing goes wrong, no PDU made of pieces of several, or   *)
(* with a piece missing, reaches the upper layers, though no fragment says *)
(* which PDU it belongs to.  What may go wrong is a fragment lost at the   *)
(* USB, a PDU that the connection event cut off, or an earlier link that   *)
(* left a PDU unfinished; two of them can join (eb_hci.c:25-65).           *)
PdusWhole ==
    lost + (IF early > 0 THEN 1 ELSE 0) + (IF conns > 1 THEN 1 ELSE 0) <= 1
        => \A i \in DOMAIN got : Whole(got[i])

(* The PDUs that end in s, in order: the k-th is the one whose last        *)
(* fragment is the k-th of its kind.                                       *)
PdusEnding(s, k) ==
    {s[i].pdu : i \in {j \in DOMAIN s : s[j].last /\ Ends(SubSeq(s, 1, j)) = k}}

EndedPdus(s) == [k \in 1..Ends(s) |-> CHOOSE p \in PdusEnding(s, k) : TRUE]

(* The PDU each of the fragments handed on together begins with.           *)
Begun(parts) == [i \in DOMAIN parts |-> parts[i][1].pdu]

(* The two hosts implement the reliable channel the upper layers rely on,  *)
(* from the connection event to the end of the link or the first loss      *)
(* (eb_l2cap.c:89-142, eb_hci.c:25-65).                                    *)
Reliable == Live /\ lost + early = 0
Underway == IF Reliable THEN EndedPdus(air \o fifo) ELSE <<>>
Arrived == IF Reliable THEN Begun(got) ELSE <<>>

Channel == INSTANCE L2capChannel WITH
    Pdu <- 1..MaxPdus,
    open <- Reliable,
    queue <- Underway,
    delivered <- Arrived

ChannelSpec == Channel!Spec

=============================================================================
