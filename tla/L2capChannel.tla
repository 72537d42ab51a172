---------------------------- MODULE L2capChannel ----------------------------
(***************************************************************************)
(* What easyBtHost/eb_l2cap.c promises to the ATT, SMP and DFU code above  *)
(* it: while the link is open, the PDUs handed to eb_l2cap_send reach the  *)
(* peer whole, once each and in the order they were sent.  A link loss     *)
(* discards what is still on its way.  A channel that loses something else *)
(* counts as closed from then on.                                          *)
(***************************************************************************)
EXTENDS Naturals, Sequences

CONSTANT Pdu            \* the PDUs the upper layers may send

VARIABLES open,         \* the link is up at both ends of the HCI
          queue,        \* accepted PDUs that have not arrived yet
          delivered     \* PDUs that arrived since the link opened

vars == <<open, queue, delivered>>

TypeOK ==
    /\ open \in BOOLEAN
    /\ queue \in Seq(Pdu)
    /\ delivered \in Seq(Pdu)

Init ==
    /\ open = FALSE
    /\ queue = <<>>
    /\ delivered = <<>>

Open ==
    /\ ~open
    /\ open' = TRUE
    /\ queue' = <<>>
    /\ delivered' = <<>>

(* What the last connection delivered is of no account any more.           *)
Close ==
    /\ open
    /\ open' = FALSE
    /\ queue' = <<>>
    /\ delivered' = <<>>

Send(p) ==
    /\ open
    /\ queue' = Append(queue, p)
    /\ UNCHANGED <<open, delivered>>

Deliver ==
    /\ open
    /\ queue # <<>>
    /\ delivered' = Append(delivered, Head(queue))
    /\ queue' = Tail(queue)
    /\ UNCHANGED open

Next == Open \/ Close \/ Deliver \/ \E p \in Pdu : Send(p)

Spec == Init /\ [][Next]_vars

=============================================================================
