-------------------------------- MODULE Fifo --------------------------------
(***************************************************************************)
(* What the receive buffer of the host (easyBtHost/usb/hci_cache.c)        *)
(* promises: a bounded first-in first-out queue that may refuse an         *)
(* expendable packet when room gets scarce, and can be emptied.            *)
(***************************************************************************)
EXTENDS Naturals, Sequences

CONSTANTS Packet,       \* the packets that may be queued
          Expendable,   \* those that may be refused
          Capacity,     \* packets the queue holds
          Scarce        \* an expendable packet may be refused from here on

VARIABLE queue

TypeOK == queue \in Seq(Packet) /\ Len(queue) <= Capacity

Init == queue = <<>>

Put(p) ==
    /\ Len(queue) < Capacity
    /\ p \in Expendable => Len(queue) < Scarce
    /\ queue' = Append(queue, p)

Get == queue # <<>> /\ queue' = Tail(queue)

Clear == queue' = <<>>

Next == Get \/ Clear \/ \E p \in Packet : Put(p)

Spec == Init /\ [][Next]_queue

=============================================================================
