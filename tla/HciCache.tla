------------------------------ MODULE HciCache ------------------------------
(***************************************************************************)
(* The receive buffer of the host (easyBtHost/usb/hci_cache.c): a ring of  *)
(* BufNum packets under one mutex, written by the USB reader threads and   *)
(* read by eb_schedule.  Every operation runs under the mutex from end to  *)
(* end, so each is one action.                                             *)
(***************************************************************************)
EXTENDS Integers, Sequences

CONSTANTS
    BufNum,         \* BUF_NUM: slots of the ring, one of them always free
    Reserve,        \* the 16 slots that advertising reports may not use up
    Packet,         \* the packets
    Advert,         \* those that are advertising reports
    NoPacket        \* what an unwritten slot holds

(* What the constants satisfy; see BtUsb for those that are numbers.       *)
HciCacheAssumption ==
    /\ BufNum \in Nat \ {0}
    /\ Reserve \in 2 .. BufNum
    /\ Advert \subseteq Packet
    /\ NoPacket \notin Packet

VARIABLES
    hci_buf,        \* the slots
    fr,             \* the slot read last
    ra              \* the slot written last

cacheVars == <<hci_buf, fr, ra>>

-----------------------------------------------------------------------------
(* hci_buf_cnt.                                                            *)
Count == (ra - fr) % BufNum

(* hci_buf_is_full.                                                        *)
IsFull == fr = (ra + 1) % BufNum

CacheInit ==
    /\ hci_buf = [i \in 0 .. BufNum - 1 |-> NoPacket]
    /\ fr = 0
    /\ ra = 0

(* Faults: reports are refused one slot too late; every packet is refused  *)
(* when room is scarce; the index is advanced after the packet is stored.  *)
RefusedLate(p) == p \in Advert /\ Count > BufNum - Reserve + 1
RefusedAny(p) == p \in Packet /\ Count > BufNum - Reserve

(* The advertising report p is dropped: the ring is nearly full.           *)
Refused(p) == p \in Advert /\ Count > BufNum - Reserve

Store(p) ==
    /\ ra' = (ra + 1) % BufNum
    /\ hci_buf' = [hci_buf EXCEPT ![ra'] = p]
    /\ UNCHANGED fr

(* hci_buf_in.  On a full ring the assert ends the program: no step.       *)
BufIn(p) ==
    IF Refused(p) THEN UNCHANGED cacheVars ELSE ~IsFull /\ Store(p)

(* hci_buf_get, called when hci_buf_cnt is not 0; it returns Oldest.       *)
Oldest == hci_buf[(fr + 1) % BufNum]

BufGet ==
    /\ Count # 0
    /\ fr' = (fr + 1) % BufNum
    /\ UNCHANGED <<hci_buf, ra>>

(* hci_buf_clear.                                                          *)
BufClear ==
    /\ fr' = 0
    /\ ra' = 0
    /\ UNCHANGED hci_buf

(* The buffer on its own, under any calls.                                 *)
CacheNext ==
    \/ \E p \in Packet : BufIn(p)
    \/ BufGet
    \/ BufClear

CacheSpec == CacheInit /\ [][CacheNext]_cacheVars

-----------------------------------------------------------------------------
(* The packets in the ring, oldest first.                                  *)
Contents == [i \in 1 .. Count |-> hci_buf[(fr + i) % BufNum]]

Queue == INSTANCE Fifo WITH
    Expendable <- Advert,
    Capacity <- BufNum - 1,
    Scarce <- BufNum - Reserve + 1,
    queue <- Contents

(* The ring is a bounded queue: nothing it holds is overwritten, repeated  *)
(* or reordered when the indices wrap, and it never takes a report when    *)
(* room is scarce (hci_cache.c:13-64).                                     *)
QueueSpec == Queue!Spec

=============================================================================
