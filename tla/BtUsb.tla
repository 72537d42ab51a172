-------------------------------- MODULE BtUsb --------------------------------
(***************************************************************************)
(* The USB transport of the host (easyBtHost/usb/bt_usb.c): two reader     *)
(* threads, one per endpoint, hand what they read to hci_buf_in under      *)
(* callback_lock; the main thread takes packets out in eb_schedule and     *)
(* starts everything anew in eb_init (easyBle.c), after a hardware error   *)
(* or when the application wants to.                                       *)
(*                                                                         *)
(* A packet carries the session it was read in, its endpoint and a number: *)
(* the code has none of these.                                             *)
(***************************************************************************)
EXTENDS Integers, Sequences

CONSTANTS
    BufNum,         \* BUF_NUM: slots of the receive buffer
    Reserve,        \* the slots that advertising reports may not use up
    MaxSessions,    \* bound: calls of usb_hci_init
    MaxReads        \* bound: packets each endpoint yields in a session

Endpoint == {"evt", "acl"}

ASSUME BtUsbAssumption ==
    /\ BufNum \in Nat \ {0}
    /\ Reserve \in 2 .. BufNum
    /\ MaxSessions \in Nat \ {0}
    /\ MaxReads \in [Endpoint -> Nat]

VARIABLES
    hci_buf, fr, ra,    \* the receive buffer, see HciCache
    reader,         \* control point of each reader thread
    buf,            \* what the last read of each thread returned
    exit_flag,      \* _exit_flag
    callback_lock,  \* the thread that holds it, or "free"
    main,           \* control point of the main thread
    gone,           \* the device answers -EIO
    session,        \* history: calls of usb_hci_init
    reads,          \* history: packets read from each endpoint this session
    errors,         \* history: hardware errors reported this session
    taken           \* history: packets eb_schedule took this session

cacheVars == <<hci_buf, fr, ra>>
threadVars == <<reader, buf, exit_flag, callback_lock>>
histVars == <<session, reads, errors, taken>>
vars == <<cacheVars, threadVars, main, gone, histVars>>

-----------------------------------------------------------------------------
MaxPacket == CHOOSE m \in {MaxReads[t] : t \in Endpoint} :
                \A t \in Endpoint : MaxReads[t] <= m

AllPackets ==
    [ session : 1..MaxSessions, ep : Endpoint, n : 0..MaxPacket,
      kind : {"advert", "other", "error"} ]

IsAdvert(p) == p.kind = "advert"

Cache == INSTANCE HciCache WITH
    Packet <- AllPackets,
    Advert <- {p \in AllPackets : IsAdvert(p)},
    NoPacket <- [kind |-> "none"]

(* "\x04\x10\x00\x00": Hardware Error, made up by the reader itself.       *)
HardwareError(t) == [session |-> session, ep |-> t, n |-> 0, kind |-> "error"]

(* Results of usb_hci_recv without a packet.                               *)
Timeout == [kind |-> "timeout"]
Eio == [kind |-> "eio"]

Running == main # "aborted"

-----------------------------------------------------------------------------
(* After the first eb_init.                                                *)
Init ==
    /\ Cache!CacheInit
    /\ reader = [t \in Endpoint |-> "read"]
    /\ buf = [t \in Endpoint |-> Timeout]
    /\ exit_flag = FALSE
    /\ callback_lock = "free"
    /\ main = "run"
    /\ gone = FALSE
    /\ session = 1
    /\ reads = [t \in Endpoint |-> <<>>]
    /\ errors = 0
    /\ taken = <<>>

(* usb_hci_recv: a packet, a timeout, or an error of the device.  Only the *)
(* event endpoint carries advertising reports.                             *)
ReadPacket(t) ==
    /\ ~gone
    /\ Len(reads[t]) < MaxReads[t]
    /\ \E k \in {"advert", "other"} :
        LET p == [session |-> session, ep |-> t, n |-> Len(reads[t]) + 1,
                  kind |-> k]
        IN  /\ k = "advert" => t = "evt"
            /\ buf' = [buf EXCEPT ![t] = p]
            /\ reads' = [reads EXCEPT ![t] = Append(@, p)]

ReadNothing(t) ==
    /\ buf' = [buf EXCEPT ![t] = IF gone THEN Eio ELSE Timeout]
    /\ UNCHANGED reads

Read(t) ==
    /\ Running
    /\ reader[t] = "read"
    /\ ReadPacket(t) \/ ReadNothing(t)
    /\ reader' = [reader EXCEPT ![t] = "check"]
    /\ UNCHANGED <<cacheVars, exit_flag, callback_lock, main, gone, session,
                   errors, taken>>

(* Fault: -EIO is taken for a timeout.                                     *)
AfterReadNoEio(t) ==
    IF exit_flag THEN "done" ELSE IF buf[t] \in {Timeout, Eio} THEN "read" ELSE "lock"

(* Where hci_read_th goes with the result of the read.                     *)
AfterRead(t) ==
    IF exit_flag THEN "done" ELSE IF buf[t] = Timeout THEN "read" ELSE "lock"

Check(t) ==
    /\ Running
    /\ reader[t] = "check"
    /\ reader' = [reader EXCEPT ![t] = AfterRead(t)]
    /\ UNCHANGED <<cacheVars, buf, exit_flag, callback_lock, main, gone,
                   histVars>>

Lock(t) ==
    /\ Running
    /\ reader[t] = "lock" /\ callback_lock = "free"
    /\ reader' = [reader EXCEPT ![t] = "callback"]
    /\ callback_lock' = t
    /\ UNCHANGED <<cacheVars, buf, exit_flag, main, gone, histVars>>

(* eb_h4_recv: the assert in hci_buf_in ends the program when the ring is  *)
(* full.                                                                   *)
H4Recv(p) ==
    IF Cache!IsFull /\ ~Cache!Refused(p)
    THEN main' = "aborted" /\ UNCHANGED cacheVars
    ELSE Cache!BufIn(p) /\ UNCHANGED main

(* The packet goes to the callback, and the lock is released.              *)
Deliver(t) ==
    /\ Running
    /\ reader[t] = "callback" /\ buf[t] # Eio
    /\ H4Recv(buf[t])
    /\ reader' = [reader EXCEPT ![t] = "read"]
    /\ callback_lock' = "free"
    /\ UNCHANGED <<buf, exit_flag, gone, histVars>>

(* Fault: the lock is kept.                                                *)
ReportKeepsLock(t) ==
    /\ IF exit_flag
       THEN UNCHANGED <<cacheVars, main, errors>>
       ELSE H4Recv(HardwareError(t)) /\ errors' = errors + 1
    /\ UNCHANGED callback_lock

(* The first reader that meets -EIO reports a hardware error.              *)
Report(t) ==
    /\ IF exit_flag
       THEN UNCHANGED <<cacheVars, main, errors>>
       ELSE H4Recv(HardwareError(t)) /\ errors' = errors + 1
    /\ callback_lock' = "free"

DeviceError(t) ==
    /\ Running
    /\ reader[t] = "callback" /\ buf[t] = Eio
    /\ Report(t)
    /\ exit_flag' = TRUE
    /\ reader' = [reader EXCEPT ![t] = "done"]
    /\ UNCHANGED <<buf, gone, session, reads, taken>>

Reader(t) ==
    \/ Read(t)
    \/ Check(t)
    \/ Lock(t)
    \/ Deliver(t)
    \/ DeviceError(t)

-----------------------------------------------------------------------------
(* eb_schedule takes a packet.                                             *)
Schedule ==
    /\ main = "run"
    /\ Cache!BufGet
    /\ taken' = Append(taken, Cache!Oldest)
    /\ UNCHANGED <<threadVars, main, gone, session, reads, errors>>

(* eb_init is called: hci_buf_clear comes first ...                        *)
EbInit ==
    /\ main = "run"
    /\ session < MaxSessions
    /\ main' = "deinit"
    /\ Cache!BufClear
    /\ UNCHANGED <<threadVars, gone, histVars>>

(* ... then usb_hci_deinit raises the flag,                                *)
UsbDeinit ==
    /\ main = "deinit"
    /\ main' = "join"
    /\ exit_flag' = TRUE
    /\ UNCHANGED <<cacheVars, reader, buf, callback_lock, gone, histVars>>

(* Fault: the threads are not waited for.                                  *)
JoinedAtOnce == TRUE

Joined == \A t \in Endpoint : reader[t] = "done"

(* waits for both threads and closes the device.                           *)
Join ==
    /\ main = "join"
    /\ Joined
    /\ main' = "init"
    /\ UNCHANGED <<cacheVars, threadVars, gone, histVars>>

(* usb_hci_init: the device is opened, new threads start.  A thread still  *)
(* there would go on with what it holds.                                   *)
UsbInit ==
    /\ main = "init"
    /\ main' = "run"
    /\ exit_flag' = FALSE
    /\ callback_lock' = "free"
    /\ reader' = [t \in Endpoint |-> IF reader[t] = "done" THEN "read" ELSE reader[t]]
    /\ gone' = FALSE
    /\ session' = session + 1
    /\ reads' = [t \in Endpoint |-> <<>>]
    /\ errors' = 0
    /\ taken' = <<>>
    /\ UNCHANGED <<cacheVars, buf>>

(* External: the device is unplugged or breaks down.                       *)
Unplug ==
    /\ Running
    /\ ~gone
    /\ gone' = TRUE
    /\ UNCHANGED <<cacheVars, threadVars, main, histVars>>

Restart == EbInit \/ UsbDeinit \/ Join \/ UsbInit

Next ==
    \/ \E t \in Endpoint : Reader(t)
    \/ Schedule
    \/ Restart
    \/ Unplug

Spec == Init /\ [][Next]_vars

(* The threads are scheduled, a read returns after TRAN_TOUT at the        *)
(* latest, a mutex is granted, and eb_init runs to its end.                *)
Fairness ==
    /\ \A t \in Endpoint :
        /\ WF_vars(Read(t) \/ Check(t) \/ Deliver(t) \/ DeviceError(t))
        /\ SF_vars(Lock(t))
    /\ WF_vars(UsbDeinit)
    /\ WF_vars(Join)
    /\ WF_vars(UsbInit)

FairSpec == Spec /\ Fairness

-----------------------------------------------------------------------------
(* No packet of an earlier session is found behind one of a later session: *)
(* what leaks past hci_buf_clear is only ever in front (easyBle.c:33-36,   *)
(* bt_usb.c:225-262).                                                      *)
SessionsOrdered ==
    LET c == Cache!Contents
    IN  \A i, j \in DOMAIN c : i < j => c[i].session <= c[j].session

Held(t) ==
    IF reader[t] \in {"check", "lock", "callback"} /\ buf[t] \notin {Timeout, Eio}
    THEN <<buf[t]>> ELSE <<>>

(* A packet of endpoint t and session s that no one may drop.              *)
Kept(p, s, t) == p.session = s /\ p.ep = t /\ p.kind = "other"

(* Of the packets read, those that may not be dropped are all on the way   *)
(* to the host, and in the same order.                                     *)
Delivers(read, way, s, t) ==
    /\ \A i \in DOMAIN read : Kept(read[i], s, t) =>
            \E j \in DOMAIN way : way[j] = read[i]
    /\ \A j \in DOMAIN way : Kept(way[j], s, t) =>
            \E i \in DOMAIN read : read[i] = way[j]
    /\ \A i, j \in DOMAIN way :
            i < j /\ Kept(way[i], s, t) /\ Kept(way[j], s, t) => way[i].n < way[j].n

(* While a session runs every packet but advertising reports reaches       *)
(* eb_schedule, once, and in the order of its endpoint                     *)
(* (bt_usb.c:43-61, hci_cache.c:13-50).                                    *)
NothingLost ==
    main = "run" /\ ~exit_flag =>
        \A t \in Endpoint :
            Delivers(reads[t], taken \o (Cache!Contents \o Held(t)), session, t)

(* The receive buffer is a bounded queue: nothing it holds is overwritten, *)
(* repeated or reordered when the indices wrap, and it never takes a report*)
(* when room is scarce, whatever the three threads do (hci_cache.c:13-64). *)
RingIsQueue == Cache!QueueSpec

(* eb_init does not hang in the joins (bt_usb.c:39-63, 244-248).           *)
RestartEnds == main = "deinit" ~> main \in {"run", "aborted"}

(* A broken device is reported to the host, unless it restarts on its own  *)
(* account (bt_usb.c:51-58).                                               *)
ErrorReported ==
    (gone /\ main = "run") ~> (errors > 0 \/ main # "run")

=============================================================================
