------------------------------ MODULE DfuClient ------------------------------
(***************************************************************************)
(* The firmware update client (easyBtHostDFU/dfu_client.c): it transfers a *)
(* command object and then a data object to the device, in packets that    *)
(* the device acknowledges by a checksum, and has each executed.           *)
(*                                                                         *)
(* The client is a state machine whose st_xxx functions send one request   *)
(* each, or as many data packets as pkg_num allows.  The application       *)
(* (dfu_single.c) starts it on a connection, passes notifications to it,   *)
(* and after each Number Of Completed Packets event sets pkg_num to        *)
(* Pace - l2cap_packet_num().                                              *)
(*                                                                         *)
(* L2CAP is abstracted to the ordered PDU channel of L2capChannel, of      *)
(* which the host sees the PDUs whose end is still queued (txq).  A        *)
(* checksum is the sequence of bytes it was taken over: two sequences with *)
(* the same CRC are taken to be the same.                                  *)
(***************************************************************************)
EXTENDS Integers, Sequences, SequencesExt

CONSTANTS
    Size,           \* bytes of each object
    SendLen,        \* bytes of a full data packet
    Prn,            \* data packets between two checksums (100)
    StartPkgs,      \* pkg_max_num given to dfu_client_start (8)
    Pace,           \* PDUs the application wants queued (6)
    Half,           \* 2^7: pkg_num is an int8_t in -Half .. Half-1
    QueueCap,       \* data PDUs that l2cap_buffer has room for
    Resumable,      \* the device keeps a partial object between connections
    MaxStarts,      \* bound: connections
    MaxLost,        \* bound: data packets lost at the USB
    MaxErrors,      \* bound: error responses of the device
    MaxAnswers      \* bound: answers the host owes to requests of the peer

Type == {"cmd", "data"}

ASSUME DfuClientAssumption ==
    /\ Size \in [Type -> Nat \ {0}]
    /\ SendLen \in Nat \ {0}
    /\ Prn \in Nat \ {0}
    /\ StartPkgs \in Nat \ {0}
    /\ Pace \in Nat
    /\ Half \in Nat \ {0}
    /\ StartPkgs < Half
    /\ Pace < Half
    /\ QueueCap \in Nat
    /\ Resumable \in BOOLEAN
    /\ {MaxStarts, MaxLost, MaxErrors, MaxAnswers} \subseteq Nat

VARIABLES
    state,          \* dfu.state
    cur_type,       \* dfu.cur_type
    prn_cnt,        \* dfu.prn_cnt
    pkg_num,        \* dfu.pkg_num
    pos,            \* bytes of the object taken out of dfu_buffer
    size,           \* dfu.cmd_size, dfu.data_size
    acc,            \* bytes under dfu.xxx_offset and dfu.xxx_crc
    spinning,       \* st_write loops for ever
    txq,            \* PDUs whose end is queued in the host
    air,            \* PDUs handed over that the device has not received
    done,           \* PDUs received whose completion is not reported yet
    rsp,            \* notifications on their way to the client
    link,           \* "down", "up", or "lost": down, but the host not told
    object,         \* device: size and bytes of each object
    dev_type,       \* device: the object that packets go to
    executed,       \* history: objects executed on this connection
    ends,           \* history: DFU_EVT_END results on this connection
    starts,         \* history: connections
    lost, errs, answers     \* history: losses, error responses, answers

clientVars == <<state, cur_type, prn_cnt, pkg_num, pos, size, acc, spinning>>
queueVars == <<txq, air, done>>
deviceVars == <<object, dev_type, executed>>
countVars == <<starts, lost, errs, answers>>
vars == <<clientVars, queueVars, rsp, link, deviceVars, ends, countVars>>

-----------------------------------------------------------------------------
(* The bytes dfu_client_get_data_cb returns; 0 is a byte of other files.   *)
File(t) == [i \in 1..Size[t] |-> i]

(* What the client sends, and the notifications it gets.                   *)
Request(op, t, n, bytes) == [op |-> op, type |-> t, size |-> n, bytes |-> bytes]
Ctrl(op) == Request(op, cur_type, 0, <<>>)
Data(bytes) == Request("data", cur_type, 0, bytes)
AnswerPdu == [op |-> "answer"]
Response(op, n, bytes) == [op |-> op, size |-> n, bytes |-> bytes]
ErrorResponse == Response("error", 0, <<>>)

(* Conversion to int8_t.                                                   *)
Int8(x) == ((x + Half) % (2 * Half)) - Half

(* Packets until pkg_num, counted down from p as an int8_t, is 0.          *)
Budget(p) == IF p >= 0 THEN p ELSE 2 * Half + p

Least(S) == CHOOSE x \in S : \A y \in S : x <= y

(* Of the PDUs queued, k leave the queue, as credits come back; then       *)
(* eb_l2cap_send is called for each of ms.  What is left in the queue      *)
(* means that the credits are used up (NeverIdle of L2cap), so that ms     *)
(* stays behind it; otherwise some of ms leaves at once.  If the link is   *)
(* not on the controller drops what it gets.                               *)
Queue(queued, k, ms, on) ==
    LET rest == SubSeq(queued, k + 1, Len(queued))
    IN  \E j \in 0 .. (IF rest = <<>> THEN Len(ms) ELSE 0) :
            /\ txq' = rest \o SubSeq(ms, j + 1, Len(ms))
            /\ air' = IF on THEN air \o SubSeq(queued, 1, k) \o SubSeq(ms, 1, j)
                      ELSE air

Send(ms, k) == Queue(txq, k, ms, link = "up")

SendNothing(k) == Send(<<>>, k)

-----------------------------------------------------------------------------
(* The st_xxx functions, with pkg_num = p, after q PDUs left the queue.    *)

transferVars == <<pos, size, acc>>

(* A request of one PDU: it waits in state st for a packet, or is sent and *)
(* the client waits for the answer in state pd.                            *)
StRequest(st, pd, m, p, q) ==
    IF p = 0
    THEN state' = st /\ pkg_num' = p /\ SendNothing(q)
    ELSE state' = pd /\ pkg_num' = Int8(p - 1) /\ Send(<<m>>, q)

(* Fault: st_select does not record the type it selects.                   *)
StSelectKeepsType(t, p, q) ==
    /\ prn_cnt' = 0
    /\ pos' = 0
    /\ StRequest("sel", "pd_sel", Request("select", t, 0, <<>>), p, q)
    /\ UNCHANGED <<cur_type, size, acc, spinning>>

StSelect(t, p, q) ==
    /\ prn_cnt' = 0
    /\ cur_type' = t
    /\ pos' = 0
    /\ StRequest("sel", "pd_sel", Request("select", t, 0, <<>>), p, q)
    /\ UNCHANGED <<size, acc, spinning>>

StSetPrn(p, q) ==
    /\ StRequest("set_prn", "pd_set_prn", Ctrl("prn"), p, q)
    /\ UNCHANGED <<cur_type, prn_cnt, transferVars, spinning>>

StCreate(p, q) ==
    /\ StRequest("create", "pd_create",
                 Request("create", cur_type, Size[cur_type], <<>>), p, q)
    /\ IF p = 0
       THEN UNCHANGED <<size, acc>>
       ELSE /\ size' = [size EXCEPT ![cur_type] = Size[cur_type]]
            /\ acc' = [acc EXCEPT ![cur_type] = <<>>]
    /\ UNCHANGED <<cur_type, prn_cnt, pos, spinning>>

StGetCrc(p, q) ==
    /\ StRequest("get_crc", "pd_get_crc", Ctrl("crc"), p, q)
    /\ UNCHANGED <<cur_type, prn_cnt, transferVars, spinning>>

StExecute(p, q) ==
    /\ StRequest("execute", "pd_execute", Ctrl("execute"), p, q)
    /\ UNCHANGED <<cur_type, prn_cnt, transferVars, spinning>>

(* The i-th data packet from here, of at most SendLen bytes.               *)
Packet(i) ==
    LET last == pos + i * SendLen
    IN  Data(SubSeq(File(cur_type), pos + (i - 1) * SendLen + 1,
                    IF last < size[cur_type] THEN last ELSE size[cur_type]))

Packets(k) == [i \in 1..k |-> Packet(i)]

(* Data packets left of the object, the last one possibly short.           *)
PacketsLeft == (size[cur_type] - pos + SendLen - 1) \div SendLen

(* Data packets until a checksum is due.                                   *)
ToPrn == Prn - prn_cnt

(* st_write: the loop sends data packets until pkg_num is used up, the     *)
(* object ends or Prn packets are out; in the last two cases st_get_crc    *)
(* follows.  With packets to spare and nothing to send it never ends.      *)
StWrite(p, q) ==
    LET k == Least({Budget(p), PacketsLeft, ToPrn})
        check == k = PacketsLeft \/ k = ToPrn
        left == Int8(p - k)
        sent == Packets(k) \o (IF check /\ left # 0 THEN <<Ctrl("crc")>> ELSE <<>>)
    IN  IF p = 0 \/ PacketsLeft = 0
        THEN /\ state' = "write"
             /\ pkg_num' = p
             /\ spinning' = (p # 0)
             /\ SendNothing(q)
             /\ UNCHANGED <<prn_cnt, transferVars>>
        ELSE /\ Send(sent, q)
             /\ pos' = Least({pos + k * SendLen, size[cur_type]})
             /\ acc' = [acc EXCEPT ![cur_type] = @ \o SubSeq(File(cur_type), pos + 1, pos')]
             /\ prn_cnt' = IF check THEN 0 ELSE prn_cnt + k
             /\ pkg_num' = IF check /\ left # 0 THEN Int8(left - 1) ELSE left
             /\ state' = IF ~check THEN "write"
                         ELSE IF left = 0 THEN "get_crc" ELSE "pd_get_crc"
             /\ UNCHANGED <<size, spinning>>

(* Fault: the state is left as it is.                                      *)
FinishKeepsState(result) ==
    /\ ends' = Append(ends, result)
    /\ UNCHANGED <<state, cur_type, prn_cnt, transferVars, spinning>>

(* dfu_client_finish_cb: the application is told and ends the connection.  *)
Finish(result) ==
    /\ state' = "idle"
    /\ ends' = Append(ends, result)
    /\ UNCHANGED <<cur_type, prn_cnt, transferVars, spinning>>

-----------------------------------------------------------------------------
EmptyObject == [size |-> 0, bytes |-> <<>>]

(* What a device can hold before an update: nothing, a part of another     *)
(* file, or, if it can be resumed, a part of this one.                     *)
Leftovers(t) ==
    { EmptyObject, [size |-> Size[t], bytes |-> <<0>>] } \cup
    (IF Resumable THEN {[size |-> Size[t], bytes |-> <<1>>]}
     ELSE {})

Init ==
    /\ state = "idle"
    /\ cur_type = "cmd"
    /\ prn_cnt = 0
    /\ pkg_num = 0
    /\ pos = 0
    /\ size = [t \in Type |-> 0]
    /\ acc = [t \in Type |-> <<>>]
    /\ spinning = FALSE
    /\ txq = <<>> /\ air = <<>> /\ done = 0
    /\ rsp = <<>>
    /\ link = "down"
    /\ \E c \in Leftovers("cmd"), d \in Leftovers("data") :
            object = [t \in Type |-> IF t = "cmd" THEN c ELSE d]
    /\ dev_type = "cmd"
    /\ executed = <<>>
    /\ ends = <<>>
    /\ starts = 0 /\ lost = 0 /\ errs = 0 /\ answers = 0

(* A connection is made, the service found, and dfu_client_start called.   *)
Start ==
    /\ link = "down" /\ state = "idle"
    /\ starts < MaxStarts
    /\ starts' = starts + 1
    /\ link' = "up"
    /\ cur_type' = "cmd"
    /\ prn_cnt' = 0
    /\ pos' = 0
    /\ state' = "pd_sel"
    /\ pkg_num' = StartPkgs - 1
    /\ Queue(<<>>, 0, <<Request("select", "cmd", 0, <<>>)>>, TRUE)
    /\ done' = 0
    /\ rsp' = <<>>
    /\ ends' = <<>>
    /\ executed' = <<>>
    /\ \/ UNCHANGED object /\ (Resumable \/ starts = 0)
       \/ ~Resumable /\ object' = [t \in Type |-> EmptyObject]
    /\ UNCHANGED <<size, acc, spinning, dev_type, lost, errs, answers>>

(* check_crc with a result above 0: the device has all the client sent.    *)
CheckCrc(r) == r.size = Len(acc[cur_type]) /\ r.bytes = acc[cur_type]

(* Fault: an object is executed after its first checksum.                  *)
WholeAlways(r) == TRUE

(* The object is complete on the device.                                   *)
Whole(r) == r.size = size[cur_type]

(* SELECT reports a part of the object the client is about to send.        *)
Matches(r) ==
    /\ r.size = Size[cur_type]
    /\ r.bytes # <<>>
    /\ r.bytes = SubSeq(File(cur_type), 1, Len(r.bytes))

(* dfu_client_gatt_recv of a response without an error.                    *)
RecvSuccess(r) ==
    \/ /\ r.op = "select" /\ state = "pd_sel"
       /\ IF Matches(r) THEN StWrite(pkg_num, 0) /\ UNCHANGED cur_type
          ELSE StSetPrn(pkg_num, 0)
       /\ UNCHANGED ends
    \/ /\ r.op = "prn" /\ state = "pd_set_prn"
       /\ StCreate(pkg_num, 0)
       /\ UNCHANGED ends
    \/ /\ r.op = "create" /\ state = "pd_create"
       /\ StWrite(pkg_num, 0)
       /\ UNCHANGED <<cur_type, ends>>
    \/ /\ r.op = "crc" /\ state = "pd_get_crc"
       /\ IF ~CheckCrc(r)
          THEN /\ Finish("crc_not_match")
               /\ UNCHANGED <<pkg_num, txq, air>>
          ELSE /\ IF Whole(r)
                  THEN StExecute(pkg_num, 0)
                  ELSE StWrite(pkg_num, 0) /\ UNCHANGED cur_type
               /\ UNCHANGED ends
    \/ /\ r.op = "execute" /\ state = "pd_execute"
       /\ IF cur_type = "cmd"
          THEN StSelect("data", pkg_num, 0) /\ UNCHANGED ends
          ELSE Finish("success") /\ UNCHANGED <<pkg_num, txq, air>>

(* What dfu_client_gatt_recv expects in each state.                        *)
Expected == [pd_sel |-> "select", pd_set_prn |-> "prn", pd_create |-> "create",
             pd_get_crc |-> "crc", pd_execute |-> "execute"]

IsExpected(r) == state \in DOMAIN Expected /\ r.op = Expected[state]

(* dfu_client_gatt_recv: an error ends the update in any state, a response *)
(* that is not expected is dropped.                                        *)
GattRecv ==
    /\ ~spinning
    /\ rsp # <<>>
    /\ rsp' = Tail(rsp)
    /\ \/ /\ Head(rsp) = ErrorResponse
          /\ Finish("error")
          /\ UNCHANGED <<pkg_num, txq, air>>
       \/ /\ Head(rsp) # ErrorResponse
          /\ RecvSuccess(Head(rsp))
       \/ /\ Head(rsp) # ErrorResponse /\ ~IsExpected(Head(rsp))
          /\ UNCHANGED <<clientVars, txq, air, ends>>
    /\ UNCHANGED <<done, link, deviceVars, countVars>>

(* Fault: dfu_client_can_send forgets a state.                             *)
CanSendNoGetCrc(p, q) ==
    CASE state = "write"   -> StWrite(p, q) /\ UNCHANGED cur_type
      [] state = "sel"     -> StSelect(cur_type, p, q)
      [] state = "set_prn" -> StSetPrn(p, q)
      [] state = "create"  -> StCreate(p, q)
      [] state = "execute" -> StExecute(p, q)
      [] OTHER -> /\ pkg_num' = p
                  /\ SendNothing(q)
                  /\ UNCHANGED <<state, cur_type, prn_cnt, transferVars, spinning>>

(* dfu_client_can_send(p), after q PDUs left the queue.                    *)
CanSend(p, q) ==
    CASE state = "write"   -> StWrite(p, q) /\ UNCHANGED cur_type
      [] state = "sel"     -> StSelect(cur_type, p, q)
      [] state = "set_prn" -> StSetPrn(p, q)
      [] state = "create"  -> StCreate(p, q)
      [] state = "get_crc" -> StGetCrc(p, q)
      [] state = "execute" -> StExecute(p, q)
      [] OTHER -> /\ pkg_num' = p
                  /\ SendNothing(q)
                  /\ UNCHANGED <<state, cur_type, prn_cnt, transferVars, spinning>>

(* Fault: the application does not look at the queue.                      *)
PaceIgnoresQueue(queued) == Pace

(* The argument of dfu_client_can_send as its int8_t pkg_num.              *)
PaceOf(queued) == Int8(Pace - queued)

(* Number Of Completed Packets: n PDUs are acknowledged in full (none if   *)
(* it was a fragment), k leave the queue, then the application is told.    *)
TxComplete(n, k) ==
    /\ ~spinning
    /\ (link = "up" /\ txq \o air # <<>>) \/ n > 0
    /\ done' = done - n
    /\ CanSend(PaceOf(Len(txq) - k), k)
    /\ UNCHANGED <<rsp, link, deviceVars, ends, countVars>>

(* The host answers a request of the peer (ATT, signalling or SMP).        *)
Answer ==
    /\ ~spinning
    /\ link = "up"
    /\ answers < MaxAnswers
    /\ answers' = answers + 1
    /\ Send(<<AnswerPdu>>, 0)
    /\ UNCHANGED <<clientVars, done, rsp, link, deviceVars, ends, starts, lost,
                   errs>>

(* Disconnection Complete: dfu_client_abort.  The acknowledgements sent    *)
(* before it are handled before it.                                        *)
Disconnected ==
    /\ ~spinning
    /\ link = "lost" /\ done = 0
    /\ link' = "down"
    /\ IF state = "idle"
       THEN UNCHANGED <<clientVars, ends>>
       ELSE pkg_num' = 0 /\ Finish("abort")
    /\ UNCHANGED <<queueVars, rsp, deviceVars, countVars>>

-----------------------------------------------------------------------------
(* External: the controller, the USB pipe and the device.                  *)

LinkLoss ==
    /\ link = "up"
    /\ link' = "lost"
    /\ air' = <<>>
    /\ UNCHANGED <<clientVars, txq, done, rsp, deviceVars, ends, countVars>>

UsbLost ==
    /\ lost < MaxLost
    /\ lost' = lost + 1
    /\ \E i \in DOMAIN air : air[i].op = "data" /\ air' = RemoveAt(air, i)
    /\ UNCHANGED <<clientVars, txq, done, rsp, link, deviceVars, ends, starts,
                   errs, answers>>

Notify(r) == rsp' = Append(rsp, r)

Report(op, t) == Notify(Response(op, Len(object[t].bytes), object[t].bytes))

(* The device takes the next PDU; requests are answered by notifications.  *)
Select(m) ==
    /\ m.op = "select"
    /\ dev_type' = m.type
    /\ Notify(Response("select", object[m.type].size, object[m.type].bytes))
    /\ UNCHANGED <<object, executed>>

SetPrn(m) ==
    /\ m.op = "prn"
    /\ Notify(Response("prn", 0, <<>>))
    /\ UNCHANGED deviceVars

Create(m) ==
    /\ m.op = "create"
    /\ dev_type' = m.type
    /\ object' = [object EXCEPT ![m.type] = [size |-> m.size, bytes |-> <<>>]]
    /\ Notify(Response("create", 0, <<>>))
    /\ UNCHANGED executed

TakeData(m) ==
    /\ m.op = "data"
    /\ object' = [object EXCEPT ![dev_type].bytes = @ \o m.bytes]
    /\ UNCHANGED <<dev_type, executed, rsp>>

Checksum(m) ==
    /\ m.op = "crc"
    /\ Notify(Response("crc", Len(object[dev_type].bytes), object[dev_type].bytes))
    /\ UNCHANGED deviceVars

Execute(m) ==
    /\ m.op = "execute"
    /\ executed' = Append(executed, [type |-> dev_type, bytes |-> object[dev_type].bytes])
    /\ Notify(Response("execute", 0, <<>>))
    /\ UNCHANGED <<object, dev_type>>

Refuse(m) ==
    /\ m.op \notin {"data", "answer"}
    /\ errs < MaxErrors
    /\ Notify(ErrorResponse)
    /\ UNCHANGED deviceVars

DevRecv ==
    /\ air # <<>>
    /\ air' = Tail(air)
    /\ done' = done + 1
    /\ LET m == Head(air)
       IN  \/ Select(m)
           \/ SetPrn(m)
           \/ Create(m)
           \/ TakeData(m)
           \/ Checksum(m)
           \/ Execute(m)
           \/ (m.op = "answer" /\ UNCHANGED <<deviceVars, rsp>>)
    /\ UNCHANGED <<clientVars, txq, link, ends, countVars>>

DevRefuse ==
    /\ air # <<>>
    /\ air' = Tail(air)
    /\ done' = done + 1
    /\ Refuse(Head(air))
    /\ errs' = errs + 1
    /\ UNCHANGED <<clientVars, txq, link, ends, starts, lost, answers>>

Completed(n, k) == TxComplete(n, k) /\ n + k > 0

SomeCompleted == \E n \in 0..done, k \in 0..Len(txq) : Completed(n, k)

Next ==
    \/ Start
    \/ GattRecv
    \/ \E n \in 0..done, k \in 0..Len(txq) : TxComplete(n, k)
    \/ Answer
    \/ Disconnected
    \/ LinkLoss
    \/ UsbLost
    \/ DevRecv
    \/ DevRefuse

Spec == Init /\ [][Next]_vars

(* eb_schedule is polled for ever, and a device on a live link works.      *)
FairSpec ==
    /\ Spec
    /\ WF_vars(GattRecv)
    /\ WF_vars(SomeCompleted)
    /\ WF_vars(DevRecv \/ DevRefuse)
    /\ WF_vars(Disconnected)

-----------------------------------------------------------------------------
(* Whatever is lost on the way, and whatever the device held of another    *)
(* file, it is told to execute an object only when it has exactly the      *)
(* bytes of the file (dfu_client.c:238-256, 300-312).  A device that keeps *)
(* a part of this file between connections breaks it: the client sends the *)
(* bytes from 0 behind that part, see ContinuesAtOffset.                   *)
ExecutesTheFile ==
    \A i \in DOMAIN executed : executed[i].bytes = File(executed[i].type)

(* The command object goes first, the data object follows, and an update   *)
(* is reported a success only when both were executed                      *)
(* (dfu_client.c:316-323).                                                 *)
SuccessIsComplete ==
    /\ [i \in DOMAIN executed |-> executed[i].type] \in
            {<<>>, <<"cmd">>, <<"cmd", "data">>}
    /\ "success" \in ToSet(ends) => Len(executed) = 2

(* An update that runs has not ended, and it ends once: after the first    *)
(* result of a connection only errors the device reports late are passed   *)
(* on (dfu_client.c:258-285, 291-295).                                     *)
EndsOnce ==
    /\ state # "idle" => ends = <<>>
    /\ \A i \in DOMAIN ends : i > 1 => ends[i] = "error"

(* The client never has more in the queue than it was allowed when started *)
(* or than the application wants, and the count of packets it may still    *)
(* send stays in range, as long as the host sends nothing of its own       *)
(* (dfu_client.c:101-194, dfu_single.c:212); see QueueHasRoom.             *)
PaceKept ==
    answers = 0 =>
        /\ pkg_num >= 0
        /\ Len(txq) + pkg_num <= IF StartPkgs > Pace THEN StartPkgs ELSE Pace

(* An update that meets neither loss nor error succeeds                    *)
(* (dfu_client.c:264-374).                                                 *)
UpdateSucceeds ==
    link = "up" ~> ("success" \in ToSet(ends) \/ link # "up" \/ lost + errs > 0)

(* "crc match, transport data from offset" (dfu_client.c:338): an object   *)
(* the device has a part of is continued behind that part.                 *)
ContinuesAtOffset ==
    [][ (rsp # <<>> /\ rsp' = Tail(rsp) /\ state = "pd_sel" /\ Head(rsp).op = "select"
         /\ Matches(Head(rsp))) => pos' >= Len(Head(rsp).bytes) ]_vars

(* "-1->ignore" (dfu_client.c:237): a checksum over less than was sent     *)
(* does not end the update.                                                *)
ShortChecksumIgnored ==
    [][ (rsp # <<>> /\ rsp' = Tail(rsp) /\ state = "pd_get_crc" /\ Head(rsp).op = "crc"
         /\ Head(rsp).size < Len(acc[cur_type])) => state' # "idle" ]_vars

(* assert(L2CAP_FIFO_AVAIL()>=len) (eb_l2cap.c:67): the queue has room for *)
(* what the client sends.                                                  *)
QueueHasRoom == Len(txq) <= QueueCap

=============================================================================
