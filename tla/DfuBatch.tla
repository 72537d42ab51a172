------------------------------ MODULE DfuBatch ------------------------------
(***************************************************************************)
(* The unattended update program (easyBtHostDFU/dfu_batch.c, and the list  *)
(* of batch_parse.c): it scans until a device of its list is heard,        *)
(* connects, updates it and notes the success in a file, so that a device  *)
(* is not updated again when the program is started again.  Whatever it    *)
(* waits for has a timer that resets the controller and begins again.      *)
(***************************************************************************)
EXTENDS DfuHost

CONSTANTS
    Lists           \* the lists of items a run can be given

ASSUME DfuBatchAssumption ==
    \A list \in Lists :
        /\ DOMAIN list = 1 .. Len(list) /\ Len(list) \in Nat
        /\ \A i \in DOMAIN list :
              list[i] \in [match : SUBSET Dev, file : BOOLEAN, repeat : BOOLEAN]

VARIABLES
    dev_list,       \* dev_list; of an item: the devices it matches, whether
                    \* its file is there, and whether it is to be repeated
    is_valid,       \* is_valid of each item
    suc_file,       \* the success file: lines of each item, 2 for more
    m_cur_dev,      \* m_cur_dev, as the number of the item
    crashed,        \* a null pointer was followed
    overtaken       \* history: a connection was asked for behind a reset

batchVars == <<dev_list, is_valid, suc_file, m_cur_dev, crashed, overtaken>>
itemVars == <<dev_list, is_valid, suc_file, overtaken>>
dfuBatchVars == <<dfuHostVars, batchVars>>

-----------------------------------------------------------------------------
NoItem == 0

Items == DOMAIN dev_list

(* Fault: what the file says is forgotten.                                 *)
ParseNothing(list, done) == [i \in DOMAIN list |-> TRUE]

(* batch_parse_list, batch_parse_success.                                  *)
Parse(list, done) ==
    [i \in DOMAIN list |-> list[i].repeat \/ done[i] = 0]

BatchInit(lists) ==
    /\ dev_list \in lists
    /\ suc_file = [i \in Items |-> 0]
    /\ is_valid = Parse(dev_list, suc_file)
    /\ m_cur_dev = NoItem
    /\ crashed = FALSE
    /\ overtaken = FALSE

(* start_scan: nothing if the state is the wanted one.                     *)
ScanTimers(on) ==
    CASE m_scan_state = on -> timers
      [] on                -> timers \cup {"scan"}
      [] OTHER             -> timers \ {"scan"}

ScanCmds(on) == IF m_scan_state = on THEN <<>> ELSE <<ScanEnable(on)>>

(* A reset is on its way, or its completion.                               *)
Resetting ==
    Reset \in ToSet(cmds) \/ \E i \in DOMAIN evts : evts[i].ev = "reset"

(* An event is taken, and cs are sent.                                     *)
Handle(ev, d, cs) ==
    /\ ~crashed
    /\ Takes(ev, d)
    /\ evts' = Tail(evts)
    /\ Queue(cs)
    /\ overtaken' = (overtaken \/ (\E i \in DOMAIN cs : cs[i].cmd = "connect"
                                  /\ (Resetting \/ Reset \in ToSet(cs))))
    /\ UNCHANGED <<ctrlVars, flashed, faults, dev_list>>

GapReset ==
    /\ Handle("reset", NoDev, ScanCmds(TRUE))
    /\ timers' = ScanTimers(TRUE)
    /\ m_scan_state' = TRUE
    /\ m_cur_dev' = NoItem
    /\ m_buf' = NoImage
    /\ UNCHANGED <<client, conn_handle, req, is_valid, suc_file, crashed>>

(* EB_EVT_GAP_HARDWARE_ERR: only eb_init.                                  *)
HardwareErr ==
    /\ ~crashed
    /\ Takes("hardware_err", NoDev)
    /\ EbInit(cmds, Tail(evts))
    /\ UNCHANGED <<hostVars, appVars, scanning, reported, initiating, peers, req,
                   flashed, faults, batchVars>>

Connected(d) ==
    /\ Handle("connected", d, <<>>)
    /\ conn_handle' = d
    /\ Ask(d, "mtu", NoImage)
    /\ UNCHANGED <<timers, client, is_valid, suc_file, m_scan_state, m_cur_dev,
                   m_buf, crashed>>

(* Connected with a status that is not 0.                                  *)
ConnectFailed ==
    /\ Handle("failed", NoDev, <<Reset>>)
    /\ UNCHANGED <<hostVars, req, is_valid, suc_file, m_scan_state, m_cur_dev,
                   m_buf, crashed>>

(* Fault: the client is not told.                                          *)
AbortNothing == UNCHANGED client

(* dfu_client_abort: DFU_EVT_END does nothing, as there is no link.        *)
Abort == client' = "idle"

Disconnected(d) ==
    /\ Handle("disconnected", d, <<Reset>>)
    /\ timers' = timers \ {"conn", "disc"}
    /\ conn_handle' = NoDev
    /\ Abort
    /\ UNCHANGED <<req, is_valid, suc_file, m_scan_state, m_cur_dev, m_buf,
                   crashed>>

MtuUpdate(d) ==
    /\ Handle("mtu", d, <<>>)
    /\ Ask(conn_handle, "find", NoImage)
    /\ UNCHANGED <<hostVars, is_valid, suc_file, m_scan_state, m_cur_dev, m_buf,
                   crashed>>

(* The service is found: the update starts.  If the buffers are gone the   *)
(* client reads from a null pointer once the device has answered.          *)
Found(d) ==
    /\ Handle("found", d, <<>>)
    /\ timers' = timers \ {"conn"}
    /\ ClientStart(m_buf)
    /\ crashed' = (m_buf = NoImage /\ req' # req)
    /\ UNCHANGED <<conn_handle, is_valid, suc_file, m_scan_state, m_cur_dev,
                   m_buf>>

ErrorRsp(d) ==
    /\ Handle("error", d, <<Cmd("disconnect", conn_handle)>>)
    /\ UNCHANGED <<hostVars, req, is_valid, suc_file, m_scan_state, m_cur_dev,
                   m_buf, crashed>>

(* DFU_EVT_END: a timer guards the end of the link.                        *)
EndTimers ==
    timers' = IF conn_handle = NoDev THEN timers ELSE timers \cup {"disc"}

AddLine(i) ==
    suc_file' = [suc_file EXCEPT ![i] = IF @ = 2 THEN 2 ELSE @ + 1]

(* dfu_client_evt_cb_batch on success, with batch_suc_add.                 *)
Credit(i) ==
    /\ is_valid' = [is_valid EXCEPT ![i] = dev_list[i].repeat]
    /\ AddLine(i)

Success(d) ==
    /\ Handle("success", d, <<>>)
    /\ client' = "idle"
    /\ CASE client = "idle" -> UNCHANGED <<timers, is_valid, suc_file, crashed>>
         [] client = "run" /\ m_cur_dev = NoItem ->
                crashed' = TRUE /\ UNCHANGED <<timers, is_valid, suc_file>>
         [] OTHER -> Credit(m_cur_dev) /\ EndTimers /\ UNCHANGED crashed
    /\ UNCHANGED <<conn_handle, req, m_scan_state, m_cur_dev, m_buf>>

(* A response with an error ends the update in any state of the client.    *)
Refused(d) ==
    /\ Handle("refused", d, <<>>)
    /\ client' = "idle"
    /\ EndTimers
    /\ UNCHANGED <<conn_handle, req, is_valid, suc_file, m_scan_state, m_cur_dev,
                   m_buf, crashed>>

-----------------------------------------------------------------------------
(* The valid items that a report of d matches, those before the first one  *)
(* with a file, and that one.                                              *)
Matching(d) == {i \in Items : is_valid[i] /\ d \in dev_list[i].match}

WithFile(d) == {i \in Matching(d) : dev_list[i].file}

Chosen(d) ==
    IF WithFile(d) = {} THEN NoItem
    ELSE CHOOSE i \in WithFile(d) : \A j \in WithFile(d) : i <= j

Missing(d) ==
    {i \in Matching(d) \ WithFile(d) : Chosen(d) = NoItem \/ i < Chosen(d)}

Listens == m_scan_state /\ conn_handle = NoDev

AdvIgnored(d) ==
    /\ ~Listens \/ Matching(d) = {}
    /\ Handle("adv", d, <<>>)
    /\ UNCHANGED <<hostVars, req, is_valid, suc_file, m_scan_state, m_cur_dev,
                   m_buf, crashed>>

(* A report of a device on the list: each item without its file is made    *)
(* invalid and has the controller reset, the first one with its file is    *)
(* the one to update.                                                      *)
AdvReport(d) ==
    /\ Listens /\ Matching(d) # {}
    /\ Handle("adv", d,
              ScanCmds(FALSE) \o [i \in 1 .. Cardinality(Missing(d)) |-> Reset]
              \o (IF Chosen(d) = NoItem THEN <<>> ELSE <<Cmd("connect", d)>>))
    /\ timers' = ScanTimers(FALSE) \cup (IF Chosen(d) = NoItem THEN {} ELSE {"conn"})
    /\ m_scan_state' = FALSE
    /\ is_valid' = [i \in Items |-> is_valid[i] /\ i \notin Missing(d)]
    /\ IF Chosen(d) = NoItem THEN UNCHANGED <<m_cur_dev, m_buf>>
       ELSE m_cur_dev' = Chosen(d) /\ m_buf' = Chosen(d)
    /\ UNCHANGED <<client, conn_handle, req, suc_file, crashed>>

(* bt_reset, after the handler sent cs.                                    *)
BtReset(cs) ==
    /\ EbInit(cmds \o cs, evts)
    /\ timers' = {}
    /\ m_scan_state' = FALSE
    /\ conn_handle' = NoDev

TimeoutCmds(id) ==
    CASE id = "scan" -> ScanCmds(FALSE)
      [] id = "conn" -> <<Cancel>>
      [] id = "disc" -> <<>>

(* timeout_handler.                                                        *)
Timeout(id) ==
    /\ ~crashed
    /\ Due(id)
    /\ BtReset(TimeoutCmds(id))
    /\ UNCHANGED <<client, scanning, reported, initiating, peers, req, flashed,
                   itemVars, m_cur_dev, m_buf, crashed>>

TxComplete ==
    /\ ~crashed
    /\ Stray
    /\ UNCHANGED <<hostVars, appVars, evts, cmds, ctrlVars, flashed, faults,
                   batchVars>>

(* External: the program is stopped and started again: dfu_batch.          *)
Restart ==
    /\ Failure
    /\ EbInit(cmds, evts)
    /\ timers' = {}
    /\ client' = "idle"
    /\ conn_handle' = NoDev
    /\ is_valid' = Parse(dev_list, suc_file)
    /\ m_scan_state' = FALSE
    /\ m_cur_dev' = NoItem
    /\ m_buf' = NoImage
    /\ crashed' = FALSE
    /\ UNCHANGED <<scanning, reported, initiating, peers, req, flashed,
                   dev_list, suc_file, overtaken>>

BatchHandler ==
    \/ GapReset
    \/ HardwareErr
    \/ ConnectFailed
    \/ \E d \in Dev :
        \/ Connected(d)
        \/ Disconnected(d)
        \/ MtuUpdate(d)
        \/ Found(d)
        \/ ErrorRsp(d)
        \/ Success(d)
        \/ Refused(d)
        \/ AdvIgnored(d)
        \/ AdvReport(d)

BatchTimeout == \E id \in timers : Timeout(id)

BatchNext ==
    \/ BatchHandler
    \/ BatchTimeout
    \/ TxComplete
    \/ Restart
    \/ (Environment /\ UNCHANGED batchVars)

-----------------------------------------------------------------------------
(* The file names an item only if a device that the item matches was       *)
(* updated with the image of the item, once unless it is to be repeated;   *)
(* no device gets another image, and image and item are there when they    *)
(* are needed, whatever timer, late answer, restart or hardware error      *)
(* comes in between (dfu_batch.c:113-224, 299-315, batch_parse.c:128-147). *)
(* It is not so once a report is handled, and a connection asked for,      *)
(* while the controller is being reset: after a hardware error, or if an   *)
(* item before the one to update has no file.                              *)
UpdatesRight ==
    \/ main_function # "batch" \/ overtaken
    \/ /\ ~crashed
       /\ \A f \in flashed : f[1] \in dev_list[f[2]].match
       /\ \A i \in Items :
            /\ suc_file[i] > 0 => \E d \in dev_list[i].match : <<d, i>> \in flashed
            /\ suc_file[i] > 1 => dev_list[i].repeat

Waits(i) == i \in Items /\ is_valid[i] /\ suc_file[i] = 0 /\ ~crashed

(* Every item whose device is heard is updated, or found to have no file,  *)
(* unless another item is to be repeated and keeps the program busy        *)
(* (dfu_batch.c:57-111, 148-155, 204-214).                                 *)
ListServed ==
    \A i \in 1..2 :
        (Waits(i) /\ \A j \in Items \ {i} : ~dev_list[j].repeat) ~> ~Waits(i)

=============================================================================
