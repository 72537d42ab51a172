------------------------------ MODULE DfuSingle ------------------------------
(***************************************************************************)
(* The interactive update program (easyBtHostDFU/dfu_single.c): it scans   *)
(* for two seconds, asks which of the devices to update, connects, and     *)
(* sends the boot part of the zip file; the device restarts, the program   *)
(* connects again three seconds later and sends the firmware part.         *)
(*                                                                         *)
(* While it asks, it does nothing else.  Two timers that are due at the    *)
(* same look at them are taken as two looks.                               *)
(***************************************************************************)
EXTENDS DfuHost

CONSTANTS
    Zips,           \* the zip files a run can be given: what is in them
    MaxDevs         \* DEV_REP_MAX_NUM

ASSUME DfuSingleAssumption == MaxDevs \in Nat \ {0}

VARIABLES
    zip,            \* the parts in the zip file
    m_flash_state,  \* m_flash_state
    dev_report,     \* dev_report: the devices heard, as far as dev_num
    p_dev_report,   \* p_dev_report: the number in dev_report
    dev_num,        \* dev_num
    conn_idx,       \* m_conn_report_idx
    show_menu_flag, \* show_menu_flag
    main,           \* "loop", "select", or "exit"
    crossed,        \* history: a connection was given up, and made
    unanswered      \* history: a connection failed before it was given up

singleVars == <<zip, m_flash_state, dev_report, p_dev_report, dev_num, conn_idx,
                show_menu_flag, main, crossed, unanswered>>
listVars == <<dev_report, p_dev_report, dev_num>>
dfuSingleVars == <<dfuHostVars, singleVars>>

-----------------------------------------------------------------------------
(* The order of DFU_SINGLE_ST_xxx.                                         *)
NextStage == [idle |-> "boot", boot |-> "firmware", firmware |-> "idle"]

(* dfu_read_file: the stage it goes on with; "exit" if the file lacks it.  *)
Stage(st) ==
    IF st # "firmware" /\ "boot" \in zip THEN "boot"
    ELSE IF "firmware" \in zip THEN "firmware" ELSE "exit"

SingleInit(zips) ==
    /\ zip \in zips
    /\ m_flash_state = Stage("idle")
    /\ dev_report = [i \in 1..MaxDevs |-> NoDev]
    /\ p_dev_report = [i \in 1..MaxDevs |-> i]
    /\ dev_num = 0
    /\ conn_idx = 1
    /\ show_menu_flag = FALSE
    /\ main = IF main_function = "single" THEN "loop" ELSE "exit"
    /\ crossed = FALSE
    /\ unanswered = FALSE

(* start_scan(true).                                                       *)
ScanStarts ==
    /\ m_scan_state' = TRUE
    /\ dev_report' = [i \in 1..MaxDevs |-> NoDev]
    /\ dev_num' = 0
    /\ UNCHANGED p_dev_report

(* start_scan(false), and dump_dev_discovered sorts the list and asks.     *)
ScanStops ==
    /\ m_scan_state' = FALSE
    /\ main' = "select"
    /\ \E f \in Bijection(1..dev_num, 1..dev_num) :
            p_dev_report' = [i \in 1..MaxDevs |->
                IF i <= dev_num THEN p_dev_report[f[i]] ELSE p_dev_report[i]]
    /\ UNCHANGED <<dev_report, dev_num>>

(* The device that the user sees as number i.                              *)
Listed(i) == dev_report[p_dev_report[i]]

(* The main loop is free to go on.                                         *)
Looping == main = "loop" /\ ~show_menu_flag

(* An event is taken, and cs are sent.                                     *)
OnEvent(ev, d, cs) ==
    /\ Looping
    /\ Takes(ev, d)
    /\ evts' = Tail(evts)
    /\ Queue(cs)
    /\ UNCHANGED <<ctrlVars, flashed, faults, zip, conn_idx>>

OnReset ==
    /\ OnEvent("reset", NoDev, <<ScanEnable(TRUE)>>)
    /\ timers' = timers \cup {"scan"}
    /\ ScanStarts
    /\ UNCHANGED <<client, conn_handle, m_buf, req, m_flash_state, show_menu_flag,
                   main, crossed, unanswered>>

OnConnected(d) ==
    /\ OnEvent("connected", d, <<>>)
    /\ timers' = timers \ {"conn"}
    /\ conn_handle' = d
    /\ Ask(d, "mtu", NoImage)
    /\ crossed' = (crossed \/ "conn" \notin timers \/ d # Listed(conn_idx))
    /\ UNCHANGED <<client, appVars, m_flash_state, listVars, show_menu_flag, main,
                   unanswered>>

(* Connected with a status that is not 0: nothing is begun.                *)
OnConnectFailed ==
    /\ OnEvent("failed", NoDev, <<>>)
    /\ timers' = timers \ {"conn"}
    /\ unanswered' = (unanswered \/ "conn" \in timers)
    /\ UNCHANGED <<client, conn_handle, appVars, req, m_flash_state, listVars,
                   show_menu_flag, main, crossed>>

(* dfu_client_evt_cb_single with DFU_EVT_END asks for a disconnection.     *)
EndCmds == <<Cmd("disconnect", conn_handle)>>

(* Fault: the result is not looked at.                                     *)
StageAfterFailureGoesOn == NextStage[m_flash_state]

(* m_flash_state after an update that fails.                               *)
StageAfterFailure == "idle"

OnDisconnected(d) ==
    /\ OnEvent("disconnected", d, IF client = "idle" THEN <<>> ELSE EndCmds)
    /\ client' = "idle"
    /\ m_flash_state' = IF client = "idle" THEN m_flash_state ELSE StageAfterFailure
    /\ timers' = IF m_flash_state' = "firmware" THEN timers \cup {"again"} ELSE timers
    /\ show_menu_flag' = (m_flash_state' # "firmware")
    /\ UNCHANGED <<conn_handle, appVars, req, listVars, main, crossed, unanswered>>

OnMtuUpdate(d) ==
    /\ OnEvent("mtu", d, <<>>)
    /\ Ask(conn_handle, "find", NoImage)
    /\ UNCHANGED <<hostVars, appVars, m_flash_state, listVars, show_menu_flag, main,
                   crossed, unanswered>>

(* The file is read, and the update starts.                                *)
OnFound(d) ==
    /\ OnEvent("found", d, <<>>)
    /\ IF Stage(m_flash_state) = "exit"
       THEN main' = "exit" /\ UNCHANGED <<m_flash_state, m_buf, client, req>>
       ELSE /\ m_flash_state' = Stage(m_flash_state)
            /\ m_buf' = Stage(m_flash_state)
            /\ ClientStart(Stage(m_flash_state))
            /\ UNCHANGED main
    /\ UNCHANGED <<timers, conn_handle, m_scan_state, listVars, show_menu_flag,
                   crossed, unanswered>>

OnErrorRsp(d) ==
    /\ OnEvent("error", d, EndCmds)
    /\ UNCHANGED <<hostVars, appVars, req, m_flash_state, listVars, show_menu_flag,
                   main, crossed, unanswered>>

(* Fault: the stage is left when the update starts.                        *)
StageAfterSuccessKept == m_flash_state

(* m_flash_state after an update that succeeds.                            *)
StageAfterSuccess == NextStage[m_flash_state]

OnSuccess(d) ==
    /\ OnEvent("success", d, IF client = "idle" THEN <<>> ELSE EndCmds)
    /\ client' = "idle"
    /\ m_flash_state' = IF client = "idle" THEN m_flash_state ELSE StageAfterSuccess
    /\ UNCHANGED <<timers, conn_handle, appVars, req, listVars, show_menu_flag, main,
                   crossed, unanswered>>

OnRefused(d) ==
    /\ OnEvent("refused", d, EndCmds)
    /\ client' = "idle"
    /\ m_flash_state' = StageAfterFailure
    /\ UNCHANGED <<timers, conn_handle, appVars, req, listVars, show_menu_flag, main,
                   crossed, unanswered>>

(* EB_EVT_GAP_HARDWARE_ERR is not handled, nor a report while no scan is   *)
(* wanted or in its first 100 ms.                                          *)
OnIgnored ==
    /\ \/ OnEvent("hardware_err", NoDev, <<>>)
       \/ \E d \in Dev : OnEvent("adv", d, <<>>)
    /\ UNCHANGED <<hostVars, appVars, req, m_flash_state, listVars, show_menu_flag,
                   main, crossed, unanswered>>

Heard(d) == \E i \in 1..dev_num : dev_report[i] = d

(* A device is noted; one too many ends the scan.                          *)
OnAdvReport(d) ==
    /\ m_scan_state
    /\ IF dev_num = MaxDevs /\ ~Heard(d)
       THEN /\ OnEvent("adv", d, <<ScanEnable(FALSE)>>)
            /\ timers' = timers \ {"scan"}
            /\ ScanStops
       ELSE /\ OnEvent("adv", d, <<>>)
            /\ IF Heard(d) THEN UNCHANGED listVars
               ELSE /\ dev_num' = dev_num + 1
                    /\ dev_report' = [dev_report EXCEPT ![dev_num'] = d]
                    /\ p_dev_report' = [p_dev_report EXCEPT ![dev_num'] = dev_num']
            /\ UNCHANGED <<timers, m_scan_state, main>>
    /\ UNCHANGED <<client, conn_handle, m_buf, req, m_flash_state, show_menu_flag,
                   crossed, unanswered>>

(* conn_dev_by_idx, after timers ts are left.                              *)
ConnDevByIdx(i, ts) ==
    /\ conn_idx' = i
    /\ timers' = ts \cup {"conn"}
    /\ Queue(<<Cmd("connect", Listed(i))>>)

OnTimeout(id) ==
    /\ Looping
    /\ Due(id)
    /\ \/ /\ id = "scan"
          /\ m_flash_state' = "idle"
          /\ timers' = timers \ {"scan"}
          /\ Queue(<<ScanEnable(FALSE)>>)
          /\ ScanStops
          /\ UNCHANGED <<conn_idx, show_menu_flag, crossed>>
       \/ /\ id = "conn"
          /\ m_flash_state' = "idle"
          /\ timers' = timers \ {"conn"}
          /\ Queue(<<Cancel>>)
          /\ show_menu_flag' = TRUE
          /\ UNCHANGED <<m_scan_state, listVars, conn_idx, main, crossed>>
       \/ /\ id = "again"
          /\ ConnDevByIdx(conn_idx, timers \ {"again"})
          /\ UNCHANGED <<m_flash_state, m_scan_state, listVars, show_menu_flag, main,
                         crossed>>
    /\ UNCHANGED <<client, conn_handle, evts, ctrlVars, req, flashed, m_buf, zip,
                   unanswered>>

(* External: the user chooses a device, or 0 for the menu.                 *)
Select ==
    /\ main = "select"
    /\ main' = "loop"
    /\ \/ \E i \in 1..dev_num :
            ConnDevByIdx(i, timers) /\ UNCHANGED show_menu_flag
       \/ show_menu_flag' = TRUE /\ UNCHANGED <<timers, cmds, conn_idx>>
    /\ UNCHANGED <<client, conn_handle, appVars, evts, ctrlVars, req, flashed, faults,
                   zip, m_flash_state, listVars, crossed, unanswered>>

(* External: the user presses a key, and show_menu scans.                  *)
ShowMenu ==
    /\ main = "loop" /\ show_menu_flag
    /\ show_menu_flag' = FALSE
    /\ timers' = timers \cup {"scan"}
    /\ Queue(<<ScanEnable(TRUE)>>)
    /\ ScanStarts
    /\ UNCHANGED <<client, conn_handle, m_buf, evts, ctrlVars, req, flashed, faults,
                   zip, m_flash_state, conn_idx, main, crossed, unanswered>>

OnTxComplete ==
    /\ Looping
    /\ Stray
    /\ UNCHANGED <<hostVars, appVars, evts, cmds, ctrlVars, flashed, faults,
                   singleVars>>

SingleHandler ==
    \/ OnReset
    \/ OnConnectFailed
    \/ OnIgnored
    \/ \E d \in Dev :
        \/ OnConnected(d)
        \/ OnDisconnected(d)
        \/ OnMtuUpdate(d)
        \/ OnFound(d)
        \/ OnErrorRsp(d)
        \/ OnSuccess(d)
        \/ OnRefused(d)
        \/ OnAdvReport(d)

SingleTimeout == \E id \in timers : OnTimeout(id)

SingleNext ==
    \/ SingleHandler
    \/ SingleTimeout
    \/ Select
    \/ ShowMenu
    \/ OnTxComplete
    \/ (Environment /\ UNCHANGED singleVars)

-----------------------------------------------------------------------------
(* A device gets the firmware part only after the boot part of the same    *)
(* zip file, if it has one, however connections end in between, unless a   *)
(* connection that was given up is made all the same                       *)
(* (dfu_single.c:202-225, 331-377, 480-486).                               *)
StagesInOrder ==
    \/ crossed \/ "boot" \notin zip
    \/ \A d \in Dev : <<d, "firmware">> \in flashed => <<d, "boot">> \in flashed

(* The user is asked again after every attempt                             *)
(* (dfu_single.c:47-57, 143-162, 202-210).                                 *)
AskedAgain ==
    (main = "loop") ~> (main # "loop" \/ show_menu_flag \/ gone \/ unanswered)

=============================================================================
