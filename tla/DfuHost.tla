------------------------------- MODULE DfuHost -------------------------------
(***************************************************************************)
(* What the two update programs (dfu_batch.c, dfu_single.c) run on: the    *)
(* timers and eb_init of easyBle.c, the update client of DfuClient of      *)
(* which only "idle" and "run" is left, the controller, and the devices.   *)
(*                                                                         *)
(* evts are the events on their way to the program, in the receive buffer  *)
(* or still in the controller; cmds the commands on theirs to the          *)
(* controller.  eb_schedule looks at the timers only when the buffer is    *)
(* empty; as what evts holds may not have reached the buffer yet, a timer  *)
(* can go off whatever evts holds.  main_function stays what it is;        *)
(* DfuMain composes the two programs.                                      *)
(***************************************************************************)
EXTENDS Integers, Sequences, FiniteSets, SequencesExt

CONSTANTS
    Dev,            \* the devices
    NoDev,          \* no device; INVALID_CONN_HDL
    NoImage,        \* no image
    MaxFaults       \* bound: refusals, failed connections, lost links, hardware
                    \* errors, restarts, timers that go off too early

ASSUME DfuHostAssumption ==
    /\ NoDev \notin Dev
    /\ NoImage \notin Nat
    /\ MaxFaults \in Nat

VARIABLES
    main_function,  \* main_function of the arguments: "single" or "batch"
    timers,         \* timer_rec: the enabled ones
    client,         \* dfu.state: "idle", or "run"
    conn_handle,    \* conn_handle, as the device behind it
    m_scan_state,   \* m_scan_state
    m_buf,          \* m_buf_config, m_buf_image: the image in the buffers
    evts, cmds,
    gone,           \* the controller is out of order until eb_init
    scanning, reported,     \* controller: scans; reported since it started
    initiating,     \* controller: the device it connects to
    peers,          \* controller: the devices it is connected to
    req,            \* what a device has to answer
    flashed,        \* history: devices updated, with the image
    faults          \* history: see the bound

hostVars == <<timers, client, conn_handle>>
ctrlVars == <<gone, scanning, reported, initiating, peers>>
airVars == <<evts, cmds, ctrlVars, req>>
appVars == <<m_scan_state, m_buf>>
dfuHostVars == <<hostVars, appVars, airVars, flashed, faults>>

-----------------------------------------------------------------------------
Event(ev, d) == [ev |-> ev, dev |-> d]
Cmd(cmd, d) == [cmd |-> cmd, dev |-> d]
Request(op, d, image) == [op |-> op, dev |-> d, image |-> image]
NoRequest == Request("none", NoDev, NoImage)

Emit(ev, d) == evts' = Append(evts, Event(ev, d))

(* What is queued for a controller that is out of order stays there until  *)
(* eb_init forgets it.                                                     *)
Queue(cs) == cmds' = IF gone THEN cmds ELSE cmds \o cs

Reset == Cmd("reset", NoDev)
ScanEnable(on) == Cmd(IF on THEN "scan_on" ELSE "scan_off", NoDev)
Cancel == Cmd("cancel", NoDev)

HostInit ==
    /\ main_function \in {"single", "batch"}
    /\ timers = {}
    /\ client = "idle"
    /\ conn_handle = NoDev
    /\ m_scan_state = FALSE
    /\ m_buf = NoImage
    /\ evts = <<>>
    /\ cmds = <<Reset>>
    /\ gone = FALSE
    /\ scanning = FALSE /\ reported = {}
    /\ initiating = NoDev
    /\ peers = {}
    /\ req = NoRequest
    /\ flashed = {}
    /\ faults = 0

(* eb_init, with more to send before it and with the buffer holding what   *)
(* is left: the commands still queued are forgotten, the first of cs may   *)
(* be with the controller already.  Events not yet read are read later.    *)
EbInit(cs, left) ==
    /\ \E k \in 0..Len(cs) :
            /\ k = 0 \/ (k = 1 /\ ~gone)
            /\ cmds' = SubSeq(cs, 1, k) \o <<Reset>>
    /\ \E k \in 0..Len(left) : evts' = SubSeq(left, k + 1, Len(left))
    /\ gone' = FALSE

(* Event ev of d is the next that eb_schedule takes.                       *)
Takes(ev, d) == evts # <<>> /\ Head(evts) = Event(ev, d)

(* A request goes out to d, if there is a link.  The controller carries    *)
(* out a reset it was sent before d can answer.                            *)
Ask(d, op, image) ==
    req' = IF d \in peers /\ Reset \notin ToSet(cmds) THEN Request(op, d, image)
           ELSE req

(* dfu_client_start: nothing, unless the client is idle.                   *)
ClientStart(image) ==
    /\ client' = "run"
    /\ IF client = "idle" THEN Ask(conn_handle, "update", image)
       ELSE UNCHANGED req

(* Number Of Completed Packets: a client that was started on another link  *)
(* may send on this one what it was about to send there.                   *)
Stray ==
    /\ client = "run"
    /\ req = NoRequest
    /\ \A i \in DOMAIN evts : evts[i].ev \notin {"success", "refused"}
    /\ conn_handle \in peers
    /\ Ask(conn_handle, "stray", NoImage)

-----------------------------------------------------------------------------
Failure ==
    /\ faults < MaxFaults
    /\ faults' = faults + 1

(* External: the controller executes the next command.                     *)
Execute ==
    /\ ~gone
    /\ cmds # <<>>
    /\ cmds' = Tail(cmds)
    /\ LET c == Head(cmds)
       IN  \/ /\ c = Reset
              /\ scanning' = FALSE /\ reported' = {}
              /\ initiating' = NoDev
              /\ peers' = {}
              /\ req' = NoRequest
              /\ Emit("reset", NoDev)
           \/ /\ c.cmd \in {"scan_on", "scan_off"}
              /\ scanning' = (c.cmd = "scan_on") /\ reported' = {}
              /\ UNCHANGED <<initiating, peers, req, evts>>
           \/ /\ c.cmd = "connect"
              /\ initiating' = IF initiating = NoDev /\ c.dev \notin peers
                               THEN c.dev ELSE initiating
              /\ UNCHANGED <<scanning, reported, peers, req, evts>>
           \/ /\ c = Cancel
              /\ IF initiating = NoDev THEN UNCHANGED evts
                 ELSE Emit("failed", NoDev)
              /\ initiating' = NoDev
              /\ UNCHANGED <<scanning, reported, peers, req>>
           \/ /\ c.cmd = "disconnect"
              /\ IF c.dev \notin peers THEN UNCHANGED evts
                 ELSE Emit("disconnected", c.dev)
              /\ peers' = peers \ {c.dev}
              /\ req' = IF req.dev = c.dev THEN NoRequest ELSE req
              /\ UNCHANGED <<scanning, reported, initiating>>
    /\ UNCHANGED <<hostVars, appVars, gone, flashed, faults>>

(* External: a device that is heard is reported, once a scan.              *)
Advertise(d) ==
    /\ ~gone
    /\ scanning
    /\ d \notin reported \cup peers
    /\ reported' = reported \cup {d}
    /\ Emit("adv", d)
    /\ UNCHANGED <<hostVars, appVars, cmds, gone, scanning, initiating, peers, req,
                   flashed, faults>>

Established ==
    /\ ~gone
    /\ initiating # NoDev
    /\ initiating' = NoDev
    /\ peers' = peers \cup {initiating}
    /\ Emit("connected", initiating)
    /\ UNCHANGED <<hostVars, appVars, cmds, gone, scanning, reported, req, flashed,
                   faults>>

EstablishFails ==
    /\ ~gone
    /\ initiating # NoDev
    /\ Failure
    /\ initiating' = NoDev
    /\ Emit("failed", NoDev)
    /\ UNCHANGED <<hostVars, appVars, cmds, gone, scanning, reported, peers, req, flashed>>

(* The device answers; when it has the whole image it is updated.          *)
Answers ==
    /\ req.op # "none"
    /\ \/ /\ req.op \in {"mtu", "find"}
          /\ Emit(IF req.op = "mtu" THEN "mtu" ELSE "found", req.dev)
          /\ UNCHANGED flashed
       \/ /\ req.op = "update" /\ req.image # NoImage
          /\ Emit("success", req.dev)
          /\ flashed' = flashed \cup {<<req.dev, req.image>>}
       \/ /\ req.op = "stray"
          /\ Emit("refused", req.dev)
          /\ UNCHANGED flashed
    /\ req' = NoRequest
    /\ UNCHANGED <<hostVars, appVars, cmds, ctrlVars, faults>>

Refuses ==
    /\ req.op \in {"find", "update"}
    /\ Failure
    /\ Emit(IF req.op = "find" THEN "error" ELSE "refused", req.dev)
    /\ req' = NoRequest
    /\ UNCHANGED <<hostVars, appVars, cmds, ctrlVars, flashed>>

(* A link is lost, or the device ends it as nothing happens on it, which   *)
(* it also does when it restarts after an update.                          *)
Silent(d) == req.dev # d /\ evts = <<>> /\ cmds = <<>>

LinkEnds(d) ==
    /\ d \in peers
    /\ IF Silent(d) THEN UNCHANGED faults ELSE Failure
    /\ peers' = peers \ {d}
    /\ req' = IF req.dev = d THEN NoRequest ELSE req
    /\ Emit("disconnected", d)
    /\ UNCHANGED <<hostVars, appVars, cmds, gone, scanning, reported, initiating, flashed>>

(* The controller fails and loses all it knows.                            *)
Breaks ==
    /\ ~gone
    /\ Failure
    /\ gone' = TRUE
    /\ scanning' = FALSE /\ reported' = {}
    /\ initiating' = NoDev
    /\ peers' = {}
    /\ req' = NoRequest
    /\ Emit("hardware_err", NoDev)
    /\ UNCHANGED <<hostVars, appVars, cmds, flashed>>

(* An event arrives garbled, which the host takes for a hardware error.    *)
Garbled ==
    /\ Failure
    /\ Emit("hardware_err", NoDev)
    /\ UNCHANGED <<hostVars, appVars, cmds, ctrlVars, req, flashed>>

Environment ==
    \/ Execute
    \/ \E d \in Dev : Advertise(d) \/ LinkEnds(d)
    \/ Established
    \/ EstablishFails
    \/ Answers
    \/ Refuses
    \/ Breaks
    \/ Garbled

(* Something the program waits for is under way.                           *)
Busy ==
    \/ evts # <<>>
    \/ ~gone /\ cmds # <<>>
    \/ initiating # NoDev
    \/ req.op # "none"
    \/ scanning /\ reported \cup peers # Dev

(* eb_check_timer finds that timer id is due: it runs for seconds, in      *)
(* which the controller is done with a reset.                              *)
Due(id) ==
    /\ id \in timers
    /\ gone \/ Reset \notin ToSet(cmds)
    /\ \A i \in DOMAIN evts : evts[i].ev # "reset"
    /\ IF Busy THEN Failure ELSE UNCHANGED faults

(* The controller works, and devices answer and are heard.                 *)
EnvironmentFairness ==
    /\ WF_dfuHostVars(Execute)
    /\ \A d \in Dev :
        /\ WF_dfuHostVars(Advertise(d))
        /\ WF_dfuHostVars(Silent(d) /\ LinkEnds(d))
    /\ WF_dfuHostVars(Established)
    /\ WF_dfuHostVars(Answers)

=============================================================================
