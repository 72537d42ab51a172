---------------------------- MODULE DfuAppsProofs ----------------------------
(***************************************************************************)
(* Proofs about DfuMain, for every number of devices and items, and any    *)
(* number of faults of the controller, the devices and the timers: the     *)
(* interactive program updates in the right order, the unattended one      *)
(* updates the right devices.                                              *)
(***************************************************************************)
EXTENDS DfuMain, SequenceTheorems, FiniteSetTheorems, WellFoundedInduction, TLAPS

Device == Dev \cup {NoDev}

EventSet ==
    [ev : {"reset", "connected", "failed", "disconnected", "mtu", "found", "error",
           "success", "refused", "adv", "hardware_err"},
     dev : Device]

CommandSet ==
    [cmd : {"reset", "scan_on", "scan_off", "cancel", "connect", "disconnect"},
     dev : Device]

HostType ==
    /\ main_function \in {"single", "batch"}
    /\ timers \subseteq {"scan", "conn", "again", "disc"}
    /\ client \in {"idle", "run"}
    /\ conn_handle \in Device
    /\ m_scan_state \in BOOLEAN
    /\ evts \in Seq(EventSet)
    /\ cmds \in Seq(CommandSet)
    /\ gone \in BOOLEAN
    /\ initiating \in Device
    /\ peers \subseteq Dev
    /\ req.op \in {"none", "mtu", "find", "update", "stray"}
    /\ req.dev \in Device

SingleType ==
    /\ dev_report \in [1 .. MaxDevs -> Device]
    /\ p_dev_report \in [1 .. MaxDevs -> 1 .. MaxDevs]
    /\ dev_num \in 0 .. MaxDevs
    /\ conn_idx \in 1 .. MaxDevs

BatchType ==
    /\ Items = 1 .. Len(dev_list) /\ Len(dev_list) \in Nat
    /\ \A i \in Items :
        dev_list[i] \in [match : SUBSET Dev, file : BOOLEAN, repeat : BOOLEAN]
    /\ is_valid \in [Items -> BOOLEAN]
    /\ suc_file \in [Items -> 0 .. 2]
    /\ m_cur_dev \in Items \cup {NoItem}

-----------------------------------------------------------------------------
(* Sequences.                                                              *)
LEMMA AppendFacts ==
    ASSUME NEW S, NEW s \in Seq(S), NEW e \in S
    PROVE  /\ Append(s, e) \in Seq(S)
           /\ Len(s) \in Nat
           /\ DOMAIN s = 1 .. Len(s)
           /\ DOMAIN Append(s, e) = 1 .. Len(s) + 1
           /\ Len(Append(s, e)) = Len(s) + 1
           /\ \A i \in 1 .. Len(s) : Append(s, e)[i] = s[i]
           /\ Append(s, e)[Len(s) + 1] = e
BY AppendProperties, LenProperties

LEMMA TailFacts ==
    ASSUME NEW S, NEW s \in Seq(S), s # <<>>
    PROVE  /\ Tail(s) \in Seq(S)
           /\ Len(s) \in Nat \ {0}
           /\ DOMAIN s = 1 .. Len(s)
           /\ DOMAIN Tail(s) = 1 .. Len(s) - 1
           /\ Len(Tail(s)) = Len(s) - 1
           /\ \A i \in 1 .. Len(s) - 1 : Tail(s)[i] = s[i + 1]
           /\ Head(s) = s[1] /\ Head(s) \in S
<1>1. /\ Tail(s) \in Seq(S) /\ Len(Tail(s)) = Len(s) - 1 /\ Head(s) \in S
      /\ \A i \in 1 .. Len(Tail(s)) : Tail(s)[i] = s[i + 1]
  BY HeadTailProperties
<1>2. Len(s) \in Nat \ {0} /\ DOMAIN s = 1 .. Len(s)
  BY EmptySeq, LenProperties
<1>3. DOMAIN Tail(s) = 1 .. Len(Tail(s))
  BY <1>1, LenProperties
<1> QED
  BY <1>1, <1>2, <1>3

LEMMA ConcatFacts ==
    ASSUME NEW S, NEW s \in Seq(S), NEW t \in Seq(S)
    PROVE  /\ s \o t \in Seq(S)
           /\ Len(s) \in Nat /\ Len(t) \in Nat
           /\ DOMAIN s = 1 .. Len(s) /\ DOMAIN t = 1 .. Len(t)
           /\ DOMAIN (s \o t) = 1 .. Len(s) + Len(t)
           /\ Len(s \o t) = Len(s) + Len(t)
           /\ \A i \in 1 .. Len(s) : (s \o t)[i] = s[i]
           /\ \A i \in 1 .. Len(t) : (s \o t)[Len(s) + i] = t[i]
           /\ ToSet(s \o t) = ToSet(s) \cup ToSet(t)
<1>1. /\ s \o t \in Seq(S) /\ Len(s \o t) = Len(s) + Len(t)
      /\ Len(s) \in Nat /\ Len(t) \in Nat
      /\ DOMAIN s = 1 .. Len(s) /\ DOMAIN t = 1 .. Len(t)
      /\ \A i \in 1 .. Len(s) + Len(t) :
            (s \o t)[i] = IF i <= Len(s) THEN s[i] ELSE t[i - Len(s)]
  BY ConcatProperties, LenProperties
<1>2. DOMAIN (s \o t) = 1 .. Len(s) + Len(t)
  BY <1>1, LenProperties
<1>3. \A i \in 1 .. Len(s) : (s \o t)[i] = s[i]
  BY <1>1
<1>4. \A i \in 1 .. Len(t) : (s \o t)[Len(s) + i] = t[i]
  <2> SUFFICES ASSUME NEW i \in 1 .. Len(t) PROVE (s \o t)[Len(s) + i] = t[i]
    OBVIOUS
  <2>1. Len(s) + i \in 1 .. Len(s) + Len(t) /\ ~(Len(s) + i <= Len(s))
        /\ (Len(s) + i) - Len(s) = i
    BY <1>1
  <2> QED
    BY <1>1, <2>1
<1>5. ASSUME NEW x \in ToSet(s \o t) PROVE x \in ToSet(s) \cup ToSet(t)
  <2>1. PICK i \in 1 .. Len(s) + Len(t) : x = (s \o t)[i]
    BY <1>2, <1>5 DEF ToSet
  <2>2. i \in 1 .. Len(s) \/ i - Len(s) \in 1 .. Len(t)
    BY <1>1
  <2> QED
    BY <1>1, <2>1, <2>2 DEF ToSet
<1>6. ASSUME NEW x \in ToSet(s) PROVE x \in ToSet(s \o t)
  BY <1>1, <1>2, <1>3, <1>6 DEF ToSet
<1>7. ASSUME NEW x \in ToSet(t) PROVE x \in ToSet(s \o t)
  <2>1. PICK i \in 1 .. Len(t) : x = t[i]
    BY <1>1, <1>7 DEF ToSet
  <2>2. Len(s) + i \in 1 .. Len(s) + Len(t) /\ (s \o t)[Len(s) + i] = x
    BY <1>1, <1>4, <2>1
  <2> QED
    BY <1>2, <2>2 DEF ToSet
<1> QED
  BY <1>1, <1>2, <1>3, <1>4, <1>5, <1>6, <1>7

(* What is left when the first k are gone.                                 *)
LEMMA SuffixFacts ==
    ASSUME NEW S, NEW s \in Seq(S), NEW k \in 0 .. Len(s)
    PROVE  /\ SubSeq(s, k + 1, Len(s)) \in Seq(S)
           /\ Len(s) \in Nat
           /\ DOMAIN s = 1 .. Len(s)
           /\ DOMAIN SubSeq(s, k + 1, Len(s)) = 1 .. Len(s) - k
           /\ \A i \in 1 .. Len(s) - k : SubSeq(s, k + 1, Len(s))[i] = s[k + i]
<1>1. /\ Len(s) \in Nat /\ DOMAIN s = 1 .. Len(s) /\ k + 1 \in Int
      /\ \A i \in k + 1 .. Len(s) : s[i] \in S
  BY LenProperties, ElementOfSeq
<1>2. /\ SubSeq(s, k + 1, Len(s)) \in Seq(S)
      /\ Len(SubSeq(s, k + 1, Len(s)))
            = IF k + 1 <= Len(s) THEN Len(s) - (k + 1) + 1 ELSE 0
      /\ \A i \in 1 .. Len(s) - (k + 1) + 1 :
            SubSeq(s, k + 1, Len(s))[i] = s[k + 1 + i - 1]
  BY <1>1, SubSeqProperties
<1>3. DOMAIN SubSeq(s, k + 1, Len(s)) = 1 .. Len(SubSeq(s, k + 1, Len(s)))
  BY <1>2, LenProperties
<1> DEFINE t == SubSeq(s, k + 1, Len(s))
           n == Len(s)
<1> HIDE DEF t, n
<1>4. Len(t) = n - k
  <2>1. n \in Nat /\ k \in 0 .. n
    BY <1>1 DEF n
  <2>2. (IF k + 1 <= n THEN n - (k + 1) + 1 ELSE 0) = n - k
    BY <2>1
  <2> QED
    BY <1>2, <2>2 DEF t, n
<1>5. \A i \in 1 .. n - k : i \in 1 .. n - (k + 1) + 1 /\ k + 1 + i - 1 = k + i
  BY <1>1 DEF n
<1>6. \A i \in 1 .. n - k : t[i] = s[k + i]
  BY <1>2, <1>5 DEF t, n
<1>7. DOMAIN t = 1 .. n - k
  BY <1>3, <1>4 DEF t
<1> QED
  BY <1>1, <1>2, <1>6, <1>7 DEF t, n

LEMMA MinOf ==
    ASSUME NEW S, S \subseteq Nat, S # {}
    PROVE  \E x \in S : \A y \in S : x <= y
<1>1. PICK x \in S : \A y \in S : ~(<<y, x>> \in OpToRel(<, Nat))
  BY NatLessThanWellFounded, WFMin
<1>2. ASSUME NEW y \in S PROVE x <= y
  <2>1. y \in Nat /\ x \in Nat
    OBVIOUS
  <2>2. ~(y < x)
    BY <1>1, <2>1 DEF OpToRel
  <2> QED
    BY <2>1, <2>2
<1> QED
  BY <1>2

LEMMA BijectionType ==
    ASSUME NEW n \in Nat, NEW f \in Bijection(1 .. n, 1 .. n)
    PROVE  f \in [1 .. n -> 1 .. n]
BY DEF Bijection, Injection

-----------------------------------------------------------------------------
(* Types.                                                                  *)
Evs == {"reset", "connected", "failed", "disconnected", "mtu", "found", "error",
        "success", "refused", "adv", "hardware_err"}
Ops == {"none", "mtu", "find", "update", "stray"}

LEMMA EmitType ==
    ASSUME HostType, NEW ev \in Evs, NEW d \in Device, Emit(ev, d)
    PROVE  evts' \in Seq(EventSet)
<1>1. Event(ev, d) \in EventSet
  BY DEF Event, EventSet, Evs
<1> QED
  BY <1>1, AppendFacts DEF Emit, HostType

LEMMA QueueType ==
    ASSUME HostType, NEW cs \in Seq(CommandSet), Queue(cs)
    PROVE  cmds' \in Seq(CommandSet)
BY ConcatFacts DEF Queue, HostType

LEMMA AskType ==
    ASSUME HostType, NEW d \in Device, NEW op \in Ops, NEW image, Ask(d, op, image)
    PROVE  req'.op \in Ops /\ req'.dev \in Device
BY DEF Ask, Request, HostType, Ops

LEMMA EbInitType ==
    ASSUME NEW cs \in Seq(CommandSet), NEW left \in Seq(EventSet), EbInit(cs, left)
    PROVE  cmds' \in Seq(CommandSet) /\ evts' \in Seq(EventSet) /\ gone' \in BOOLEAN
<1>1. PICK k \in 0 .. Len(cs) : cmds' = SubSeq(cs, 1, k) \o <<Reset>>
  BY DEF EbInit
<1>2. PICK j \in 0 .. Len(left) : evts' = SubSeq(left, j + 1, Len(left))
  BY DEF EbInit
<1>3. SubSeq(cs, 1, k) \in Seq(CommandSet)
  <2>1. \A i \in 1 .. k : cs[i] \in CommandSet
    BY LenProperties, ElementOfSeq
  <2>2. k \in Int
    BY LenProperties
  <2> QED
    BY <2>1, <2>2, SubSeqProperties
<1>4. <<Reset>> \in Seq(CommandSet)
  BY DEF Reset, Cmd, CommandSet, Device
<1>5. cmds' \in Seq(CommandSet)
  BY <1>1, <1>3, <1>4, ConcatProperties
<1>6. evts' \in Seq(EventSet)
  BY <1>2, SuffixFacts
<1>7. gone' = FALSE
  BY DEF EbInit
<1> QED
  BY <1>5, <1>6, <1>7

LEMMA CommandTypes ==
    /\ <<>> \in Seq(CommandSet) /\ <<Reset>> \in Seq(CommandSet)
    /\ <<Cancel>> \in Seq(CommandSet)
    /\ \A on \in BOOLEAN : <<ScanEnable(on)>> \in Seq(CommandSet)
    /\ \A d \in Device : /\ <<Cmd("connect", d)>> \in Seq(CommandSet)
                         /\ <<Cmd("disconnect", d)>> \in Seq(CommandSet)
BY DEF Reset, Cancel, ScanEnable, Cmd, CommandSet, Device

LEMMA EnvironmentType ==
    ASSUME HostType, Environment, main_function' = main_function
    PROVE  HostType'
<1> USE DEF HostType, Device
<1>1. CASE Execute
  <2>1. cmds' = Tail(cmds) /\ cmds # <<>> /\ cmds' \in Seq(CommandSet)
        /\ Head(cmds) \in CommandSet
    BY <1>1, TailFacts DEF Execute
  <2>2. /\ UNCHANGED <<hostVars, m_scan_state, gone>>
        /\ initiating' \in {NoDev, initiating, Head(cmds).dev}
        /\ peers' \subseteq peers
        /\ req' \in {req, NoRequest}
        /\ evts' = evts \/ Emit("reset", NoDev) \/ Emit("failed", NoDev)
                        \/ Emit("disconnected", Head(cmds).dev)
    BY <1>1 DEF Execute, appVars
  <2>3. Head(cmds).dev \in Device
    BY <2>1 DEF CommandSet
  <2>4. evts' \in Seq(EventSet)
    BY <2>2, <2>3, EmitType DEF Evs
  <2> QED
    BY <2>1, <2>2, <2>3, <2>4 DEF NoRequest, Request, hostVars
<1>2. ASSUME NEW d \in Dev, Advertise(d) PROVE HostType'
  <2>1. evts' \in Seq(EventSet)
    BY <1>2, EmitType DEF Advertise, Evs
  <2> QED
    BY <1>2, <2>1 DEF Advertise, hostVars, appVars
<1>3. ASSUME NEW d \in Dev, LinkEnds(d) PROVE HostType'
  <2>1. evts' \in Seq(EventSet)
    BY <1>3, EmitType DEF LinkEnds, Evs
  <2> QED
    BY <1>3, <2>1 DEF LinkEnds, hostVars, appVars, NoRequest, Request
<1>4. CASE Established
  <2>1. evts' \in Seq(EventSet)
    BY <1>4, EmitType DEF Established, Evs
  <2> QED
    BY <1>4, <2>1 DEF Established, hostVars, appVars
<1>5. CASE EstablishFails
  <2>1. evts' \in Seq(EventSet)
    BY <1>5, EmitType DEF EstablishFails, Evs
  <2> QED
    BY <1>5, <2>1 DEF EstablishFails, hostVars, appVars
<1>6. CASE Answers
  <2>1. evts' \in Seq(EventSet)
    BY <1>6, EmitType DEF Answers, Evs
  <2> QED
    BY <1>6, <2>1 DEF Answers, hostVars, appVars, ctrlVars, NoRequest, Request
<1>7. CASE Refuses
  <2>1. evts' \in Seq(EventSet)
    BY <1>7, EmitType DEF Refuses, Evs
  <2> QED
    BY <1>7, <2>1 DEF Refuses, hostVars, appVars, ctrlVars, NoRequest, Request
<1>8. CASE Breaks
  <2>1. evts' \in Seq(EventSet)
    BY <1>8, EmitType DEF Breaks, Evs
  <2> QED
    BY <1>8, <2>1 DEF Breaks, hostVars, appVars, NoRequest, Request
<1>9. CASE Garbled
  <2>1. evts' \in Seq(EventSet)
    BY <1>9, EmitType DEF Garbled, Evs
  <2> QED
    BY <1>9, <2>1 DEF Garbled, hostVars, appVars, ctrlVars
<1> QED
  BY <1>1, <1>2, <1>3, <1>4, <1>5, <1>6, <1>7, <1>8, <1>9 DEF Environment

LEMMA OnEventType ==
    ASSUME HostType, NEW ev, NEW d, NEW cs \in Seq(CommandSet), OnEvent(ev, d, cs)
    PROVE  /\ evts' \in Seq(EventSet) /\ cmds' \in Seq(CommandSet)
           /\ UNCHANGED <<gone, initiating, peers, conn_idx>>
<1>1. evts # <<>> /\ evts' = Tail(evts) /\ Queue(cs)
  BY DEF OnEvent, Takes
<1>2. evts' \in Seq(EventSet)
  BY <1>1, TailFacts DEF HostType
<1> QED
  BY <1>1, <1>2, QueueType DEF OnEvent, ctrlVars

LEMMA ScanStopsType ==
    ASSUME SingleType, ScanStops
    PROVE  p_dev_report' \in [1 .. MaxDevs -> 1 .. MaxDevs]
<1>1. PICK f \in Bijection(1 .. dev_num, 1 .. dev_num) :
        p_dev_report' = [i \in 1 .. MaxDevs |->
            IF i <= dev_num THEN p_dev_report[f[i]] ELSE p_dev_report[i]]
  BY DEF ScanStops
<1>2. f \in [1 .. dev_num -> 1 .. dev_num]
  BY BijectionType, DfuSingleAssumption, SMTT(20) DEF SingleType
<1>3. ASSUME NEW i \in 1 .. MaxDevs
      PROVE  (IF i <= dev_num THEN p_dev_report[f[i]] ELSE p_dev_report[i]) \in 1 .. MaxDevs
  <2>1. i <= dev_num => f[i] \in 1 .. MaxDevs
    BY <1>2, DfuSingleAssumption DEF SingleType
  <2> QED
    BY <2>1 DEF SingleType
<1> QED
  BY <1>1, <1>3

LEMMA EndCmdsType ==
    ASSUME HostType
    PROVE  /\ EndCmds \in Seq(CommandSet)
           /\ (IF client = "idle" THEN <<>> ELSE EndCmds) \in Seq(CommandSet)
BY CommandTypes DEF EndCmds, HostType

LEMMA SingleHandlerType ==
    ASSUME HostType, SingleType, SingleHandler, main_function' = main_function
    PROVE  HostType' /\ SingleType'
<1> USE DEF listVars
<1>1. CASE OnReset
  <2>1. <<ScanEnable(TRUE)>> \in Seq(CommandSet)
    BY CommandTypes
  <2>2. /\ evts' \in Seq(EventSet) /\ cmds' \in Seq(CommandSet)
        /\ UNCHANGED <<gone, initiating, peers, conn_idx>>
    BY <1>1, <2>1, OnEventType DEF OnReset
  <2> QED
    BY <1>1, <2>2, DfuSingleAssumption DEF OnReset, ScanStarts, HostType, SingleType, Device
<1>2. CASE OnConnectFailed
  <2>1. /\ evts' \in Seq(EventSet) /\ cmds' \in Seq(CommandSet)
        /\ UNCHANGED <<gone, initiating, peers, conn_idx>>
    BY <1>2, OnEventType, CommandTypes DEF OnConnectFailed
  <2> QED
    BY <1>2, <2>1 DEF OnConnectFailed, HostType, SingleType, appVars
<1>3. CASE OnIgnored
  <2>1. /\ evts' \in Seq(EventSet) /\ cmds' \in Seq(CommandSet)
        /\ UNCHANGED <<gone, initiating, peers, conn_idx>>
    BY <1>3, OnEventType, CommandTypes DEF OnIgnored
  <2> QED
    BY <1>3, <2>1 DEF OnIgnored, HostType, SingleType, hostVars, appVars
<1>4. ASSUME NEW d \in Dev, OnConnected(d) PROVE HostType' /\ SingleType'
  <2>1. /\ evts' \in Seq(EventSet) /\ cmds' \in Seq(CommandSet)
        /\ UNCHANGED <<gone, initiating, peers, conn_idx>>
    BY <1>4, OnEventType, CommandTypes DEF OnConnected
  <2>2. req'.op \in Ops /\ req'.dev \in Device
    BY <1>4, AskType DEF OnConnected, Device, Ops
  <2> QED
    BY <1>4, <2>1, <2>2 DEF OnConnected, HostType, SingleType, appVars, Device, Ops
<1>5. ASSUME NEW d \in Dev, OnDisconnected(d) PROVE HostType' /\ SingleType'
  <2>1. /\ evts' \in Seq(EventSet) /\ cmds' \in Seq(CommandSet)
        /\ UNCHANGED <<gone, initiating, peers, conn_idx>>
    BY <1>5, OnEventType, EndCmdsType DEF OnDisconnected
  <2>2. timers' \in {timers, timers \cup {"again"}}
    BY <1>5 DEF OnDisconnected
  <2> QED
    BY <1>5, <2>1, <2>2 DEF OnDisconnected, HostType, SingleType, appVars
<1>6. ASSUME NEW d \in Dev, OnMtuUpdate(d) PROVE HostType' /\ SingleType'
  <2>1. /\ evts' \in Seq(EventSet) /\ cmds' \in Seq(CommandSet)
        /\ UNCHANGED <<gone, initiating, peers, conn_idx>>
    BY <1>6, OnEventType, CommandTypes DEF OnMtuUpdate
  <2>2. req'.op \in Ops /\ req'.dev \in Device
    BY <1>6, AskType DEF OnMtuUpdate, HostType, Ops
  <2> QED
    BY <1>6, <2>1, <2>2 DEF OnMtuUpdate, HostType, SingleType, hostVars, appVars, Ops
<1>7. ASSUME NEW d \in Dev, OnFound(d) PROVE HostType' /\ SingleType'
  <2>1. /\ evts' \in Seq(EventSet) /\ cmds' \in Seq(CommandSet)
        /\ UNCHANGED <<gone, initiating, peers, conn_idx>>
    BY <1>7, OnEventType, CommandTypes DEF OnFound
  <2>2. /\ req' = req \/ Ask(conn_handle, "update", Stage(m_flash_state))
        /\ client' \in {client, "run"}
    BY <1>7 DEF OnFound, ClientStart
  <2>3. req'.op \in Ops /\ req'.dev \in Device
    BY <2>2, AskType DEF HostType, Ops
  <2> QED
    BY <1>7, <2>1, <2>2, <2>3 DEF OnFound, HostType, SingleType, Ops
<1>8. ASSUME NEW d \in Dev, OnErrorRsp(d) PROVE HostType' /\ SingleType'
  <2>1. /\ evts' \in Seq(EventSet) /\ cmds' \in Seq(CommandSet)
        /\ UNCHANGED <<gone, initiating, peers, conn_idx>>
    BY <1>8, OnEventType, EndCmdsType DEF OnErrorRsp
  <2> QED
    BY <1>8, <2>1 DEF OnErrorRsp, HostType, SingleType, hostVars, appVars
<1>9. ASSUME NEW d \in Dev, OnSuccess(d) PROVE HostType' /\ SingleType'
  <2>1. /\ evts' \in Seq(EventSet) /\ cmds' \in Seq(CommandSet)
        /\ UNCHANGED <<gone, initiating, peers, conn_idx>>
    BY <1>9, OnEventType, EndCmdsType DEF OnSuccess
  <2> QED
    BY <1>9, <2>1 DEF OnSuccess, HostType, SingleType, appVars
<1>10. ASSUME NEW d \in Dev, OnRefused(d) PROVE HostType' /\ SingleType'
  <2>1. /\ evts' \in Seq(EventSet) /\ cmds' \in Seq(CommandSet)
        /\ UNCHANGED <<gone, initiating, peers, conn_idx>>
    BY <1>10, OnEventType, EndCmdsType DEF OnRefused
  <2> QED
    BY <1>10, <2>1 DEF OnRefused, HostType, SingleType, appVars
<1>11. ASSUME NEW d \in Dev, OnAdvReport(d) PROVE HostType' /\ SingleType'
  <2>1. CASE dev_num = MaxDevs /\ ~Heard(d)
    <3>1. <<ScanEnable(FALSE)>> \in Seq(CommandSet)
      BY CommandTypes
    <3>2. /\ evts' \in Seq(EventSet) /\ cmds' \in Seq(CommandSet)
          /\ UNCHANGED <<gone, initiating, peers, conn_idx>>
      BY <1>11, <2>1, <3>1, OnEventType DEF OnAdvReport
    <3>3. p_dev_report' \in [1 .. MaxDevs -> 1 .. MaxDevs]
      BY <1>11, <2>1, ScanStopsType DEF OnAdvReport
    <3> QED
      BY <1>11, <2>1, <3>2, <3>3 DEF OnAdvReport, ScanStops, HostType, SingleType
  <2>2. CASE ~(dev_num = MaxDevs /\ ~Heard(d))
    <3>1. /\ evts' \in Seq(EventSet) /\ cmds' \in Seq(CommandSet)
          /\ UNCHANGED <<gone, initiating, peers, conn_idx>>
      BY <1>11, <2>2, OnEventType, CommandTypes DEF OnAdvReport
    <3>2. CASE Heard(d)
      BY <1>11, <2>2, <3>1, <3>2 DEF OnAdvReport, HostType, SingleType
    <3>3. CASE ~Heard(d)
      <4>1. dev_num + 1 \in 1 .. MaxDevs
        BY <2>2, <3>3, DfuSingleAssumption DEF SingleType
      <4>2. /\ dev_num' = dev_num + 1
            /\ dev_report' = [dev_report EXCEPT ![dev_num'] = d]
            /\ p_dev_report' = [p_dev_report EXCEPT ![dev_num'] = dev_num']
            /\ UNCHANGED <<timers, m_scan_state, client, conn_handle, req>>
        BY <1>11, <2>2, <3>3 DEF OnAdvReport
      <4>3. SingleType'
        BY <3>1, <4>1, <4>2 DEF SingleType, Device
      <4>4. HostType'
        BY <3>1, <4>2 DEF HostType
      <4> QED
        BY <4>3, <4>4
    <3> QED
      BY <3>2, <3>3
  <2> QED
    BY <2>1, <2>2
<1> QED
  BY <1>1, <1>2, <1>3, <1>4, <1>5, <1>6, <1>7, <1>8, <1>9, <1>10, <1>11
     DEF SingleHandler

LEMMA SingleNextType ==
    ASSUME HostType, SingleType, SingleNext, main_function' = main_function
    PROVE  HostType' /\ SingleType'
<1> USE DEF listVars
<1>1. \A i \in 1 .. MaxDevs : <<Cmd("connect", Listed(i))>> \in Seq(CommandSet)
  <2>1. \A i \in 1 .. MaxDevs : Listed(i) \in Device
    BY DEF Listed, SingleType
  <2> QED
    BY <2>1, CommandTypes
<1>2. ASSUME NEW id \in timers, OnTimeout(id) PROVE HostType' /\ SingleType'
  <2>1. CASE id = "scan"
    <3>1. <<ScanEnable(FALSE)>> \in Seq(CommandSet)
      BY CommandTypes
    <3>2. cmds' \in Seq(CommandSet)
      BY <1>2, <2>1, <3>1, QueueType DEF OnTimeout
    <3>3. p_dev_report' \in [1 .. MaxDevs -> 1 .. MaxDevs]
      BY <1>2, <2>1, ScanStopsType DEF OnTimeout
    <3> QED
      BY <1>2, <2>1, <3>2, <3>3
         DEF OnTimeout, ScanStops, HostType, SingleType, ctrlVars
  <2>2. CASE id = "conn"
    <3>1. cmds' \in Seq(CommandSet)
      BY <1>2, <2>2, CommandTypes, QueueType DEF OnTimeout
    <3> QED
      BY <1>2, <2>2, <3>1 DEF OnTimeout, HostType, SingleType, ctrlVars
  <2>3. CASE id = "again"
    <3>1. ConnDevByIdx(conn_idx, timers \ {"again"})
      BY <1>2, <2>3 DEF OnTimeout
    <3>2. cmds' \in Seq(CommandSet)
      BY <1>1, <3>1, QueueType DEF ConnDevByIdx, SingleType
    <3> QED
      BY <1>2, <2>3, <3>1, <3>2
         DEF OnTimeout, ConnDevByIdx, HostType, SingleType, ctrlVars
  <2> QED
    BY <1>2, <2>1, <2>2, <2>3 DEF OnTimeout
<1>3. CASE Select
  <2>1. ASSUME NEW i \in 1 .. dev_num, ConnDevByIdx(i, timers)
        PROVE  HostType' /\ SingleType'
    <3>1. i \in 1 .. MaxDevs
      BY DfuSingleAssumption DEF SingleType
    <3>2. cmds' \in Seq(CommandSet)
      BY <1>1, <2>1, <3>1, QueueType DEF ConnDevByIdx
    <3> QED
      BY <1>3, <2>1, <3>1, <3>2
         DEF Select, ConnDevByIdx, HostType, SingleType, ctrlVars, appVars
  <2>2. CASE UNCHANGED <<timers, cmds, conn_idx>>
    BY <1>3, <2>2 DEF Select, HostType, SingleType, ctrlVars, appVars
  <2> QED
    BY <1>3, <2>1, <2>2 DEF Select
<1>4. CASE ShowMenu
  <2>1. <<ScanEnable(TRUE)>> \in Seq(CommandSet)
    BY CommandTypes
  <2>2. cmds' \in Seq(CommandSet)
    BY <1>4, <2>1, QueueType DEF ShowMenu
  <2> QED
    BY <1>4, <2>2, DfuSingleAssumption
       DEF ShowMenu, ScanStarts, HostType, SingleType, ctrlVars, Device
<1>5. CASE OnTxComplete
  <2>1. req'.op \in Ops /\ req'.dev \in Device
    BY <1>5, AskType DEF OnTxComplete, Stray, HostType, Ops
  <2> QED
    BY <1>5, <2>1
       DEF OnTxComplete, HostType, SingleType, singleVars, hostVars, ctrlVars, appVars, Ops
<1>6. CASE Environment /\ UNCHANGED singleVars
  BY <1>6, EnvironmentType DEF singleVars, SingleType
<1> QED
  BY <1>2, <1>3, <1>4, <1>5, <1>6, SingleHandlerType DEF SingleNext, SingleTimeout

LEMMA HandleType ==
    ASSUME HostType, NEW ev, NEW d, NEW cs \in Seq(CommandSet), Handle(ev, d, cs)
    PROVE  /\ evts' \in Seq(EventSet) /\ cmds' \in Seq(CommandSet)
           /\ UNCHANGED <<gone, initiating, peers, dev_list>>
<1>1. evts # <<>> /\ evts' = Tail(evts) /\ Queue(cs)
  BY DEF Handle, Takes
<1>2. evts' \in Seq(EventSet)
  BY <1>1, TailFacts DEF HostType
<1> QED
  BY <1>1, <1>2, QueueType DEF Handle, ctrlVars

LEMMA ScanType ==
    ASSUME HostType, NEW on \in BOOLEAN
    PROVE  /\ ScanCmds(on) \in Seq(CommandSet)
           /\ ScanTimers(on) \subseteq timers \cup {"scan"}
BY CommandTypes DEF ScanCmds, ScanTimers, HostType

(* The item chosen is one that matches, valid and with its file.           *)
LEMMA ChosenItem ==
    ASSUME BatchType, NEW d
    PROVE  /\ Chosen(d) \in Items \cup {NoItem}
           /\ Chosen(d) # NoItem =>
                /\ Chosen(d) \in Items /\ is_valid[Chosen(d)]
                /\ d \in dev_list[Chosen(d)].match
<1>1. WithFile(d) \subseteq Items /\ Items \subseteq Nat /\ NoItem \notin Items
  BY DEF WithFile, Matching, BatchType, NoItem
<1>2. CASE WithFile(d) = {}
  BY <1>1, <1>2 DEF Chosen
<1>3. CASE WithFile(d) # {}
  <2>1. \E i \in WithFile(d) : \A j \in WithFile(d) : i <= j
    BY <1>1, <1>3, MinOf
  <2>2. Chosen(d) \in WithFile(d)
    BY <1>3, <2>1 DEF Chosen
  <2> QED
    BY <1>1, <2>2 DEF WithFile, Matching
<1> QED
  BY <1>2, <1>3

LEMMA ResetsType ==
    ASSUME BatchType, NEW d
    PROVE  /\ Cardinality(Missing(d)) \in Nat
           /\ [i \in 1 .. Cardinality(Missing(d)) |-> Reset] \in Seq(CommandSet)
<1>1. IsFiniteSet(1 .. Len(dev_list))
  BY FS_Interval DEF BatchType
<1>2. Missing(d) \subseteq 1 .. Len(dev_list)
  BY DEF Missing, Matching, BatchType
<1>3. Cardinality(Missing(d)) \in Nat
  BY <1>1, <1>2, FS_Subset, FS_CardinalityType
<1>4. Reset \in CommandSet
  BY DEF Reset, Cmd, CommandSet, Device
<1> DEFINE n == Cardinality(Missing(d))
<1> HIDE DEF n
<1>5. [i \in 1 .. n |-> Reset] \in Seq(CommandSet)
  BY <1>3, <1>4, SeqDef DEF n
<1> QED
  BY <1>3, <1>5 DEF n

AdvCmds(d) ==
    ScanCmds(FALSE) \o [i \in 1 .. Cardinality(Missing(d)) |-> Reset]
    \o (IF Chosen(d) = NoItem THEN <<>> ELSE <<Cmd("connect", d)>>)

LEMMA AdvCmdsType ==
    ASSUME HostType, BatchType, NEW d \in Dev
    PROVE  AdvCmds(d) \in Seq(CommandSet)
<1>1. ScanCmds(FALSE) \in Seq(CommandSet)
  BY ScanType
<1>2. (IF Chosen(d) = NoItem THEN <<>> ELSE <<Cmd("connect", d)>>) \in Seq(CommandSet)
  BY CommandTypes DEF Device
<1> QED
  BY <1>1, <1>2, ResetsType, ConcatProperties DEF AdvCmds

LEMMA BatchHandlerType ==
    ASSUME HostType, BatchType, BatchHandler, main_function' = main_function
    PROVE  HostType' /\ BatchType'
<1>1. CASE GapReset
  <2>1. ScanCmds(TRUE) \in Seq(CommandSet) /\ ScanTimers(TRUE) \subseteq timers \cup {"scan"}
    BY ScanType
  <2>2. /\ evts' \in Seq(EventSet) /\ cmds' \in Seq(CommandSet)
        /\ UNCHANGED <<gone, initiating, peers, dev_list>>
    BY <1>1, <2>1, HandleType DEF GapReset
  <2> QED
    BY <1>1, <2>1, <2>2 DEF GapReset, HostType, BatchType, Items
<1>2. CASE HardwareErr
  <2>1. evts # <<>> /\ Tail(evts) \in Seq(EventSet) /\ EbInit(cmds, Tail(evts))
    BY <1>2, TailFacts DEF HardwareErr, Takes, HostType
  <2>2. cmds' \in Seq(CommandSet) /\ evts' \in Seq(EventSet) /\ gone' \in BOOLEAN
    BY <2>1, EbInitType DEF HostType
  <2> QED
    BY <1>2, <2>2 DEF HardwareErr, HostType, BatchType, Items, hostVars, appVars, batchVars
<1>3. CASE ConnectFailed
  <2>1. /\ evts' \in Seq(EventSet) /\ cmds' \in Seq(CommandSet)
        /\ UNCHANGED <<gone, initiating, peers, dev_list>>
    BY <1>3, HandleType, CommandTypes DEF ConnectFailed
  <2> QED
    BY <1>3, <2>1 DEF ConnectFailed, HostType, BatchType, Items, hostVars
<1>4. ASSUME NEW d \in Dev, Connected(d) PROVE HostType' /\ BatchType'
  <2>1. /\ evts' \in Seq(EventSet) /\ cmds' \in Seq(CommandSet)
        /\ UNCHANGED <<gone, initiating, peers, dev_list>>
    BY <1>4, HandleType, CommandTypes DEF Connected
  <2>2. req'.op \in Ops /\ req'.dev \in Device
    BY <1>4, AskType DEF Connected, Device, Ops
  <2> QED
    BY <1>4, <2>1, <2>2 DEF Connected, HostType, BatchType, Items, Device, Ops
<1>5. ASSUME NEW d \in Dev, Disconnected(d) PROVE HostType' /\ BatchType'
  <2>1. /\ evts' \in Seq(EventSet) /\ cmds' \in Seq(CommandSet)
        /\ UNCHANGED <<gone, initiating, peers, dev_list>>
    BY <1>5, HandleType, CommandTypes DEF Disconnected
  <2> QED
    BY <1>5, <2>1 DEF Disconnected, Abort, HostType, BatchType, Items, Device
<1>6. ASSUME NEW d \in Dev, MtuUpdate(d) PROVE HostType' /\ BatchType'
  <2>1. /\ evts' \in Seq(EventSet) /\ cmds' \in Seq(CommandSet)
        /\ UNCHANGED <<gone, initiating, peers, dev_list>>
    BY <1>6, HandleType, CommandTypes DEF MtuUpdate
  <2>2. req'.op \in Ops /\ req'.dev \in Device
    BY <1>6, AskType DEF MtuUpdate, HostType, Ops
  <2> QED
    BY <1>6, <2>1, <2>2 DEF MtuUpdate, HostType, BatchType, Items, hostVars, Ops
<1>7. ASSUME NEW d \in Dev, Found(d) PROVE HostType' /\ BatchType'
  <2>1. /\ evts' \in Seq(EventSet) /\ cmds' \in Seq(CommandSet)
        /\ UNCHANGED <<gone, initiating, peers, dev_list>>
    BY <1>7, HandleType, CommandTypes DEF Found
  <2>2. client' = "run" /\ (req' = req \/ Ask(conn_handle, "update", m_buf))
    BY <1>7 DEF Found, ClientStart
  <2>3. req'.op \in Ops /\ req'.dev \in Device
    BY <2>2, AskType DEF HostType, Ops
  <2> QED
    BY <1>7, <2>1, <2>2, <2>3 DEF Found, HostType, BatchType, Items, Ops
<1>8. ASSUME NEW d \in Dev, ErrorRsp(d) PROVE HostType' /\ BatchType'
  <2>1. <<Cmd("disconnect", conn_handle)>> \in Seq(CommandSet)
    BY CommandTypes DEF HostType
  <2>2. /\ evts' \in Seq(EventSet) /\ cmds' \in Seq(CommandSet)
        /\ UNCHANGED <<gone, initiating, peers, dev_list>>
    BY <1>8, <2>1, HandleType DEF ErrorRsp
  <2> QED
    BY <1>8, <2>2 DEF ErrorRsp, HostType, BatchType, Items, hostVars
<1>9. ASSUME NEW d \in Dev, Success(d) PROVE HostType' /\ BatchType'
  <2>1. /\ evts' \in Seq(EventSet) /\ cmds' \in Seq(CommandSet)
        /\ UNCHANGED <<gone, initiating, peers, dev_list>>
    BY <1>9, HandleType, CommandTypes DEF Success
  <2>2. /\ timers' \subseteq timers \cup {"disc"}
        /\ \/ UNCHANGED <<is_valid, suc_file>>
           \/ m_cur_dev \in Items /\ Credit(m_cur_dev)
    BY <1>9 DEF Success, EndTimers, BatchType, HostType
  <2>3. is_valid' \in [Items -> BOOLEAN] /\ suc_file' \in [Items -> 0 .. 2]
    <3>1. CASE m_cur_dev \in Items /\ Credit(m_cur_dev)
      <4>1. dev_list[m_cur_dev].repeat \in BOOLEAN
        BY <3>1 DEF BatchType
      <4>2. (IF suc_file[m_cur_dev] = 2 THEN 2 ELSE suc_file[m_cur_dev] + 1) \in 0 .. 2
        BY <3>1 DEF BatchType
      <4> QED
        BY <3>1, <4>1, <4>2 DEF Credit, AddLine, BatchType
    <3> QED
      BY <2>2, <3>1 DEF BatchType
  <2> QED
    BY <1>9, <2>1, <2>2, <2>3 DEF Success, HostType, BatchType, Items
<1>10. ASSUME NEW d \in Dev, Refused(d) PROVE HostType' /\ BatchType'
  <2>1. /\ evts' \in Seq(EventSet) /\ cmds' \in Seq(CommandSet)
        /\ UNCHANGED <<gone, initiating, peers, dev_list>>
    BY <1>10, HandleType, CommandTypes DEF Refused
  <2> QED
    BY <1>10, <2>1 DEF Refused, EndTimers, HostType, BatchType, Items
<1>11. ASSUME NEW d \in Dev, AdvIgnored(d) PROVE HostType' /\ BatchType'
  <2>1. /\ evts' \in Seq(EventSet) /\ cmds' \in Seq(CommandSet)
        /\ UNCHANGED <<gone, initiating, peers, dev_list>>
    BY <1>11, HandleType, CommandTypes DEF AdvIgnored
  <2> QED
    BY <1>11, <2>1 DEF AdvIgnored, HostType, BatchType, Items, hostVars
<1>12. ASSUME NEW d \in Dev, AdvReport(d) PROVE HostType' /\ BatchType'
  <2>1. Handle("adv", d, AdvCmds(d)) /\ AdvCmds(d) \in Seq(CommandSet)
    BY <1>12, AdvCmdsType DEF AdvReport, AdvCmds
  <2>2. /\ evts' \in Seq(EventSet) /\ cmds' \in Seq(CommandSet)
        /\ UNCHANGED <<gone, initiating, peers, dev_list>>
    BY <2>1, HandleType
  <2>3. timers' \subseteq timers \cup {"scan", "conn"}
    BY <1>12, ScanType DEF AdvReport
  <2>4. Items' = Items /\ m_cur_dev' \in Items \cup {NoItem}
    BY <1>12, <2>2, ChosenItem DEF AdvReport, Items, BatchType
  <2>5. is_valid' \in [Items -> BOOLEAN]
    BY <1>12 DEF AdvReport, BatchType
  <2>6. HostType'
    BY <1>12, <2>2, <2>3 DEF AdvReport, HostType
  <2> QED
    BY <1>12, <2>2, <2>4, <2>5, <2>6 DEF AdvReport, BatchType
<1> QED
  BY <1>1, <1>2, <1>3, <1>4, <1>5, <1>6, <1>7, <1>8, <1>9, <1>10, <1>11, <1>12
     DEF BatchHandler

(* Only the interactive program has the timer "again".                     *)
LEMMA BatchTimers ==
    ASSUME HostType, BatchNext, "again" \notin timers
    PROVE  "again" \notin timers'
<1>1. ASSUME BatchHandler PROVE timers' \subseteq timers \cup {"scan", "conn", "disc"}
  <2> USE DEF hostVars
  <2>1. CASE GapReset \/ HardwareErr \/ ConnectFailed
    BY <2>1, ScanType DEF GapReset, HardwareErr, ConnectFailed
  <2>2. ASSUME NEW d \in Dev, AdvIgnored(d) \/ AdvReport(d)
        PROVE  timers' \subseteq timers \cup {"scan", "conn", "disc"}
    BY <2>2, ScanType DEF AdvIgnored, AdvReport
  <2>3. ASSUME NEW d \in Dev,
               \/ Connected(d) \/ Disconnected(d) \/ MtuUpdate(d) \/ Found(d)
               \/ ErrorRsp(d) \/ Success(d) \/ Refused(d)
        PROVE  timers' \subseteq timers \cup {"scan", "conn", "disc"}
    BY <2>3 DEF Connected, Disconnected, MtuUpdate, Found, ErrorRsp, Success, Refused,
                EndTimers, HostType
  <2> QED
    BY <1>1, <2>1, <2>2, <2>3 DEF BatchHandler
<1>2. ASSUME Environment PROVE UNCHANGED timers
  BY <1>2 DEF Environment, Execute, Advertise, LinkEnds, Established, EstablishFails,
              Answers, Refuses, Breaks, Garbled, hostVars
<1>3. ASSUME NEW id \in timers, Timeout(id) PROVE timers' = {}
  BY <1>3 DEF Timeout, BtReset
<1> QED
  BY <1>1, <1>2, <1>3 DEF BatchNext, BatchTimeout, TxComplete, Restart, hostVars

LEMMA BatchNextType ==
    ASSUME HostType, BatchType, BatchNext, main_function' = main_function,
           "again" \notin timers
    PROVE  HostType' /\ BatchType'
<1>1. ASSUME NEW id \in timers, Timeout(id) PROVE HostType' /\ BatchType'
  <2>1. TimeoutCmds(id) \in Seq(CommandSet)
    <3>1. id \in {"scan", "conn", "disc"}
      BY <1>1 DEF HostType, Timeout
    <3> QED
      BY <3>1, ScanType, CommandTypes DEF TimeoutCmds
  <2>2. cmds \o TimeoutCmds(id) \in Seq(CommandSet)
    BY <2>1, ConcatProperties DEF HostType
  <2>3. cmds' \in Seq(CommandSet) /\ evts' \in Seq(EventSet) /\ gone' \in BOOLEAN
    BY <1>1, <2>2, EbInitType DEF Timeout, BtReset, HostType
  <2> QED
    BY <1>1, <2>3 DEF Timeout, BtReset, HostType, BatchType, Items, Device, itemVars
<1>2. CASE TxComplete
  <2>1. req'.op \in Ops /\ req'.dev \in Device
    BY <1>2, AskType DEF TxComplete, Stray, HostType, Ops
  <2> QED
    BY <1>2, <2>1 DEF TxComplete, HostType, BatchType, Items, batchVars, hostVars,
                      ctrlVars, appVars, Ops
<1>3. CASE Restart
  <2>1. cmds' \in Seq(CommandSet) /\ evts' \in Seq(EventSet) /\ gone' \in BOOLEAN
    BY <1>3, EbInitType DEF Restart, HostType
  <2>2. is_valid' \in [Items -> BOOLEAN]
    <3>1. is_valid' = [i \in Items |-> dev_list[i].repeat \/ suc_file[i] = 0]
      BY <1>3 DEF Restart, Parse, Items
    <3> QED
      BY <3>1
  <2> QED
    BY <1>3, <2>1, <2>2 DEF Restart, HostType, BatchType, Items, Device
<1>4. CASE Environment /\ UNCHANGED batchVars
  BY <1>4, EnvironmentType DEF batchVars, BatchType, Items
<1> QED
  BY <1>1, <1>2, <1>3, <1>4, BatchHandlerType DEF BatchNext, BatchTimeout

TypeInv ==
    /\ HostType /\ SingleType /\ BatchType
    /\ main_function = "batch" => "again" \notin timers

LEMMA TypeInit == Init => TypeInv
<1> SUFFICES ASSUME Init PROVE TypeInv
  OBVIOUS
<1>1. HostType
  <2>1. <<Reset>> \in Seq(CommandSet) /\ <<>> \in Seq(EventSet)
    BY CommandTypes
  <2> QED
    BY <2>1 DEF Init, HostInit, HostType, Device, NoRequest, Request
<1>2. PICK zips : SingleInit(zips)
  BY DEF Init
<1>3. SingleType
  BY <1>2, DfuSingleAssumption DEF SingleInit, SingleType, Device
<1>4. PICK lists : BatchInit(lists) /\ (lists = {<<>>} \/ lists = Lists)
  BY DEF Init
<1>5. \A i \in Items :
        dev_list[i] \in [match : SUBSET Dev, file : BOOLEAN, repeat : BOOLEAN]
  BY <1>4, DfuBatchAssumption DEF BatchInit, Items
<1>6. Items = 1 .. Len(dev_list) /\ Len(dev_list) \in Nat
  <2>1. CASE lists = {<<>>}
    BY <1>4, <2>1 DEF BatchInit, Items
  <2>2. CASE lists = Lists
    BY <1>4, <2>2, DfuBatchAssumption DEF BatchInit, Items
  <2> QED
    BY <1>4, <2>1, <2>2
<1>7. is_valid \in [Items -> BOOLEAN] /\ suc_file \in [Items -> 0 .. 2]
  <2>1. suc_file = [i \in Items |-> 0]
    BY <1>4 DEF BatchInit
  <2>2. is_valid = [i \in Items |-> dev_list[i].repeat \/ suc_file[i] = 0]
    BY <1>4 DEF BatchInit, Parse, Items
  <2>3. suc_file \in [Items -> 0 .. 2]
    BY <2>1
  <2>4. is_valid \in [Items -> BOOLEAN]
    BY <2>2
  <2> QED
    BY <2>3, <2>4
<1>8. BatchType
  <2>1. m_cur_dev = NoItem
    BY <1>4 DEF BatchInit
  <2> QED
    BY <1>5, <1>6, <1>7, <2>1 DEF BatchType
<1>9. timers = {}
  BY DEF Init, HostInit
<1> QED
  BY <1>1, <1>3, <1>8, <1>9 DEF TypeInv

LEMMA TypeNext ==
    ASSUME TypeInv, Next
    PROVE  TypeInv'
<1>1. CASE Single
  BY <1>1, SingleNextType DEF Single, Next, TypeInv, batchVars, BatchType, Items
<1>2. CASE Batch
  BY <1>2, BatchNextType, BatchTimers DEF Batch, Next, TypeInv, singleVars, SingleType
<1> QED
  BY <1>1, <1>2 DEF Next

-----------------------------------------------------------------------------
(* The unattended program.  A connection is a token: a command, then what  *)
(* the controller initiates, then the events and requests by which the     *)
(* update of one device goes on.  There is one at most, whatever comes in  *)
(* between, as each new one is asked for only while the program scans, and *)
(* it scans only behind a reset that took away all that was before.        *)
ChainEvs == {"connected", "mtu", "found", "success"}
ChainOps == {"mtu", "find", "update"}

HasConnect(cs) == \E c \in ToSet(cs) : c.cmd = "connect"
HasChain(es) == \E e \in ToSet(es) : e.ev \in ChainEvs
HasReset(es) == \E e \in ToSet(es) : e.ev = "reset"

ConnectOnce(cs) ==
    \A i, j \in DOMAIN cs : cs[i].cmd = "connect" /\ cs[j].cmd = "connect" => i = j

ChainOnce(es) ==
    \A i, j \in DOMAIN es : es[i].ev \in ChainEvs /\ es[j].ev \in ChainEvs => i = j

(* Nothing is connected behind a reset, and no update goes on behind one.  *)
ConnectFirst(cs) ==
    \A i, j \in DOMAIN cs : cs[i] = Reset /\ cs[j].cmd = "connect" => j < i

ChainFirst(es) ==
    \A i, j \in DOMAIN es : es[i].ev = "reset" /\ es[j].ev \in ChainEvs => j < i

Initiates == initiating # NoDev
Asked == req.op \in ChainOps

OneToken ==
    /\ ConnectOnce(cmds) /\ ChainOnce(evts)
    /\ HasConnect(cmds) => ~Initiates /\ ~HasChain(evts) /\ ~Asked
    /\ Initiates => ~HasChain(evts) /\ ~Asked
    /\ HasChain(evts) => ~Asked

NoToken == ~HasConnect(cmds) /\ ~Initiates /\ ~HasChain(evts) /\ ~Asked

BehindReset ==
    /\ ConnectFirst(cmds) /\ ChainFirst(evts)
    /\ HasReset(evts) => ~HasConnect(cmds) /\ ~Initiates /\ peers = {}
    /\ req.op # "none" => req.dev \in peers
    /\ m_scan_state => NoToken /\ peers = {}

(* m_cur_dev is the item that d is updated for.                            *)
ForCur(d) == m_cur_dev # NoItem /\ d \in dev_list[m_cur_dev].match

Matched ==
    /\ ~Resetting =>
        /\ \A d \in peers : ForCur(d)
        /\ Initiates => ForCur(initiating)
        /\ \A c \in ToSet(cmds) : c.cmd = "connect" => ForCur(c.dev)
    /\ m_buf = IF m_cur_dev = NoItem THEN NoImage ELSE m_cur_dev
    /\ req.op = "update" =>
        /\ req.image \in Items /\ req.dev \in dev_list[req.image].match
        /\ IF m_cur_dev = NoItem THEN client = "idle" ELSE req.image = m_cur_dev

Noted ==
    /\ ~crashed
    /\ \A f \in flashed : f[1] \in dev_list[f[2]].match
    /\ \A i \in Items :
        /\ suc_file[i] > 0 => \E d \in dev_list[i].match : <<d, i>> \in flashed
        /\ suc_file[i] > 1 => dev_list[i].repeat
        /\ is_valid[i] => dev_list[i].repeat \/ suc_file[i] = 0
    /\ \A e \in ToSet(evts) : e.ev = "success" =>
        IF m_cur_dev = NoItem THEN client = "idle"
        ELSE ForCur(e.dev) /\ <<e.dev, m_cur_dev>> \in flashed
    /\ ~NoToken /\ m_cur_dev # NoItem =>
        dev_list[m_cur_dev].repeat \/ suc_file[m_cur_dev] = 0

BatchBody == OneToken /\ BehindReset /\ Matched /\ Noted

BatchInv == main_function = "batch" /\ ~overtaken => BatchBody

-----------------------------------------------------------------------------
(* What becomes of the order when something is queued or taken.            *)
LEMMA EmitKeeps ==
    ASSUME NEW s \in Seq(EventSet), NEW e \in EventSet
    PROVE  /\ ToSet(Append(s, e)) = ToSet(s) \cup {e}
           /\ ChainOnce(s) /\ (e.ev \notin ChainEvs \/ ~HasChain(s))
                => ChainOnce(Append(s, e))
           /\ ChainFirst(s) /\ (e.ev \notin ChainEvs \/ ~HasReset(s))
                => ChainFirst(Append(s, e))
<1> DEFINE t == Append(s, e)
           n == Len(s)
<1>1. /\ n \in Nat /\ DOMAIN s = 1 .. n /\ DOMAIN t = 1 .. n + 1
      /\ \A i \in 1 .. n : t[i] = s[i]
      /\ t[n + 1] = e
  BY AppendFacts
<1> HIDE DEF t, n
<1>2. ToSet(t) = ToSet(s) \cup {e}
  <2>1. 1 .. n + 1 = 1 .. n \cup {n + 1}
    BY <1>1
  <2> QED
    BY <1>1, <2>1 DEF ToSet
<1>3. \A i \in 1 .. n + 1 : i \in 1 .. n \/ i = n + 1
  BY <1>1
<1>4. ASSUME ChainOnce(s), e.ev \notin ChainEvs \/ ~HasChain(s) PROVE ChainOnce(t)
  BY <1>1, <1>3, <1>4 DEF ChainOnce, HasChain, ToSet
<1>5. ASSUME ChainFirst(s), e.ev \notin ChainEvs \/ ~HasReset(s) PROVE ChainFirst(t)
  <2> SUFFICES ASSUME NEW i \in 1 .. n + 1, NEW j \in 1 .. n + 1,
                      t[i].ev = "reset", t[j].ev \in ChainEvs
               PROVE  j < i
    BY <1>1 DEF ChainFirst
  <2>1. CASE i \in 1 .. n /\ j \in 1 .. n
    BY <1>1, <1>5, <2>1 DEF ChainFirst
  <2>2. CASE i = n + 1
    <3>1. j # n + 1
      BY <1>1, <2>2 DEF ChainEvs
    <3> QED
      BY <1>1, <2>2, <3>1
  <2>3. CASE i \in 1 .. n /\ j = n + 1
    BY <1>1, <1>5, <2>3 DEF HasReset, ToSet
  <2> QED
    BY <1>3, <2>1, <2>2, <2>3
<1> QED
  BY <1>2, <1>4, <1>5 DEF t

LEMMA DropKeeps ==
    ASSUME NEW s \in Seq(EventSet), NEW k \in 0 .. Len(s), NEW t,
           t = SubSeq(s, k + 1, Len(s))
    PROVE  /\ ToSet(t) \subseteq ToSet(s)
           /\ ChainOnce(s) => ChainOnce(t)
           /\ ChainFirst(s) => ChainFirst(t)
<1> DEFINE n == Len(s)
<1>1. /\ n \in Nat /\ DOMAIN s = 1 .. n /\ DOMAIN t = 1 .. n - k
      /\ \A i \in 1 .. n - k : t[i] = s[k + i]
  BY SuffixFacts
<1>2. k \in 0 .. n
  OBVIOUS
<1> HIDE DEF n
<1>3. \A i, j \in 1 .. n - k :
        /\ k + i \in 1 .. n
        /\ k + i = k + j => i = j
        /\ k + i < k + j => i < j
  BY <1>1, <1>2
<1>4. ToSet(t) \subseteq ToSet(s)
  BY <1>1, <1>3 DEF ToSet
<1>5. ASSUME ChainOnce(s) PROVE ChainOnce(t)
  BY <1>1, <1>3, <1>5, SMTT(20) DEF ChainOnce
<1>6. ASSUME ChainFirst(s) PROVE ChainFirst(t)
  BY <1>1, <1>3, <1>6, SMTT(20) DEF ChainFirst
<1> QED
  BY <1>4, <1>5, <1>6

LEMMA TakeKeeps ==
    ASSUME NEW s \in Seq(EventSet), s # <<>>
    PROVE  /\ Tail(s) \in Seq(EventSet)
           /\ ToSet(s) = ToSet(Tail(s)) \cup {Head(s)}
           /\ ChainOnce(s) => ChainOnce(Tail(s))
           /\ ChainFirst(s) => ChainFirst(Tail(s))
           /\ ChainOnce(s) /\ Head(s).ev \in ChainEvs => ~HasChain(Tail(s))
           /\ ChainFirst(s) /\ Head(s).ev = "reset" => ~HasChain(Tail(s))
<1> DEFINE t == Tail(s)
           n == Len(s)
<1>1. /\ t \in Seq(EventSet) /\ n \in Nat \ {0}
      /\ DOMAIN s = 1 .. n /\ DOMAIN t = 1 .. n - 1
      /\ \A i \in 1 .. n - 1 : t[i] = s[i + 1]
      /\ Head(s) = s[1]
  BY TailFacts
<1> DEFINE h == Head(s)
<1> HIDE DEF t, n, h
<1>2. \A i, j \in 1 .. n - 1 :
        /\ i + 1 \in 1 .. n /\ i + 1 # 1 /\ ~(i + 1 < 1)
        /\ i + 1 = j + 1 => i = j
        /\ i + 1 < j + 1 => i < j
  BY <1>1
<1>3. 1 \in 1 .. n /\ \A i \in 1 .. n : i = 1 \/ (i - 1 \in 1 .. n - 1 /\ (i - 1) + 1 = i)
  BY <1>1
<1>4. ToSet(s) = ToSet(t) \cup {h}
  <2>1. ASSUME NEW x \in ToSet(s) PROVE x \in ToSet(t) \cup {h}
    <3>1. PICK i \in 1 .. n : x = s[i]
      BY <1>1 DEF ToSet
    <3>2. CASE i = 1
      BY <1>1, <3>1, <3>2 DEF h
    <3>3. CASE i # 1
      <4>1. i - 1 \in DOMAIN t /\ t[i - 1] = x
        BY <1>1, <1>3, <3>1, <3>3
      <4> QED
        BY <4>1 DEF ToSet
    <3> QED
      BY <3>2, <3>3
  <2>2. \A x \in ToSet(t) \cup {h} : x \in ToSet(s)
    BY <1>1, <1>2, <1>3 DEF ToSet, h
  <2> QED
    BY <2>1, <2>2
<1>5. ASSUME ChainOnce(s) PROVE ChainOnce(t)
  BY <1>1, <1>2, <1>5 DEF ChainOnce
<1>6. ASSUME ChainFirst(s) PROVE ChainFirst(t)
  BY <1>1, <1>2, <1>6 DEF ChainFirst
<1>7. ASSUME ChainOnce(s), h.ev \in ChainEvs PROVE ~HasChain(t)
  BY <1>1, <1>2, <1>3, <1>7 DEF ChainOnce, HasChain, ToSet, h
<1>8. ASSUME ChainFirst(s), h.ev = "reset" PROVE ~HasChain(t)
  BY <1>1, <1>2, <1>3, <1>8 DEF ChainFirst, HasChain, ToSet, h
<1> QED
  BY <1>1, <1>4, <1>5, <1>6, <1>7, <1>8 DEF t, h

LEMMA ExecuteKeeps ==
    ASSUME NEW s \in Seq(CommandSet), s # <<>>
    PROVE  /\ ToSet(s) = ToSet(Tail(s)) \cup {Head(s)}
           /\ ConnectOnce(s) => ConnectOnce(Tail(s))
           /\ ConnectFirst(s) => ConnectFirst(Tail(s))
           /\ ConnectOnce(s) /\ Head(s).cmd = "connect" => ~HasConnect(Tail(s))
           /\ ConnectFirst(s) /\ Head(s) = Reset => ~HasConnect(Tail(s))
<1> DEFINE t == Tail(s)
           n == Len(s)
<1>1. /\ n \in Nat \ {0}
      /\ DOMAIN s = 1 .. n /\ DOMAIN t = 1 .. n - 1
      /\ \A i \in 1 .. n - 1 : t[i] = s[i + 1]
      /\ Head(s) = s[1]
  BY TailFacts
<1> DEFINE h == Head(s)
<1> HIDE DEF t, n, h
<1>2. \A i, j \in 1 .. n - 1 :
        /\ i + 1 \in 1 .. n /\ i + 1 # 1 /\ ~(i + 1 < 1)
        /\ i + 1 = j + 1 => i = j
        /\ i + 1 < j + 1 => i < j
  BY <1>1
<1>3. 1 \in 1 .. n /\ \A i \in 1 .. n : i = 1 \/ (i - 1 \in 1 .. n - 1 /\ (i - 1) + 1 = i)
  BY <1>1
<1>4. ToSet(s) = ToSet(t) \cup {h}
  <2>1. ASSUME NEW x \in ToSet(s) PROVE x \in ToSet(t) \cup {h}
    <3>1. PICK i \in 1 .. n : x = s[i]
      BY <1>1 DEF ToSet
    <3>2. CASE i = 1
      BY <1>1, <3>1, <3>2 DEF h
    <3>3. CASE i # 1
      <4>1. i - 1 \in DOMAIN t /\ t[i - 1] = x
        BY <1>1, <1>3, <3>1, <3>3
      <4> QED
        BY <4>1 DEF ToSet
    <3> QED
      BY <3>2, <3>3
  <2>2. \A x \in ToSet(t) \cup {h} : x \in ToSet(s)
    BY <1>1, <1>2, <1>3 DEF ToSet, h
  <2> QED
    BY <2>1, <2>2
<1>5. ASSUME ConnectOnce(s) PROVE ConnectOnce(t)
  <2>1. ASSUME NEW i \in 1 .. n - 1, NEW j \in 1 .. n - 1,
               t[i].cmd = "connect", t[j].cmd = "connect"
        PROVE  i = j
    <3>1. s[i + 1].cmd = "connect" /\ s[j + 1].cmd = "connect"
      BY <1>1, <2>1
    <3>2. i + 1 = j + 1
      BY <1>1, <1>2, <1>5, <3>1 DEF ConnectOnce
    <3> QED
      BY <3>2
  <2> QED
    BY <1>1, <2>1 DEF ConnectOnce
<1>6. ASSUME ConnectFirst(s) PROVE ConnectFirst(t)
  BY <1>1, <1>2, <1>6 DEF ConnectFirst
<1>7. ASSUME ConnectOnce(s), h.cmd = "connect" PROVE ~HasConnect(t)
  BY <1>1, <1>2, <1>3, <1>7 DEF ConnectOnce, HasConnect, ToSet, h
<1>8. ASSUME ConnectFirst(s), h = Reset PROVE ~HasConnect(t)
  BY <1>1, <1>2, <1>3, <1>8 DEF ConnectFirst, HasConnect, ToSet, h
<1> QED
  BY <1>4, <1>5, <1>6, <1>7, <1>8 DEF t, h

(* Commands without a connection in them are queued.                       *)
LEMMA QueueKeeps ==
    ASSUME HostType, NEW cs \in Seq(CommandSet), Queue(cs), ~HasConnect(cs),
           ConnectOnce(cmds), ConnectFirst(cmds)
    PROVE  /\ ConnectOnce(cmds') /\ ConnectFirst(cmds')
           /\ ToSet(cmds) \subseteq ToSet(cmds')
           /\ ToSet(cmds') \subseteq ToSet(cmds) \cup ToSet(cs)
<1>1. CASE gone
  BY <1>1 DEF Queue, ConnectOnce, ConnectFirst
<1>2. CASE ~gone
  <2> DEFINE n == Len(cmds)
             m == Len(cs)
             t == cmds \o cs
  <2>1. /\ n \in Nat /\ m \in Nat
        /\ DOMAIN cmds = 1 .. n /\ DOMAIN cs = 1 .. m /\ DOMAIN t = 1 .. n + m
        /\ \A i \in 1 .. n : t[i] = cmds[i]
        /\ \A i \in 1 .. m : t[n + i] = cs[i]
        /\ ToSet(t) = ToSet(cmds) \cup ToSet(cs)
    BY ConcatFacts DEF HostType
  <2> HIDE DEF n, m, t
  <2>2. \A i \in 1 .. m : t[n + i].cmd # "connect"
    BY <2>1 DEF HasConnect, ToSet
  <2>3. \A i \in 1 .. n + m : i \in 1 .. n \/ (n < i /\ i - n \in 1 .. m /\ n + (i - n) = i)
    BY <2>1
  <2>4. \A i \in 1 .. n + m : t[i].cmd = "connect" => i \in 1 .. n
    BY <2>2, <2>3
  <2>5. ConnectOnce(t)
    BY <2>1, <2>4 DEF ConnectOnce
  <2>6. ConnectFirst(t)
    <3> SUFFICES ASSUME NEW i \in 1 .. n + m, NEW j \in 1 .. n + m,
                        t[i] = Reset, t[j].cmd = "connect"
                 PROVE  j < i
      BY <2>1 DEF ConnectFirst
    <3>1. j \in 1 .. n
      BY <2>4
    <3>2. CASE i \in 1 .. n
      BY <2>1, <3>1, <3>2 DEF ConnectFirst
    <3>3. CASE n < i
      BY <2>1, <3>1, <3>3
    <3> QED
      BY <2>3, <3>2, <3>3
  <2>7. cmds' = t
    BY <1>2 DEF Queue, t
  <2> QED
    BY <2>1, <2>5, <2>6, <2>7
<1> QED
  BY <1>1, <1>2

(* A connection is asked for: nothing else is queued before it that counts. *)
LEMMA ConnectQueued ==
    ASSUME HostType, NEW d \in Dev, NEW c \in CommandSet, c.cmd # "connect", c # Reset,
           Queue(<<c, Cmd("connect", d)>>), ~HasConnect(cmds), Reset \notin ToSet(cmds)
    PROVE  /\ ConnectOnce(cmds') /\ ConnectFirst(cmds')
           /\ Reset \notin ToSet(cmds')
           /\ \A x \in ToSet(cmds') : x.cmd = "connect" => x.dev = d
<1>1. CASE gone
  BY <1>1 DEF Queue, ConnectOnce, ConnectFirst, HasConnect, ToSet
<1>2. CASE ~gone
  <2> DEFINE cs == <<c, Cmd("connect", d)>>
             n == Len(cmds)
             t == cmds \o cs
  <2>1. cs \in Seq(CommandSet) /\ Len(cs) = 2 /\ cs[1] = c /\ cs[2] = Cmd("connect", d)
    BY DEF CommandSet, Cmd, Device
  <2>2. /\ n \in Nat
        /\ DOMAIN cmds = 1 .. n /\ DOMAIN t = 1 .. n + 2
        /\ \A i \in 1 .. n : t[i] = cmds[i]
        /\ \A i \in 1 .. 2 : t[n + i] = cs[i]
    BY <2>1, ConcatFacts DEF HostType
  <2>3. t[n + 1] = c /\ t[n + 2] = Cmd("connect", d)
    BY <2>1, <2>2
  <2>4. cmds' = t
    BY <1>2 DEF Queue
  <2> HIDE DEF n, t, cs
  <2>5. \A i \in 1 .. n + 2 : i \in 1 .. n \/ i = n + 1 \/ i = n + 2
    BY <2>2
  <2>6. Cmd("connect", d).cmd = "connect" /\ Cmd("connect", d).dev = d
        /\ Cmd("connect", d) # Reset
    BY DEF Cmd, Reset
  <2>7. \A i \in 1 .. n : t[i].cmd # "connect" /\ t[i] # Reset
    BY <2>2 DEF HasConnect, ToSet
  <2>8. \A i \in 1 .. n + 2 : t[i] # Reset /\ (t[i].cmd = "connect" => i = n + 2)
    BY <2>3, <2>5, <2>6, <2>7
  <2> QED
    BY <2>2, <2>3, <2>4, <2>6, <2>8 DEF ConnectOnce, ConnectFirst, ToSet
<1> QED
  BY <1>1, <1>2

LEMMA EbInitKeeps ==
    ASSUME NEW cs \in Seq(CommandSet), NEW left \in Seq(EventSet), EbInit(cs, left)
    PROVE  /\ ConnectOnce(cmds') /\ ConnectFirst(cmds')
           /\ ToSet(cmds') \subseteq ToSet(cs) \cup {Reset}
           /\ Reset \in ToSet(cmds')
           /\ ToSet(evts') \subseteq ToSet(left)
           /\ ChainOnce(left) => ChainOnce(evts')
           /\ ChainFirst(left) => ChainFirst(evts')
<1>1. PICK k \in 0 .. Len(cs) :
        (k = 0 \/ k = 1) /\ cmds' = SubSeq(cs, 1, k) \o <<Reset>>
  BY DEF EbInit
<1>2. PICK j \in 0 .. Len(left) : evts' = SubSeq(left, j + 1, Len(left))
  BY DEF EbInit
<1>3. Len(cs) \in Nat /\ DOMAIN cs = 1 .. Len(cs)
  BY LenProperties
<1>4. <<Reset>> \in Seq(CommandSet) /\ Len(<<Reset>>) = 1 /\ <<Reset>>[1] = Reset
  BY CommandTypes
<1>5. /\ ToSet(evts') \subseteq ToSet(left)
      /\ ChainOnce(left) => ChainOnce(evts')
      /\ ChainFirst(left) => ChainFirst(evts')
  BY <1>2, DropKeeps
<1>6. CASE k = 0
  <2>1. cmds' = <<Reset>>
    <3>1. SubSeq(cs, 1, 0) = <<>>
      BY SubSeqEmpty
    <3> QED
      BY <1>1, <1>4, <1>6, <3>1, ConcatEmptySeq
  <2>2. DOMAIN cmds' = {1} /\ cmds'[1] = Reset /\ Reset.cmd # "connect"
    BY <2>1 DEF Reset, Cmd
  <2>3. ConnectOnce(cmds') /\ ConnectFirst(cmds')
    BY <2>2 DEF ConnectOnce, ConnectFirst
  <2>4. ToSet(cmds') = {Reset}
    BY <2>2 DEF ToSet
  <2> QED
    BY <1>5, <2>3, <2>4
<1>7. CASE k = 1
  <2> DEFINE p == SubSeq(cs, 1, 1)
  <2>1. p \in Seq(CommandSet) /\ Len(p) = 1 /\ p[1] = cs[1] /\ 1 \in DOMAIN cs
    <3>1. 1 \in 1 .. Len(cs)
      BY <1>1, <1>3, <1>7
    <3>2. \A i \in 1 .. 1 : cs[i] \in CommandSet
      BY <3>1, ElementOfSeq
    <3>3. p \in Seq(CommandSet) /\ Len(p) = (IF 1 <= 1 THEN 1 - 1 + 1 ELSE 0)
          /\ \A i \in 1 .. 1 - 1 + 1 : p[i] = cs[1 + i - 1]
      BY <3>2, SubSeqProperties
    <3> QED
      BY <1>3, <3>1, <3>3
  <2>2. cmds' = p \o <<Reset>>
    BY <1>1, <1>7
  <2> HIDE DEF p
  <2>3. DOMAIN cmds' = {1, 2} /\ cmds'[1] = cs[1] /\ cmds'[2] = Reset
    <3>1. /\ DOMAIN (p \o <<Reset>>) = 1 .. 1 + 1
          /\ \A i \in 1 .. 1 : (p \o <<Reset>>)[i] = p[i]
          /\ \A i \in 1 .. 1 : (p \o <<Reset>>)[1 + i] = <<Reset>>[i]
      BY <1>4, <2>1, ConcatFacts, SMTT(20)
    <3> QED
      BY <1>4, <2>1, <2>2, <3>1
  <2>4. Reset.cmd # "connect"
    BY DEF Reset, Cmd
  <2>5. ConnectOnce(cmds') /\ ConnectFirst(cmds')
    BY <2>3, <2>4 DEF ConnectOnce, ConnectFirst
  <2>6. ToSet(cmds') = {cs[1], Reset}
    BY <2>3 DEF ToSet
  <2>7. cs[1] \in ToSet(cs)
    BY <2>1 DEF ToSet
  <2> QED
    BY <1>5, <2>5, <2>6, <2>7
<1> QED
  BY <1>1, <1>6, <1>7

LEMMA ResettingIs ==
    /\ Resetting <=> Reset \in ToSet(cmds) \/ HasReset(evts)
    /\ Resetting' <=> Reset \in ToSet(cmds') \/ HasReset(evts')
BY DEF Resetting, HasReset, ToSet

(* A step that begins nothing.                                             *)
LEMMA BatchCalm ==
    ASSUME BatchType, BatchBody,
           ConnectOnce(cmds'), ConnectFirst(cmds'), ChainOnce(evts'), ChainFirst(evts'),
           \A c \in ToSet(cmds') : c.cmd = "connect" => c \in ToSet(cmds),
           \A e \in ToSet(evts') : e.ev \in ChainEvs \cup {"reset"} => e \in ToSet(evts),
           Resetting => Resetting',
           peers' \subseteq peers, initiating' \in {initiating, NoDev},
           req' = req \/ req'.op \in {"none", "stray"},
           req'.op # "none" => req'.dev \in peers',
           m_scan_state' => m_scan_state,
           UNCHANGED <<dev_list, m_cur_dev, m_buf, flashed, suc_file>>, ~crashed',
           \A i \in Items : is_valid'[i] => is_valid[i],
           client' \in {client, "idle"}
    PROVE  BatchBody'
<1>1. /\ HasConnect(cmds') => HasConnect(cmds)
      /\ HasChain(evts') => HasChain(evts)
      /\ HasReset(evts') => HasReset(evts)
      /\ Initiates' => Initiates /\ initiating' = initiating
      /\ Asked' => Asked /\ req' = req
  BY DEF HasConnect, HasChain, HasReset, Initiates, Asked, ChainOps
<1>2. OneToken'
  BY <1>1 DEF BatchBody, OneToken
<1>3. NoToken => NoToken'
  BY <1>1 DEF NoToken
<1>4. BehindReset'
  BY <1>1, <1>3 DEF BatchBody, BehindReset
<1>5. \A d : ForCur(d)' <=> ForCur(d)
  BY DEF ForCur
<1>6. Matched'
  <2>1. req'.op = "update" => req' = req
    OBVIOUS
  <2>2. Items' = Items
    BY DEF Items
  <2> QED
    BY <1>1, <1>5, <2>1, <2>2 DEF BatchBody, Matched
<1>7. Noted'
  <2>1. Items' = Items
    BY DEF Items
  <2>2. \A e \in ToSet(evts') : e.ev = "success" => e \in ToSet(evts)
    BY DEF ChainEvs
  <2>3. ~NoToken' => ~NoToken
    BY <1>3
  <2>4. \A i \in Items' :
            /\ suc_file'[i] > 0 => \E d \in dev_list'[i].match : <<d, i>> \in flashed'
            /\ suc_file'[i] > 1 => dev_list'[i].repeat
            /\ is_valid'[i] => dev_list'[i].repeat \/ suc_file'[i] = 0
    BY <2>1 DEF BatchBody, Noted
  <2>5. \A e \in ToSet(evts') : e.ev = "success" =>
            IF m_cur_dev' = NoItem THEN client' = "idle"
            ELSE ForCur(e.dev)' /\ <<e.dev, m_cur_dev'>> \in flashed'
    BY <1>5, <2>2 DEF BatchBody, Noted
  <2> QED
    BY <2>3, <2>4, <2>5 DEF BatchBody, Noted
<1> QED
  BY <1>2, <1>4, <1>6, <1>7 DEF BatchBody

LEMMA CalmEmit ==
    ASSUME HostType, BatchBody, NEW ev \in Evs, ev \notin ChainEvs \cup {"reset"},
           NEW d \in Device, Emit(ev, d)
    PROVE  /\ ChainOnce(evts') /\ ChainFirst(evts')
           /\ ToSet(evts) \subseteq ToSet(evts')
           /\ \A e \in ToSet(evts') :
                e.ev \in ChainEvs \cup {"reset"} => e \in ToSet(evts)
<1>1. Event(ev, d) \in EventSet /\ Event(ev, d).ev = ev
  BY DEF Event, EventSet, Evs
<1>2. evts \in Seq(EventSet) /\ ChainOnce(evts) /\ ChainFirst(evts)
  BY DEF HostType, BatchBody, OneToken, BehindReset
<1>3. evts' = Append(evts, Event(ev, d))
  BY DEF Emit
<1> QED
  BY <1>1, <1>2, <1>3, EmitKeeps

(* The controller executes a command.                                      *)
LEMMA BatchExecute ==
    ASSUME HostType, BatchType, BatchBody, Execute, UNCHANGED batchVars
    PROVE  BatchBody'
<1> USE DEF Device
<1>1. /\ cmds # <<>> /\ cmds' = Tail(cmds)
      /\ ToSet(cmds) = ToSet(cmds') \cup {Head(cmds)}
      /\ ConnectOnce(cmds') /\ ConnectFirst(cmds')
      /\ Head(cmds).cmd = "connect" => ~HasConnect(cmds')
      /\ Head(cmds) = Reset => ~HasConnect(cmds')
  <2>1. cmds \in Seq(CommandSet) /\ ConnectOnce(cmds) /\ ConnectFirst(cmds)
    BY DEF HostType, BatchBody, OneToken, BehindReset
  <2> QED
    BY <2>1, ExecuteKeeps DEF Execute
<1>2. Head(cmds).dev \in Device /\ Head(cmds) \in ToSet(cmds)
  <2>1. Head(cmds) \in CommandSet
    BY <1>1, TailFacts DEF HostType
  <2> QED
    BY <1>1, <2>1 DEF CommandSet
<1>3. /\ UNCHANGED <<m_scan_state, m_buf, client, flashed, dev_list, is_valid,
                     suc_file, m_cur_dev, crashed>>
      /\ ~crashed
  BY DEF Execute, hostVars, appVars, batchVars, BatchBody, Noted
<1>4. CASE Head(cmds) = Reset
  <2>1. /\ initiating' = NoDev /\ peers' = {} /\ req' = NoRequest
        /\ evts' = Append(evts, Event("reset", NoDev))
    BY <1>4 DEF Execute, Reset, Cmd, Cancel, Emit
  <2>2. Event("reset", NoDev) \in EventSet /\ Event("reset", NoDev).ev = "reset"
    BY DEF Event, EventSet
  <2>3. evts \in Seq(EventSet) /\ ChainOnce(evts) /\ ChainFirst(evts)
    BY DEF HostType, BatchBody, OneToken, BehindReset
  <2>4. /\ ToSet(evts') = ToSet(evts) \cup {Event("reset", NoDev)}
        /\ ChainOnce(evts') /\ ChainFirst(evts')
    BY <2>1, <2>2, <2>3, EmitKeeps DEF ChainEvs
  <2>5. ~HasConnect(cmds') /\ ~Initiates' /\ ~Asked' /\ HasReset(evts')
        /\ (HasChain(evts') => HasChain(evts))
    BY <1>1, <1>4, <2>1, <2>2, <2>4
       DEF Initiates, Asked, ChainOps, NoRequest, Request, HasReset, HasChain, ChainEvs
  <2>6. OneToken'
    BY <1>1, <2>4, <2>5 DEF OneToken
  <2>7. BehindReset'
    BY <1>1, <1>3, <2>1, <2>4, <2>5
       DEF BatchBody, BehindReset, NoToken, NoRequest, Request
  <2>8. Matched'
    BY <1>3, <2>1, <2>5, ResettingIs DEF BatchBody, Matched, NoRequest, Request
  <2>9. Noted'
    <3>1. \A e \in ToSet(evts') : e.ev = "success" => e \in ToSet(evts)
      BY <2>2, <2>4
    <3>2. ~NoToken' => ~NoToken
      BY <2>5 DEF NoToken
    <3> QED
      BY <1>3, <3>1, <3>2 DEF BatchBody, Noted, ForCur, Items
  <2> QED
    BY <2>6, <2>7, <2>8, <2>9 DEF BatchBody
<1>5. CASE Head(cmds).cmd = "connect"
  <2> DEFINE c == Head(cmds)
  <2>1. /\ initiating' = IF initiating = NoDev /\ c.dev \notin peers THEN c.dev
                         ELSE initiating
        /\ UNCHANGED <<peers, req, evts>>
    BY <1>5 DEF Execute, Reset, Cmd, Cancel
  <2>2. HasConnect(cmds) /\ ~Initiates /\ ~HasChain(evts) /\ ~Asked /\ ~HasReset(evts)
        /\ ~m_scan_state
    BY <1>2, <1>5 DEF HasConnect, BatchBody, OneToken, BehindReset, NoToken
  <2>3. initiating' \in {NoDev, c.dev} /\ ~HasConnect(cmds')
    BY <1>1, <1>5, <2>1, <2>2 DEF Initiates
  <2>4. OneToken'
    BY <1>1, <2>1, <2>2, <2>3 DEF BatchBody, OneToken, Asked
  <2>5. BehindReset'
    BY <1>1, <1>3, <2>1, <2>2, <2>3 DEF BatchBody, BehindReset, NoToken
  <2>6. Resetting' <=> Resetting
    <3>1. Reset \in ToSet(cmds') <=> Reset \in ToSet(cmds)
      BY <1>1, <1>5 DEF Reset, Cmd
    <3> QED
      BY <2>1, <3>1, ResettingIs
  <2>7. Matched'
    BY <1>1, <1>2, <1>3, <1>5, <2>1, <2>3, <2>6
       DEF BatchBody, Matched, ForCur, Initiates, Items, HasConnect
  <2>8. Noted'
    <3>1. ~NoToken
      BY <2>2 DEF NoToken
    <3> QED
      BY <1>3, <2>1, <3>1 DEF BatchBody, Noted, ForCur, Items
  <2> QED
    BY <2>4, <2>5, <2>7, <2>8 DEF BatchBody
<1>6. CASE Head(cmds).cmd # "connect" /\ Head(cmds) # Reset
  <2>1. /\ initiating' \in {initiating, NoDev} /\ peers' \subseteq peers
        /\ req' = req \/ req' = NoRequest
        /\ req'.op # "none" => req'.dev \in peers'
        /\ \/ evts' = evts
           \/ Emit("failed", NoDev)
           \/ Emit("disconnected", Head(cmds).dev)
    BY <1>6 DEF Execute, NoRequest, Request, BatchBody, BehindReset
  <2>2. /\ ChainOnce(evts') /\ ChainFirst(evts')
        /\ ToSet(evts) \subseteq ToSet(evts')
        /\ \A e \in ToSet(evts') : e.ev \in ChainEvs \cup {"reset"} => e \in ToSet(evts)
    <3>1. CASE evts' = evts
      BY <3>1 DEF BatchBody, OneToken, BehindReset
    <3>2. CASE Emit("failed", NoDev) \/ Emit("disconnected", Head(cmds).dev)
      BY <1>2, <3>2, CalmEmit DEF Evs, ChainEvs
    <3> QED
      BY <2>1, <3>1, <3>2
  <2>3. Resetting => Resetting'
    BY <1>1, <1>6, <2>2, ResettingIs DEF HasReset
  <2> QED
    BY <1>1, <1>3, <2>1, <2>2, <2>3, BatchCalm DEF NoRequest, Request
<1> QED
  BY <1>4, <1>5, <1>6

(* The controller, a device or the radio does something else.              *)
LEMMA BatchEnvironment ==
    ASSUME HostType, BatchType, BatchBody, Environment, UNCHANGED batchVars
    PROVE  BatchBody'
<1> USE DEF Device
<1>1. /\ ConnectOnce(cmds) /\ ConnectFirst(cmds) /\ ~crashed
      /\ req.op # "none" => req.dev \in peers
      /\ Resetting <=> Reset \in ToSet(cmds) \/ HasReset(evts)
  BY ResettingIs DEF BatchBody, OneToken, BehindReset, Noted
<1>2. ASSUME NEW ev \in Evs, ev \notin ChainEvs \cup {"reset"}, NEW d \in Device,
             Emit(ev, d), peers' \subseteq peers, initiating' \in {initiating, NoDev},
             req' = req \/ req' = NoRequest, req'.op # "none" => req'.dev \in peers',
             UNCHANGED <<cmds, m_scan_state, m_buf, client, flashed>>
      PROVE  BatchBody'
  <2>1. /\ ChainOnce(evts') /\ ChainFirst(evts')
        /\ ToSet(evts) \subseteq ToSet(evts')
        /\ \A e \in ToSet(evts') : e.ev \in ChainEvs \cup {"reset"} => e \in ToSet(evts)
    BY <1>2, CalmEmit
  <2>2. Resetting => Resetting'
    BY <1>2, <2>1, ResettingIs DEF HasReset
  <2>3. ConnectOnce(cmds') /\ ConnectFirst(cmds')
    BY <1>1, <1>2 DEF ConnectOnce, ConnectFirst
  <2> QED
    BY <1>1, <1>2, <2>1, <2>2, <2>3, BatchCalm DEF batchVars, NoRequest, Request
<1>3. CASE Execute
  BY <1>3, BatchExecute
<1>4. ASSUME NEW d \in Dev, Advertise(d) PROVE BatchBody'
  BY <1>1, <1>2, <1>4 DEF Advertise, hostVars, appVars, Evs, ChainEvs
<1>5. ASSUME NEW d \in Dev, LinkEnds(d) PROVE BatchBody'
  <2>1. /\ req' = req \/ req' = NoRequest
        /\ req'.op # "none" => req'.dev \in peers'
    BY <1>1, <1>5 DEF LinkEnds, NoRequest, Request
  <2> QED
    BY <1>2, <1>5, <2>1 DEF LinkEnds, hostVars, appVars, Evs, ChainEvs
<1>6. CASE EstablishFails
  BY <1>1, <1>2, <1>6 DEF EstablishFails, hostVars, appVars, Evs, ChainEvs
<1>7. CASE Refuses
  <2>1. req' = NoRequest /\ NoRequest.op = "none"
    BY <1>7 DEF Refuses, NoRequest, Request
  <2>2. req.dev \in Device
    BY DEF HostType
  <2> QED
    BY <1>2, <1>7, <2>1, <2>2 DEF Refuses, hostVars, appVars, ctrlVars, Evs, ChainEvs
<1>8. CASE Breaks
  BY <1>2, <1>8 DEF Breaks, hostVars, appVars, Evs, ChainEvs, NoRequest, Request
<1>9. CASE Garbled
  BY <1>1, <1>2, <1>9 DEF Garbled, hostVars, appVars, ctrlVars, Evs, ChainEvs
<1>10. CASE Established
  <2>1. /\ initiating \in Dev /\ initiating' = NoDev /\ peers' = peers \cup {initiating}
        /\ evts' = Append(evts, Event("connected", initiating))
        /\ UNCHANGED <<cmds, req, m_scan_state, m_buf, client, flashed>>
        /\ UNCHANGED <<dev_list, is_valid, suc_file, m_cur_dev, crashed>>
    BY <1>10 DEF Established, HostType, Emit, hostVars, appVars, batchVars
  <2>2. Event("connected", initiating) \in EventSet
        /\ Event("connected", initiating).ev = "connected"
    BY <2>1 DEF Event, EventSet
  <2>3. Initiates
    BY <1>10 DEF Established, Initiates
  <2>4. ~HasConnect(cmds) /\ ~HasChain(evts) /\ ~Asked /\ ~HasReset(evts) /\ ~m_scan_state
    BY <2>3 DEF BatchBody, OneToken, BehindReset, NoToken
  <2>5. evts \in Seq(EventSet) /\ ChainOnce(evts) /\ ChainFirst(evts)
    BY DEF HostType, BatchBody, OneToken, BehindReset
  <2>6. /\ ToSet(evts') = ToSet(evts) \cup {Event("connected", initiating)}
        /\ ChainOnce(evts') /\ ChainFirst(evts')
    BY <2>1, <2>2, <2>4, <2>5, EmitKeeps
  <2>7. ~HasConnect(cmds') /\ ~Initiates' /\ ~Asked' /\ ~HasReset(evts')
    BY <2>1, <2>2, <2>4, <2>6 DEF HasConnect, Initiates, Asked, HasReset
  <2>8. OneToken'
    BY <1>1, <2>1, <2>6, <2>7 DEF OneToken
  <2>9. BehindReset'
    BY <1>1, <2>1, <2>4, <2>6, <2>7 DEF BehindReset, BatchBody
  <2>10. Resetting' <=> Resetting
    BY <1>1, <2>1, <2>4, <2>7, ResettingIs
  <2>11. Matched'
    BY <2>1, <2>3, <2>7, <2>10 DEF BatchBody, Matched, ForCur, Items, Initiates
  <2>12. Noted'
    <3>1. \A e \in ToSet(evts') : e.ev = "success" => e \in ToSet(evts)
      BY <2>2, <2>6
    <3>2. ~NoToken
      BY <2>3 DEF NoToken
    <3> QED
      BY <2>1, <3>1, <3>2 DEF BatchBody, Noted, ForCur, Items
  <2> QED
    BY <2>8, <2>9, <2>11, <2>12 DEF BatchBody
<1>11. CASE Answers
  <2>1. /\ req.op # "none" /\ req' = NoRequest
        /\ UNCHANGED <<cmds, initiating, peers, m_scan_state, m_buf, client>>
        /\ UNCHANGED <<dev_list, is_valid, suc_file, m_cur_dev, crashed>>
        /\ req.dev \in Device /\ NoRequest.op = "none"
    BY <1>11 DEF Answers, hostVars, appVars, ctrlVars, batchVars, HostType, NoRequest, Request
  <2>2. CASE req.op = "stray"
    BY <1>2, <1>11, <2>1, <2>2 DEF Answers, Evs, ChainEvs
  <2>3. CASE req.op \in ChainOps
    <3>1. PICK ev \in {"mtu", "found", "success"} :
            /\ evts' = Append(evts, Event(ev, req.dev))
            /\ IF ev = "success"
               THEN req.op = "update" /\ flashed' = flashed \cup {<<req.dev, req.image>>}
               ELSE flashed' = flashed
      BY <1>11, <2>3 DEF Answers, Emit, ChainOps
    <3> DEFINE e == Event(ev, req.dev)
    <3>2. e \in EventSet /\ e.ev = ev /\ e.dev = req.dev
      BY <2>1 DEF Event, EventSet
    <3>3. Asked /\ ~HasConnect(cmds) /\ ~HasChain(evts) /\ ~Initiates /\ ~HasReset(evts)
          /\ ~m_scan_state
      BY <1>1, <2>1, <2>3 DEF Asked, BatchBody, OneToken, BehindReset, NoToken
    <3>4. evts \in Seq(EventSet) /\ ChainOnce(evts) /\ ChainFirst(evts)
      BY DEF HostType, BatchBody, OneToken, BehindReset
    <3>5. /\ ToSet(evts') = ToSet(evts) \cup {e}
          /\ ChainOnce(evts') /\ ChainFirst(evts')
      BY <3>1, <3>2, <3>3, <3>4, EmitKeeps
    <3> HIDE DEF e
    <3>6. ~HasConnect(cmds') /\ ~Initiates' /\ ~Asked' /\ ~HasReset(evts')
      BY <2>1, <3>2, <3>3, <3>5 DEF HasConnect, Initiates, Asked, ChainOps, HasReset
    <3>7. OneToken'
      BY <1>1, <2>1, <3>5, <3>6 DEF OneToken
    <3>8. BehindReset'
      BY <1>1, <2>1, <3>3, <3>5, <3>6 DEF BehindReset, BatchBody
    <3>9. Resetting' <=> Resetting
      BY <1>1, <2>1, <3>3, <3>6, ResettingIs
    <3>10. Matched'
      BY <2>1, <3>6, <3>9 DEF BatchBody, Matched, ForCur, Items, Initiates
    <3>11. Noted'
      <4>1. \A x \in ToSet(evts') : x.ev = "success" => x = e
        BY <3>3, <3>5 DEF HasChain, ChainEvs
      <4>2. ~NoToken
        BY <3>3 DEF NoToken
      <4>3. ev = "success" =>
                IF m_cur_dev = NoItem THEN client = "idle"
                ELSE ForCur(req.dev) /\ <<req.dev, m_cur_dev>> \in flashed'
        BY <3>1 DEF BatchBody, Matched, ForCur
      <4>4. \A x \in ToSet(evts') : x.ev = "success" =>
                IF m_cur_dev' = NoItem THEN client' = "idle"
                ELSE ForCur(x.dev)' /\ <<x.dev, m_cur_dev'>> \in flashed'
        BY <2>1, <3>2, <4>1, <4>3 DEF ForCur
      <4>5. flashed \subseteq flashed' /\ \A f \in flashed' : f[1] \in dev_list[f[2]].match
        BY <3>1 DEF BatchBody, Noted, Matched
      <4>6. Items' = Items /\ \A i \in Items :
              suc_file[i] > 0 => \E d \in dev_list[i].match : <<d, i>> \in flashed'
        BY <2>1, <4>5 DEF BatchBody, Noted, Items
      <4> QED
        BY <2>1, <4>2, <4>4, <4>5, <4>6 DEF BatchBody, Noted
    <3> QED
      BY <3>7, <3>8, <3>10, <3>11 DEF BatchBody
  <2> QED
    BY <1>11, <2>2, <2>3 DEF Answers, ChainOps
<1> QED
  BY <1>3, <1>4, <1>5, <1>6, <1>7, <1>8, <1>9, <1>10, <1>11 DEF Environment

(* An event is taken, and nothing is connected for it.                     *)
LEMMA HandleKeeps ==
    ASSUME HostType, BatchBody, NEW ev, NEW d, NEW cs \in Seq(CommandSet),
           Handle(ev, d, cs), ~HasConnect(cs)
    PROVE  /\ ConnectOnce(cmds') /\ ConnectFirst(cmds')
           /\ ChainOnce(evts') /\ ChainFirst(evts')
           /\ \A c \in ToSet(cmds') : c.cmd = "connect" => c \in ToSet(cmds)
           /\ HasConnect(cmds') => HasConnect(cmds)
           /\ ToSet(evts) = ToSet(evts') \cup {Event(ev, d)}
           /\ ev # "reset" => (Resetting => Resetting')
           /\ ev \in ChainEvs \cup {"reset"} => ~HasChain(evts')
           /\ UNCHANGED <<initiating, peers, flashed, dev_list>>
<1>1. /\ evts # <<>> /\ Head(evts) = Event(ev, d) /\ evts' = Tail(evts) /\ Queue(cs)
      /\ UNCHANGED <<initiating, peers, flashed, dev_list>>
  BY DEF Handle, Takes, ctrlVars
<1>2. /\ ConnectOnce(cmds) /\ ConnectFirst(cmds) /\ ChainOnce(evts) /\ ChainFirst(evts)
      /\ evts \in Seq(EventSet)
  BY DEF BatchBody, OneToken, BehindReset, HostType
<1>3. /\ ConnectOnce(cmds') /\ ConnectFirst(cmds')
      /\ ToSet(cmds) \subseteq ToSet(cmds')
      /\ ToSet(cmds') \subseteq ToSet(cmds) \cup ToSet(cs)
  BY <1>1, <1>2, QueueKeeps
<1>4. \A c \in ToSet(cmds') : c.cmd = "connect" => c \in ToSet(cmds)
  BY <1>3 DEF HasConnect
<1>5. Event(ev, d).ev = ev
  BY DEF Event
<1>6. /\ ChainOnce(evts') /\ ChainFirst(evts')
      /\ ToSet(evts) = ToSet(evts') \cup {Event(ev, d)}
      /\ ev \in ChainEvs \cup {"reset"} => ~HasChain(evts')
  BY <1>1, <1>2, <1>5, TakeKeeps
<1>7. ASSUME ev # "reset", Resetting PROVE Resetting'
  BY <1>3, <1>5, <1>6, <1>7, ResettingIs DEF HasReset
<1> QED
  BY <1>1, <1>3, <1>4, <1>6, <1>7 DEF HasConnect

LEMMA NoConnect ==
    /\ ~HasConnect(<<>>) /\ ~HasConnect(<<Reset>>)
    /\ \A on \in BOOLEAN : ~HasConnect(ScanCmds(on))
    /\ \A d : ~HasConnect(<<Cmd("disconnect", d)>>)
<1>1. ASSUME NEW c, c.cmd # "connect" PROVE ~HasConnect(<<c>>)
  BY <1>1 DEF HasConnect, ToSet
<1>2. ~HasConnect(<<>>)
  BY DEF HasConnect, ToSet
<1>3. Reset.cmd # "connect" /\ \A on \in BOOLEAN : ScanEnable(on).cmd # "connect"
      /\ \A d : Cmd("disconnect", d).cmd # "connect"
  BY DEF Reset, ScanEnable, Cmd
<1> QED
  BY <1>1, <1>2, <1>3 DEF ScanCmds

(* An event that no update goes on with.                                   *)
LEMMA HandleCalm ==
    ASSUME HostType, BatchType, BatchBody, NEW ev, NEW d, NEW cs \in Seq(CommandSet),
           Handle(ev, d, cs), ~HasConnect(cs), ev # "reset", req' = req,
           m_scan_state' => m_scan_state,
           UNCHANGED <<m_cur_dev, m_buf, suc_file>>, ~crashed',
           \A i \in Items : is_valid'[i] => is_valid[i],
           client' \in {client, "idle"}
    PROVE  BatchBody'
<1>1. /\ ConnectOnce(cmds') /\ ConnectFirst(cmds')
      /\ ChainOnce(evts') /\ ChainFirst(evts')
      /\ \A c \in ToSet(cmds') : c.cmd = "connect" => c \in ToSet(cmds)
      /\ ToSet(evts) = ToSet(evts') \cup {Event(ev, d)}
      /\ Resetting => Resetting'
      /\ UNCHANGED <<initiating, peers, flashed, dev_list>>
  BY HandleKeeps
<1>2. req'.op # "none" => req'.dev \in peers'
  BY <1>1 DEF BatchBody, BehindReset
<1> QED
  BY <1>1, <1>2, BatchCalm

(* An event that the update of a device goes on with.                      *)
LEMMA HandleChain ==
    ASSUME HostType, BatchType, BatchBody, NEW ev \in {"connected", "mtu", "found"},
           NEW d, Handle(ev, d, <<>>), NEW op \in ChainOps, NEW to \in Device,
           Ask(to, op, m_buf) \/ (op # "update" /\ Ask(to, op, NoImage)) \/ req' = req,
           UNCHANGED <<m_cur_dev, m_buf, suc_file, m_scan_state, is_valid>>
    PROVE  /\ req' # req => m_buf # NoImage
           /\ ~crashed' => BatchBody'
<1>1. /\ ConnectOnce(cmds') /\ ConnectFirst(cmds')
      /\ ChainOnce(evts') /\ ChainFirst(evts')
      /\ \A c \in ToSet(cmds') : c.cmd = "connect" => c \in ToSet(cmds)
      /\ HasConnect(cmds') => HasConnect(cmds)
      /\ ToSet(evts) = ToSet(evts') \cup {Event(ev, d)}
      /\ Resetting => Resetting'
      /\ ~HasChain(evts')
      /\ UNCHANGED <<initiating, peers, flashed, dev_list>>
  BY HandleKeeps, NoConnect, CommandTypes DEF ChainEvs
<1>2. /\ HasChain(evts) /\ ~HasConnect(cmds) /\ ~Initiates /\ ~Asked /\ ~m_scan_state
      /\ ~HasConnect(cmds') /\ ~Initiates'
  <2>1. Event(ev, d) \in ToSet(evts) /\ Event(ev, d).ev \in ChainEvs
    BY <1>1 DEF Event, ChainEvs
  <2>2. HasChain(evts)
    BY <2>1 DEF HasChain
  <2> QED
    BY <1>1, <2>2 DEF BatchBody, OneToken, BehindReset, NoToken, Initiates
<1>3. HasReset(evts') => HasReset(evts)
  BY <1>1 DEF HasReset
<1>4. ASSUME req' # req
      PROVE  /\ to \in peers /\ ~Resetting /\ req'.op = op /\ req'.dev = to
             /\ op = "update" => req'.image = m_buf
  <2>1. /\ to \in peers /\ Reset \notin ToSet(cmds)
        /\ req' = Request(op, to, m_buf) \/ (op # "update" /\ req' = Request(op, to, NoImage))
    BY <1>4 DEF Ask
  <2>2. ~HasReset(evts)
    BY <2>1 DEF BatchBody, BehindReset
  <2> QED
    BY <2>1, <2>2, ResettingIs DEF Request
<1>5. ASSUME req' # req
      PROVE  /\ m_cur_dev \in Items /\ m_cur_dev # NoItem /\ to \in dev_list[m_cur_dev].match
             /\ m_buf = m_cur_dev /\ m_buf # NoImage
  <2>1. ForCur(to)
    BY <1>4, <1>5 DEF BatchBody, Matched
  <2>2. m_cur_dev \in Items /\ m_cur_dev # NoItem /\ m_buf = m_cur_dev
    BY <2>1 DEF ForCur, BatchBody, Matched, BatchType
  <2> QED
    BY <2>1, <2>2, DfuHostAssumption DEF BatchType, ForCur
<1>6. OneToken'
  BY <1>1, <1>2 DEF OneToken
<1>7. BehindReset'
  <2>1. req'.op # "none" => req'.dev \in peers'
    BY <1>1, <1>4 DEF BatchBody, BehindReset
  <2> QED
    BY <1>1, <1>2, <1>3, <2>1 DEF BatchBody, BehindReset
<1>8. Matched'
  <2>1. req'.op = "update" => req' # req
    BY <1>2 DEF Asked, ChainOps
  <2>2. \A c \in ToSet(cmds') : c.cmd # "connect"
    BY <1>2 DEF HasConnect
  <2>3. req'.op = "update" =>
            /\ req'.image \in Items' /\ req'.dev \in dev_list'[req'.image].match
            /\ IF m_cur_dev' = NoItem THEN client' = "idle" ELSE req'.image = m_cur_dev'
    BY <1>1, <1>4, <1>5, <2>1 DEF Items
  <2> QED
    BY <1>1, <1>2, <2>2, <2>3 DEF BatchBody, Matched, ForCur
<1>9. ASSUME ~crashed' PROVE Noted'
  <2>1. \A e \in ToSet(evts') : e.ev # "success"
    BY <1>1 DEF HasChain, ChainEvs
  <2>2. ~NoToken
    BY <1>2 DEF NoToken
  <2> QED
    BY <1>1, <1>9, <2>1, <2>2 DEF BatchBody, Noted, Items
<1> QED
  BY <1>5, <1>6, <1>7, <1>8, <1>9 DEF BatchBody

LEMMA BatchGapReset ==
    ASSUME HostType, BatchType, BatchBody, GapReset
    PROVE  BatchBody'
<1>1. Handle("reset", NoDev, ScanCmds(TRUE)) /\ ScanCmds(TRUE) \in Seq(CommandSet)
  BY ScanType DEF GapReset
<1>2. /\ ConnectOnce(cmds') /\ ConnectFirst(cmds')
      /\ ChainOnce(evts') /\ ChainFirst(evts')
      /\ HasConnect(cmds') => HasConnect(cmds)
      /\ ToSet(evts) = ToSet(evts') \cup {Event("reset", NoDev)}
      /\ ~HasChain(evts')
      /\ UNCHANGED <<initiating, peers, flashed, dev_list>>
  BY <1>1, HandleKeeps, NoConnect
<1>3. HasReset(evts)
  <2>1. Event("reset", NoDev) \in ToSet(evts) /\ Event("reset", NoDev).ev = "reset"
    BY <1>2 DEF Event
  <2> QED
    BY <2>1 DEF HasReset
<1>4. ~HasConnect(cmds') /\ ~Initiates' /\ peers' = {} /\ req.op = "none"
  BY <1>2, <1>3 DEF BatchBody, BehindReset, Initiates
<1>5. /\ m_scan_state' = TRUE /\ m_cur_dev' = NoItem /\ m_buf' = NoImage
      /\ UNCHANGED <<client, req, is_valid, suc_file, crashed>>
  BY DEF GapReset
<1>6. OneToken'
  BY <1>2, <1>4 DEF OneToken
<1>7. NoToken'
  BY <1>2, <1>4, <1>5 DEF NoToken, Asked, ChainOps
<1>8. BehindReset'
  BY <1>2, <1>4, <1>5, <1>7 DEF BehindReset
<1>9. Matched'
  <2>1. \A c \in ToSet(cmds') : c.cmd # "connect"
    BY <1>4 DEF HasConnect
  <2> QED
    BY <1>4, <1>5, <2>1 DEF Matched
<1>10. Noted'
  <2>1. \A e \in ToSet(evts') : e.ev # "success"
    BY <1>2 DEF HasChain, ChainEvs
  <2> QED
    BY <1>2, <1>5, <1>7, <2>1 DEF BatchBody, Noted, Items
<1> QED
  BY <1>6, <1>8, <1>9, <1>10 DEF BatchBody

LEMMA BatchSuccess ==
    ASSUME HostType, BatchType, BatchBody, NEW d \in Dev, Success(d)
    PROVE  BatchBody'
<1>1. Handle("success", d, <<>>) /\ client' = "idle"
      /\ UNCHANGED <<conn_handle, req, m_scan_state, m_cur_dev, m_buf>>
  BY DEF Success
<1>2. /\ ConnectOnce(cmds') /\ ConnectFirst(cmds')
      /\ ChainOnce(evts') /\ ChainFirst(evts')
      /\ \A c \in ToSet(cmds') : c.cmd = "connect" => c \in ToSet(cmds)
      /\ HasConnect(cmds') => HasConnect(cmds)
      /\ ToSet(evts) = ToSet(evts') \cup {Event("success", d)}
      /\ Resetting => Resetting'
      /\ ~HasChain(evts')
      /\ UNCHANGED <<initiating, peers, flashed, dev_list>>
  <2>1. PICK ev : ev = "success"
    OBVIOUS
  <2>2. ev \in ChainEvs /\ ev # "reset" /\ Handle(ev, d, <<>>)
    BY <1>1, <2>1 DEF ChainEvs
  <2>3. <<>> \in Seq(CommandSet) /\ ~HasConnect(<<>>)
    BY NoConnect, CommandTypes
  <2>4. /\ ConnectOnce(cmds') /\ ConnectFirst(cmds')
        /\ ChainOnce(evts') /\ ChainFirst(evts')
        /\ \A c \in ToSet(cmds') : c.cmd = "connect" => c \in ToSet(cmds)
        /\ HasConnect(cmds') => HasConnect(cmds)
        /\ ToSet(evts) = ToSet(evts') \cup {Event(ev, d)}
        /\ Resetting => Resetting'
        /\ ~HasChain(evts')
        /\ UNCHANGED <<initiating, peers, flashed, dev_list>>
    BY <2>2, <2>3, HandleKeeps
  <2> QED
    BY <2>1, <2>4
<1>3. Event("success", d) \in ToSet(evts)
      /\ Event("success", d).ev = "success" /\ Event("success", d).dev = d
  BY <1>2 DEF Event
<1>4. IF m_cur_dev = NoItem THEN client = "idle"
      ELSE ForCur(d) /\ <<d, m_cur_dev>> \in flashed
  BY <1>3 DEF BatchBody, Noted
<1>5. CASE client = "idle"
  <2>1. UNCHANGED <<is_valid, suc_file, crashed>>
    BY <1>5 DEF Success
  <2> QED
    BY <1>1, <2>1, HandleCalm, NoConnect, CommandTypes DEF BatchBody, Noted
<1>6. CASE client # "idle"
  <2>1. m_cur_dev \in Items /\ m_cur_dev # NoItem
    BY <1>4, <1>6 DEF BatchType
  <2>2. Credit(m_cur_dev) /\ UNCHANGED crashed
    BY <1>6, <2>1 DEF Success, HostType
  <2>3. HasChain(evts) /\ ~NoToken
    BY <1>3 DEF HasChain, ChainEvs, NoToken
  <2>4. ~HasConnect(cmds') /\ ~Initiates' /\ ~Asked' /\ ~m_scan_state
    BY <1>1, <1>2, <2>3 DEF BatchBody, OneToken, BehindReset, Initiates, Asked
  <2>5. OneToken'
    BY <1>2, <2>4 DEF OneToken
  <2>6. BehindReset'
    <3>1. HasReset(evts') => HasReset(evts)
      BY <1>2 DEF HasReset
    <3> QED
      BY <1>1, <1>2, <2>4, <3>1 DEF BatchBody, BehindReset
  <2>7. Matched'
    <3>1. \A c \in ToSet(cmds') : c.cmd # "connect"
      BY <2>4 DEF HasConnect
    <3> QED
      BY <1>1, <1>2, <2>4, <3>1 DEF BatchBody, Matched, ForCur, Items
  <2>8. Noted'
    <3>1. \A e \in ToSet(evts') : e.ev # "success"
      BY <1>2 DEF HasChain, ChainEvs
    <3>2. NoToken'
      BY <1>2, <2>4 DEF NoToken
    <3>3. dev_list[m_cur_dev].repeat \/ suc_file[m_cur_dev] = 0
      BY <2>1, <2>3 DEF BatchBody, Noted
    <3>4. <<d, m_cur_dev>> \in flashed /\ d \in dev_list[m_cur_dev].match
      BY <1>4, <2>1 DEF ForCur
    <3>5. ASSUME NEW i \in Items
          PROVE  /\ suc_file'[i] > 0 => \E x \in dev_list[i].match : <<x, i>> \in flashed
                 /\ suc_file'[i] > 1 => dev_list[i].repeat
                 /\ is_valid'[i] => dev_list[i].repeat \/ suc_file'[i] = 0
      <4>1. CASE i = m_cur_dev
        <5>1. suc_file'[i] = (IF suc_file[i] = 2 THEN 2 ELSE suc_file[i] + 1)
              /\ is_valid'[i] = dev_list[i].repeat
          BY <2>1, <2>2, <4>1 DEF Credit, AddLine, BatchType
        <5> QED
          BY <3>3, <3>4, <4>1, <5>1
      <4>2. CASE i # m_cur_dev
        <5>1. suc_file'[i] = suc_file[i] /\ is_valid'[i] = is_valid[i]
          BY <2>1, <2>2, <4>2 DEF Credit, AddLine, BatchType
        <5> QED
          BY <5>1 DEF BatchBody, Noted
      <4> QED
        BY <4>1, <4>2
    <3> QED
      BY <1>2, <2>2, <3>1, <3>2, <3>5 DEF BatchBody, Noted, Items
  <2> QED
    BY <2>5, <2>6, <2>7, <2>8 DEF BatchBody
<1> QED
  BY <1>5, <1>6

LEMMA OneElement ==
    ASSUME NEW S, NEW c \in S
    PROVE  <<c>> \in Seq(S) /\ ToSet(<<c>>) = {c}
BY DEF ToSet

(* What is sent on a report: a connection is the last, and the only one    *)
(* unless something is sent before it that resets the controller.          *)
LEMMA AdvCmdsShape ==
    ASSUME HostType, BatchType, NEW d \in Dev, m_scan_state
    PROVE  /\ Chosen(d) = NoItem => ~HasConnect(AdvCmds(d))
           /\ Chosen(d) # NoItem =>
                /\ HasConnect(AdvCmds(d))
                /\ Reset \notin ToSet(AdvCmds(d)) =>
                    AdvCmds(d) = <<ScanEnable(FALSE), Cmd("connect", d)>>
<1>1. PICK c : c = ScanEnable(FALSE)
  OBVIOUS
<1>2. PICK k : k = Cmd("connect", d)
  OBVIOUS
<1>3. PICK n : n = Cardinality(Missing(d))
  OBVIOUS
<1>4. PICK rs : rs = [i \in 1 .. n |-> Reset]
  OBVIOUS
<1>5. /\ c \in CommandSet /\ c.cmd # "connect" /\ c # Reset /\ Reset.cmd # "connect"
      /\ k \in CommandSet /\ k.cmd = "connect"
  BY <1>1, <1>2 DEF ScanEnable, Cmd, CommandSet, Device, Reset
<1>6. n \in Nat /\ rs \in Seq(CommandSet) /\ DOMAIN rs = 1 .. n
      /\ \A i \in 1 .. n : rs[i] = Reset
  BY <1>3, <1>4, ResetsType
<1>7. ToSet(rs) \subseteq {Reset} /\ (n # 0 => Reset \in ToSet(rs))
  <2>1. n # 0 => 1 \in 1 .. n
    BY <1>6
  <2> QED
    BY <1>6, <2>1 DEF ToSet
<1>8. PICK first, last :
        /\ first = <<c>> /\ first \in Seq(CommandSet) /\ ToSet(first) = {c}
        /\ last = <<k>> /\ last \in Seq(CommandSet) /\ ToSet(last) = {k}
  BY <1>5, OneElement
<1>9. first \o rs \in Seq(CommandSet) /\ ToSet(first \o rs) = {c} \cup ToSet(rs)
  BY <1>6, <1>8, ConcatFacts
<1>10. AdvCmds(d) = (first \o rs) \o (IF Chosen(d) = NoItem THEN <<>> ELSE last)
  BY <1>1, <1>2, <1>3, <1>4, <1>8 DEF AdvCmds, ScanCmds
<1>11. ASSUME Chosen(d) = NoItem PROVE ~HasConnect(AdvCmds(d))
  <2>1. AdvCmds(d) = first \o rs
    BY <1>9, <1>10, <1>11, ConcatEmptySeq
  <2> QED
    BY <1>5, <1>7, <1>9, <2>1 DEF HasConnect
<1>12. ASSUME Chosen(d) # NoItem
       PROVE  /\ HasConnect(AdvCmds(d))
              /\ Reset \notin ToSet(AdvCmds(d)) => AdvCmds(d) = <<c, k>>
  <2>1. AdvCmds(d) = (first \o rs) \o last
    BY <1>10, <1>12
  <2>2. ToSet(AdvCmds(d)) = ({c} \cup ToSet(rs)) \cup {k}
    <3>1. PICK front : front = first \o rs /\ front \in Seq(CommandSet)
                       /\ ToSet(front) = {c} \cup ToSet(rs)
      BY <1>9
    <3>2. ToSet(front \o last) = ToSet(front) \cup ToSet(last)
      <4>1. front \in Seq(CommandSet) /\ last \in Seq(CommandSet)
        BY <1>8, <3>1
      <4> QED
        BY <4>1, ConcatFacts
    <3> QED
      BY <1>8, <2>1, <3>1, <3>2
  <2>3. ASSUME Reset \notin ToSet(AdvCmds(d)) PROVE AdvCmds(d) = <<c, k>>
    <3>1. n = 0
      BY <1>7, <2>2, <2>3
    <3>2. rs = <<>>
      <4>1. Len(rs) = 0
        BY <1>6, <3>1, LenProperties
      <4> QED
        BY <1>6, <4>1, EmptySeq
    <3>3. first \o rs = first
      BY <1>8, <3>2, ConcatEmptySeq
    <3>4. <<c>> \o <<k>> = <<c, k>>
      <4>1. PICK both : both = <<c, k>>
        OBVIOUS
      <4>2. both \in Seq(CommandSet) /\ Len(both) = 2 /\ both[1] = c /\ both[2] = k
        BY <1>5, <4>1
      <4>3. Len(first) = 1 /\ first[1] = c /\ Len(last) = 1 /\ last[1] = k
        BY <1>8
      <4>4. /\ first \o last \in Seq(CommandSet) /\ Len(first \o last) = 2
            /\ (first \o last)[1] = c /\ (first \o last)[2] = k
        BY <1>8, <4>3, ConcatFacts
      <4>5. first \o last = both
        BY <4>2, <4>4, SeqEqual
      <4> QED
        BY <1>8, <4>1, <4>5
    <3> QED
      BY <1>8, <2>1, <3>3, <3>4
  <2> QED
    BY <1>5, <2>2, <2>3 DEF HasConnect
<1> QED
  BY <1>1, <1>2, <1>11, <1>12

LEMMA BatchAdvReport ==
    ASSUME HostType, BatchType, BatchBody, NEW d \in Dev, AdvReport(d), ~overtaken'
    PROVE  BatchBody'
<1>1. /\ m_scan_state /\ m_scan_state' = FALSE
      /\ Handle("adv", d, AdvCmds(d)) /\ AdvCmds(d) \in Seq(CommandSet)
      /\ is_valid' = [i \in Items |-> is_valid[i] /\ i \notin Missing(d)]
      /\ UNCHANGED <<client, req, suc_file, crashed>>
  BY AdvCmdsType DEF AdvReport, Listens, AdvCmds
<1>2. NoToken /\ peers = {}
  BY <1>1 DEF BatchBody, BehindReset
<1>3. CASE Chosen(d) = NoItem
  <2>1. ~HasConnect(AdvCmds(d))
    BY <1>1, <1>3, AdvCmdsShape
  <2>2. UNCHANGED <<m_cur_dev, m_buf>> /\ \A i \in Items : is_valid'[i] => is_valid[i]
    BY <1>1, <1>3 DEF AdvReport
  <2> QED
    BY <1>1, <2>1, <2>2, HandleCalm DEF BatchBody, Noted
<1>4. CASE Chosen(d) # NoItem
  <2>1. /\ Chosen(d) \in Items /\ is_valid[Chosen(d)]
        /\ d \in dev_list[Chosen(d)].match
        /\ m_cur_dev' = Chosen(d) /\ m_buf' = Chosen(d)
    BY <1>4, ChosenItem DEF AdvReport
  <2>2. \E i \in DOMAIN AdvCmds(d) : AdvCmds(d)[i].cmd = "connect"
    BY <1>1, <1>4, AdvCmdsShape DEF HasConnect, ToSet
  <2>3. ~Resetting /\ Reset \notin ToSet(AdvCmds(d))
    BY <1>1, <2>2 DEF Handle
  <2> DEFINE c == ScanEnable(FALSE)
  <2>4. AdvCmds(d) = <<c, Cmd("connect", d)>>
    BY <1>1, <1>4, <2>3, AdvCmdsShape
  <2>5. c \in CommandSet /\ c.cmd # "connect" /\ c # Reset
    BY DEF ScanEnable, Cmd, CommandSet, Device, Reset
  <2>6. /\ Queue(<<c, Cmd("connect", d)>>) /\ evts # <<>> /\ evts' = Tail(evts)
        /\ Head(evts) = Event("adv", d)
        /\ UNCHANGED <<initiating, peers, flashed, dev_list>>
    BY <1>1, <2>4 DEF Handle, Takes, ctrlVars
  <2> HIDE DEF c
  <2>7. /\ ConnectOnce(cmds') /\ ConnectFirst(cmds')
        /\ Reset \notin ToSet(cmds')
        /\ \A x \in ToSet(cmds') : x.cmd = "connect" => x.dev = d
    <3>1. ~HasConnect(cmds) /\ Reset \notin ToSet(cmds)
      BY <1>2, <2>3, ResettingIs DEF NoToken
    <3> QED
      BY <2>5, <2>6, <3>1, ConnectQueued
  <2>8. /\ ToSet(evts) = ToSet(evts') \cup {Event("adv", d)}
        /\ ChainOnce(evts') /\ ChainFirst(evts')
    <3>1. evts \in Seq(EventSet) /\ ChainOnce(evts) /\ ChainFirst(evts)
      BY DEF HostType, BatchBody, OneToken, BehindReset
    <3> QED
      BY <2>6, <3>1, TakeKeeps
  <2>9. ~HasChain(evts') /\ ~HasReset(evts') /\ ~Initiates' /\ ~Asked' /\ peers' = {}
         /\ req.op = "none"
    <3>1. req.op # "none" => req.dev \in {}
      BY <1>2 DEF BatchBody, BehindReset
    <3>2. ~HasReset(evts)
      BY <2>3, ResettingIs
    <3> QED
      BY <1>1, <1>2, <2>6, <2>8, <3>1, <3>2
         DEF NoToken, HasChain, HasReset, Initiates, Asked, ChainOps
  <2>10. OneToken'
    BY <2>7, <2>8, <2>9 DEF OneToken
  <2>11. BehindReset'
    BY <1>1, <2>7, <2>8, <2>9 DEF BehindReset
  <2>12. ForCur(d)'
    BY <2>1, <2>6, <1>4 DEF ForCur
  <2>13. Matched'
    BY <1>1, <1>4, <2>1, <2>7, <2>9, <2>12 DEF Matched
  <2>14. Noted'
    <3>1. \A e \in ToSet(evts') : e.ev # "success"
      BY <2>9 DEF HasChain, ChainEvs
    <3>2. dev_list[Chosen(d)].repeat \/ suc_file[Chosen(d)] = 0
      BY <2>1 DEF BatchBody, Noted
    <3>3. \A i \in Items : is_valid'[i] => is_valid[i]
      BY <1>1
    <3> QED
      BY <1>1, <2>1, <2>6, <3>1, <3>2, <3>3 DEF BatchBody, Noted, Items
  <2> QED
    BY <2>10, <2>11, <2>13, <2>14 DEF BatchBody
<1> QED
  BY <1>3, <1>4

(* The controller is reset by the program.                                 *)
LEMMA BatchTimeoutKeeps ==
    ASSUME HostType, BatchType, BatchBody, "again" \notin timers,
           NEW id \in timers, Timeout(id)
    PROVE  BatchBody'
<1>1. PICK cs : cs = TimeoutCmds(id)
  OBVIOUS
<1>2. cs \in Seq(CommandSet) /\ ~HasConnect(cs)
  <2>1. id \in {"scan", "conn", "disc"}
    BY DEF HostType
  <2>2. <<Cancel>> \in Seq(CommandSet) /\ ~HasConnect(<<Cancel>>)
    <3>1. Cancel \in CommandSet /\ Cancel.cmd # "connect"
      BY DEF Cancel, Cmd, CommandSet, Device
    <3>2. PICK one : one = <<Cancel>> /\ one \in Seq(CommandSet) /\ ToSet(one) = {Cancel}
      BY <3>1, OneElement
    <3> QED
      BY <3>1, <3>2 DEF HasConnect
  <2> QED
    BY <1>1, <2>1, <2>2, ScanType, NoConnect, CommandTypes DEF TimeoutCmds
<1>3. PICK all : all = cmds \o cs /\ all \in Seq(CommandSet)
                 /\ ToSet(all) = ToSet(cmds) \cup ToSet(cs)
  <2>1. cmds \in Seq(CommandSet) /\ cs \in Seq(CommandSet)
    BY <1>2 DEF HostType
  <2>2. cmds \o cs \in Seq(CommandSet) /\ ToSet(cmds \o cs) = ToSet(cmds) \cup ToSet(cs)
    BY <2>1, ConcatFacts
  <2> QED
    BY <2>2
<1>4. EbInit(all, evts)
  BY <1>1, <1>3 DEF Timeout, BtReset
<1>5. /\ ConnectOnce(cmds') /\ ConnectFirst(cmds')
      /\ ToSet(cmds') \subseteq ToSet(all) \cup {Reset}
      /\ Reset \in ToSet(cmds')
      /\ ToSet(evts') \subseteq ToSet(evts)
      /\ ChainOnce(evts') /\ ChainFirst(evts')
  BY <1>3, <1>4, EbInitKeeps DEF HostType, BatchBody, OneToken, BehindReset
<1>6. \A c \in ToSet(cmds') : c.cmd = "connect" => c \in ToSet(cmds)
  BY <1>2, <1>3, <1>5 DEF HasConnect, Reset, Cmd
<1>7. Resetting'
  BY <1>5, ResettingIs
<1>8. /\ m_scan_state' = FALSE
      /\ UNCHANGED <<client, initiating, peers, req, flashed, dev_list, is_valid, suc_file,
                     m_cur_dev, m_buf, crashed>>
  BY DEF Timeout, BtReset, itemVars
<1>9. (req'.op # "none" => req'.dev \in peers') /\ ~crashed'
  BY <1>8 DEF BatchBody, BehindReset, Noted
<1> QED
  BY <1>5, <1>6, <1>7, <1>8, <1>9, BatchCalm

LEMMA BatchHardwareErr ==
    ASSUME HostType, BatchType, BatchBody, HardwareErr
    PROVE  BatchBody'
<1>1. EbInit(cmds, Tail(evts)) /\ evts # <<>>
  BY DEF HardwareErr, Takes
<1>2. PICK left : left = Tail(evts) /\ left \in Seq(EventSet)
                  /\ ToSet(left) \subseteq ToSet(evts)
                  /\ ChainOnce(left) /\ ChainFirst(left)
  BY <1>1, TakeKeeps DEF HostType, BatchBody, OneToken, BehindReset
<1>3. /\ ConnectOnce(cmds') /\ ConnectFirst(cmds')
      /\ ToSet(cmds') \subseteq ToSet(cmds) \cup {Reset}
      /\ Reset \in ToSet(cmds')
      /\ ToSet(evts') \subseteq ToSet(left)
      /\ ChainOnce(evts') /\ ChainFirst(evts')
  BY <1>1, <1>2, EbInitKeeps DEF HostType
<1>4. \A c \in ToSet(cmds') : c.cmd = "connect" => c \in ToSet(cmds)
  BY <1>3 DEF Reset, Cmd
<1>5. Resetting'
  BY <1>3, ResettingIs
<1>6. UNCHANGED <<client, initiating, peers, req, flashed, dev_list, is_valid, suc_file,
                  m_cur_dev, m_buf, m_scan_state, crashed>>
  BY DEF HardwareErr, hostVars, appVars, batchVars
<1>7. (req'.op # "none" => req'.dev \in peers') /\ ~crashed'
  BY <1>6 DEF BatchBody, BehindReset, Noted
<1> QED
  BY <1>2, <1>3, <1>4, <1>5, <1>6, <1>7, BatchCalm

LEMMA BatchRestart ==
    ASSUME HostType, BatchType, BatchBody, Restart
    PROVE  BatchBody'
<1>1. /\ ConnectOnce(cmds') /\ ConnectFirst(cmds')
      /\ ToSet(cmds') \subseteq ToSet(cmds) \cup {Reset}
      /\ Reset \in ToSet(cmds')
      /\ ToSet(evts') \subseteq ToSet(evts)
      /\ ChainOnce(evts') /\ ChainFirst(evts')
  BY EbInitKeeps DEF Restart, HostType, BatchBody, OneToken, BehindReset
<1>2. Resetting'
  BY <1>1, ResettingIs
<1>3. /\ client' = "idle" /\ m_scan_state' = FALSE /\ m_cur_dev' = NoItem
      /\ m_buf' = NoImage /\ crashed' = FALSE
      /\ is_valid' = [i \in Items |-> dev_list[i].repeat \/ suc_file[i] = 0]
      /\ UNCHANGED <<initiating, peers, req, flashed, dev_list, suc_file>>
  BY DEF Restart, Parse, Items
<1>4. /\ HasConnect(cmds') => HasConnect(cmds)
      /\ HasChain(evts') => HasChain(evts)
      /\ HasReset(evts') => HasReset(evts)
  BY <1>1 DEF HasConnect, HasChain, HasReset, Reset, Cmd
<1>5. OneToken'
  BY <1>1, <1>3, <1>4 DEF BatchBody, OneToken, Initiates, Asked
<1>6. BehindReset'
  BY <1>1, <1>3, <1>4 DEF BatchBody, BehindReset, Initiates
<1>7. Matched'
  BY <1>2, <1>3 DEF BatchBody, Matched, Items
<1>8. Noted'
  BY <1>3 DEF BatchBody, Noted, Items
<1> QED
  BY <1>5, <1>6, <1>7, <1>8 DEF BatchBody

LEMMA BatchStep ==
    ASSUME HostType, BatchType, BatchBody, "again" \notin timers, BatchNext, ~overtaken'
    PROVE  BatchBody'
<1>1. ~crashed /\ (req.op # "none" => req.dev \in peers)
  BY DEF BatchBody, Noted, BehindReset
<1>2. <<>> \in Seq(CommandSet) /\ <<Reset>> \in Seq(CommandSet)
      /\ ~HasConnect(<<>>) /\ ~HasConnect(<<Reset>>)
  BY CommandTypes, NoConnect
<1>3. CASE GapReset \/ HardwareErr
  BY <1>3, BatchGapReset, BatchHardwareErr
<1>4. CASE ConnectFailed
  BY <1>1, <1>2, <1>4, HandleCalm DEF ConnectFailed, hostVars
<1>5. ASSUME NEW d \in Dev, Connected(d) PROVE BatchBody'
  <2>1. "mtu" \in ChainOps /\ "mtu" # "update" /\ d \in Device
    BY DEF ChainOps, Device
  <2>2. /\ Handle("connected", d, <<>>) /\ Ask(d, "mtu", NoImage) /\ ~crashed'
        /\ UNCHANGED <<m_cur_dev, m_buf, suc_file, m_scan_state, is_valid>>
    BY <1>1, <1>5 DEF Connected
  <2> QED
    BY <2>1, <2>2, HandleChain
<1>6. ASSUME NEW d \in Dev, Disconnected(d) PROVE BatchBody'
  BY <1>1, <1>2, <1>6, HandleCalm DEF Disconnected, Abort
<1>7. ASSUME NEW d \in Dev, MtuUpdate(d) PROVE BatchBody'
  <2>1. "find" \in ChainOps /\ "find" # "update" /\ conn_handle \in Device
    BY DEF ChainOps, HostType
  <2>2. /\ Handle("mtu", d, <<>>) /\ Ask(conn_handle, "find", NoImage) /\ ~crashed'
        /\ UNCHANGED <<m_cur_dev, m_buf, suc_file, m_scan_state, is_valid>>
    BY <1>1, <1>7 DEF MtuUpdate
  <2> QED
    BY <2>1, <2>2, HandleChain
<1>8. ASSUME NEW d \in Dev, Found(d) PROVE BatchBody'
  <2>1. "update" \in ChainOps /\ conn_handle \in Device
    BY DEF ChainOps, HostType
  <2>2. /\ Handle("found", d, <<>>)
        /\ Ask(conn_handle, "update", m_buf) \/ req' = req
        /\ crashed' = (m_buf = NoImage /\ req' # req)
        /\ UNCHANGED <<m_cur_dev, m_buf, suc_file, m_scan_state, is_valid>>
    BY <1>8 DEF Found, ClientStart
  <2>3. (req' # req => m_buf # NoImage) /\ (~crashed' => BatchBody')
    BY <2>1, <2>2, HandleChain
  <2> QED
    BY <2>2, <2>3
<1>9. ASSUME NEW d \in Dev, ErrorRsp(d) PROVE BatchBody'
  <2>1. PICK cs : cs = <<Cmd("disconnect", conn_handle)>> /\ cs \in Seq(CommandSet)
                  /\ ~HasConnect(cs)
    BY CommandTypes, NoConnect DEF HostType
  <2> QED
    BY <1>1, <1>9, <2>1, HandleCalm DEF ErrorRsp, hostVars
<1>10. ASSUME NEW d \in Dev, Success(d) PROVE BatchBody'
  BY <1>10, BatchSuccess
<1>11. ASSUME NEW d \in Dev, Refused(d) PROVE BatchBody'
  BY <1>1, <1>2, <1>11, HandleCalm DEF Refused
<1>12. ASSUME NEW d \in Dev, AdvIgnored(d) PROVE BatchBody'
  BY <1>1, <1>2, <1>12, HandleCalm DEF AdvIgnored, hostVars
<1>13. ASSUME NEW d \in Dev, AdvReport(d) PROVE BatchBody'
  BY <1>13, BatchAdvReport
<1>14. ASSUME NEW id \in timers, Timeout(id) PROVE BatchBody'
  BY <1>14, BatchTimeoutKeeps
<1>15. CASE TxComplete
  <2>1. /\ conn_handle \in peers /\ Ask(conn_handle, "stray", NoImage)
        /\ UNCHANGED <<client, evts, cmds, initiating, peers, flashed, m_scan_state, m_buf>>
        /\ UNCHANGED <<dev_list, is_valid, suc_file, m_cur_dev, crashed>>
    BY <1>15 DEF TxComplete, Stray, hostVars, appVars, ctrlVars, batchVars
  <2>2. /\ req' = req \/ req'.op = "stray"
        /\ req'.op # "none" => req'.dev \in peers'
    BY <1>1, <2>1 DEF Ask, Request
  <2>3. /\ ConnectOnce(cmds') /\ ConnectFirst(cmds') /\ ChainOnce(evts')
        /\ ChainFirst(evts') /\ (Resetting => Resetting')
    BY <2>1, ResettingIs DEF BatchBody, OneToken, BehindReset
  <2> QED
    BY <1>1, <2>1, <2>2, <2>3, BatchCalm
<1>16. CASE Restart
  BY <1>16, BatchRestart
<1>17. CASE Environment /\ UNCHANGED batchVars
  BY <1>17, BatchEnvironment
<1> QED
  BY <1>3, <1>4, <1>5, <1>6, <1>7, <1>8, <1>9, <1>10, <1>11, <1>12, <1>13, <1>14, <1>15,
     <1>16, <1>17 DEF BatchNext, BatchHandler, BatchTimeout

LEMMA BatchInitKept == Init => BatchInv
<1> SUFFICES ASSUME Init, main_function = "batch" PROVE BatchBody
  BY DEF BatchInv
<1>1. /\ evts = <<>> /\ cmds = <<Reset>> /\ initiating = NoDev /\ peers = {}
      /\ req = NoRequest /\ flashed = {} /\ m_scan_state = FALSE /\ m_buf = NoImage
  BY DEF Init, HostInit
<1>2. /\ m_cur_dev = NoItem /\ crashed = FALSE /\ suc_file = [i \in Items |-> 0]
      /\ is_valid = [i \in Items |-> dev_list[i].repeat \/ suc_file[i] = 0]
  BY DEF Init, BatchInit, Parse, Items
<1>3. ~HasConnect(cmds) /\ ConnectOnce(cmds) /\ ConnectFirst(cmds)
  BY <1>1, NoConnect DEF ConnectOnce, ConnectFirst, HasConnect, ToSet
<1>4. ToSet(evts) = {} /\ ~HasChain(evts) /\ ~HasReset(evts)
      /\ ChainOnce(evts) /\ ChainFirst(evts)
  BY <1>1 DEF HasChain, HasReset, ChainOnce, ChainFirst, ToSet
<1>5. ~Initiates /\ ~Asked /\ req.op = "none"
  BY <1>1 DEF Initiates, Asked, ChainOps, NoRequest, Request
<1>6. OneToken /\ BehindReset
  BY <1>1, <1>3, <1>4, <1>5 DEF OneToken, BehindReset
<1>7. Matched
  BY <1>1, <1>2, <1>3, <1>5 DEF Matched, HasConnect
<1>8. Noted
  BY <1>1, <1>2, <1>4 DEF Noted
<1> QED
  BY <1>6, <1>7, <1>8 DEF BatchBody

LEMMA OvertakenStays == ASSUME BatchNext, overtaken PROVE overtaken'
<1> USE DEF batchVars, itemVars
<1>1. ASSUME BatchHandler PROVE overtaken'
  <2>1. CASE GapReset \/ HardwareErr \/ ConnectFailed
    BY <2>1 DEF GapReset, HardwareErr, ConnectFailed, Handle
  <2>2. ASSUME NEW d \in Dev,
               \/ Connected(d) \/ Disconnected(d) \/ MtuUpdate(d) \/ Found(d) \/ ErrorRsp(d)
               \/ Success(d) \/ Refused(d) \/ AdvIgnored(d) \/ AdvReport(d)
        PROVE  overtaken'
    BY <2>2 DEF Connected, Disconnected, MtuUpdate, Found, ErrorRsp, Success, Refused,
                AdvIgnored, AdvReport, Handle
  <2> QED
    BY <1>1, <2>1, <2>2 DEF BatchHandler
<1> QED
  BY <1>1 DEF BatchNext, BatchTimeout, Timeout, TxComplete, Restart

LEMMA BatchInvStep ==
    ASSUME TypeInv, BatchInv, Next
    PROVE  BatchInv'
<1>1. CASE Single
  BY <1>1 DEF Single, Next, BatchInv
<1>2. CASE Batch
  <2>1. main_function = "batch" /\ main_function' = main_function /\ BatchNext
    BY <1>2 DEF Batch, Next
  <2>2. ASSUME ~overtaken' PROVE BatchBody'
    <3>1. ~overtaken
      BY <2>1, <2>2, OvertakenStays
    <3> QED
      BY <2>1, <2>2, <3>1, BatchStep DEF TypeInv, BatchInv
  <2> QED
    BY <2>2 DEF BatchInv
<1> QED
  BY <1>1, <1>2 DEF Next

allVars == <<main_function, dfuHostVars, singleVars, batchVars>>

(* The unattended program updates a device only with the image of an item  *)
(* that it matches, notes it only then, updates no item twice that is not  *)
(* to be repeated, and follows no null pointer, unless it asks for a       *)
(* connection while the controller is being reset, for any list, number of *)
(* devices and of faults (dfu_batch.c:57-111, 113-224, 299-315,            *)
(* batch_parse.c:128-147).                                                 *)
THEOREM UpdatesAreRight == Spec => []UpdatesRight
<1>1. Init => TypeInv /\ BatchInv
  BY TypeInit, BatchInitKept
<1>2. TypeInv /\ BatchInv /\ [Next]_allVars => (TypeInv /\ BatchInv)'
  <2> SUFFICES ASSUME TypeInv, BatchInv, [Next]_allVars PROVE (TypeInv /\ BatchInv)'
    OBVIOUS
  <2>1. CASE Next
    BY <2>1, TypeNext, BatchInvStep
  <2>2. CASE UNCHANGED allVars
    <3> USE <2>2 DEF allVars, dfuHostVars, hostVars, appVars, airVars, ctrlVars, singleVars,
                     batchVars
    <3>1. TypeInv'
      BY DEF TypeInv, HostType, SingleType, BatchType, Items
    <3>2. OneToken' <=> OneToken
      BY DEF OneToken, Initiates, Asked
    <3>3. BehindReset' <=> BehindReset
      BY DEF BehindReset, NoToken, Initiates, Asked
    <3>4. Matched' <=> Matched
      BY DEF Matched, Resetting, ForCur, Initiates, Items
    <3>5. Noted' <=> Noted
      BY DEF Noted, NoToken, ForCur, Initiates, Asked, Items
    <3> QED
      BY <3>1, <3>2, <3>3, <3>4, <3>5 DEF BatchInv, BatchBody
  <2> QED
    BY <2>1, <2>2
<1>3. TypeInv /\ BatchInv => UpdatesRight
  BY DEF TypeInv, HostType, BatchInv, BatchBody, Noted, UpdatesRight
<1> QED
  BY <1>1, <1>2, <1>3, PTL DEF Spec, allVars

-----------------------------------------------------------------------------
(* The interactive program.  It does one thing at a time: the first reset, *)
(* a scan, a question, the menu, a connection, the pause before the next.  *)
(* A link of which it has seen the beginning and not the end is to the     *)
(* device it asked for, and there is such a link only when it does none of *)
(* these.  So what comes from a device comes from that one, and the stage  *)
(* is the one that this device has reached.                                *)
LinkEvs == {"connected", "disconnected"}
WorkEvs == {"mtu", "found", "error", "success", "refused"}

(* No link of d begins or ends before i.                                   *)
NoLink(es, d, i) == \A j \in 1 .. i - 1 : es[j].dev = d => es[j].ev \notin LinkEvs

(* A link of d begins between i and k.                                     *)
Relinked(es, d, i, k) ==
    \E j \in DOMAIN es : i < j /\ j < k /\ es[j].ev = "connected" /\ es[j].dev = d

(* When the link of a device has ended nothing comes from it, and there is *)
(* none, until it has begun again.                                         *)
LinksAlternate(es, ps) ==
    \A i \in DOMAIN es : es[i].ev = "disconnected" =>
        /\ \A k \in DOMAIN es :
              i < k /\ es[k].dev = es[i].dev /\ es[k].ev \in WorkEvs \cup {"disconnected"}
              => Relinked(es, es[i].dev, i, k)
        /\ es[i].dev \in ps => Relinked(es, es[i].dev, i, Len(es) + 1)

(* The program has seen a link of d begin and not end.                     *)
OpenIn(es, ps, d) ==
    \/ \E i \in DOMAIN es :
        /\ es[i].dev = d
        /\ es[i].ev \in WorkEvs \cup {"disconnected"}
        /\ NoLink(es, d, i)
    \/ d \in ps /\ NoLink(es, d, Len(es) + 1)

ResetOnce(es) == \A i, j \in DOMAIN es : es[i].ev = "reset" /\ es[j].ev = "reset" => i = j

Quiet == ~Resetting /\ "scan" \notin timers /\ main # "select" /\ ~show_menu_flag

Linked == Quiet /\ "conn" \notin timers /\ "again" \notin timers

OneMode ==
    /\ Reset \in ToSet(cmds) => cmds = <<Reset>> /\ ~HasReset(evts)
    /\ ResetOnce(evts)
    /\ m_scan_state <=> "scan" \in timers
    /\ "scan" \in timers \/ main = "select" \/ show_menu_flag =>
        ~Resetting /\ "conn" \notin timers /\ "again" \notin timers
    /\ "scan" \in timers => main # "select" /\ ~show_menu_flag
    /\ main = "select" => ~show_menu_flag
    /\ "conn" \in timers => Quiet /\ "again" \notin timers
    /\ "again" \in timers => Quiet

OneLink ==
    /\ LinksAlternate(evts, peers)
    /\ req.op # "none" => req.dev \in peers
    /\ \A d \in Dev : OpenIn(evts, peers, d) =>
        Linked /\ conn_handle = d /\ d = Listed(conn_idx)

Stages ==
    /\ m_flash_state \in {"idle", "boot", "firmware"}
    /\ \A d \in Dev : <<d, "firmware">> \in flashed => <<d, "boot">> \in flashed
    /\ \A e \in ToSet(evts) : e.ev = "success" => <<e.dev, "boot">> \in flashed
    /\ req.op = "update" =>
        /\ req.image \in {"boot", "firmware"}
        /\ req.image = "firmware" => <<req.dev, "boot">> \in flashed
    /\ m_flash_state = "firmware" =>
        Quiet /\ conn_handle = Listed(conn_idx) /\ <<conn_handle, "boot">> \in flashed

SingleBody == OneMode /\ OneLink /\ Stages

SingleInv ==
    /\ main_function = "single" /\ "boot" \in zip /\ ~crossed => SingleBody
    /\ main_function = "batch" => zip = {}

-----------------------------------------------------------------------------
LEMMA LinksEmit ==
    ASSUME NEW s \in Seq(EventSet), NEW e \in EventSet, NEW p, NEW q,
           LinksAlternate(s, p),
           \/ e.ev \in WorkEvs /\ e.dev \in p /\ q = p
           \/ e.ev \notin WorkEvs \cup LinkEvs /\ q \subseteq p
           \/ e.ev = "connected" /\ q = p \cup {e.dev}
           \/ e.ev = "disconnected" /\ e.dev \in p /\ q = p \ {e.dev}
    PROVE  /\ LinksAlternate(Append(s, e), q)
           /\ \A d : OpenIn(Append(s, e), q, d) => OpenIn(s, p, d)
<1> DEFINE t == Append(s, e)
           n == Len(s)
<1>1. /\ n \in Nat /\ DOMAIN s = 1 .. n /\ DOMAIN t = 1 .. n + 1 /\ Len(t) = n + 1
      /\ \A i \in 1 .. n : t[i] = s[i]
      /\ t[n + 1] = e
  BY AppendFacts
<1> HIDE DEF t, n
<1>2. \A i \in 1 .. n + 1 : i \in 1 .. n \/ i = n + 1
  BY <1>1
<1>3. e.ev \in WorkEvs \cup {"disconnected"} => e.dev \in p
  BY DEF WorkEvs, LinkEvs
<1>4. ASSUME NEW d, NEW i \in 1 .. n + 1, NoLink(t, d, i) PROVE NoLink(s, d, i)
  <2>1. \A j \in 1 .. i - 1 : j \in 1 .. n
    BY <1>1
  <2> QED
    BY <1>1, <1>4, <2>1 DEF NoLink
<1>5. ASSUME NEW d, OpenIn(t, q, d) PROVE OpenIn(s, p, d)
  <2>1. ASSUME NEW i \in 1 .. n, t[i].dev = d, t[i].ev \in WorkEvs \cup {"disconnected"},
               NoLink(t, d, i)
        PROVE  OpenIn(s, p, d)
    <3>1. i \in 1 .. n + 1
      BY <1>1
    <3>2. NoLink(s, d, i)
      BY <1>4, <2>1, <3>1
    <3> QED
      BY <1>1, <2>1, <3>2 DEF OpenIn
  <2>2. n + 1 \in 1 .. n + 1
    BY <1>1
  <2>3. ASSUME e.dev = d, e.ev \in WorkEvs \cup {"disconnected"}, NoLink(t, d, n + 1)
        PROVE  OpenIn(s, p, d)
    BY <1>1, <1>3, <1>4, <2>2, <2>3 DEF OpenIn, n
  <2>4. ASSUME d \in q, NoLink(t, d, n + 2) PROVE OpenIn(s, p, d)
    <3>1. n + 1 \in 1 .. (n + 2) - 1 /\ \A j \in 1 .. (n + 1) - 1 : j \in 1 .. (n + 2) - 1
      BY <1>1
    <3>2. NoLink(t, d, n + 1) /\ (e.dev = d => e.ev \notin LinkEvs)
      BY <1>1, <2>4, <3>1 DEF NoLink
    <3>3. d \in p
      BY <2>4, <3>2 DEF LinkEvs
    <3> QED
      BY <1>4, <2>2, <3>2, <3>3 DEF OpenIn, n
  <2>5. \/ \E i \in 1 .. n + 1 : /\ t[i].dev = d /\ t[i].ev \in WorkEvs \cup {"disconnected"}
                                 /\ NoLink(t, d, i)
        \/ d \in q /\ NoLink(t, d, n + 2)
    <3>1. Len(t) + 1 = n + 2
      BY <1>1
    <3> QED
      BY <1>1, <1>5, <3>1 DEF OpenIn
  <2> QED
    BY <1>1, <1>2, <2>1, <2>3, <2>4, <2>5
<1>6. ASSUME NEW d, NEW i \in 1 .. n, NEW k \in 1 .. n + 1, Relinked(s, d, i, k)
      PROVE  /\ Relinked(t, d, i, k)
             /\ Relinked(t, d, i, n + 2)
  <2>1. PICK j \in 1 .. n : i < j /\ j < k /\ s[j].ev = "connected" /\ s[j].dev = d
    BY <1>1, <1>6 DEF Relinked
  <2>2. j \in 1 .. n + 1 /\ j < n + 2 /\ t[j] = s[j]
    BY <1>1
  <2> QED
    BY <1>1, <2>1, <2>2 DEF Relinked
<1>7. ASSUME NEW i \in 1 .. n, t[i].ev = "disconnected",
             NEW k \in 1 .. n + 1, i < k, t[k].dev = t[i].dev,
             t[k].ev \in WorkEvs \cup {"disconnected"}
      PROVE  Relinked(t, t[i].dev, i, k)
  <2>1. t[i] = s[i]
    BY <1>1
  <2>2. CASE k \in 1 .. n
    <3>1. Relinked(s, s[i].dev, i, k)
      BY <1>1, <1>7, <2>1, <2>2 DEF LinksAlternate
    <3> QED
      BY <1>6, <2>1, <3>1
  <2>3. CASE k = n + 1
    <3>1. s[i].dev \in p
      BY <1>1, <1>3, <1>7, <2>1, <2>3
    <3>2. Relinked(s, s[i].dev, i, n + 1)
      BY <1>1, <1>7, <2>1, <3>1 DEF LinksAlternate, n
    <3> QED
      BY <1>6, <2>1, <2>3, <3>2
  <2> QED
    BY <1>2, <2>2, <2>3
<1>8. ASSUME NEW i \in 1 .. n, t[i].ev = "disconnected", t[i].dev \in q
      PROVE  Relinked(t, t[i].dev, i, n + 2)
  <2>1. t[i] = s[i] /\ n + 1 \in 1 .. n + 1 /\ i < n + 1 /\ n + 1 < n + 2
    BY <1>1
  <2>2. CASE e.ev = "connected" /\ e.dev = t[i].dev
    BY <1>1, <2>1, <2>2 DEF Relinked
  <2>3. CASE t[i].dev \in p
    <3>1. Relinked(s, s[i].dev, i, n + 1)
      BY <1>1, <1>8, <2>1, <2>3 DEF LinksAlternate, n
    <3> QED
      BY <1>6, <2>1, <3>1
  <2> QED
    BY <1>8, <2>2, <2>3
<1>9. LinksAlternate(t, q)
  <2> SUFFICES ASSUME NEW i \in 1 .. n + 1, t[i].ev = "disconnected"
               PROVE  /\ \A k \in 1 .. n + 1 :
                            i < k /\ t[k].dev = t[i].dev
                            /\ t[k].ev \in WorkEvs \cup {"disconnected"}
                            => Relinked(t, t[i].dev, i, k)
                      /\ t[i].dev \in q => Relinked(t, t[i].dev, i, n + 2)
    <3>1. Len(t) + 1 = n + 2
      BY <1>1
    <3> QED
      BY <1>1, <3>1 DEF LinksAlternate
  <2>1. CASE i \in 1 .. n
    BY <1>7, <1>8, <2>1
  <2>2. CASE i = n + 1
    <3>1. t[i].dev \notin q
      BY <1>1, <2>2 DEF WorkEvs, LinkEvs
    <3>2. \A k \in 1 .. n + 1 : ~(i < k)
      BY <1>1, <2>2
    <3> QED
      BY <3>1, <3>2
  <2> QED
    BY <1>2, <2>1, <2>2
<1> QED
  BY <1>5, <1>9 DEF t

LEMMA LinksTake ==
    ASSUME NEW s \in Seq(EventSet), s # <<>>, NEW p, LinksAlternate(s, p)
    PROVE  /\ LinksAlternate(Tail(s), p)
           /\ Head(s).ev \in WorkEvs \cup {"disconnected"} => OpenIn(s, p, Head(s).dev)
           /\ Head(s).ev = "disconnected" => ~OpenIn(Tail(s), p, Head(s).dev)
           /\ \A d : OpenIn(Tail(s), p, d) =>
                OpenIn(s, p, d) \/ (Head(s).ev = "connected" /\ d = Head(s).dev)
<1> DEFINE t == Tail(s)
           n == Len(s)
           h == Head(s)
<1>1. /\ n \in Nat \ {0}
      /\ DOMAIN s = 1 .. n /\ DOMAIN t = 1 .. n - 1 /\ Len(t) = n - 1
      /\ \A i \in 1 .. n - 1 : t[i] = s[i + 1]
      /\ h = s[1]
  BY TailFacts
<1> HIDE DEF t, n, h
<1>2. /\ 1 \in 1 .. n
      /\ \A i \in 1 .. n - 1 : i + 1 \in 1 .. n
      /\ Len(t) + 1 = n /\ n + 1 \in Nat
  BY <1>1
<1>3. ASSUME NEW d, NEW i \in 1 .. n, NoLink(t, d, i), h.dev # d \/ h.ev \notin LinkEvs
      PROVE  NoLink(s, d, i + 1)
  <2> SUFFICES ASSUME NEW j \in 1 .. (i + 1) - 1, s[j].dev = d PROVE s[j].ev \notin LinkEvs
    BY DEF NoLink
  <2>1. CASE j = 1
    BY <1>1, <1>3, <2>1
  <2>2. CASE j # 1
    <3>1. j - 1 \in 1 .. n - 1 /\ j - 1 \in 1 .. i - 1 /\ (j - 1) + 1 = j
      BY <1>1, <2>2
    <3>2. t[j - 1] = s[j]
      BY <1>1, <3>1
    <3> QED
      BY <1>3, <3>1, <3>2 DEF NoLink
  <2> QED
    BY <2>1, <2>2
<1>4. ASSUME NEW d, NEW i \in 1 .. n - 1, NEW k \in 1 .. n, Relinked(s, d, i + 1, k + 1)
      PROVE  Relinked(t, d, i, k)
  <2>1. PICK j \in 1 .. n : i + 1 < j /\ j < k + 1 /\ s[j].ev = "connected" /\ s[j].dev = d
    BY <1>1, <1>4 DEF Relinked
  <2>2. j - 1 \in 1 .. n - 1 /\ i < j - 1 /\ j - 1 < k /\ (j - 1) + 1 = j
    BY <1>1, <2>1
  <2>3. t[j - 1] = s[j]
    BY <1>1, <2>2
  <2> QED
    BY <1>1, <2>1, <2>2, <2>3 DEF Relinked
<1>5. LinksAlternate(t, p)
  <2> SUFFICES ASSUME NEW i \in 1 .. n - 1, t[i].ev = "disconnected"
               PROVE  /\ \A k \in 1 .. n - 1 :
                            i < k /\ t[k].dev = t[i].dev
                            /\ t[k].ev \in WorkEvs \cup {"disconnected"}
                            => Relinked(t, t[i].dev, i, k)
                      /\ t[i].dev \in p => Relinked(t, t[i].dev, i, n)
    BY <1>1, <1>2 DEF LinksAlternate
  <2>1. i + 1 \in 1 .. n /\ t[i] = s[i + 1]
    BY <1>1
  <2>2. ASSUME NEW k \in 1 .. n - 1, i < k, t[k].dev = t[i].dev,
               t[k].ev \in WorkEvs \cup {"disconnected"}
        PROVE  Relinked(t, t[i].dev, i, k)
    <3>1. k + 1 \in 1 .. n /\ t[k] = s[k + 1] /\ i + 1 < k + 1 /\ k \in 1 .. n
      BY <1>1, <2>2
    <3>2. Relinked(s, s[i + 1].dev, i + 1, k + 1)
      BY <1>1, <2>1, <2>2, <3>1 DEF LinksAlternate
    <3> QED
      BY <1>4, <2>1, <3>1, <3>2
  <2>3. ASSUME t[i].dev \in p PROVE Relinked(t, t[i].dev, i, n)
    <3>1. Relinked(s, s[i + 1].dev, i + 1, n + 1)
      BY <1>1, <2>1, <2>3 DEF LinksAlternate, n
    <3>2. n \in 1 .. n
      BY <1>1
    <3> QED
      BY <1>4, <2>1, <3>1, <3>2
  <2> QED
    BY <2>2, <2>3
<1>6. ASSUME h.ev \in WorkEvs \cup {"disconnected"} PROVE OpenIn(s, p, h.dev)
  <2>1. NoLink(s, h.dev, 1)
    <3>1. 1 .. 1 - 1 = {}
      OBVIOUS
    <3> QED
      BY <3>1 DEF NoLink
  <2> QED
    BY <1>1, <1>2, <1>6, <2>1 DEF OpenIn
<1>7. ASSUME NEW i \in 1 .. n, NEW d, NoLink(t, d, i)
      PROVE  ~Relinked(s, d, 1, i + 1)
  <2> SUFFICES ASSUME NEW j \in 1 .. n, 1 < j, j < i + 1, s[j].ev = "connected", s[j].dev = d
               PROVE  FALSE
    BY <1>1 DEF Relinked
  <2>1. j - 1 \in 1 .. i - 1 /\ j - 1 \in 1 .. n - 1 /\ (j - 1) + 1 = j
    BY <1>1
  <2>2. t[j - 1] = s[j]
    BY <1>1, <2>1
  <2> QED
    BY <1>7, <2>1, <2>2 DEF NoLink, LinkEvs
<1>8. ASSUME h.ev = "disconnected", OpenIn(t, p, h.dev) PROVE FALSE
  <2>1. ASSUME NEW i \in 1 .. n - 1, t[i].dev = h.dev,
               t[i].ev \in WorkEvs \cup {"disconnected"}, NoLink(t, h.dev, i)
        PROVE  FALSE
    <3>1. i + 1 \in 1 .. n /\ 1 < i + 1 /\ t[i] = s[i + 1] /\ i \in 1 .. n
      BY <1>1
    <3>2. Relinked(s, h.dev, 1, i + 1)
      BY <1>1, <1>2, <1>8, <2>1, <3>1 DEF LinksAlternate
    <3> QED
      BY <1>7, <2>1, <3>1, <3>2
  <2>2. ASSUME h.dev \in p, NoLink(t, h.dev, n) PROVE FALSE
    <3>1. Relinked(s, h.dev, 1, n + 1) /\ n \in 1 .. n
      BY <1>1, <1>2, <1>8, <2>2 DEF LinksAlternate, n
    <3> QED
      BY <1>7, <2>2, <3>1
  <2> QED
    BY <1>1, <1>2, <1>8, <2>1, <2>2 DEF OpenIn
<1>9. ASSUME NEW d, OpenIn(t, p, d), ~(h.ev = "connected" /\ d = h.dev)
      PROVE  OpenIn(s, p, d)
  <2>1. h.dev # d \/ h.ev \notin LinkEvs
    BY <1>8, <1>9 DEF LinkEvs
  <2>2. ASSUME NEW i \in 1 .. n - 1, t[i].dev = d,
               t[i].ev \in WorkEvs \cup {"disconnected"}, NoLink(t, d, i)
        PROVE  OpenIn(s, p, d)
    <3>1. i + 1 \in 1 .. n /\ t[i] = s[i + 1] /\ i \in 1 .. n
      BY <1>1
    <3>2. NoLink(s, d, i + 1)
      BY <1>3, <2>1, <2>2, <3>1
    <3> QED
      BY <1>1, <2>2, <3>1, <3>2 DEF OpenIn
  <2>3. ASSUME d \in p, NoLink(t, d, n) PROVE OpenIn(s, p, d)
    <3>1. n \in 1 .. n
      BY <1>1
    <3>2. NoLink(s, d, n + 1)
      BY <1>3, <2>1, <2>3, <3>1
    <3> QED
      BY <2>3, <3>2 DEF OpenIn, n
  <2> QED
    BY <1>1, <1>2, <1>9, <2>2, <2>3 DEF OpenIn
<1> QED
  BY <1>5, <1>6, <1>8, <1>9 DEF t, h

LEMMA ResetOnceKept ==
    ASSUME NEW s \in Seq(EventSet), ResetOnce(s)
    PROVE  /\ \A e \in EventSet :
                e.ev # "reset" \/ ~HasReset(s) => ResetOnce(Append(s, e))
           /\ s # <<>> =>
                /\ ResetOnce(Tail(s))
                /\ Head(s).ev = "reset" => ~HasReset(Tail(s))
<1>1. ASSUME NEW e \in EventSet, e.ev # "reset" \/ ~HasReset(s)
      PROVE  ResetOnce(Append(s, e))
  <2> DEFINE t == Append(s, e)
             n == Len(s)
  <2>1. /\ n \in Nat /\ DOMAIN s = 1 .. n /\ DOMAIN t = 1 .. n + 1
        /\ \A i \in 1 .. n : t[i] = s[i]
        /\ t[n + 1] = e
    BY AppendFacts
  <2> HIDE DEF t, n
  <2>2. \A i \in 1 .. n + 1 : i \in 1 .. n \/ i = n + 1
    BY <2>1
  <2>3. ResetOnce(t)
    BY <1>1, <2>1, <2>2 DEF ResetOnce, HasReset, ToSet
  <2> QED
    BY <2>3 DEF t
<1>2. ASSUME s # <<>>
      PROVE  ResetOnce(Tail(s)) /\ (Head(s).ev = "reset" => ~HasReset(Tail(s)))
  <2> DEFINE t == Tail(s)
             n == Len(s)
             h == Head(s)
  <2>1. /\ n \in Nat \ {0}
        /\ DOMAIN s = 1 .. n /\ DOMAIN t = 1 .. n - 1
        /\ \A i \in 1 .. n - 1 : t[i] = s[i + 1]
        /\ h = s[1]
    BY <1>2, TailFacts
  <2> HIDE DEF t, n, h
  <2>2. 1 \in 1 .. n /\ \A i, j \in 1 .. n - 1 :
          i + 1 \in 1 .. n /\ i + 1 # 1 /\ (i + 1 = j + 1 => i = j)
    BY <2>1
  <2>3. ASSUME NEW i \in 1 .. n - 1, NEW j \in 1 .. n - 1, t[i].ev = "reset",
               t[j].ev = "reset"
        PROVE  i = j
    <3>1. s[i + 1].ev = "reset" /\ s[j + 1].ev = "reset"
      BY <2>1, <2>3
    <3> QED
      BY <2>1, <2>2, <3>1 DEF ResetOnce
  <2>4. ASSUME h.ev = "reset", NEW i \in 1 .. n - 1 PROVE t[i].ev # "reset"
    BY <2>1, <2>2, <2>4 DEF ResetOnce
  <2>5. ResetOnce(t) /\ (h.ev = "reset" => ~HasReset(t))
    BY <2>1, <2>3, <2>4 DEF ResetOnce, HasReset, ToSet
  <2> QED
    BY <2>5 DEF t, h
<1> QED
  BY <1>1, <1>2

(* A step that begins and ends nothing.                                    *)
LEMMA SingleCalm ==
    ASSUME SingleBody,
           LinksAlternate(evts', peers'),
           \A d \in Dev : OpenIn(evts', peers', d) => OpenIn(evts, peers, d),
           Reset \in ToSet(cmds') => cmds' = <<Reset>> /\ ~HasReset(evts'),
           ResetOnce(evts'), Resetting' => Resetting,
           \A e \in ToSet(evts') : e.ev = "success" => e \in ToSet(evts),
           \/ req' = req \/ req'.op # "update"
           \/ /\ req'.image \in {"boot", "firmware"}
              /\ req'.image = "firmware" => <<req'.dev, "boot">> \in flashed,
           req'.op # "none" => req'.dev \in peers',
           timers' = timers \/ timers' = timers \ {"conn"},
           main' = main \/ main' = "exit",
           \/ m_flash_state' = m_flash_state \/ m_flash_state' \in {"idle", "boot"}
           \/ /\ m_flash_state' = "firmware"
              /\ Quiet /\ conn_handle = Listed(conn_idx) /\ <<conn_handle, "boot">> \in flashed,
           UNCHANGED <<m_scan_state, show_menu_flag, conn_handle, conn_idx, dev_report,
                       p_dev_report, flashed>>
    PROVE  SingleBody'
<1>1. /\ Quiet => Quiet'
      /\ Linked => Linked'
      /\ Listed(conn_idx)' = Listed(conn_idx)
  BY DEF Quiet, Linked, Listed
<1>2. OneMode'
  BY <1>1 DEF SingleBody, OneMode
<1>3. OneLink'
  BY <1>1 DEF SingleBody, OneLink
<1>4. Stages'
  BY <1>1 DEF SingleBody, Stages
<1> QED
  BY <1>2, <1>3, <1>4 DEF SingleBody

(* An event is added that is not the end of a reset.                       *)
LEMMA SingleEmit ==
    ASSUME HostType, SingleBody, NEW e \in EventSet, e.ev # "reset",
           evts' = Append(evts, e),
           \/ e.ev \in WorkEvs /\ e.dev \in peers /\ peers' = peers
           \/ e.ev \notin WorkEvs \cup LinkEvs /\ peers' \subseteq peers
           \/ e.ev = "connected" /\ peers' = peers \cup {e.dev}
           \/ e.ev = "disconnected" /\ e.dev \in peers /\ peers' = peers \ {e.dev},
           cmds' = cmds \/ Reset \notin ToSet(cmds')
    PROVE  /\ LinksAlternate(evts', peers')
           /\ \A d \in Dev : OpenIn(evts', peers', d) => OpenIn(evts, peers, d)
           /\ Reset \in ToSet(cmds') => cmds' = <<Reset>> /\ ~HasReset(evts')
           /\ ResetOnce(evts')
           /\ Resetting' => Resetting
           /\ ToSet(evts') = ToSet(evts) \cup {e}
<1>1. /\ evts \in Seq(EventSet) /\ LinksAlternate(evts, peers) /\ ResetOnce(evts)
      /\ Reset \in ToSet(cmds) => cmds = <<Reset>> /\ ~HasReset(evts)
  BY DEF HostType, SingleBody, OneLink, OneMode
<1>2. PICK p, q : p = peers /\ q = peers'
  OBVIOUS
<1>3. /\ LinksAlternate(evts', q)
      /\ \A d : OpenIn(evts', q, d) => OpenIn(evts, p, d)
  BY <1>1, <1>2, LinksEmit
<1>4. ToSet(evts') = ToSet(evts) \cup {e} /\ ResetOnce(evts')
  BY <1>1, EmitKeeps, ResetOnceKept
<1>5. HasReset(evts') => HasReset(evts)
  BY <1>4 DEF HasReset
<1>6. Resetting' => Resetting
  BY <1>5, ResettingIs
<1> QED
  BY <1>1, <1>2, <1>3, <1>4, <1>5, <1>6

LEMMA SingleExecute ==
    ASSUME HostType, SingleBody, Execute, UNCHANGED singleVars
    PROVE  SingleBody'
<1> USE DEF Device
<1>1. /\ cmds # <<>> /\ cmds' = Tail(cmds) /\ Head(cmds) \in CommandSet
      /\ ToSet(cmds) = ToSet(cmds') \cup {Head(cmds)}
  BY ExecuteKeeps, TailFacts DEF Execute, HostType
<1>2. UNCHANGED <<timers, client, conn_handle, m_scan_state, flashed, conn_idx, dev_report,
                  p_dev_report, m_flash_state, main, show_menu_flag>>
  BY DEF Execute, hostVars, appVars, singleVars
<1>3. CASE Head(cmds) = Reset
  <2>1. /\ peers' = {} /\ req' = NoRequest /\ evts' = Append(evts, Event("reset", NoDev))
    BY <1>3 DEF Execute, Reset, Cmd, Cancel, Emit
  <2>2. Event("reset", NoDev) \in EventSet /\ Event("reset", NoDev).ev = "reset"
    BY DEF Event, EventSet
  <2>3. /\ evts \in Seq(EventSet) /\ LinksAlternate(evts, peers) /\ ResetOnce(evts)
        /\ cmds = <<Reset>> /\ ~HasReset(evts) /\ Resetting
    BY <1>1, <1>3, ResettingIs DEF HostType, SingleBody, OneLink, OneMode
  <2>4. PICK p, q : p = peers /\ q = peers'
    OBVIOUS
  <2>5. /\ LinksAlternate(evts', q)
        /\ \A d : OpenIn(evts', q, d) => OpenIn(evts, p, d)
    BY <2>1, <2>2, <2>3, <2>4, LinksEmit DEF WorkEvs, LinkEvs
  <2>6. ToSet(evts') = ToSet(evts) \cup {Event("reset", NoDev)} /\ ResetOnce(evts')
    BY <2>1, <2>2, <2>3, EmitKeeps, ResetOnceKept
  <2>7. Reset \notin ToSet(cmds')
    <3>1. cmds' = <<>>
      BY <1>1, <2>3
    <3> QED
      BY <3>1 DEF ToSet
  <2>8. \A x \in ToSet(evts') : x.ev = "success" => x \in ToSet(evts)
    BY <2>2, <2>6
  <2> QED
    BY <1>2, <2>1, <2>3, <2>4, <2>5, <2>6, <2>7, <2>8, SingleCalm DEF NoRequest, Request
<1>4. CASE Head(cmds) # Reset
  <2>1. Reset \notin ToSet(cmds) /\ Reset \notin ToSet(cmds')
    <3>1. cmds = <<Reset>> => Head(cmds) = Reset
      OBVIOUS
    <3> QED
      BY <1>1, <1>4, <3>1 DEF SingleBody, OneMode
  <2>2. /\ req' = req \/ req' = NoRequest
        /\ req'.op # "none" => req'.dev \in peers'
    BY <1>4 DEF Execute, NoRequest, Request, SingleBody, OneLink
  <2>3. \/ evts' = evts /\ peers' = peers
        \/ evts' = evts /\ \E x : peers' = peers \ {x} /\ x \notin peers
        \/ evts' = Append(evts, Event("failed", NoDev)) /\ peers' = peers
        \/ /\ evts' = Append(evts, Event("disconnected", Head(cmds).dev))
           /\ Head(cmds).dev \in peers /\ peers' = peers \ {Head(cmds).dev}
    BY <1>4 DEF Execute, Emit
  <2>4. CASE evts' = evts
    <3>1. peers' = peers
      <4>1. evts # Append(evts, Event("failed", NoDev))
            /\ evts # Append(evts, Event("disconnected", Head(cmds).dev))
        <5>1. Event("failed", NoDev) \in EventSet
              /\ Event("disconnected", Head(cmds).dev) \in EventSet
          BY <1>1 DEF Event, EventSet, CommandSet
        <5> QED
          BY <5>1, AppendFacts DEF HostType
      <4> QED
        BY <2>3, <2>4, <4>1
    <3>2. Resetting' => Resetting
      BY <2>1, <2>4, ResettingIs
    <3>3. LinksAlternate(evts, peers) /\ ResetOnce(evts)
      BY DEF SingleBody, OneLink, OneMode
    <3> QED
      BY <1>2, <2>1, <2>2, <2>4, <3>1, <3>2, <3>3, SingleCalm DEF NoRequest, Request
  <2>5. CASE evts' # evts
    <3>1. PICK e \in EventSet :
            /\ evts' = Append(evts, e) /\ e.ev # "reset" /\ e.ev # "success"
            /\ \/ e.ev \notin WorkEvs \cup LinkEvs /\ peers' \subseteq peers
               \/ e.ev = "disconnected" /\ e.dev \in peers /\ peers' = peers \ {e.dev}
      <4>1. /\ Event("failed", NoDev) \in EventSet
            /\ Event("failed", NoDev).ev \notin WorkEvs \cup LinkEvs \cup {"reset", "success"}
            /\ Event("disconnected", Head(cmds).dev) \in EventSet
            /\ Event("disconnected", Head(cmds).dev).ev = "disconnected"
            /\ Event("disconnected", Head(cmds).dev).dev = Head(cmds).dev
        BY <1>1 DEF Event, EventSet, CommandSet, WorkEvs, LinkEvs
      <4> QED
        BY <2>3, <2>5, <4>1
    <3>2. /\ LinksAlternate(evts', peers')
          /\ \A d \in Dev : OpenIn(evts', peers', d) => OpenIn(evts, peers, d)
          /\ ResetOnce(evts')
          /\ Resetting' => Resetting
          /\ ToSet(evts') = ToSet(evts) \cup {e}
      BY <2>1, <3>1, SingleEmit
    <3>3. \A x \in ToSet(evts') : x.ev = "success" => x \in ToSet(evts)
      BY <3>1, <3>2
    <3> QED
      BY <1>2, <2>1, <2>2, <3>2, <3>3, SingleCalm DEF NoRequest, Request
  <2> QED
    BY <2>4, <2>5
<1> QED
  BY <1>3, <1>4

LEMMA SingleEnvironment ==
    ASSUME HostType, SingleBody, Environment, UNCHANGED singleVars
    PROVE  SingleBody'
<1> USE DEF Device
<1>1. req.op # "none" => req.dev \in peers
  BY DEF SingleBody, OneLink
<1>2. ASSUME NEW e \in EventSet, e.ev \notin {"reset", "success"}, evts' = Append(evts, e),
             \/ e.ev \in WorkEvs /\ e.dev \in peers /\ peers' = peers
             \/ e.ev \notin WorkEvs \cup LinkEvs /\ peers' \subseteq peers
             \/ e.ev = "connected" /\ peers' = peers \cup {e.dev}
             \/ e.ev = "disconnected" /\ e.dev \in peers /\ peers' = peers \ {e.dev},
             req' = req \/ req' = NoRequest, req'.op # "none" => req'.dev \in peers',
             UNCHANGED <<cmds, timers, conn_handle, m_scan_state, flashed>>
      PROVE  SingleBody'
  <2>1. /\ LinksAlternate(evts', peers')
        /\ \A d \in Dev : OpenIn(evts', peers', d) => OpenIn(evts, peers, d)
        /\ Reset \in ToSet(cmds') => cmds' = <<Reset>> /\ ~HasReset(evts')
        /\ ResetOnce(evts')
        /\ Resetting' => Resetting
        /\ ToSet(evts') = ToSet(evts) \cup {e}
    BY <1>2, SingleEmit
  <2>2. \A x \in ToSet(evts') : x.ev = "success" => x \in ToSet(evts)
    BY <1>2, <2>1
  <2> QED
    BY <1>2, <2>1, <2>2, SingleCalm DEF singleVars, NoRequest, Request
<1>3. \A ev \in Evs, d \in Device :
        Event(ev, d) \in EventSet /\ Event(ev, d).ev = ev /\ Event(ev, d).dev = d
  BY DEF Event, EventSet, Evs
<1>4. CASE Execute
  BY <1>4, SingleExecute
<1>5. ASSUME NEW d \in Dev, Advertise(d) PROVE SingleBody'
  <2>1. PICK e : e = Event("adv", d) /\ e \in EventSet /\ e.ev = "adv"
    BY <1>3 DEF Evs
  <2> QED
    BY <1>1, <1>2, <1>5, <2>1 DEF Advertise, Emit, hostVars, appVars, WorkEvs, LinkEvs
<1>6. ASSUME NEW d \in Dev, LinkEnds(d) PROVE SingleBody'
  <2>1. PICK e : e = Event("disconnected", d) /\ e \in EventSet /\ e.ev = "disconnected"
                 /\ e.dev = d
    BY <1>3 DEF Evs
  <2>2. /\ req' = req \/ req' = NoRequest
        /\ req'.op # "none" => req'.dev \in peers'
    BY <1>1, <1>6 DEF LinkEnds, NoRequest, Request
  <2> QED
    BY <1>2, <1>6, <2>1, <2>2 DEF LinkEnds, Emit, hostVars, appVars
<1>7. CASE Established
  <2>1. PICK e : e = Event("connected", initiating) /\ e \in EventSet /\ e.ev = "connected"
                 /\ e.dev = initiating
    BY <1>3 DEF Evs, HostType
  <2> QED
    BY <1>1, <1>2, <1>7, <2>1 DEF Established, Emit, hostVars, appVars
<1>8. CASE EstablishFails
  <2>1. PICK e : e = Event("failed", NoDev) /\ e \in EventSet /\ e.ev = "failed"
    BY <1>3 DEF Evs
  <2> QED
    BY <1>1, <1>2, <1>8, <2>1 DEF EstablishFails, Emit, hostVars, appVars, WorkEvs, LinkEvs
<1>9. CASE Refuses
  <2>1. PICK ev \in {"error", "refused"} : evts' = Append(evts, Event(ev, req.dev))
    BY <1>9 DEF Refuses, Emit
  <2>2. PICK e : e = Event(ev, req.dev) /\ e \in EventSet /\ e.ev = ev /\ e.dev = req.dev
    BY <1>3, <2>1 DEF Evs, HostType
  <2>3. req.dev \in peers /\ req' = NoRequest /\ NoRequest.op = "none"
    BY <1>1, <1>9 DEF Refuses, NoRequest, Request
  <2> QED
    BY <1>2, <1>9, <2>1, <2>2, <2>3 DEF Refuses, hostVars, appVars, ctrlVars, WorkEvs
<1>10. CASE Breaks
  <2>1. PICK e : e = Event("hardware_err", NoDev) /\ e \in EventSet /\ e.ev = "hardware_err"
    BY <1>3 DEF Evs
  <2> QED
    BY <1>2, <1>10, <2>1
       DEF Breaks, Emit, hostVars, appVars, WorkEvs, LinkEvs, NoRequest, Request
<1>11. CASE Garbled
  <2>1. PICK e : e = Event("hardware_err", NoDev) /\ e \in EventSet /\ e.ev = "hardware_err"
    BY <1>3 DEF Evs
  <2> QED
    BY <1>1, <1>2, <1>11, <2>1
       DEF Garbled, Emit, hostVars, appVars, ctrlVars, WorkEvs, LinkEvs
<1>12. CASE Answers
  <2>1. /\ req.dev \in peers /\ req' = NoRequest /\ NoRequest.op = "none"
        /\ UNCHANGED <<cmds, peers, timers, conn_handle, m_scan_state>>
    BY <1>1, <1>12 DEF Answers, NoRequest, Request, hostVars, appVars, ctrlVars
  <2>2. CASE req.op # "update"
    <3>1. PICK ev \in {"mtu", "found", "refused"} :
            evts' = Append(evts, Event(ev, req.dev)) /\ flashed' = flashed
      BY <1>12, <2>2 DEF Answers, Emit
    <3>2. PICK e : e = Event(ev, req.dev) /\ e \in EventSet /\ e.ev = ev /\ e.dev = req.dev
      BY <1>3, <3>1 DEF Evs, HostType
    <3> QED
      BY <1>2, <2>1, <3>1, <3>2 DEF WorkEvs
  <2>3. CASE req.op = "update"
    <3>1. PICK e : e = Event("success", req.dev) /\ e \in EventSet /\ e.ev = "success"
                   /\ e.dev = req.dev
      BY <1>3 DEF Evs, HostType
    <3>2. evts' = Append(evts, e) /\ flashed' = flashed \cup {<<req.dev, req.image>>}
      BY <1>12, <2>3, <3>1 DEF Answers, Emit
    <3>3. /\ LinksAlternate(evts', peers')
          /\ \A d \in Dev : OpenIn(evts', peers', d) => OpenIn(evts, peers, d)
          /\ Reset \in ToSet(cmds') => cmds' = <<Reset>> /\ ~HasReset(evts')
          /\ ResetOnce(evts')
          /\ Resetting' => Resetting
          /\ ToSet(evts') = ToSet(evts) \cup {e}
      BY <2>1, <3>1, <3>2, SingleEmit DEF WorkEvs
    <3>4. /\ Quiet => Quiet'
          /\ Linked => Linked'
          /\ Listed(conn_idx)' = Listed(conn_idx)
      BY <2>1, <3>3 DEF Quiet, Linked, Listed, singleVars
    <3>5. OneMode'
      BY <2>1, <3>3, <3>4 DEF SingleBody, OneMode, singleVars
    <3>6. OneLink'
      BY <2>1, <3>3, <3>4 DEF SingleBody, OneLink, singleVars
    <3>7. <<req.dev, "boot">> \in flashed' /\ flashed \subseteq flashed'
      BY <2>3, <3>2 DEF SingleBody, Stages
    <3>8. Stages'
      <4>1. \A d \in Dev : <<d, "firmware">> \in flashed' => <<d, "boot">> \in flashed'
        BY <3>2, <3>7 DEF SingleBody, Stages
      <4>2. \A x \in ToSet(evts') : x.ev = "success" => <<x.dev, "boot">> \in flashed'
        BY <3>1, <3>3, <3>7 DEF SingleBody, Stages
      <4> QED
        BY <2>1, <3>4, <3>7, <4>1, <4>2 DEF SingleBody, Stages, singleVars
    <3> QED
      BY <3>5, <3>6, <3>8 DEF SingleBody
  <2> QED
    BY <2>2, <2>3
<1> QED
  BY <1>4, <1>5, <1>6, <1>7, <1>8, <1>9, <1>10, <1>11, <1>12 DEF Environment

(* A step of the program after which no link is open.                      *)
LEMMA SingleApart ==
    ASSUME SingleBody, OneMode', LinksAlternate(evts', peers'),
           \A d \in Dev : ~OpenIn(evts', peers', d),
           req' = req, peers' = peers, flashed' = flashed,
           \A e \in ToSet(evts') : e.ev = "success" => e \in ToSet(evts),
           m_flash_state' \in {"idle", "boot", "firmware"},
           m_flash_state' = "firmware" =>
                /\ Quiet' /\ conn_handle' = Listed(conn_idx)'
                /\ <<conn_handle', "boot">> \in flashed
    PROVE  SingleBody'
BY DEF SingleBody, OneLink, Stages

LEMMA NoReset ==
    /\ <<>> \in Seq(CommandSet) /\ Reset \notin ToSet(<<>>)
    /\ <<Cancel>> \in Seq(CommandSet) /\ Reset \notin ToSet(<<Cancel>>)
    /\ \A on \in BOOLEAN :
        <<ScanEnable(on)>> \in Seq(CommandSet) /\ Reset \notin ToSet(<<ScanEnable(on)>>)
    /\ \A d \in Device, cmd \in {"connect", "disconnect"} :
        <<Cmd(cmd, d)>> \in Seq(CommandSet) /\ Reset \notin ToSet(<<Cmd(cmd, d)>>)
<1>1. ASSUME NEW c \in CommandSet, c.cmd # "reset"
      PROVE  <<c>> \in Seq(CommandSet) /\ Reset \notin ToSet(<<c>>)
  <2>1. c # Reset
    BY <1>1 DEF Reset, Cmd
  <2> QED
    BY <2>1, OneElement
<1>2. <<>> \in Seq(CommandSet) /\ Reset \notin ToSet(<<>>)
  BY DEF ToSet
<1>3. Cancel \in CommandSet /\ Cancel.cmd # "reset"
  BY DEF Cancel, Cmd, CommandSet, Device
<1>4. \A on \in BOOLEAN : ScanEnable(on) \in CommandSet /\ ScanEnable(on).cmd # "reset"
  BY DEF ScanEnable, Cmd, CommandSet, Device
<1>5. \A d \in Device, cmd \in {"connect", "disconnect"} :
        Cmd(cmd, d) \in CommandSet /\ Cmd(cmd, d).cmd # "reset"
  BY DEF Cmd, CommandSet
<1> QED
  BY <1>1, <1>2, <1>3, <1>4, <1>5

LEMMA QueueNoReset ==
    ASSUME HostType, NEW cs \in Seq(CommandSet), Queue(cs), Reset \notin ToSet(cs)
    PROVE  /\ Reset \in ToSet(cmds') => Reset \in ToSet(cmds)
           /\ cs = <<>> => cmds' = cmds
<1>1. cmds \in Seq(CommandSet)
  BY DEF HostType
<1>2. ToSet(cmds \o cs) = ToSet(cmds) \cup ToSet(cs)
  BY <1>1, ConcatFacts
<1>3. cmds \o <<>> = cmds
  BY <1>1, ConcatEmptySeq
<1> QED
  BY <1>2, <1>3 DEF Queue

(* An event is taken, and nothing is sent while the controller is reset.   *)
LEMMA SingleTake ==
    ASSUME HostType, SingleBody, NEW ev, NEW d, NEW cs \in Seq(CommandSet),
           Reset \notin ToSet(cs), OnEvent(ev, d, cs),
           cs = <<>> \/ ~Resetting \/ ev = "reset"
    PROVE  /\ LinksAlternate(evts', peers')
           /\ ev \in WorkEvs \cup {"disconnected"} => OpenIn(evts, peers, d)
           /\ ev = "disconnected" => ~OpenIn(evts', peers', d)
           /\ \A x \in Dev : OpenIn(evts', peers', x) =>
                OpenIn(evts, peers, x) \/ (ev = "connected" /\ x = d)
           /\ Reset \in ToSet(cmds') => cmds' = <<Reset>> /\ ~HasReset(evts')
           /\ ResetOnce(evts')
           /\ Resetting' => Resetting
           /\ ev = "reset" => Resetting /\ ~Resetting'
           /\ ToSet(evts) = ToSet(evts') \cup {Event(ev, d)}
           /\ req.op # "none" => req.dev \in peers'
           /\ UNCHANGED <<peers, flashed, zip, conn_idx>>
<1>1. /\ evts # <<>> /\ Head(evts) = Event(ev, d) /\ evts' = Tail(evts) /\ Queue(cs)
      /\ UNCHANGED <<peers, flashed, zip, conn_idx>>
  BY DEF OnEvent, Takes, ctrlVars
<1>2. Head(evts).ev = ev /\ Head(evts).dev = d
  BY <1>1 DEF Event
<1>3. /\ evts \in Seq(EventSet) /\ LinksAlternate(evts, peers) /\ ResetOnce(evts)
      /\ Reset \in ToSet(cmds) => cmds = <<Reset>> /\ ~HasReset(evts)
      /\ req.op # "none" => req.dev \in peers
  BY DEF HostType, SingleBody, OneLink, OneMode
<1>4. PICK p : p = peers
  OBVIOUS
<1>5. /\ LinksAlternate(evts', p)
      /\ ev \in WorkEvs \cup {"disconnected"} => OpenIn(evts, p, d)
      /\ ev = "disconnected" => ~OpenIn(evts', p, d)
      /\ \A x : OpenIn(evts', p, x) => OpenIn(evts, p, x) \/ (ev = "connected" /\ x = d)
  BY <1>1, <1>2, <1>3, <1>4, LinksTake
<1>6. /\ ToSet(evts) = ToSet(evts') \cup {Event(ev, d)}
      /\ ResetOnce(evts')
      /\ ev = "reset" => ~HasReset(evts')
  BY <1>1, <1>2, <1>3, TakeKeeps, ResetOnceKept
<1>7. (HasReset(evts') => HasReset(evts)) /\ (ev = "reset" => HasReset(evts))
  BY <1>1, <1>2, <1>6 DEF HasReset
<1>8. /\ Reset \in ToSet(cmds') => Reset \in ToSet(cmds)
      /\ cs = <<>> => cmds' = cmds
  BY <1>1, QueueNoReset
<1>9. Resetting <=> Reset \in ToSet(cmds) \/ HasReset(evts)
  BY ResettingIs
<1>10. Resetting' <=> Reset \in ToSet(cmds') \/ HasReset(evts')
  BY ResettingIs
<1>11. Reset \in ToSet(cmds') => cmds' = <<Reset>> /\ ~HasReset(evts')
  BY <1>3, <1>7, <1>8, <1>9
<1>12. ev = "reset" => Resetting /\ ~Resetting'
  BY <1>3, <1>6, <1>7, <1>8, <1>9, <1>10
<1> QED
  BY <1>1, <1>3, <1>4, <1>5, <1>6, <1>7, <1>8, <1>9, <1>10, <1>11, <1>12

(* Which event is taken, and which command is sent for it.                 *)
LEMMA SingleWork ==
    ASSUME HostType, SingleBody, NEW ev \in WorkEvs \cup {"disconnected"}, NEW d \in Dev,
           NEW cs \in {<<>>, EndCmds}, OnEvent(ev, d, cs)
    PROVE  /\ Linked /\ conn_handle = d /\ d = Listed(conn_idx)
           /\ cs \in Seq(CommandSet) /\ Reset \notin ToSet(cs)
           /\ ~Resetting
<1>1. evts # <<>> /\ Head(evts) = Event(ev, d) /\ evts \in Seq(EventSet)
  BY DEF OnEvent, Takes, HostType
<1>2. PICK p : p = peers
  OBVIOUS
<1>3. LinksAlternate(evts, p)
  BY <1>2 DEF SingleBody, OneLink
<1>4. Head(evts).ev = ev /\ Head(evts).dev = d
  BY <1>1 DEF Event
<1>5. OpenIn(evts, p, d)
  BY <1>1, <1>3, <1>4, LinksTake
<1>6. Linked /\ conn_handle = d /\ d = Listed(conn_idx)
  BY <1>2, <1>5 DEF SingleBody, OneLink
<1>7. cs \in Seq(CommandSet) /\ Reset \notin ToSet(cs)
  BY NoReset DEF EndCmds, HostType
<1> QED
  BY <1>6, <1>7 DEF Linked, Quiet

LEMMA SingleHandlerKeeps ==
    ASSUME HostType, SingleType, SingleBody, SingleHandler, "boot" \in zip, ~crossed'
    PROVE  SingleBody'
<1>1. <<>> \in Seq(CommandSet) /\ Reset \notin ToSet(<<>>)
  BY NoReset
<1>2. CASE OnReset
  <2>1. PICK cs : cs = <<ScanEnable(TRUE)>> /\ cs \in Seq(CommandSet) /\ Reset \notin ToSet(cs)
    BY NoReset
  <2>2. PICK ev \in {"reset"}, d \in Device : OnEvent(ev, d, cs)
    BY <1>2, <2>1 DEF OnReset, Device
  <2>3. OnEvent(ev, d, cs) /\ cs \in Seq(CommandSet) /\ Reset \notin ToSet(cs)
        /\ (cs = <<>> \/ ~Resetting \/ ev = "reset")
    BY <2>1, <2>2
  <2>4. /\ LinksAlternate(evts', peers')
        /\ \A x \in Dev : OpenIn(evts', peers', x) => OpenIn(evts, peers, x)
        /\ Reset \in ToSet(cmds') => cmds' = <<Reset>> /\ ~HasReset(evts')
        /\ ResetOnce(evts')
        /\ ev = "reset" => Resetting /\ ~Resetting'
        /\ ToSet(evts) = ToSet(evts') \cup {Event(ev, d)}
        /\ UNCHANGED <<peers, flashed, zip, conn_idx>>
    BY <2>3, SingleTake
  <2>5. /\ timers' = timers \cup {"scan"} /\ m_scan_state' = TRUE
        /\ UNCHANGED <<req, m_flash_state, show_menu_flag, main>>
    BY <1>2 DEF OnReset, ScanStarts
  <2>6. /\ "scan" \notin timers /\ main # "select" /\ ~show_menu_flag
        /\ "conn" \notin timers /\ "again" \notin timers /\ ~Quiet /\ ~Linked
    BY <2>2, <2>4 DEF SingleBody, OneMode, Quiet, Linked
  <2>7. OneMode'
    BY <2>2, <2>4, <2>5, <2>6 DEF OneMode
  <2>8. \A x \in Dev : ~OpenIn(evts', peers', x)
    BY <2>4, <2>6 DEF SingleBody, OneLink
  <2>9. m_flash_state' # "firmware" /\ m_flash_state' \in {"idle", "boot", "firmware"}
    BY <2>5, <2>6 DEF SingleBody, Stages
  <2> QED
    BY <2>4, <2>5, <2>7, <2>8, <2>9, SingleApart
<1>3. ASSUME NEW d \in Dev, OnConnected(d) PROVE SingleBody'
  <2>1. PICK ev : ev = "connected"
    OBVIOUS
  <2>2. OnEvent(ev, d, <<>>)
    BY <1>3, <2>1 DEF OnConnected
  <2>3. /\ LinksAlternate(evts', peers')
        /\ \A x \in Dev : OpenIn(evts', peers', x) => OpenIn(evts, peers, x) \/ x = d
        /\ Reset \in ToSet(cmds') => cmds' = <<Reset>> /\ ~HasReset(evts')
        /\ ResetOnce(evts')
        /\ Resetting' => Resetting
        /\ ToSet(evts) = ToSet(evts') \cup {Event(ev, d)}
        /\ req.op # "none" => req.dev \in peers'
        /\ UNCHANGED <<peers, flashed, zip, conn_idx>>
    BY <1>1, <2>1, <2>2, SingleTake
  <2>4. /\ "conn" \in timers /\ d = Listed(conn_idx)
        /\ timers' = timers \ {"conn"} /\ conn_handle' = d /\ Ask(d, "mtu", NoImage)
        /\ UNCHANGED <<m_scan_state, m_flash_state, dev_report, p_dev_report, main,
                       show_menu_flag>>
    BY <1>3 DEF OnConnected, appVars, listVars
  <2>5. Quiet /\ "again" \notin timers /\ ~Linked
    BY <2>4 DEF SingleBody, OneMode, Linked
  <2>6. Quiet' /\ Linked' /\ Listed(conn_idx)' = d
    BY <2>3, <2>4, <2>5 DEF Quiet, Linked, Listed
  <2>7. OneMode'
    BY <2>3, <2>4, <2>5, <2>6 DEF SingleBody, OneMode, Quiet
  <2>8. /\ req' = req \/ (req'.op = "mtu" /\ req'.dev = d /\ d \in peers)
    BY <2>4 DEF Ask, Request
  <2>9. OneLink'
    <3>1. \A x \in Dev : OpenIn(evts', peers', x) => x = d
      BY <2>3, <2>5 DEF SingleBody, OneLink
    <3> QED
      BY <2>3, <2>4, <2>6, <2>8, <3>1 DEF OneLink
  <2>10. Stages'
    <3>1. \A e \in ToSet(evts') : e.ev = "success" => e \in ToSet(evts)
      BY <2>3
    <3> QED
      BY <2>3, <2>4, <2>6, <2>8, <3>1 DEF SingleBody, Stages
  <2> QED
    BY <2>7, <2>9, <2>10 DEF SingleBody
<1>4. CASE OnConnectFailed
  <2>1. PICK ev \in {"failed"}, d \in Device : OnEvent(ev, d, <<>>)
    BY <1>4 DEF OnConnectFailed, Device
  <2>2. /\ LinksAlternate(evts', peers')
        /\ \A x \in Dev : OpenIn(evts', peers', x) => OpenIn(evts, peers, x)
        /\ Reset \in ToSet(cmds') => cmds' = <<Reset>> /\ ~HasReset(evts')
        /\ ResetOnce(evts')
        /\ Resetting' => Resetting
        /\ ToSet(evts) = ToSet(evts') \cup {Event(ev, d)}
        /\ req.op # "none" => req.dev \in peers'
        /\ UNCHANGED <<peers, flashed, zip, conn_idx>>
    BY <1>1, <2>1, SingleTake
  <2> QED
    BY <1>4, <2>2, SingleCalm DEF OnConnectFailed, appVars, listVars
<1>5. CASE OnIgnored
  <2>1. PICK ev \in {"hardware_err", "adv"}, d \in Device : OnEvent(ev, d, <<>>)
    BY <1>5 DEF OnIgnored, Device
  <2>2. /\ LinksAlternate(evts', peers')
        /\ \A x \in Dev : OpenIn(evts', peers', x) => OpenIn(evts, peers, x)
        /\ Reset \in ToSet(cmds') => cmds' = <<Reset>> /\ ~HasReset(evts')
        /\ ResetOnce(evts')
        /\ Resetting' => Resetting
        /\ ToSet(evts) = ToSet(evts') \cup {Event(ev, d)}
        /\ req.op # "none" => req.dev \in peers'
        /\ UNCHANGED <<peers, flashed, zip, conn_idx>>
    BY <1>1, <2>1, SingleTake
  <2> QED
    BY <1>5, <2>2, SingleCalm DEF OnIgnored, hostVars, appVars, listVars
<1>6. ASSUME NEW d \in Dev, OnDisconnected(d) PROVE SingleBody'
  <2>0. PICK ev : ev = "disconnected"
    OBVIOUS
  <2>1. PICK cs \in {<<>>, EndCmds} : OnEvent(ev, d, cs)
    BY <1>6, <2>0 DEF OnDisconnected
  <2>2. /\ Linked /\ conn_handle = d /\ d = Listed(conn_idx) /\ ~Resetting
        /\ cs \in Seq(CommandSet) /\ Reset \notin ToSet(cs)
    BY <2>0, <2>1, SingleWork
  <2>3. /\ LinksAlternate(evts', peers')
        /\ ~OpenIn(evts', peers', d)
        /\ \A x \in Dev : OpenIn(evts', peers', x) => OpenIn(evts, peers, x)
        /\ Reset \in ToSet(cmds') => cmds' = <<Reset>> /\ ~HasReset(evts')
        /\ ResetOnce(evts')
        /\ Resetting' => Resetting
        /\ ToSet(evts) = ToSet(evts') \cup {Event(ev, d)}
        /\ UNCHANGED <<peers, flashed, zip, conn_idx>>
    BY <2>0, <2>1, <2>2, SingleTake
  <2>4. \A x \in Dev : ~OpenIn(evts', peers', x)
    BY <2>2, <2>3 DEF SingleBody, OneLink
  <2>5. /\ m_flash_state' = m_flash_state \/ m_flash_state' = "idle"
        /\ timers' = IF m_flash_state' = "firmware" THEN timers \cup {"again"} ELSE timers
        /\ show_menu_flag' = (m_flash_state' # "firmware")
        /\ UNCHANGED <<conn_handle, m_scan_state, req, dev_report, p_dev_report, main>>
    BY <1>6 DEF OnDisconnected, StageAfterFailure, appVars, listVars
  <2>6. OneMode'
    BY <2>2, <2>3, <2>5 DEF SingleBody, OneMode, Linked, Quiet
  <2>7. m_flash_state' = "firmware" =>
            /\ Quiet' /\ conn_handle' = Listed(conn_idx)'
            /\ <<conn_handle', "boot">> \in flashed
    BY <2>2, <2>3, <2>5 DEF SingleBody, Stages, Linked, Quiet, Listed
  <2>8. m_flash_state' \in {"idle", "boot", "firmware"}
    BY <2>5 DEF SingleBody, Stages
  <2>9. \A e \in ToSet(evts') : e.ev = "success" => e \in ToSet(evts)
    BY <2>3
  <2> QED
    BY <2>3, <2>4, <2>5, <2>6, <2>7, <2>8, <2>9, SingleApart
<1>7. ASSUME NEW d \in Dev, NEW ev \in WorkEvs, NEW cs \in {<<>>, EndCmds},
             OnEvent(ev, d, cs),
             \/ req' = req \/ Ask(conn_handle, "find", NoImage)
             \/ \E image \in {"boot", "firmware"} :
                    /\ Ask(conn_handle, "update", image)
                    /\ image = "firmware" => <<conn_handle, "boot">> \in flashed,
             main' = main \/ main' = "exit",
             \/ m_flash_state' = m_flash_state \/ m_flash_state' \in {"idle", "boot"}
             \/ m_flash_state' = "firmware" /\ <<d, "boot">> \in flashed,
             UNCHANGED <<timers, conn_handle, m_scan_state, dev_report, p_dev_report,
                         show_menu_flag>>
      PROVE  SingleBody'
  <2>1. /\ Linked /\ conn_handle = d /\ d = Listed(conn_idx) /\ ~Resetting
        /\ cs \in Seq(CommandSet) /\ Reset \notin ToSet(cs)
    BY <1>7, SingleWork
  <2>2. /\ LinksAlternate(evts', peers')
        /\ \A x \in Dev : OpenIn(evts', peers', x) => OpenIn(evts, peers, x)
        /\ Reset \in ToSet(cmds') => cmds' = <<Reset>> /\ ~HasReset(evts')
        /\ ResetOnce(evts')
        /\ Resetting' => Resetting
        /\ ToSet(evts) = ToSet(evts') \cup {Event(ev, d)}
        /\ req.op # "none" => req.dev \in peers'
        /\ UNCHANGED <<peers, flashed, zip, conn_idx>>
    BY <1>7, <2>1, SingleTake DEF WorkEvs
  <2>3. /\ \/ req' = req \/ req'.op # "update"
           \/ /\ req'.image \in {"boot", "firmware"}
              /\ req'.image = "firmware" => <<req'.dev, "boot">> \in flashed
        /\ req'.op # "none" => req'.dev \in peers'
    BY <1>7, <2>2 DEF Ask, Request
  <2>4. \A e \in ToSet(evts') : e.ev = "success" => e \in ToSet(evts)
    BY <2>2
  <2>5. Quiet
    BY <2>1 DEF Linked
  <2> QED
    BY <1>7, <2>1, <2>2, <2>3, <2>4, <2>5, SingleCalm
<1>8. ASSUME NEW d \in Dev, OnMtuUpdate(d) PROVE SingleBody'
  <2>1. OnEvent("mtu", d, <<>>) /\ "mtu" \in WorkEvs /\ <<>> \in {<<>>, EndCmds}
    BY <1>8 DEF OnMtuUpdate, WorkEvs
  <2>2. Ask(conn_handle, "find", NoImage)
    BY <1>8 DEF OnMtuUpdate
  <2> QED
    BY <1>7, <1>8, <2>1, <2>2 DEF OnMtuUpdate, hostVars, appVars, listVars
<1>9. ASSUME NEW d \in Dev, OnFound(d) PROVE SingleBody'
  <2>1. OnEvent("found", d, <<>>) /\ "found" \in WorkEvs /\ <<>> \in {<<>>, EndCmds}
    BY <1>9 DEF OnFound, WorkEvs
  <2>2. UNCHANGED <<timers, conn_handle, m_scan_state, dev_report, p_dev_report,
                    show_menu_flag>>
    BY <1>9 DEF OnFound, listVars
  <2>3. CASE Stage(m_flash_state) = "exit"
    BY <1>7, <1>9, <2>1, <2>2, <2>3 DEF OnFound
  <2>4. CASE Stage(m_flash_state) # "exit"
    <3>1. /\ m_flash_state' = Stage(m_flash_state) /\ main' = main
          /\ req' = req \/ Ask(conn_handle, "update", Stage(m_flash_state))
      BY <1>9, <2>4 DEF OnFound, ClientStart
    <3>2. \/ Stage(m_flash_state) = "boot"
          \/ Stage(m_flash_state) = "firmware" /\ m_flash_state = "firmware"
      BY <2>4 DEF Stage
    <3>3. Stage(m_flash_state) = "firmware" => <<conn_handle, "boot">> \in flashed
      BY <3>2 DEF SingleBody, Stages
    <3>4. m_flash_state' = m_flash_state \/ m_flash_state' \in {"idle", "boot"}
      BY <3>1, <3>2
    <3>5. \/ req' = req
          \/ \E image \in {"boot", "firmware"} :
                /\ Ask(conn_handle, "update", image)
                /\ image = "firmware" => <<conn_handle, "boot">> \in flashed
      BY <3>1, <3>2, <3>3
    <3> QED
      BY <1>7, <2>1, <2>2, <3>1, <3>4, <3>5
  <2> QED
    BY <2>3, <2>4
<1>10. ASSUME NEW d \in Dev, OnErrorRsp(d) PROVE SingleBody'
  <2>1. OnEvent("error", d, EndCmds) /\ "error" \in WorkEvs
    BY <1>10 DEF OnErrorRsp, WorkEvs
  <2> QED
    BY <1>7, <1>10, <2>1 DEF OnErrorRsp, hostVars, appVars, listVars
<1>11. ASSUME NEW d \in Dev, OnSuccess(d) PROVE SingleBody'
  <2>1. PICK cs \in {<<>>, EndCmds} : OnEvent("success", d, cs) /\ "success" \in WorkEvs
    BY <1>11 DEF OnSuccess, WorkEvs
  <2>2. <<d, "boot">> \in flashed
    <3>1. evts # <<>> /\ Head(evts) = Event("success", d) /\ evts \in Seq(EventSet)
      BY <2>1 DEF OnEvent, Takes, HostType
    <3>2. Event("success", d) \in ToSet(evts)
      BY <3>1, TakeKeeps
    <3>3. Event("success", d).ev = "success" /\ Event("success", d).dev = d
      BY DEF Event
    <3> QED
      BY <3>2, <3>3 DEF SingleBody, Stages
  <2>3. \/ m_flash_state' = m_flash_state \/ m_flash_state' \in {"idle", "boot"}
        \/ m_flash_state' = "firmware" /\ <<d, "boot">> \in flashed
    BY <1>11, <2>2 DEF OnSuccess, StageAfterSuccess, NextStage, SingleBody, Stages
  <2> QED
    BY <1>7, <1>11, <2>1, <2>3 DEF OnSuccess, appVars, listVars
<1>12. ASSUME NEW d \in Dev, OnRefused(d) PROVE SingleBody'
  <2>1. OnEvent("refused", d, EndCmds) /\ "refused" \in WorkEvs
    BY <1>12 DEF OnRefused, WorkEvs
  <2>2. m_flash_state' = "idle"
    BY <1>12 DEF OnRefused, StageAfterFailure
  <2> QED
    BY <1>7, <1>12, <2>1, <2>2 DEF OnRefused, appVars, listVars
<1>13. ASSUME NEW d \in Dev, OnAdvReport(d) PROVE SingleBody'
  <2>1. /\ "scan" \in timers /\ m_scan_state /\ ~Resetting /\ main # "select"
        /\ ~show_menu_flag /\ "conn" \notin timers /\ "again" \notin timers
        /\ ~Quiet /\ ~Linked
    BY <1>13 DEF OnAdvReport, SingleBody, OneMode, Quiet, Linked
  <2>2. PICK ev, cs : /\ ev = "adv" /\ OnEvent(ev, d, cs)
                      /\ cs \in Seq(CommandSet) /\ Reset \notin ToSet(cs)
    BY <1>13, NoReset DEF OnAdvReport
  <2>3. /\ LinksAlternate(evts', peers')
        /\ \A x \in Dev : OpenIn(evts', peers', x) => OpenIn(evts, peers, x)
        /\ Reset \in ToSet(cmds') => cmds' = <<Reset>> /\ ~HasReset(evts')
        /\ ResetOnce(evts')
        /\ ~Resetting'
        /\ ToSet(evts) = ToSet(evts') \cup {Event(ev, d)}
        /\ UNCHANGED <<peers, flashed, zip, conn_idx>>
    BY <2>1, <2>2, SingleTake
  <2>4. /\ \/ timers' = timers \ {"scan"} /\ m_scan_state' = FALSE /\ main' = "select"
           \/ UNCHANGED <<timers, m_scan_state, main>>
        /\ UNCHANGED <<conn_handle, req, m_flash_state, show_menu_flag>>
    BY <1>13 DEF OnAdvReport, ScanStops
  <2>5. OneMode'
    BY <2>1, <2>3, <2>4 DEF OneMode, Quiet
  <2>6. \A x \in Dev : ~OpenIn(evts', peers', x)
    BY <2>1, <2>3 DEF SingleBody, OneLink
  <2>7. m_flash_state' # "firmware" /\ m_flash_state' \in {"idle", "boot", "firmware"}
    BY <2>1, <2>4 DEF SingleBody, Stages
  <2>8. \A e \in ToSet(evts') : e.ev = "success" => e \in ToSet(evts)
    BY <2>3
  <2> QED
    BY <2>3, <2>4, <2>5, <2>6, <2>7, <2>8, SingleApart
<1> QED
  BY <1>2, <1>3, <1>4, <1>5, <1>6, <1>8, <1>9, <1>10, <1>11, <1>12, <1>13 DEF SingleHandler

(* While no link is open and the controller is not reset, more is asked    *)
(* of the controller.                                                      *)
LEMMA SingleQueues ==
    ASSUME HostType, SingleBody, ~Linked, ~Resetting,
           NEW cs \in Seq(CommandSet), Reset \notin ToSet(cs), Queue(cs),
           UNCHANGED <<evts, peers, req, flashed>>
    PROVE  /\ LinksAlternate(evts', peers')
           /\ \A d \in Dev : ~OpenIn(evts', peers', d)
           /\ Reset \notin ToSet(cmds')
           /\ ResetOnce(evts')
           /\ ~Resetting'
           /\ req' = req /\ peers' = peers /\ flashed' = flashed
           /\ \A e \in ToSet(evts') : e.ev = "success" => e \in ToSet(evts)
<1>1. Reset \notin ToSet(cmds) /\ ~HasReset(evts)
  BY ResettingIs
<1>2. Reset \notin ToSet(cmds')
  BY <1>1, QueueNoReset
<1>3. ~Resetting'
  BY <1>1, <1>2, ResettingIs
<1>4. LinksAlternate(evts, peers) /\ ResetOnce(evts) /\ \A d \in Dev : ~OpenIn(evts, peers, d)
  BY DEF SingleBody, OneLink, OneMode
<1> QED
  BY <1>2, <1>3, <1>4

LEMMA SingleTimeoutKeeps ==
    ASSUME HostType, SingleType, SingleBody, NEW id \in timers, OnTimeout(id)
    PROVE  SingleBody'
<1>1. /\ main # "select" /\ ~show_menu_flag
      /\ UNCHANGED <<evts, peers, req, flashed, conn_handle>>
  BY DEF OnTimeout, Looping, ctrlVars
<1>2. CASE id = "scan"
  <2>1. ~Resetting /\ "conn" \notin timers /\ "again" \notin timers /\ ~Linked
    BY <1>2 DEF SingleBody, OneMode, Linked, Quiet
  <2>2. PICK cs \in Seq(CommandSet) : Queue(cs) /\ Reset \notin ToSet(cs)
    BY <1>2, NoReset DEF OnTimeout
  <2>3. /\ LinksAlternate(evts', peers')
        /\ \A d \in Dev : ~OpenIn(evts', peers', d)
        /\ Reset \notin ToSet(cmds') /\ ResetOnce(evts') /\ ~Resetting'
        /\ req' = req /\ peers' = peers /\ flashed' = flashed
        /\ \A e \in ToSet(evts') : e.ev = "success" => e \in ToSet(evts)
    BY <1>1, <2>1, <2>2, SingleQueues
  <2>4. /\ timers' = timers \ {"scan"} /\ m_scan_state' = FALSE /\ main' = "select"
        /\ m_flash_state' = "idle" /\ show_menu_flag' = show_menu_flag
    BY <1>2 DEF OnTimeout, ScanStops
  <2>5. OneMode'
    BY <1>1, <2>1, <2>3, <2>4 DEF OneMode
  <2> QED
    BY <2>3, <2>4, <2>5, SingleApart
<1>3. CASE id = "conn"
  <2>1. Quiet /\ "again" \notin timers /\ ~Resetting /\ "scan" \notin timers /\ ~Linked
    BY <1>3 DEF SingleBody, OneMode, Linked, Quiet
  <2>2. PICK cs \in Seq(CommandSet) : Queue(cs) /\ Reset \notin ToSet(cs)
    BY <1>3, NoReset DEF OnTimeout
  <2>3. /\ LinksAlternate(evts', peers')
        /\ \A d \in Dev : ~OpenIn(evts', peers', d)
        /\ Reset \notin ToSet(cmds') /\ ResetOnce(evts') /\ ~Resetting'
        /\ req' = req /\ peers' = peers /\ flashed' = flashed
        /\ \A e \in ToSet(evts') : e.ev = "success" => e \in ToSet(evts)
    BY <1>1, <2>1, <2>2, SingleQueues
  <2>4. /\ timers' = timers \ {"conn"} /\ m_scan_state' = m_scan_state /\ main' = main
        /\ m_flash_state' = "idle" /\ show_menu_flag' = TRUE
    BY <1>3 DEF OnTimeout
  <2>5. OneMode'
    BY <1>1, <2>1, <2>3, <2>4 DEF SingleBody, OneMode
  <2> QED
    BY <2>3, <2>4, <2>5, SingleApart
<1>4. CASE id = "again"
  <2>1. Quiet /\ ~Resetting /\ "scan" \notin timers /\ ~Linked
    BY <1>4 DEF SingleBody, OneMode, Linked, Quiet
  <2>2. ConnDevByIdx(conn_idx, timers \ {"again"}) /\ Listed(conn_idx) \in Device
    BY <1>4 DEF OnTimeout, SingleType, Listed
  <2>3. PICK cs \in Seq(CommandSet) : Queue(cs) /\ Reset \notin ToSet(cs)
    BY <2>2, NoReset DEF ConnDevByIdx
  <2>4. /\ LinksAlternate(evts', peers')
        /\ \A d \in Dev : ~OpenIn(evts', peers', d)
        /\ Reset \notin ToSet(cmds') /\ ResetOnce(evts') /\ ~Resetting'
        /\ req' = req /\ peers' = peers /\ flashed' = flashed
        /\ \A e \in ToSet(evts') : e.ev = "success" => e \in ToSet(evts)
    BY <1>1, <2>1, <2>3, SingleQueues
  <2>5. /\ timers' = (timers \ {"again"}) \cup {"conn"} /\ conn_idx' = conn_idx
        /\ UNCHANGED <<m_scan_state, main, m_flash_state, show_menu_flag, dev_report,
                       p_dev_report>>
    BY <1>4, <2>2 DEF OnTimeout, ConnDevByIdx, listVars
  <2>6. Quiet' /\ Listed(conn_idx)' = Listed(conn_idx)
    BY <2>1, <2>4, <2>5 DEF Quiet, Listed
  <2>7. OneMode'
    BY <1>1, <2>1, <2>4, <2>5, <2>6 DEF SingleBody, OneMode
  <2>8. m_flash_state' = "firmware" =>
            /\ Quiet' /\ conn_handle' = Listed(conn_idx)'
            /\ <<conn_handle', "boot">> \in flashed
    BY <1>1, <2>5, <2>6 DEF SingleBody, Stages
  <2>9. m_flash_state' \in {"idle", "boot", "firmware"}
    BY <2>5 DEF SingleBody, Stages
  <2> QED
    BY <2>4, <2>7, <2>8, <2>9, SingleApart
<1> QED
  BY <1>2, <1>3, <1>4 DEF OnTimeout

LEMMA SelectKeeps ==
    ASSUME HostType, SingleType, SingleBody, Select
    PROVE  SingleBody'
<1>1. /\ main = "select" /\ main' = "loop"
      /\ UNCHANGED <<evts, peers, req, flashed, conn_handle, m_scan_state, m_flash_state,
                     dev_report, p_dev_report>>
  BY DEF Select, appVars, ctrlVars, listVars
<1>2. /\ ~Resetting /\ ~show_menu_flag /\ ~Quiet /\ ~Linked
      /\ "scan" \notin timers /\ "conn" \notin timers /\ "again" \notin timers
  BY <1>1 DEF SingleBody, OneMode, Quiet, Linked
<1>3. m_flash_state' # "firmware" /\ m_flash_state' \in {"idle", "boot", "firmware"}
  BY <1>1, <1>2 DEF SingleBody, Stages
<1>4. ASSUME NEW i \in 1 .. dev_num, ConnDevByIdx(i, timers), UNCHANGED show_menu_flag
      PROVE  SingleBody'
  <2>1. Listed(i) \in Device
    <3>1. i \in 1 .. MaxDevs
      BY DfuSingleAssumption DEF SingleType
    <3> QED
      BY <3>1 DEF Listed, SingleType
  <2>2. PICK cs \in Seq(CommandSet) : Queue(cs) /\ Reset \notin ToSet(cs)
    BY <1>4, <2>1, NoReset DEF ConnDevByIdx
  <2>3. /\ LinksAlternate(evts', peers')
        /\ \A d \in Dev : ~OpenIn(evts', peers', d)
        /\ Reset \notin ToSet(cmds') /\ ResetOnce(evts') /\ ~Resetting'
        /\ req' = req /\ peers' = peers /\ flashed' = flashed
        /\ \A e \in ToSet(evts') : e.ev = "success" => e \in ToSet(evts)
    BY <1>1, <1>2, <2>2, SingleQueues
  <2>4. timers' = timers \cup {"conn"}
    BY <1>4 DEF ConnDevByIdx
  <2>5. Quiet'
    BY <1>1, <1>2, <1>4, <2>3, <2>4 DEF Quiet
  <2>6. OneMode'
    BY <1>1, <1>2, <1>4, <2>3, <2>4, <2>5 DEF SingleBody, OneMode
  <2> QED
    BY <1>3, <2>3, <2>6, SingleApart
<1>5. ASSUME show_menu_flag' = TRUE, UNCHANGED <<timers, cmds, conn_idx>>
      PROVE  SingleBody'
  <2>1. Resetting' <=> Resetting
    BY <1>1, <1>5, ResettingIs
  <2>2. OneMode'
    BY <1>1, <1>2, <1>5, <2>1 DEF SingleBody, OneMode
  <2>3. \A d \in Dev : ~OpenIn(evts', peers', d)
    BY <1>1, <1>2 DEF SingleBody, OneLink
  <2>4. LinksAlternate(evts', peers')
    BY <1>1 DEF SingleBody, OneLink
  <2>5. \A e \in ToSet(evts') : e.ev = "success" => e \in ToSet(evts)
    BY <1>1
  <2> QED
    BY <1>1, <1>3, <2>2, <2>3, <2>4, <2>5, SingleApart
<1> QED
  BY <1>4, <1>5 DEF Select

LEMMA ShowMenuKeeps ==
    ASSUME HostType, SingleType, SingleBody, ShowMenu
    PROVE  SingleBody'
<1>1. /\ main = "loop" /\ main' = main /\ show_menu_flag /\ show_menu_flag' = FALSE
      /\ timers' = timers \cup {"scan"} /\ m_scan_state' = TRUE
      /\ UNCHANGED <<evts, peers, req, flashed, conn_handle, m_flash_state>>
  BY DEF ShowMenu, ScanStarts, ctrlVars
<1>2. /\ ~Resetting /\ ~Quiet /\ ~Linked
      /\ "conn" \notin timers /\ "again" \notin timers
  BY <1>1 DEF SingleBody, OneMode, Quiet, Linked
<1>3. m_flash_state' # "firmware" /\ m_flash_state' \in {"idle", "boot", "firmware"}
  BY <1>1, <1>2 DEF SingleBody, Stages
<1>4. PICK cs \in Seq(CommandSet) : Queue(cs) /\ Reset \notin ToSet(cs)
  BY NoReset DEF ShowMenu
<1>5. /\ LinksAlternate(evts', peers')
      /\ \A d \in Dev : ~OpenIn(evts', peers', d)
      /\ Reset \notin ToSet(cmds') /\ ResetOnce(evts') /\ ~Resetting'
      /\ req' = req /\ peers' = peers /\ flashed' = flashed
      /\ \A e \in ToSet(evts') : e.ev = "success" => e \in ToSet(evts)
  BY <1>1, <1>2, <1>4, SingleQueues
<1>6. OneMode'
  BY <1>1, <1>2, <1>5 DEF OneMode
<1> QED
  BY <1>3, <1>5, <1>6, SingleApart

LEMMA SingleStep ==
    ASSUME HostType, SingleType, SingleBody, "boot" \in zip, SingleNext, ~crossed'
    PROVE  SingleBody'
<1>1. CASE OnTxComplete
  <2>1. /\ conn_handle \in peers /\ Ask(conn_handle, "stray", NoImage)
        /\ UNCHANGED <<timers, evts, cmds, peers, flashed, conn_handle, m_scan_state>>
        /\ UNCHANGED <<dev_report, p_dev_report, conn_idx, main, m_flash_state,
                       show_menu_flag>>
    BY <1>1 DEF OnTxComplete, Stray, hostVars, appVars, ctrlVars, singleVars
  <2>2. /\ req' = req \/ req'.op = "stray"
        /\ req'.op # "none" => req'.dev \in peers'
    BY <2>1 DEF Ask, Request, SingleBody, OneLink
  <2>3. /\ LinksAlternate(evts', peers') /\ ResetOnce(evts')
        /\ \A d \in Dev : OpenIn(evts', peers', d) => OpenIn(evts, peers, d)
        /\ Reset \in ToSet(cmds') => cmds' = <<Reset>> /\ ~HasReset(evts')
    BY <2>1 DEF SingleBody, OneMode, OneLink
  <2>4. Resetting' => Resetting
    BY <2>1, ResettingIs
  <2>5. \A e \in ToSet(evts') : e.ev = "success" => e \in ToSet(evts)
    BY <2>1
  <2> QED
    BY <2>1, <2>2, <2>3, <2>4, <2>5, SingleCalm
<1>2. CASE Environment /\ UNCHANGED singleVars
  BY <1>2, SingleEnvironment
<1> QED
  BY <1>1, <1>2, SingleHandlerKeeps, SingleTimeoutKeeps, SelectKeeps, ShowMenuKeeps
     DEF SingleNext, SingleTimeout

LEMMA SingleInitKept == Init => SingleInv
<1> SUFFICES ASSUME Init PROVE SingleInv
  OBVIOUS
<1>1. CASE main_function = "batch"
  BY <1>1 DEF Init, SingleInit, SingleInv
<1>2. CASE main_function = "single" /\ "boot" \in zip
  <2>1. /\ timers = {} /\ m_scan_state = FALSE /\ evts = <<>> /\ cmds = <<Reset>>
        /\ peers = {} /\ req = NoRequest /\ flashed = {}
    BY DEF Init, HostInit
  <2>2. m_flash_state = "boot" /\ show_menu_flag = FALSE /\ main = "loop"
    BY <1>2 DEF Init, SingleInit, Stage
  <2>3. ToSet(evts) = {} /\ ~HasReset(evts) /\ ResetOnce(evts) /\ LinksAlternate(evts, peers)
    BY <2>1 DEF HasReset, ResetOnce, LinksAlternate, ToSet
  <2>4. OneMode
    BY <2>1, <2>2, <2>3 DEF OneMode
  <2>5. OneLink
    BY <2>1, <2>3 DEF OneLink, OpenIn, NoRequest, Request
  <2>6. Stages
    BY <2>1, <2>2, <2>3 DEF Stages, NoRequest, Request
  <2> QED
    BY <1>2, <2>4, <2>5, <2>6 DEF SingleInv, SingleBody
<1> QED
  BY <1>1, <1>2 DEF SingleInv, Init

LEMMA CrossedStays ==
    ASSUME SingleNext
    PROVE  zip' = zip /\ (crossed => crossed')
<1>1. ASSUME SingleHandler PROVE zip' = zip /\ (crossed => crossed')
  <2>1. CASE OnReset \/ OnConnectFailed \/ OnIgnored
    BY <2>1 DEF OnReset, OnConnectFailed, OnIgnored, OnEvent
  <2>2. ASSUME NEW d \in Dev, OnConnected(d) PROVE zip' = zip /\ (crossed => crossed')
    <3>1. crossed' = (crossed \/ "conn" \notin timers \/ d # Listed(conn_idx)) /\ zip' = zip
      BY <2>2 DEF OnConnected, OnEvent
    <3> QED
      BY <3>1
  <2>3. ASSUME NEW d \in Dev,
               \/ OnDisconnected(d) \/ OnMtuUpdate(d) \/ OnFound(d)
               \/ OnErrorRsp(d) \/ OnSuccess(d) \/ OnRefused(d) \/ OnAdvReport(d)
        PROVE  zip' = zip /\ crossed' = crossed
    <3>1. CASE OnDisconnected(d) \/ OnMtuUpdate(d) \/ OnFound(d)
      BY <3>1 DEF OnDisconnected, OnMtuUpdate, OnFound, OnEvent
    <3>2. CASE OnErrorRsp(d) \/ OnSuccess(d) \/ OnRefused(d)
      BY <3>2 DEF OnErrorRsp, OnSuccess, OnRefused, OnEvent
    <3>3. CASE OnAdvReport(d)
      BY <3>3 DEF OnAdvReport, OnEvent
    <3> QED
      BY <2>3, <3>1, <3>2, <3>3
  <2> QED
    BY <1>1, <2>1, <2>2, <2>3 DEF SingleHandler
<1> QED
  BY <1>1 DEF SingleNext, SingleTimeout, OnTimeout, Select, ShowMenu, OnTxComplete, singleVars

LEMMA SingleInvStep ==
    ASSUME TypeInv, SingleInv, Next
    PROVE  SingleInv'
<1>1. CASE Single
  <2>1. main_function = "single" /\ main_function' = main_function /\ SingleNext
    BY <1>1 DEF Single, Next
  <2>2. ASSUME "boot" \in zip', ~crossed' PROVE SingleBody'
    <3>1. "boot" \in zip /\ ~crossed
      BY <2>1, <2>2, CrossedStays
    <3> QED
      BY <2>1, <2>2, <3>1, SingleStep DEF TypeInv, SingleInv
  <2> QED
    BY <2>1, <2>2 DEF SingleInv
<1>2. CASE Batch
  BY <1>2 DEF Batch, Next, SingleInv, singleVars
<1> QED
  BY <1>1, <1>2 DEF Next

(* The interactive program sends a device the firmware part of a zip file  *)
(* only when that device has the boot part, if the file has one, unless a  *)
(* connection was made that it was not waiting for, for any number of      *)
(* devices, of places in the list and of faults (dfu_single.c:202-225,     *)
(* 331-377, 480-486).                                                      *)
THEOREM StagesKept == Spec => []StagesInOrder
<1>1. Init => TypeInv /\ SingleInv
  BY TypeInit, SingleInitKept
<1>2. TypeInv /\ SingleInv /\ [Next]_allVars => (TypeInv /\ SingleInv)'
  <2> SUFFICES ASSUME TypeInv, SingleInv, [Next]_allVars PROVE (TypeInv /\ SingleInv)'
    OBVIOUS
  <2>1. CASE Next
    BY <2>1, TypeNext, SingleInvStep
  <2>2. CASE UNCHANGED allVars
    <3> USE <2>2 DEF allVars, dfuHostVars, hostVars, appVars, airVars, ctrlVars, singleVars,
                     batchVars
    <3>1. TypeInv'
      BY DEF TypeInv, HostType, SingleType, BatchType, Items
    <3>2. /\ Quiet' <=> Quiet
          /\ Linked' <=> Linked
          /\ Resetting' <=> Resetting
          /\ Listed(conn_idx)' = Listed(conn_idx)
      BY DEF Quiet, Linked, Resetting, Listed
    <3>3. OneMode' <=> OneMode
      BY <3>2 DEF OneMode
    <3>4. OneLink' <=> OneLink
      BY <3>2 DEF OneLink
    <3>5. Stages' <=> Stages
      BY <3>2 DEF Stages
    <3> QED
      BY <3>1, <3>3, <3>4, <3>5 DEF SingleInv, SingleBody
  <2> QED
    BY <2>1, <2>2
<1>3. TypeInv /\ SingleInv => StagesInOrder
  BY DEF TypeInv, HostType, SingleInv, SingleBody, Stages, StagesInOrder
<1> QED
  BY <1>1, <1>2, <1>3, PTL DEF Spec, allVars

=============================================================================
