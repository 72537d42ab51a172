---------------------------- MODULE L2capProofs ----------------------------
(***************************************************************************)
(* Proofs about L2cap and the receiver L2capPeer, for every fragment size, *)
(* window, set of PDU lengths and every number of connections, losses and  *)
(* early answers.                                                          *)
(***************************************************************************)
EXTENDS L2capPeer, SequenceTheorems, FiniteSetTheorems, TLAPS

USE L2capAssumption DEF L2capAssumption

-----------------------------------------------------------------------------
(* Conversion to int8_t yields an int8_t.                                  *)
LEMMA Int8Range ==
    ASSUME NEW x \in Int
    PROVE  Int8(x) \in -Half .. Half - 1
<1>1. \A a \in Int, b \in Nat \ {0} : a % b \in 0 .. b - 1
  OBVIOUS
<1>2. 2 * Half \in Nat \ {0} /\ x + Half \in Int
  OBVIOUS
<1>3. (x + Half) % (2 * Half) \in 0 .. 2 * Half - 1
  BY <1>1, <1>2
<1> QED
  BY <1>3 DEF Int8

(* A PDU has at least one fragment, and each one is well formed.           *)
LEMMA FragmentsType ==
    ASSUME NEW p \in Nat, NEW n \in Nat
    PROVE  Fragments(p, n) \in Seq(Fragment)
<1>1. NumFrags(n) \in Nat
  <2>1. \A a \in Nat, b \in Nat \ {0} : a \div b \in Nat
    OBVIOUS
  <2>2. n + AclMax - 1 \in Nat
    OBVIOUS
  <2> QED
    BY <2>1, <2>2 DEF NumFrags
<1>2. \A i \in 1..NumFrags(n) : Frag(p, n, i) \in Fragment
  <2> SUFFICES ASSUME NEW i \in 1..NumFrags(n)
               PROVE  Frag(p, n, i) \in Fragment
    OBVIOUS
  <2>1. i - 1 \in Nat
    BY <1>1
  <2>2. \A a, b \in Nat : a * b \in Nat
    OBVIOUS
  <2>3. (i - 1) * AclMax \in Nat
    BY <2>1, <2>2
  <2> QED
    BY <2>3 DEF Frag, Fragment
<1> QED
  BY <1>1, <1>2, IsASeq DEF Fragments

(* What the send loop moves is a part of the queue and fits the window.    *)
LEMMA RoomBounds ==
    ASSUME NEW f \in Seq(Fragment), NEW c \in Int, c <= MaxPkt
    PROVE  /\ Room(f, c) \in 0 .. Len(f)
           /\ c + Room(f, c) <= MaxPkt
           /\ Room(f, c) < Len(f) => c + Room(f, c) = MaxPkt
BY LenProperties DEF Room

(* Counting the ends of PDUs gives a number.                               *)
LEMMA EndsType ==
    ASSUME NEW f \in Seq(Fragment)
    PROVE  Ends(f) \in Nat
<1>1. DOMAIN f = 1 .. Len(f) /\ Len(f) \in Nat
  BY LenProperties
<1>2. IsFiniteSet(1 .. Len(f))
  BY <1>1, FS_Interval
<1>3. IsFiniteSet({i \in DOMAIN f : f[i].last})
  BY <1>1, <1>2, FS_Subset
<1> QED
  BY <1>3, FS_CardinalityType DEF Ends

(* Splitting a queue at any place keeps its contents and their order.      *)
LEMMA SplitQueue ==
    ASSUME NEW f \in Seq(Fragment), NEW k \in 0 .. Len(f)
    PROVE  /\ SubSeq(f, 1, k) \in Seq(Fragment)
           /\ SubSeq(f, k + 1, Len(f)) \in Seq(Fragment)
           /\ Len(SubSeq(f, 1, k)) = k
           /\ Len(SubSeq(f, k + 1, Len(f))) = Len(f) - k
           /\ SubSeq(f, 1, k) \o SubSeq(f, k + 1, Len(f)) = f
<1>1. Len(f) \in Nat /\ \A i \in 1 .. Len(f) : f[i] \in Fragment
  BY LenProperties, ElementOfSeq
<1>2. SubSeq(f, 1, k) \in Seq(Fragment) /\ Len(SubSeq(f, 1, k)) = k
  BY <1>1, SubSeqProperties
<1>3. /\ SubSeq(f, k + 1, Len(f)) \in Seq(Fragment)
      /\ Len(SubSeq(f, k + 1, Len(f))) = Len(f) - k
  BY <1>1, SubSeqProperties
<1>4. SubSeq(f, 1, k) \o SubSeq(f, k + 1, Len(f)) = SubSeq(f, 1, Len(f))
  <2>1. /\ 1 \in 1 .. Len(f) + 1
        /\ k \in 1 - 1 .. Len(f)
        /\ Len(f) \in k .. Len(f)
    BY <1>1
  <2> QED
    BY <2>1, ConcatAdjacentSubSeq
<1> QED
  BY <1>2, <1>3, <1>4, SubSeqFull

(* Concatenation of queues of fragments is associative.                    *)
LEMMA Regroup ==
    \A r, s, t \in Seq(Fragment) : (r \o s) \o t = r \o (s \o t)
BY ConcatAssociative

(* The send loop, whatever called it: the queue and what the controller    *)
(* holds keep their order, and the count grows by what was handed over.    *)
LEMMA BufferSendEffect ==
    ASSUME NEW f \in Seq(Fragment), NEW h \in Int, NEW c \in Int,
           c <= MaxPkt, air \in Seq(Fragment), link \in {"down", "up"},
           BufferSend(f, h, c)
    PROVE  /\ fifo' \in Seq(Fragment)
           /\ host_pkt_num' \in -Half .. Half - 1
           /\ ctrl_pkt_num' \in Int
           /\ ctrl_pkt_num' <= MaxPkt
           /\ air' \in Seq(Fragment)
           /\ link = "up" => Len(air') + c = Len(air) + ctrl_pkt_num'
           /\ link = "up" => Len(air') >= Len(air)
           /\ link = "up" => air' \o fifo' = air \o f
           /\ link = "down" => air' = air
           /\ fifo' # <<>> => ctrl_pkt_num' = MaxPkt
<1> DEFINE k == Room(f, c)
           moved == SubSeq(f, 1, k)
           rest == SubSeq(f, k + 1, Len(f))
<1>1. k \in 0 .. Len(f) /\ c + k <= MaxPkt
      /\ (k < Len(f) => c + k = MaxPkt)
  BY RoomBounds
<1>2. /\ moved \in Seq(Fragment) /\ rest \in Seq(Fragment)
      /\ Len(moved) = k /\ Len(rest) = Len(f) - k
      /\ moved \o rest = f
  BY <1>1, SplitQueue
<1>3. /\ fifo' = rest
      /\ host_pkt_num' = Int8(h - Ends(moved))
      /\ ctrl_pkt_num' = c + k
      /\ air' = IF link = "up" THEN air \o moved ELSE air
  BY DEF BufferSend
<1> HIDE DEF k, moved, rest
<1>4. host_pkt_num' \in -Half .. Half - 1
  <2>1. Ends(moved) \in Nat
    BY <1>2, EndsType
  <2>2. h - Ends(moved) \in Int
    BY <2>1
  <2> QED
    BY <2>2, <1>3, Int8Range
<1>5. air \in Seq(Fragment) /\ Len(f) \in Nat /\ Len(air) \in Nat
  <2>1. air \in Seq(Fragment)
    OBVIOUS
  <2> QED
    BY <2>1, LenProperties
<1>6. ASSUME link = "up"
      PROVE  /\ air' \in Seq(Fragment)
             /\ Len(air') = Len(air) + k
             /\ air' \o fifo' = air \o f
  <2>1. air' = air \o moved
    BY <1>3, <1>6
  <2>2. air' \in Seq(Fragment) /\ Len(air') = Len(air) + k
    BY <2>1, <1>2, <1>5, ConcatProperties
  <2>3. (air \o moved) \o rest = air \o (moved \o rest)
    BY <1>2, <1>5, Regroup
  <2> QED
    BY <2>1, <2>2, <2>3, <1>2, <1>3
<1>7. fifo' # <<>> => ctrl_pkt_num' = MaxPkt
  <2>1. rest # <<>> => Len(rest) \in Nat \ {0}
    BY <1>2, EmptySeq
  <2> QED
    BY <2>1, <1>1, <1>2, <1>3, <1>5
<1>8. /\ fifo' \in Seq(Fragment)
      /\ ctrl_pkt_num' \in Int
      /\ ctrl_pkt_num' <= MaxPkt
      /\ ctrl_pkt_num' - c = k
      /\ k >= 0
  BY <1>1, <1>2, <1>3, <1>5
<1>9. link = "down" => air' = air
  BY <1>3
<1>10. air' \in Seq(Fragment)
  BY <1>5, <1>6, <1>9
<1>11. ASSUME link = "up"
       PROVE  /\ Len(air') + c = Len(air) + ctrl_pkt_num'
              /\ Len(air') >= Len(air)
  <2>1. Len(air') = Len(air) + k /\ ctrl_pkt_num' = c + k
    BY <1>3, <1>6, <1>11
  <2>2. k \in Nat /\ Len(air) \in Nat
    BY <1>1, <1>5
  <2> QED
    BY <1>2, <2>1, <2>2
<1> QED
  BY <1>4, <1>6, <1>7, <1>8, <1>9, <1>10, <1>11

-----------------------------------------------------------------------------
(* The strengthening of the three credit invariants.  Beside what they say *)
(* it ties the link events to the two views of the connection, accounts    *)
(* for what went out before the connection event, and empties the          *)
(* controller's queue when the link is down.                               *)
Views ==
    \/ conn = "idle" /\ link = "down" /\ evts = <<>> /\ done = 0
    \/ conn = "idle" /\ link = "up" /\ evts = <<"conn">>
    \/ conn = "idle" /\ link = "down" /\ evts = <<"conn", "disc">>
    \/ conn = "open" /\ link = "up" /\ evts = <<>>
    \/ conn = "open" /\ link = "down" /\ evts = <<"disc">>

EarlyAccounted == link = "up" /\ conn = "idle" => Len(air) + done + lost = early

IInv ==
    /\ TypeOK
    /\ Views
    /\ ctrl_pkt_num <= MaxPkt
    /\ CreditsAccounted
    /\ EarlyAccounted
    /\ ControllerNotOverrun
    /\ NeverIdle
    /\ link = "down" => air = <<>>

(* The queues of link events that can occur, and what the operators on     *)
(* sequences make of them.                                                 *)
LEMMA LinkEvents ==
    /\ Head(<<"conn">>) = "conn" /\ Tail(<<"conn">>) = <<>>
    /\ Head(<<"conn", "disc">>) = "conn" /\ Tail(<<"conn", "disc">>) = <<"disc">>
    /\ Head(<<"disc">>) = "disc" /\ Tail(<<"disc">>) = <<>>
    /\ Append(<<>>, "disc") = <<"disc">>
    /\ Append(<<"conn">>, "disc") = <<"conn", "disc">>
<1>1. Head(<<"conn">>) = "conn" /\ Head(<<"conn", "disc">>) = "conn"
      /\ Head(<<"disc">>) = "disc"
  OBVIOUS
<1>2. Tail(<<"conn">>) = <<>> /\ Tail(<<"disc">>) = <<>>
  OBVIOUS
<1>4. Tail(<<"conn", "disc">>) = <<"disc">>
  OBVIOUS
<1>5. Append(<<>>, "disc") = <<"disc">>
  OBVIOUS
<1>6. Append(<<"conn">>, "disc") = <<"conn", "disc">>
  <2> DEFINE T == {"conn", "disc"}
             s == Append(<<"conn">>, "disc")
             t == <<"conn", "disc">>
  <2>1. <<"conn">> \in Seq(T) /\ Len(<<"conn">>) = 1 /\ "disc" \in T
    OBVIOUS
  <2>2. /\ s \in Seq(T) /\ Len(s) = 1 + 1 /\ s[1] = <<"conn">>[1]
        /\ s[1 + 1] = "disc"
    BY <2>1, AppendProperties
  <2>3. t \in Seq(T) /\ Len(t) = 2 /\ t[1] = "conn" /\ t[2] = "disc"
    OBVIOUS
  <2>4. Len(s) = Len(t) /\ \A i \in 1 .. Len(s) : s[i] = t[i]
    BY <2>2, <2>3
  <2> QED
    BY <2>2, <2>3, <2>4, SeqEqual
<1> QED
  BY <1>1, <1>2, <1>4, <1>5, <1>6

LEMMA InitIInv == Init => IInv
<1> SUFFICES ASSUME Init PROVE IInv
  OBVIOUS
<1>1. <<>> \in Seq(Fragment) /\ Len(<<>>) = 0
  BY EmptySeq
<1> QED
  BY <1>1 DEF Init, IInv, TypeOK, Views, CreditsAccounted, Live,
     EarlyAccounted, ControllerNotOverrun, NeverIdle

(* The window's balance: acknowledging n fragments and handing over others *)
(* keeps the account of credits.                                           *)
LEMMA Balance ==
    ASSUME NEW a \in Int, NEW b \in Int, NEW c \in Int, NEW d \in Int,
           NEW e \in Int, NEW l \in Int, NEW x \in Int, NEW n \in Int,
           c + e = a + d + l,
           b + (c - n) = a + x
    PROVE  x + e = b + (d - n) + l
OBVIOUS

LEMMA SendPduIInv ==
    ASSUME IInv, NEW n \in PduLen, SendPdu(n),
           \/ conn = "open" /\ UNCHANGED early
           \/ /\ conn = "idle" /\ link = "up"
              /\ early' = early + (Len(air') - Len(air))
    PROVE  IInv'
<1> DEFINE fr == Fragments(pdus + 1, n)
<1>1. fr \in Seq(Fragment)
  BY FragmentsType DEF IInv, TypeOK
<1>2. fifo \o fr \in Seq(Fragment) /\ sent \o fr \in Seq(Fragment)
  BY <1>1, ConcatProperties DEF IInv, TypeOK
<1>3. /\ BufferSend(fifo \o fr, Int8(host_pkt_num + 1), ctrl_pkt_num)
      /\ sent' = sent \o fr
      /\ pdus' = pdus + 1
      /\ UNCHANGED <<conn, done, link, evts, rx, conns, lost>>
  BY DEF SendPdu
<1> HIDE DEF fr
<1>4. host_pkt_num + 1 \in Int
  BY DEF IInv, TypeOK
<1>5. Int8(host_pkt_num + 1) \in Int
  BY <1>4, Int8Range
<1>6. /\ air \in Seq(Fragment) /\ Len(air) \in Nat
      /\ link \in {"down", "up"} /\ ctrl_pkt_num \in Int /\ ctrl_pkt_num <= MaxPkt
  BY LenProperties DEF IInv, TypeOK
<1>7. /\ fifo' \in Seq(Fragment)
      /\ host_pkt_num' \in -Half .. Half - 1
      /\ ctrl_pkt_num' \in Int
      /\ ctrl_pkt_num' <= MaxPkt
      /\ air' \in Seq(Fragment)
      /\ link = "up" => Len(air') + ctrl_pkt_num = Len(air) + ctrl_pkt_num'
      /\ link = "up" => Len(air') >= Len(air)
      /\ link = "down" => air' = air
      /\ fifo' # <<>> => ctrl_pkt_num' = MaxPkt
  BY <1>2, <1>3, <1>5, <1>6, BufferSendEffect
<1>8. Len(air') \in Nat
  BY <1>7, LenProperties
<1>9. early' \in Nat
  BY <1>6, <1>7, <1>8 DEF IInv, TypeOK
<1>10. TypeOK'
  BY <1>2, <1>3, <1>7, <1>9 DEF IInv, TypeOK
<1>11. CreditsAccounted' /\ EarlyAccounted' /\ ControllerNotOverrun'
  <2>1. /\ done \in Nat /\ lost \in Nat /\ early \in Nat
        /\ Len(air) + done <= MaxPkt + early
    BY DEF IInv, TypeOK, ControllerNotOverrun
  <2>2. CASE link = "down"
    BY <1>3, <1>7, <2>1, <2>2
    DEF CreditsAccounted, Live, EarlyAccounted, ControllerNotOverrun
  <2>3. CASE link = "up" /\ conn = "open"
    <3>1. ctrl_pkt_num + early = Len(air) + done + lost
      BY <2>3 DEF IInv, CreditsAccounted, Live
    <3>2. Len(air') + ctrl_pkt_num = Len(air) + ctrl_pkt_num'
      BY <1>7, <2>3
    <3>3. ctrl_pkt_num' + early = Len(air') + done + lost
      <4>1. Len(air') + (ctrl_pkt_num - 0) = Len(air) + ctrl_pkt_num'
        BY <1>6, <1>7, <3>2
      <4>2. /\ Len(air) \in Int /\ Len(air') \in Int /\ ctrl_pkt_num \in Int
            /\ done \in Int /\ early \in Int /\ lost \in Int
            /\ ctrl_pkt_num' \in Int /\ 0 \in Int
        BY <1>6, <1>7, <1>8, <2>1
      <4>3. ctrl_pkt_num' + early = Len(air') + (done - 0) + lost
        BY <3>1, <4>1, <4>2, Balance
      <4> QED
        BY <2>1, <4>3
    <3>4. Len(air') + done <= MaxPkt + early
      BY <1>7, <1>8, <2>1, <3>3
    <3>5. early' = early /\ done' = done /\ lost' = lost /\ conn' = conn
      BY <1>3, <2>3
    <3> QED
      BY <2>3, <3>3, <3>4, <3>5
      DEF CreditsAccounted, Live, EarlyAccounted, ControllerNotOverrun
  <2>4. CASE link = "up" /\ conn = "idle"
    <3>1. Len(air) + done + lost = early
      BY <2>4 DEF IInv, EarlyAccounted
    <3>2. early' = early + (Len(air') - Len(air))
      BY <2>4
    <3>3. Len(air') + done + lost = early'
      BY <1>6, <1>8, <2>1, <3>1, <3>2
    <3>4. Len(air') + done <= MaxPkt + early'
      BY <1>8, <1>9, <2>1, <3>3
    <3>5. done' = done /\ lost' = lost /\ conn' = conn
      BY <1>3
    <3> QED
      BY <2>4, <3>3, <3>4, <3>5
      DEF CreditsAccounted, Live, EarlyAccounted, ControllerNotOverrun
  <2> QED
    BY <2>2, <2>3, <2>4 DEF IInv, TypeOK
<1>12. Views' /\ NeverIdle' /\ (link' = "down" => air' = <<>>)
  BY <1>3, <1>7 DEF IInv, Views, NeverIdle
<1> QED
  BY <1>7, <1>10, <1>11, <1>12 DEF IInv

LEMMA PacketCompIInv ==
    ASSUME IInv, NEW num \in 1 .. done, PacketComp(num)
    PROVE  IInv'
<1>1. /\ BufferSend(fifo, host_pkt_num, ctrl_pkt_num - num)
      /\ conn = "open"
      /\ done' = done - num
      /\ UNCHANGED <<conn, link, evts, rx, sent, pdus, conns, lost, early>>
  BY DEF PacketComp, histVars
<1>2. /\ fifo \in Seq(Fragment)
      /\ host_pkt_num \in Int
      /\ ctrl_pkt_num \in Int /\ done \in Nat
      /\ ctrl_pkt_num - num \in Int /\ ctrl_pkt_num - num <= MaxPkt
      /\ link \in {"down", "up"}
  BY DEF IInv, TypeOK
<1>3. air \in Seq(Fragment) /\ Len(air) \in Nat
  BY LenProperties DEF IInv, TypeOK
<1>4. /\ fifo' \in Seq(Fragment)
      /\ host_pkt_num' \in -Half .. Half - 1
      /\ ctrl_pkt_num' \in Int
      /\ ctrl_pkt_num' <= MaxPkt
      /\ air' \in Seq(Fragment)
      /\ link = "up" => Len(air') + (ctrl_pkt_num - num) = Len(air) + ctrl_pkt_num'
      /\ link = "down" => air' = air
      /\ fifo' # <<>> => ctrl_pkt_num' = MaxPkt
  BY <1>1, <1>2, <1>3, BufferSendEffect
<1>5. Len(air') \in Nat /\ done' \in Nat
  BY <1>1, <1>2, <1>4, LenProperties
<1>6. TypeOK'
  BY <1>1, <1>4, <1>5 DEF IInv, TypeOK
<1>7. ASSUME link = "up"
      PROVE  ctrl_pkt_num' + early = Len(air') + done' + lost
  <2>1. ctrl_pkt_num + early = Len(air) + done + lost
    BY <1>1, <1>7 DEF IInv, CreditsAccounted, Live
  <2>2. Len(air') + (ctrl_pkt_num - num) = Len(air) + ctrl_pkt_num'
    BY <1>4, <1>7
  <2>3. early \in Nat /\ lost \in Nat /\ num \in Nat
    BY <1>2 DEF IInv, TypeOK
  <2> QED
    <3>1. /\ Len(air) \in Int /\ Len(air') \in Int /\ ctrl_pkt_num \in Int
          /\ done \in Int /\ early \in Int /\ lost \in Int
          /\ ctrl_pkt_num' \in Int /\ num \in Int
      BY <1>2, <1>3, <1>4, <1>5, <2>3
    <3>2. ctrl_pkt_num' + early = Len(air') + (done - num) + lost
      BY <2>1, <2>2, <3>1, Balance
    <3> QED
      BY <1>1, <3>2
<1>8. /\ EarlyAccounted' /\ Views' /\ NeverIdle'
      /\ CreditsAccounted'
      /\ link' = "down" => air' = <<>>
  BY <1>1, <1>4, <1>7
  DEF IInv, Views, EarlyAccounted, NeverIdle, CreditsAccounted, Live
<1>9. ControllerNotOverrun'
  <2>1. CASE link = "up"
    <3>1. early' = early /\ early \in Nat /\ lost \in Nat
      BY <1>1 DEF IInv, TypeOK
    <3>2. Len(air') + done' <= MaxPkt + early
      BY <1>4, <1>5, <1>7, <2>1, <3>1, SMTT(20)
    <3> QED
      BY <3>1, <3>2 DEF ControllerNotOverrun
  <2>2. CASE link = "down"
    <3>1. air' = air /\ done' = done - num /\ early' = early
      BY <1>1, <1>4, <2>2
    <3>2. Len(air) + done <= MaxPkt + early
      BY DEF IInv, ControllerNotOverrun
    <3>3. early \in Nat /\ num \in Nat
      BY <1>2 DEF IInv, TypeOK
    <3>4. Len(air) + (done - num) <= MaxPkt + early
      BY <1>2, <1>3, <3>2, <3>3
    <3> QED
      BY <3>1, <3>4 DEF ControllerNotOverrun
  <2> QED
    BY <1>2, <2>1, <2>2
<1> QED
  BY <1>4, <1>6, <1>8, <1>9 DEF IInv

LEMMA ConnectionCompleteIInv ==
    ASSUME IInv, ConnectionComplete
    PROVE  IInv'
<1>1. /\ evts # <<>> /\ Head(evts) = "conn"
      /\ evts' = Tail(evts)
      /\ conn' = "open" /\ fifo' = <<>> /\ host_pkt_num' = 0 /\ ctrl_pkt_num' = 0
      /\ sent' = <<>>
      /\ UNCHANGED <<air, done, link, rx, pdus, conns, lost, early>>
  BY DEF ConnectionComplete, L2capInit
<1>2. <<>> \in Seq(Fragment) /\ Len(air) \in Nat
  BY EmptySeq, LenProperties DEF IInv, TypeOK
<1>3. \/ evts = <<"conn">> /\ conn = "idle" /\ link = "up" /\ evts' = <<>>
      \/ /\ evts = <<"conn", "disc">> /\ conn = "idle" /\ link = "down"
         /\ evts' = <<"disc">>
  BY <1>1, LinkEvents DEF IInv, Views
<1>4. TypeOK'
  BY <1>1, <1>2, <1>3 DEF IInv, TypeOK
<1>5. Views' /\ NeverIdle' /\ EarlyAccounted' /\ (link' = "down" => air' = <<>>)
  BY <1>1, <1>3 DEF IInv, Views, NeverIdle, EarlyAccounted
<1>6. CreditsAccounted' /\ ControllerNotOverrun'
  BY <1>1, <1>2, <1>3 DEF IInv, TypeOK, EarlyAccounted, CreditsAccounted, Live,
     ControllerNotOverrun
<1>7. ctrl_pkt_num' <= MaxPkt
  BY <1>1
<1> QED
  BY <1>4, <1>5, <1>6, <1>7 DEF IInv

LEMMA DisconnectionCompleteIInv ==
    ASSUME IInv, DisconnectionComplete
    PROVE  IInv'
<1>1. /\ evts = <<"disc">> /\ conn = "open" /\ link = "down" /\ evts' = <<>>
      /\ done = 0 /\ conn' = "idle"
      /\ UNCHANGED <<fifo, host_pkt_num, ctrl_pkt_num, air, done, link, rx,
                     sent, pdus, conns, lost, early>>
  BY LinkEvents DEF DisconnectionComplete, IInv, Views, histVars
<1> QED
  BY <1>1 DEF IInv, TypeOK, Views, CreditsAccounted, Live, EarlyAccounted,
     ControllerNotOverrun, NeverIdle

LEMMA LinkUpIInv ==
    ASSUME IInv, LinkUp
    PROVE  IInv'
<1>1. /\ link = "down" /\ conn = "idle" /\ evts = <<>> /\ done = 0
      /\ link' = "up" /\ evts' = <<"conn">> /\ rx' = <<>>
      /\ conns' = conns + 1 /\ lost' = 0 /\ early' = 0
      /\ UNCHANGED <<fifo, host_pkt_num, ctrl_pkt_num, conn, air, done, sent,
                     pdus>>
  BY DEF LinkUp, IInv, Views, hostVars
<1>2. air = <<>> /\ Len(air) = 0 /\ <<>> \in Seq(Fragment)
  BY <1>1, EmptySeq DEF IInv
<1> QED
  BY <1>1, <1>2 DEF IInv, TypeOK, Views, CreditsAccounted, Live,
     EarlyAccounted, ControllerNotOverrun, NeverIdle

LEMMA LinkLossIInv ==
    ASSUME IInv, LinkLoss
    PROVE  IInv'
<1>1. /\ link = "up" /\ link' = "down" /\ evts' = Append(evts, "disc")
      /\ air' = <<>>
      /\ UNCHANGED <<fifo, host_pkt_num, ctrl_pkt_num, conn, done, rx, sent,
                     pdus, conns, lost, early>>
  BY DEF LinkLoss, hostVars, histVars
<1>2. <<>> \in Seq(Fragment) /\ Len(air') = 0 /\ Len(air) \in Nat
  BY <1>1, EmptySeq, LenProperties DEF IInv, TypeOK
<1>3. \/ evts = <<"conn">> /\ conn = "idle" /\ evts' = <<"conn", "disc">>
      \/ evts = <<>> /\ conn = "open" /\ evts' = <<"disc">>
  BY <1>1, LinkEvents DEF IInv, Views
<1>4. ControllerNotOverrun'
  BY <1>1, <1>2 DEF IInv, TypeOK, ControllerNotOverrun
<1> QED
  BY <1>1, <1>2, <1>3, <1>4 DEF IInv, TypeOK, Views, CreditsAccounted, Live,
     EarlyAccounted, NeverIdle

LEMMA TransmitIInv ==
    ASSUME IInv, Transmit
    PROVE  IInv'
<1>1. /\ air # <<>> /\ rx' = Append(rx, Head(air)) /\ air' = Tail(air)
      /\ done' = done + 1
      /\ UNCHANGED <<fifo, host_pkt_num, ctrl_pkt_num, conn, link, evts, sent,
                     pdus, conns, lost, early>>
  BY DEF Transmit, hostVars, histVars
<1>2. /\ air' \in Seq(Fragment) /\ rx' \in Seq(Fragment)
      /\ Len(air') = Len(air) - 1 /\ Len(air) \in Nat
  BY <1>1, HeadTailProperties, AppendProperties, LenProperties DEF IInv, TypeOK
<1>3. Len(air') + done' = Len(air) + done
  BY <1>1, <1>2 DEF IInv, TypeOK
<1>4. link = "up"
  BY <1>1 DEF IInv, TypeOK
<1>5. TypeOK' /\ Views'
  BY <1>1, <1>2, <1>4 DEF IInv, TypeOK, Views
<1>6. CreditsAccounted' /\ EarlyAccounted' /\ ControllerNotOverrun'
  BY <1>1, <1>3 DEF IInv, TypeOK, CreditsAccounted, Live, EarlyAccounted,
     ControllerNotOverrun
<1> QED
  BY <1>1, <1>4, <1>5, <1>6 DEF IInv, NeverIdle

LEMMA UsbLostIInv ==
    ASSUME IInv, UsbLost
    PROVE  IInv'
<1>1. PICK i \in DOMAIN air : air' = RemoveAt(air, i)
  BY DEF UsbLost
<1>2. /\ lost' = lost + 1
      /\ UNCHANGED <<fifo, host_pkt_num, ctrl_pkt_num, conn, done, link, evts,
                     rx, sent, pdus, conns, early>>
  BY DEF UsbLost, hostVars
<1>3. air \in Seq(Fragment) /\ Len(air) \in Nat /\ i \in 1 .. Len(air)
  BY LenProperties DEF IInv, TypeOK
<1>4. \A j \in 1 .. Len(air) : air[j] \in Fragment
  BY <1>3, ElementOfSeq
<1>5. SubSeq(air, 1, i - 1) \in Seq(Fragment)
      /\ Len(SubSeq(air, 1, i - 1)) = i - 1
  BY <1>3, <1>4, SubSeqProperties
<1>6. SubSeq(air, i + 1, Len(air)) \in Seq(Fragment)
      /\ Len(SubSeq(air, i + 1, Len(air))) = Len(air) - i
  BY <1>3, <1>4, SubSeqProperties
<1>7. air' \in Seq(Fragment) /\ Len(air') = Len(air) - 1
  <2>1. air' = SubSeq(air, 1, i - 1) \o SubSeq(air, i + 1, Len(air))
    BY <1>1 DEF RemoveAt
  <2>2. /\ air' \in Seq(Fragment)
        /\ Len(air') = Len(SubSeq(air, 1, i - 1)) + Len(SubSeq(air, i + 1, Len(air)))
    BY <2>1, <1>5, <1>6, ConcatProperties
  <2>3. Len(air') = (i - 1) + (Len(air) - i)
    BY <1>5, <1>6, <2>2
  <2>4. \A x, y \in Int : (y - 1) + (x - y) = x - 1
    OBVIOUS
  <2>5. (i - 1) + (Len(air) - i) = Len(air) - 1
    BY <1>3, <2>4
  <2> QED
    BY <2>2, <2>3, <2>5
<1>8. link = "up"
  <2>1. air # <<>>
    BY <1>3, EmptySeq
  <2> QED
    BY <2>1 DEF IInv, TypeOK
<1>9. TypeOK' /\ Views'
  BY <1>2, <1>7, <1>8 DEF IInv, TypeOK, Views
<1>10. Len(air') + done' + lost' = Len(air) + done + lost
  BY <1>2, <1>3, <1>7 DEF IInv, TypeOK
<1>11. Len(air') + done' <= Len(air) + done
  BY <1>2, <1>3, <1>7 DEF IInv, TypeOK
<1>12. CreditsAccounted' /\ EarlyAccounted' /\ ControllerNotOverrun'
  <2>1. CreditsAccounted' /\ EarlyAccounted'
    BY <1>2, <1>10 DEF IInv, CreditsAccounted, Live, EarlyAccounted
  <2>2. Len(air) + done <= MaxPkt + early
    BY DEF IInv, ControllerNotOverrun
  <2>3. Len(air') + done' <= MaxPkt + early
    BY <1>2, <1>3, <1>7, <1>11, <2>2 DEF IInv, TypeOK
  <2> QED
    BY <1>2, <2>1, <2>3 DEF ControllerNotOverrun
<1> QED
  BY <1>2, <1>8, <1>9, <1>12 DEF IInv, NeverIdle

LEMMA StepIInv == IInv /\ [Next]_vars => IInv'
<1> SUFFICES ASSUME IInv, [Next]_vars PROVE IInv'
  OBVIOUS
<1>1. ASSUME NEW n \in PduLen, Send(n) PROVE IInv'
  BY <1>1, SendPduIInv DEF Send
<1>2. ASSUME NEW n \in PduLen, SendEarly(n) PROVE IInv'
  BY <1>2, SendPduIInv DEF SendEarly
<1>3. ASSUME NEW num \in 1 .. done, PacketComp(num) PROVE IInv'
  BY <1>3, PacketCompIInv
<1>4. CASE ConnectionComplete
  BY <1>4, ConnectionCompleteIInv
<1>5. CASE DisconnectionComplete
  BY <1>5, DisconnectionCompleteIInv
<1>6. CASE LinkUp
  BY <1>6, LinkUpIInv
<1>7. CASE LinkLoss
  BY <1>7, LinkLossIInv
<1>8. CASE Transmit
  BY <1>8, TransmitIInv
<1>9. CASE UsbLost
  BY <1>9, UsbLostIInv
<1>10. CASE UNCHANGED vars
  BY <1>10 DEF vars, hostVars, ctrlVars, histVars, IInv, TypeOK, Views,
     CreditsAccounted, Live, EarlyAccounted, ControllerNotOverrun, NeverIdle
<1> QED
  BY <1>1, <1>2, <1>3, <1>4, <1>5, <1>6, <1>7, <1>8, <1>9, <1>10
  DEF Next, Host, Controller

-----------------------------------------------------------------------------
LEMMA InvariantIInv == Spec => []IInv
BY InitIInv, StepIInv, PTL DEF Spec

(* The variables of the transmit path keep their types (eb_l2cap.c:6-11).  *)
THEOREM TypeCorrect == Spec => []TypeOK
<1>1. IInv => TypeOK
  BY DEF IInv
<1> QED
  BY <1>1, InvariantIInv, PTL

(* The host's count of outstanding fragments is exact on every live link,  *)
(* whatever was lost or sent early (eb_l2cap.c:51-55, 101-102, 144-149).   *)
THEOREM CreditsCorrect == Spec => []CreditsAccounted
<1>1. IInv => CreditsAccounted
  BY DEF IInv
<1> QED
  BY <1>1, InvariantIInv, PTL

(* The controller is never given more than the window allows               *)
(* (eb_l2cap.c:92).                                                        *)
THEOREM WindowRespected == Spec => []ControllerNotOverrun
<1>1. IInv => ControllerNotOverrun
  BY DEF IInv
<1> QED
  BY <1>1, InvariantIInv, PTL

(* The queue waits only for credits (eb_l2cap.c:54, 92, 141).              *)
THEOREM NoIdleCredit == Spec => []NeverIdle
<1>1. IInv => NeverIdle
  BY DEF IInv
<1> QED
  BY <1>1, InvariantIInv, PTL

-----------------------------------------------------------------------------
(* The strengthening of StreamIntact: a link on which nothing was sent     *)
(* early has delivered nothing before the host hears of it.                *)
Quiet == link = "up" /\ conn = "idle" /\ early = 0 => rx = <<>>

SInv == StreamIntact /\ Quiet

(* A send loop started with queue f on a live link leaves the stream, from *)
(* the peer to the end of the queue, what it was.                          *)
LEMMA StreamKept ==
    ASSUME IInv, link = "up", NEW f \in Seq(Fragment), NEW h \in Int,
           NEW c \in Int, c <= MaxPkt, BufferSend(f, h, c), rx' = rx
    PROVE  (rx' \o air') \o fifo' = (rx \o air) \o f
<1>1. rx \in Seq(Fragment) /\ air \in Seq(Fragment) /\ link \in {"down", "up"}
  BY DEF IInv, TypeOK
<1>2. /\ fifo' \in Seq(Fragment)
      /\ air' \in Seq(Fragment)
      /\ air' \o fifo' = air \o f
  BY <1>1, BufferSendEffect
<1>3. (rx \o air') \o fifo' = rx \o (air' \o fifo')
  BY <1>1, <1>2, Regroup
<1>4. (rx \o air) \o f = rx \o (air \o f)
  BY <1>1, Regroup
<1> QED
  BY <1>2, <1>3, <1>4

LEMMA SendSInv ==
    ASSUME IInv, SInv, NEW n \in PduLen, Send(n)
    PROVE  SInv'
<1> DEFINE fr == Fragments(pdus + 1, n)
<1>1. fr \in Seq(Fragment)
  BY FragmentsType DEF IInv, TypeOK
<1>2. /\ BufferSend(fifo \o fr, Int8(host_pkt_num + 1), ctrl_pkt_num)
      /\ sent' = sent \o fr
      /\ conn = "open"
      /\ UNCHANGED <<conn, done, link, evts, rx, conns, lost, early>>
  BY DEF Send, SendPdu
<1> HIDE DEF fr
<1>3. /\ fifo \o fr \in Seq(Fragment)
      /\ fifo \in Seq(Fragment) /\ air \in Seq(Fragment) /\ rx \in Seq(Fragment)
      /\ rx \o air \in Seq(Fragment)
  BY <1>1, ConcatProperties DEF IInv, TypeOK
<1>4. Int8(host_pkt_num + 1) \in Int
  <2>1. host_pkt_num + 1 \in Int
    BY DEF IInv, TypeOK
  <2> QED
    BY <2>1, Int8Range
<1>5. ctrl_pkt_num \in Int /\ ctrl_pkt_num <= MaxPkt
  BY DEF IInv, TypeOK
<1>6. ASSUME link = "up", lost + early = 0
      PROVE  (rx' \o air') \o fifo' = sent'
  <2>1. (rx \o air) \o fifo = sent
    BY <1>2, <1>6 DEF SInv, StreamIntact, Live
  <2>2. (rx' \o air') \o fifo' = (rx \o air) \o (fifo \o fr)
    BY <1>2, <1>3, <1>4, <1>5, <1>6, StreamKept
  <2>3. (rx \o air) \o (fifo \o fr) = ((rx \o air) \o fifo) \o fr
    <3> DEFINE a == rx \o air
    <3>1. a \in Seq(Fragment)
      BY <1>3
    <3> HIDE DEF a
    <3>2. a \o (fifo \o fr) = (a \o fifo) \o fr
      BY <1>1, <1>3, <3>1, Regroup
    <3> QED
      BY <3>2 DEF a
  <2> QED
    BY <1>2, <2>1, <2>2, <2>3
<1>7. StreamIntact'
  BY <1>2, <1>6 DEF StreamIntact, Live
<1>8. Quiet'
  BY <1>2 DEF Quiet
<1> QED
  BY <1>7, <1>8 DEF SInv

LEMMA SendEarlySInv ==
    ASSUME IInv, SInv, NEW n \in PduLen, SendEarly(n)
    PROVE  SInv'
<1>1. /\ conn = "idle" /\ link = "up"
      /\ early' = early + (Len(air') - Len(air))
      /\ UNCHANGED <<conn, link, rx>>
  BY DEF SendEarly, SendPdu
<1>2. TypeOK' /\ EarlyAccounted'
  BY SendPduIInv DEF SendEarly, IInv
<1>3. Len(air') >= Len(air) /\ Len(air) \in Nat /\ Len(air') \in Nat
  <2>1. fifo \o Fragments(pdus + 1, n) \in Seq(Fragment)
    <3>1. Fragments(pdus + 1, n) \in Seq(Fragment)
      BY FragmentsType DEF IInv, TypeOK
    <3> QED
      BY <3>1, ConcatProperties DEF IInv, TypeOK
  <2>2. Int8(host_pkt_num + 1) \in Int
    <3>1. host_pkt_num + 1 \in Int
      BY DEF IInv, TypeOK
    <3> QED
      BY <3>1, Int8Range
  <2>3. BufferSend(fifo \o Fragments(pdus + 1, n), Int8(host_pkt_num + 1),
                   ctrl_pkt_num)
    BY DEF SendEarly, SendPdu
  <2>4. /\ ctrl_pkt_num \in Int /\ ctrl_pkt_num <= MaxPkt
        /\ air \in Seq(Fragment) /\ link \in {"down", "up"}
    BY DEF IInv, TypeOK
  <2>5. link = "up" => Len(air') >= Len(air)
    BY <2>1, <2>2, <2>3, <2>4, BufferSendEffect
  <2>6. Len(air) \in Nat /\ Len(air') \in Nat
    BY <1>2, LenProperties DEF IInv, TypeOK
  <2> QED
    BY <1>1, <2>5, <2>6
<1>4. early' = 0 => early = 0
  BY <1>1, <1>3 DEF IInv, TypeOK
<1>5. Quiet'
  BY <1>1, <1>4 DEF SInv, Quiet
<1>6. StreamIntact'
  BY <1>1 DEF StreamIntact, Live
<1> QED
  BY <1>5, <1>6 DEF SInv

LEMMA PacketCompSInv ==
    ASSUME IInv, SInv, NEW num \in 1 .. done, PacketComp(num)
    PROVE  SInv'
<1>1. /\ BufferSend(fifo, host_pkt_num, ctrl_pkt_num - num)
      /\ conn = "open"
      /\ UNCHANGED <<conn, link, evts, rx, sent, pdus, conns, lost, early>>
  BY DEF PacketComp, histVars
<1>2. /\ fifo \in Seq(Fragment) /\ host_pkt_num \in Int
      /\ ctrl_pkt_num - num \in Int /\ ctrl_pkt_num - num <= MaxPkt
  BY DEF IInv, TypeOK
<1>3. ASSUME link = "up", lost + early = 0
      PROVE  (rx' \o air') \o fifo' = sent'
  <2>1. (rx \o air) \o fifo = sent
    BY <1>1, <1>3 DEF SInv, StreamIntact, Live
  <2>2. (rx' \o air') \o fifo' = (rx \o air) \o fifo
    BY <1>1, <1>2, <1>3, StreamKept
  <2> QED
    BY <1>1, <2>1, <2>2
<1> QED
  BY <1>1, <1>3 DEF SInv, StreamIntact, Quiet, Live

LEMMA ConnectionCompleteSInv ==
    ASSUME IInv, SInv, ConnectionComplete
    PROVE  SInv'
<1>1. /\ evts # <<>> /\ Head(evts) = "conn"
      /\ conn' = "open" /\ fifo' = <<>> /\ sent' = <<>>
      /\ UNCHANGED <<air, done, link, rx, pdus, conns, lost, early>>
  BY DEF ConnectionComplete, L2capInit
<1>2. conn = "idle"
  BY <1>1, LinkEvents DEF IInv, Views
<1>3. ASSUME link = "up", lost + early = 0
      PROVE  rx = <<>> /\ air = <<>>
  <2>1. early = 0 /\ lost = 0 /\ done \in Nat
    BY <1>3 DEF IInv, TypeOK
  <2>2. rx = <<>>
    BY <1>2, <1>3, <2>1 DEF SInv, Quiet
  <2>3. Len(air) + done + lost = early /\ Len(air) \in Nat
    BY <1>2, <1>3, LenProperties DEF IInv, TypeOK, EarlyAccounted
  <2>4. Len(air) = 0
    BY <2>1, <2>3
  <2>5. air = <<>>
    BY <2>4, EmptySeq DEF IInv, TypeOK
  <2> QED
    BY <2>2, <2>5
<1>4. (<<>> \o <<>>) \o <<>> = <<>>
  BY ConcatEmptySeq, EmptySeq
<1> QED
  BY <1>1, <1>3, <1>4 DEF SInv, StreamIntact, Quiet, Live

LEMMA TransmitSInv ==
    ASSUME IInv, SInv, Transmit
    PROVE  SInv'
<1>1. /\ air # <<>> /\ rx' = Append(rx, Head(air)) /\ air' = Tail(air)
      /\ UNCHANGED <<fifo, conn, link, sent, lost, early>>
  BY DEF Transmit, hostVars, histVars
<1>2. rx \in Seq(Fragment) /\ air \in Seq(Fragment)
  BY DEF IInv, TypeOK
<1>3. /\ Head(air) \in Fragment /\ Tail(air) \in Seq(Fragment)
      /\ <<Head(air)>> \in Seq(Fragment)
  BY <1>1, <1>2, HeadTailProperties
<1>4. <<Head(air)>> \o Tail(air) = air
  <2>1. Len(air) \in Nat /\ Len(air) # 0
    BY <1>1, <1>2, LenProperties, EmptySeq
  <2>2. SubSeq(air, 1, Len(air)) = <<air[1]>> \o SubSeq(air, 1 + 1, Len(air))
    BY <1>2, <2>1, SubSeqRecursiveFirst
  <2>3. SubSeq(air, 1, Len(air)) = air
    BY <1>2, SubSeqFull
  <2>4. Tail(air) = SubSeq(air, 2, Len(air)) /\ Head(air) = air[1]
    BY <1>1, <1>2, TailIsSubSeq
  <2> QED
    BY <2>2, <2>3, <2>4
<1>5. rx' \o air' = rx \o air
  <2>1. rx' = rx \o <<Head(air)>>
    BY <1>1, <1>2, <1>3, AppendIsConcat
  <2>2. (rx \o <<Head(air)>>) \o Tail(air) = rx \o (<<Head(air)>> \o Tail(air))
    BY <1>2, <1>3, Regroup
  <2> QED
    BY <1>1, <1>4, <2>1, <2>2
<1>6. StreamIntact'
  BY <1>1, <1>5 DEF SInv, StreamIntact, Live
<1>7. Quiet'
  <2>1. SUFFICES ASSUME link = "up", conn = "idle" PROVE early # 0
    BY <1>1 DEF Quiet
  <2>2. Len(air) + done + lost = early
    BY <2>1 DEF IInv, EarlyAccounted
  <2>3. Len(air) \in Nat \ {0}
    BY <1>1, <1>2, LenProperties, EmptySeq
  <2> QED
    BY <2>2, <2>3 DEF IInv, TypeOK
<1> QED
  BY <1>6, <1>7 DEF SInv

LEMMA StepSInv == IInv /\ SInv /\ [Next]_vars => SInv'
<1> SUFFICES ASSUME IInv, SInv, [Next]_vars PROVE SInv'
  OBVIOUS
<1>1. ASSUME NEW n \in PduLen, Send(n) PROVE SInv'
  BY <1>1, SendSInv
<1>2. ASSUME NEW n \in PduLen, SendEarly(n) PROVE SInv'
  BY <1>2, SendEarlySInv
<1>3. ASSUME NEW num \in 1 .. done, PacketComp(num) PROVE SInv'
  BY <1>3, PacketCompSInv
<1>4. CASE ConnectionComplete
  BY <1>4, ConnectionCompleteSInv
<1>5. CASE DisconnectionComplete
  BY <1>5 DEF DisconnectionComplete, SInv, StreamIntact, Live, Quiet, IInv,
     Views
<1>6. CASE LinkUp
  BY <1>6 DEF LinkUp, hostVars, SInv, StreamIntact, Live, Quiet
<1>7. CASE LinkLoss
  BY <1>7 DEF LinkLoss, hostVars, histVars, SInv, StreamIntact, Live, Quiet
<1>8. CASE Transmit
  BY <1>8, TransmitSInv
<1>9. CASE UsbLost
  <2>1. lost' + early' # 0
    BY <1>9 DEF UsbLost, IInv, TypeOK
  <2> QED
    BY <1>9, <2>1 DEF UsbLost, hostVars, SInv, StreamIntact, Live, Quiet
<1>10. CASE UNCHANGED vars
  BY <1>10 DEF vars, hostVars, ctrlVars, histVars, SInv, StreamIntact, Live,
     Quiet
<1> QED
  BY <1>1, <1>2, <1>3, <1>4, <1>5, <1>6, <1>7, <1>8, <1>9, <1>10
  DEF Next, Host, Controller

(* Nothing is lost, duplicated or reordered between eb_l2cap_send and the  *)
(* peer of a live link, for any lengths and any window                     *)
(* (eb_l2cap.c:57-82, 89-142).                                             *)
THEOREM StreamCorrect == Spec => []StreamIntact
<1>1. Init => SInv
  BY DEF Init, SInv, StreamIntact, Live, Quiet
<1>2. SInv => StreamIntact
  BY DEF SInv
<1> QED
  BY <1>1, <1>2, InvariantIInv, StepSInv, PTL DEF Spec

-----------------------------------------------------------------------------
(* The count of queued PDUs.  Conversion to int8_t forgets multiples of    *)
(* 2 * Half and nothing else, so that conversions on the way do not matter.*)
LEMMA QuotientUnique ==
    ASSUME NEW m \in Nat \ {0}, NEW q \in Int, NEW r \in 0 .. m - 1,
           NEW k \in Int, NEW s \in 0 .. m - 1, m * q + r = m * k + s
    PROVE  r = s
<1>1. m * (q - k) = s - r
  OBVIOUS
<1>2. CASE q - k >= 1
  <2>1. m * (q - k) >= m
    BY <1>2
  <2> QED
    BY <1>1, <2>1
<1>3. CASE q - k <= -1
  <2>1. m * (q - k) <= -m
    BY <1>3
  <2> QED
    BY <1>1, <2>1
<1>4. CASE q - k = 0
  <2>1. m * (q - k) = 0
    BY <1>4
  <2> QED
    BY <1>1, <2>1
<1> QED
  BY <1>2, <1>3, <1>4

LEMMA Int8Shift ==
    ASSUME NEW x \in Int, NEW d \in Int
    PROVE  Int8(Int8(x) + d) = Int8(x + d)
<1> DEFINE m == 2 * Half
           a == x + Half
           q == a \div m
           r == a % m
<1>1. m \in Nat \ {0} /\ a \in Int
  OBVIOUS
<1>2. \A c \in Int, b \in Nat \ {0} :
        /\ c \div b \in Int /\ c % b \in 0 .. b - 1
        /\ c = b * (c \div b) + (c % b)
  OBVIOUS
<1>3. Int8(x) = r - Half
  BY DEF Int8
<1>4. r \in Int /\ q \in Int /\ a = m * q + r
  <2> HIDE DEF m, a
  <2> QED
    BY <1>1, <1>2
<1> HIDE DEF m, a, q, r
<1> DEFINE c == r + d
           e == a + d
<1>5. c \in Int /\ e \in Int /\ e = m * q + c
  BY <1>1, <1>4
<1>6. /\ c \div m \in Int /\ c % m \in 0 .. m - 1 /\ c = m * (c \div m) + (c % m)
      /\ e \div m \in Int /\ e % m \in 0 .. m - 1 /\ e = m * (e \div m) + (e % m)
  BY <1>1, <1>2, <1>5
<1>7. c % m = e % m
  <2> DEFINE qc == c \div m
             rc == c % m
             qe == e \div m
             re == e % m
  <2>1. qc \in Int /\ rc \in 0 .. m - 1 /\ qe \in Int /\ re \in 0 .. m - 1
    BY <1>6
  <2>2. m * qe + re = m * q + (m * qc + rc)
    BY <1>5, <1>6
  <2> HIDE DEF qc, rc, qe, re
  <2>3. m * qe + re = m * (q + qc) + rc
    BY <1>1, <1>4, <2>1, <2>2
  <2>4. re = rc
    BY <1>1, <1>4, <2>1, <2>3, QuotientUnique
  <2> QED
    BY <2>4 DEF rc, re
<1>8. Int8(x) + d + Half = c /\ x + d + Half = e
  BY <1>3, <1>4 DEF a
<1> QED
  BY <1>7, <1>8 DEF Int8, m

LEMMA Int8Zero == Int8(0) = 0
<1>1. Half % (2 * Half) = Half
  <2>1. \A b \in Nat \ {0} : \A c \in 0 .. b - 1 : c % b = c
    OBVIOUS
  <2>2. 2 * Half \in Nat \ {0} /\ Half \in 0 .. 2 * Half - 1
    OBVIOUS
  <2> QED
    BY <2>1, <2>2
<1> QED
  BY <1>1 DEF Int8

(* The ends of two queues, one behind the other, are those of both.        *)
LEMMA EndsConcat ==
    ASSUME NEW s \in Seq(Fragment), NEW t \in Seq(Fragment)
    PROVE  Ends(s \o t) = Ends(s) + Ends(t)
<1> DEFINE m == Len(s)
           n == Len(t)
           A == {i \in 1 .. m : s[i].last}
           B == {i \in 1 .. n : t[i].last}
           C == {j \in m + 1 .. m + n : t[j - m].last}
           u == s \o t
<1>1. /\ m \in Nat /\ n \in Nat /\ DOMAIN s = 1 .. m /\ DOMAIN t = 1 .. n
      /\ u \in Seq(Fragment) /\ Len(u) = m + n /\ DOMAIN u = 1 .. m + n
      /\ \A i \in 1 .. m + n : u[i] = IF i <= m THEN s[i] ELSE t[i - m]
  <2>1. u \in Seq(Fragment) /\ Len(u) = m + n
    BY ConcatProperties
  <2>2. \A i \in 1 .. m + n : u[i] = IF i <= m THEN s[i] ELSE t[i - m]
    BY ConcatProperties
  <2> QED
    BY <2>1, <2>2, LenProperties
<1>2. {i \in DOMAIN u : u[i].last} = A \cup C
  <2> HIDE DEF u, m, n
  <2>1. ASSUME NEW i \in 1 .. m + n
        PROVE  u[i].last <=> i \in A \cup C
    <3>1. CASE i <= m
      BY <1>1, <2>1, <3>1
    <3>2. CASE i > m
      BY <1>1, <2>1, <3>2
    <3> QED
      BY <1>1, <3>1, <3>2
  <2>2. A \cup C \subseteq 1 .. m + n
    BY <1>1
  <2> QED
    BY <1>1, <2>1, <2>2
<1>3. IsFiniteSet(A) /\ IsFiniteSet(B) /\ IsFiniteSet(C)
  <2>1. 1 \in Int /\ m \in Int /\ n \in Int /\ m + 1 \in Int /\ m + n \in Int
    BY <1>1
  <2> HIDE DEF m, n
  <2>2. IsFiniteSet(1 .. m) /\ IsFiniteSet(1 .. n) /\ IsFiniteSet(m + 1 .. m + n)
    BY <2>1, FS_Interval
  <2> QED
    BY <2>2, FS_Subset DEF m, n
<1>4. Cardinality(C) = Cardinality(B)
  <2> DEFINE f == [i \in B |-> m + i]
  <2> HIDE DEF m, n
  <2>1. f \in [B -> C]
    BY <1>1
  <2>2. \A i, j \in B : f[i] = f[j] => i = j
    BY <1>1
  <2>3. \A j \in C : \E i \in B : f[i] = j
    <3> SUFFICES ASSUME NEW j \in C PROVE \E i \in B : f[i] = j
      OBVIOUS
    <3>1. j - m \in B /\ m + (j - m) = j
      BY <1>1
    <3> QED
      BY <3>1
  <2>4. f \in Bijection(B, C)
    BY <2>1, <2>2, <2>3 DEF Bijection, Injection, Surjection, IsInjective
  <2>5. ExistsBijection(B, C)
    BY <2>4 DEF ExistsBijection
  <2> QED
    BY <1>3, <2>5, FS_Bijection
<1>5. A \cap C = {}
  BY <1>1
<1>6. Cardinality(A \cup C) = Cardinality(A) + Cardinality(C)
  <2>1. Cardinality(A \cup C) = Cardinality(A) + Cardinality(C) - Cardinality(A \cap C)
    BY <1>3, FS_Union
  <2>2. Cardinality(A) \in Nat /\ Cardinality(C) \in Nat
    BY <1>3, FS_CardinalityType
  <2>3. Cardinality(A \cap C) = 0
    BY <1>5, FS_EmptySet
  <2> HIDE DEF A, C
  <2> QED
    BY <2>1, <2>2, <2>3
<1> QED
  BY <1>1, <1>2, <1>4, <1>6 DEF Ends

LEMMA EndsEmpty == Ends(<<>>) = 0
<1>1. {i \in DOMAIN <<>> : <<>>[i].last} = {}
  OBVIOUS
<1> QED
  BY <1>1, FS_EmptySet DEF Ends

(* A PDU ends once.                                                        *)
LEMMA EndsOfPdu ==
    ASSUME NEW p \in Nat, NEW n \in Nat
    PROVE  Ends(Fragments(p, n)) = 1
<1> DEFINE k == NumFrags(n)
           fr == Fragments(p, n)
<1>1. k \in Nat \ {0}
  <2>1. CASE n <= AclMax
    BY <2>1 DEF NumFrags
  <2>2. CASE n > AclMax
    <3>1. \A a \in Nat, b \in Nat \ {0} : a >= b => a \div b \in Nat \ {0}
      OBVIOUS
    <3>2. n + AclMax - 1 \in Nat /\ n + AclMax - 1 >= AclMax
      BY <2>2
    <3> QED
      BY <2>2, <3>1, <3>2 DEF NumFrags
  <2> QED
    BY <2>1, <2>2
<1>2. DOMAIN fr = 1 .. k /\ \A i \in 1 .. k : fr[i].last <=> i = k
  BY DEF Fragments, Frag
<1> HIDE DEF fr, k
<1>3. {i \in DOMAIN fr : fr[i].last} = {k}
  BY <1>1, <1>2
<1> QED
  BY <1>3, FS_Singleton DEF Ends, fr

(* The send loop, on a queue whose PDUs are counted.                       *)
LEMMA BufferSendCounts ==
    ASSUME NEW f \in Seq(Fragment), NEW c \in Int, c <= MaxPkt, NEW h \in Int,
           h = Int8(Ends(f)), BufferSend(f, h, c)
    PROVE  QueuedPdusCounted'
<1> DEFINE k == Room(f, c)
           moved == SubSeq(f, 1, k)
           rest == SubSeq(f, k + 1, Len(f))
<1>1. k \in 0 .. Len(f)
  BY RoomBounds
<1>2. moved \in Seq(Fragment) /\ rest \in Seq(Fragment) /\ moved \o rest = f
  BY <1>1, SplitQueue
<1>3. fifo' = rest /\ host_pkt_num' = Int8(h - Ends(moved))
  BY DEF BufferSend
<1> HIDE DEF moved, rest
<1>4. Ends(f) = Ends(moved) + Ends(rest)
  BY <1>2, EndsConcat
<1>5. Ends(moved) \in Nat /\ Ends(rest) \in Nat
  BY <1>2, EndsType
<1>6. Int8(Int8(Ends(f)) + (-Ends(moved))) = Int8(Ends(f) + (-Ends(moved)))
  <2>1. Ends(f) \in Int /\ -Ends(moved) \in Int
    BY <1>4, <1>5
  <2> QED
    BY <2>1, Int8Shift
<1>7. /\ h - Ends(moved) = Int8(Ends(f)) + (-Ends(moved))
      /\ Ends(f) + (-Ends(moved)) = Ends(rest)
  BY <1>4, <1>5
<1> QED
  BY <1>3, <1>6, <1>7 DEF QueuedPdusCounted, Ends

LEMMA SendPduCounts ==
    ASSUME IInv, QueuedPdusCounted, NEW n \in PduLen, SendPdu(n)
    PROVE  QueuedPdusCounted'
<1> DEFINE fr == Fragments(pdus + 1, n)
<1>1. fr \in Seq(Fragment) /\ Ends(fr) = 1
  <2>1. pdus + 1 \in Nat /\ n \in Nat
    BY DEF IInv, TypeOK
  <2> QED
    BY <2>1, FragmentsType, EndsOfPdu
<1>2. BufferSend(fifo \o fr, Int8(host_pkt_num + 1), ctrl_pkt_num)
  BY DEF SendPdu
<1> HIDE DEF fr
<1>3. fifo \in Seq(Fragment) /\ ctrl_pkt_num \in Int /\ ctrl_pkt_num <= MaxPkt
  BY DEF IInv, TypeOK
<1>4. fifo \o fr \in Seq(Fragment) /\ Ends(fifo \o fr) = Ends(fifo) + 1
  BY <1>1, <1>3, ConcatProperties, EndsConcat
<1>5. Ends(fifo) \in Nat
  BY <1>3, EndsType
<1>6. Int8(host_pkt_num + 1) = Int8(Ends(fifo \o fr))
  BY <1>4, <1>5, Int8Shift DEF QueuedPdusCounted
<1>7. Int8(host_pkt_num + 1) \in Int
  <2>1. Ends(fifo) + 1 \in Int
    BY <1>5
  <2> QED
    BY <1>4, <1>6, <2>1, Int8Range
<1> QED
  BY <1>2, <1>3, <1>4, <1>6, <1>7, BufferSendCounts

LEMMA StepCounts == IInv /\ QueuedPdusCounted /\ [Next]_vars => QueuedPdusCounted'
<1> SUFFICES ASSUME IInv, QueuedPdusCounted, [Next]_vars
             PROVE  QueuedPdusCounted'
  OBVIOUS
<1>1. CASE UNCHANGED <<fifo, host_pkt_num>>
  BY <1>1 DEF QueuedPdusCounted, Ends
<1>2. ASSUME NEW n \in PduLen, Send(n) \/ SendEarly(n) PROVE QueuedPdusCounted'
  BY <1>2, SendPduCounts DEF Send, SendEarly
<1>3. ASSUME NEW num \in 1 .. done, PacketComp(num) PROVE QueuedPdusCounted'
  <2>1. /\ fifo \in Seq(Fragment) /\ ctrl_pkt_num - num \in Int
        /\ ctrl_pkt_num - num <= MaxPkt /\ host_pkt_num \in Int
        /\ host_pkt_num = Int8(Ends(fifo))
    BY DEF IInv, TypeOK, QueuedPdusCounted
  <2> QED
    BY <1>3, <2>1, BufferSendCounts DEF PacketComp
<1>4. CASE ConnectionComplete
  <2>1. host_pkt_num' = 0 /\ fifo' = <<>>
    BY <1>4 DEF ConnectionComplete, L2capInit
  <2> QED
    BY <2>1, EndsEmpty, Int8Zero DEF QueuedPdusCounted, Ends
<1>5. CASE DisconnectionComplete \/ LinkUp \/ LinkLoss \/ Transmit \/ UsbLost
  BY <1>1, <1>5 DEF DisconnectionComplete, LinkUp, LinkLoss, Transmit, UsbLost, hostVars
<1>6. CASE UNCHANGED vars
  BY <1>1, <1>6 DEF vars, hostVars
<1> QED
  BY <1>2, <1>3, <1>4, <1>5, <1>6 DEF Next, Host, Controller

(* The number of queued PDUs that the applications pace themselves by is   *)
(* right up to the width of int8_t, for every width: neither a wrap of the *)
(* count nor a connection event that empties the queue makes it drift      *)
(* (eb_l2cap.c:38-49, 94-96, 140).                                         *)
THEOREM QueueCounted == Spec => []QueuedPdusCounted
<1>1. Init => QueuedPdusCounted
  <2>1. Init => host_pkt_num = 0 /\ fifo = <<>>
    BY DEF Init
  <2> QED
    BY <2>1, EndsEmpty, Int8Zero DEF QueuedPdusCounted
<1> QED
  BY <1>1, InvariantIInv, StepCounts, PTL DEF Spec

-----------------------------------------------------------------------------
(* The receiver.  A fragment of a PDU, and the one that comes after it.    *)
IsFrag(f) == \E i \in 1 .. NumFrags(f.total) : f = Frag(f.pdu, f.total, i)

Follows(f, g) ==
    \E i \in 1 .. NumFrags(f.total) - 1 :
        f = Frag(f.pdu, f.total, i) /\ g = Frag(f.pdu, f.total, i + 1)

(* One fragment is missing between the two, and the second does not say so *)
(* by beginning a PDU.                                                     *)
Skips(f, g) ==
    \/ f.last /\ g.pb = "cont"
    \/ \E i \in 1 .. NumFrags(f.total) - 2 :
          f = Frag(f.pdu, f.total, i) /\ g = Frag(f.pdu, f.total, i + 2)

(* The receiver's buffer is right for the fragment f that comes next.      *)
Synced(f) ==
    f.pb = "cont" =>
        \E i \in 2 .. NumFrags(f.total) :
            /\ f = Frag(f.pdu, f.total, i)
            /\ buffer = [j \in 1 .. i - 1 |-> Frag(f.pdu, f.total, j)]
            /\ data_remain = f.total - (i - 1) * AclMax

(* It is wrong, but no fragment of the PDU of f can complete it.           *)
Skewed(f) ==
    f.pb = "cont" => data_remain = 0 \/ data_remain > f.total - f.off

(* Of the fragments w each continues the one before it or begins a PDU,    *)
(* but maybe behind k.                                                     *)
ChainedBut(w, k) ==
    /\ \A i \in 1 .. Len(w) : IsFrag(w[i])
    /\ \A i \in 1 .. Len(w) - 1 :
          i # k /\ w[i + 1].pb = "cont" => Follows(w[i], w[i + 1])

Reads(w) == ChainedBut(w, 0) /\ (Len(w) > 0 => Synced(w[1]))

(* A fragment is missing at the receiver, or in w.                         *)
Missed(w) == ChainedBut(w, 0) /\ (Len(w) > 0 => Skewed(w[1]))

WillMiss(w) ==
    /\ Len(w) > 0 => Synced(w[1])
    /\ \E k \in 1 .. Len(w) - 1 : Skips(w[k], w[k + 1]) /\ ChainedBut(w, k)

(* Nothing ever went wrong: PDUs follow each other whole.                  *)
Tight(w) ==
    /\ \A i \in 1 .. Len(w) - 1 : w[i + 1].pb = "start" => w[i].last
    /\ Len(w) > 0 => w[Len(w)].last /\ (w[1].pb = "start" => data_remain = 0)
    /\ Len(w) = 0 => data_remain = 0

Stream == air \o fifo

OneFault ==
    lost + (IF early > 0 THEN 1 ELSE 0) + (IF conns > 1 THEN 1 ELSE 0) <= 1

PeerType ==
    /\ data_remain \in Int
    /\ buffer \in Seq(Fragment)
    /\ got \in Seq(Seq(Fragment))

ReceiverInv ==
    /\ conns = 0 => /\ link = "down" /\ conn = "idle" /\ evts = <<>>
                    /\ fifo = <<>> /\ data_remain = 0
    /\ link = "up" /\ conn = "idle" /\ conns <= 1 /\ early = 0 => data_remain = 0
    /\ link = "up" /\ OneFault /\ (conns <= 1 \/ conn = "open") =>
          /\ Reads(Stream) \/ (lost = 1 /\ (Missed(Stream) \/ WillMiss(Stream)))
          /\ lost + early = 0 /\ conns <= 1 /\ conn = "open" => Tight(Stream)

(* The fragments of a PDU of n bytes fill it: each but the last is full    *)
(* and leaves something, and the last leaves nothing.                      *)
LEMMA NumFragsBounds ==
    ASSUME NEW n \in Nat
    PROVE  /\ NumFrags(n) \in Nat \ {0}
           /\ NumFrags(n) > 1 => (NumFrags(n) - 1) * AclMax < n
           /\ n <= NumFrags(n) * AclMax
<1>1. CASE n <= AclMax
  BY <1>1 DEF NumFrags
<1>2. CASE n > AclMax
  <2> DEFINE a == n + AclMax - 1
             q == a \div AclMax
             r == a % AclMax
  <2>1. \A c \in Nat, b \in Nat \ {0} :
          c \div b \in Nat /\ c % b \in 0 .. b - 1 /\ c = b * (c \div b) + (c % b)
    OBVIOUS
  <2>2. a \in Nat /\ NumFrags(n) = q
    BY <1>2 DEF NumFrags
  <2>3. q \in Nat /\ r \in 0 .. AclMax - 1 /\ a = AclMax * q + r
    <3> HIDE DEF a
    <3> QED
      BY <2>1, <2>2
  <2> HIDE DEF q, r
  <2>4. AclMax * q <= n + AclMax - 1 /\ AclMax * q >= n
    BY <2>3
  <2>5. q * AclMax = AclMax * q /\ (q - 1) * AclMax = AclMax * q - AclMax
    BY <2>3
  <2>6. q # 0
    BY <1>2, <2>4
  <2> QED
    BY <1>2, <2>2, <2>3, <2>4, <2>5, <2>6
<1> QED
  BY <1>1, <1>2

LEMMA FragBounds ==
    ASSUME NEW p \in Nat, NEW n \in Nat, NEW i \in 1 .. NumFrags(n)
    PROVE  LET f == Frag(p, n, i)
           IN  /\ f.pdu = p /\ f.total = n /\ f.off = (i - 1) * AclMax
               /\ f.off \in Nat /\ f.len \in Nat /\ f.len <= n - f.off
               /\ f.last <=> i = NumFrags(n)
               /\ f.pb = "start" <=> i = 1
               /\ f.pb = "cont" <=> i # 1
               /\ i > 1 => f.len > 0
               /\ i < NumFrags(n) => f.len = AclMax /\ f.len < n - f.off
               /\ i = NumFrags(n) => f.len = n - f.off
               /\ i * AclMax = f.off + AclMax
<1> DEFINE k == NumFrags(n)
<1>1. k \in Nat \ {0} /\ (k > 1 => (k - 1) * AclMax < n) /\ n <= k * AclMax
  BY NumFragsBounds
<1>2. i - 1 \in Nat /\ (i - 1) * AclMax \in Nat /\ i * AclMax = (i - 1) * AclMax + AclMax
  <2>1. i \in Nat /\ i - 1 \in Nat
    BY <1>1
  <2>2. \A a, b \in Nat : a * b \in Nat
    OBVIOUS
  <2>3. (i - 1) * AclMax \in Nat
    BY <2>1, <2>2
  <2>4. \A a, b \in Nat : a * b = (a - 1) * b + b
    OBVIOUS
  <2> QED
    BY <2>1, <2>3, <2>4
<1>3. i < k => i * AclMax < n
  <2> SUFFICES ASSUME i < k PROVE i * AclMax < n
    OBVIOUS
  <2>1. \A a, b, c \in Nat : a <= b => a * c <= b * c
    OBVIOUS
  <2>2. i \in Nat /\ k - 1 \in Nat /\ i <= k - 1 /\ AclMax \in Nat
    BY <1>1
  <2>3. i * AclMax <= (k - 1) * AclMax
    BY <2>1, <2>2
  <2>4. i * AclMax \in Nat /\ (k - 1) * AclMax \in Int
    BY <1>2, <2>2
  <2> QED
    BY <1>1, <2>2, <2>3, <2>4
<1>4. i = k => (i > 1 => (i - 1) * AclMax < n) /\ (i = 1 => (i - 1) * AclMax = 0)
  BY <1>1
<1> HIDE DEF k
<1> DEFINE o == (i - 1) * AclMax
<1>5. o \in Nat /\ i * AclMax = o + AclMax /\ (i < k => o + AclMax < n)
      /\ (i = k => (i > 1 => o < n) /\ (i = 1 => o = 0))
  BY <1>2, <1>3, <1>4
<1>6. /\ Frag(p, n, i).pdu = p /\ Frag(p, n, i).total = n /\ Frag(p, n, i).off = o
      /\ Frag(p, n, i).len = IF i = k THEN n - o ELSE AclMax
      /\ Frag(p, n, i).pb = IF i = 1 THEN "start" ELSE "cont"
      /\ Frag(p, n, i).last <=> i = k
  BY DEF Frag, k
<1> HIDE DEF o
<1>7. i \in 1 .. k /\ k \in Nat \ {0}
  BY <1>1 DEF k
<1>8. Frag(p, n, i).len \in Nat
  BY <1>5, <1>6, <1>7
<1>9. /\ Frag(p, n, i).len <= n - o
      /\ i > 1 => Frag(p, n, i).len > 0
      /\ i < k => Frag(p, n, i).len = AclMax /\ Frag(p, n, i).len < n - o
      /\ i = k => Frag(p, n, i).len = n - o
  BY <1>5, <1>6, <1>7
<1> QED
  BY <1>5, <1>6, <1>8, <1>9 DEF k, o

LEMMA FragmentKinds ==
    ASSUME NEW f \in Fragment
    PROVE  /\ f.pdu \in Nat /\ f.total \in Nat /\ f.len \in Int /\ f.off \in Nat
           /\ f.pb = "start" \/ f.pb = "cont"
           /\ f.last \in BOOLEAN
BY DEF Fragment

LEMMA OffsetsDiffer ==
    \A i, k \in Int : (i - 1) * AclMax = (k - 1) * AclMax => i = k
<1> SUFFICES ASSUME NEW i \in Int, NEW k \in Int,
                    (i - 1) * AclMax = (k - 1) * AclMax
             PROVE  i = k
  OBVIOUS
<1>1. (i - k) * AclMax = 0
  OBVIOUS
<1>2. i - k >= 1 => (i - k) * AclMax >= AclMax
  OBVIOUS
<1>3. i - k <= -1 => (i - k) * AclMax <= -AclMax
  OBVIOUS
<1> QED
  BY <1>1, <1>2, <1>3

(* A fragment that is right for the receiver completes a PDU or leaves it  *)
(* right for the next one; it is not completed when the next is missing.   *)
LEMMA ReceivedSynced ==
    ASSUME PeerType, NEW f \in Fragment, IsFrag(f), Synced(f), Receive(f)
    PROVE  /\ PeerType'
           /\ \A i \in DOMAIN got' : i \notin DOMAIN got => Whole(got'[i])
           /\ \A i \in DOMAIN got : i \in DOMAIN got' /\ got'[i] = got[i]
           /\ f.last => data_remain' = 0
           /\ \A g \in Fragment : Follows(f, g) => Synced(g)'
           /\ \A g \in Fragment : Skips(f, g) => Skewed(g)'
<1> DEFINE p == f.pdu
           n == f.total
           N == NumFrags(n)
<1>1. p \in Nat /\ n \in Nat /\ N \in Nat \ {0}
  BY FragmentKinds, NumFragsBounds
<1>2. PICK i \in 1 .. N : f = Frag(p, n, i)
  BY DEF IsFrag
<1> HIDE DEF p, n, N
<1>3. /\ f.pdu = p /\ f.total = n /\ f.off = (i - 1) * AclMax
      /\ f.off \in Nat /\ f.len \in Nat /\ f.len <= n - f.off
      /\ f.last <=> i = N
      /\ f.pb = "start" <=> i = 1
      /\ f.pb = "cont" <=> i # 1
      /\ i < N => f.len = AclMax /\ f.len < n - f.off
      /\ i = N => f.len = n - f.off
      /\ i * AclMax = f.off + AclMax
  <2>1. i \in 1 .. NumFrags(n)
    BY DEF N
  <2>2. LET e == Frag(p, n, i)
        IN  /\ e.pdu = p /\ e.total = n /\ e.off = (i - 1) * AclMax
            /\ e.off \in Nat /\ e.len \in Nat /\ e.len <= n - e.off
            /\ e.last <=> i = NumFrags(n)
            /\ e.pb = "start" <=> i = 1
            /\ e.pb = "cont" <=> i # 1
            /\ i < NumFrags(n) => e.len = AclMax /\ e.len < n - e.off
            /\ i = NumFrags(n) => e.len = n - e.off
            /\ i * AclMax = e.off + AclMax
    BY <1>1, <2>1, FragBounds
  <2> QED
    BY <1>2, <2>2 DEF N
<1> DEFINE B(k) == [j \in 1 .. k |-> Frag(p, n, j)]
<1>4. f.pb = "cont" => buffer = B(i - 1) /\ data_remain = n - f.off
  <2> SUFFICES ASSUME f.pb = "cont" PROVE buffer = B(i - 1) /\ data_remain = n - f.off
    OBVIOUS
  <2>1. PICK k \in 2 .. N : /\ f = Frag(p, n, k) /\ buffer = B(k - 1)
                            /\ data_remain = n - (k - 1) * AclMax
    BY DEF Synced, p, n, N
  <2>2. f.off = (k - 1) * AclMax
    BY <2>1 DEF Frag
  <2>3. k = i
    BY <1>1, <1>3, <2>1, <2>2, OffsetsDiffer
  <2> QED
    BY <1>3, <2>1, <2>3
<1>5. /\ Fits(f) /\ data_remain' = n - f.off - f.len
      /\ buffer' = Stored(f)
      /\ got' = IF data_remain' = 0 THEN Append(got, buffer') ELSE got
  <2>1. f.pb = "cont" => f.len <= data_remain
    BY <1>3, <1>4
  <2>2. (IF f.pb = "start" THEN f.total ELSE data_remain) = n - f.off
    <3>1. CASE i = 1
      <4>1. f.off = 0 /\ f.pb = "start" /\ f.total = n
        BY <1>3, <3>1
      <4> QED
        BY <1>1, <4>1
    <3>2. CASE i # 1
      <4>1. f.pb = "cont"
        BY <1>3, <3>2
      <4>2. data_remain = n - f.off
        BY <1>4, <4>1
      <4> QED
        BY <4>1, <4>2
    <3> QED
      BY <3>1, <3>2
  <2> QED
    BY <2>1, <2>2 DEF Receive, Fits
<1>6. \A k \in 1 .. N : B(k) \in Seq(Fragment) /\ Len(B(k)) = k
  <2> SUFFICES ASSUME NEW k \in 1 .. N PROVE B(k) \in Seq(Fragment) /\ Len(B(k)) = k
    OBVIOUS
  <2>1. Fragments(p, n) \in Seq(Fragment) /\ Fragments(p, n) = B(N)
    BY <1>1, FragmentsType DEF Fragments, N
  <2>2. \A j \in 1 .. N : Frag(p, n, j) \in Fragment
    <3>1. Len(B(N)) = N
      BY <1>1, <2>1, LenProperties
    <3> QED
      BY <2>1, <3>1, ElementOfSeq
  <2> QED
    BY <1>1, <2>2, IsASeq, LenProperties
<1>7. buffer' = B(i)
  <2>1. CASE i = 1
    <3>1. buffer' = <<f>>
      BY <1>3, <1>5, <2>1 DEF Stored
    <3>2. <<f>> = B(1)
      BY <1>2, <2>1
    <3> QED
      BY <2>1, <3>1, <3>2
  <2>2. CASE i # 1
    <3>1. buffer' = Append(B(i - 1), f) /\ i - 1 \in 1 .. N
      BY <1>1, <1>3, <1>4, <1>5, <2>2 DEF Stored
    <3>2. B(i - 1) \in Seq(Fragment) /\ Len(B(i - 1)) = i - 1
      BY <1>6, <3>1
    <3>3. B(i) \in Seq(Fragment) /\ Len(B(i)) = i
      BY <1>6
    <3>4. /\ \A j \in 1 .. i - 1 : B(i - 1)[j] = B(i)[j]
          /\ B(i)[i] = f
      BY <1>1, <1>2
    <3> HIDE DEF B
    <3>5. /\ Append(B(i - 1), f) \in Seq(Fragment) /\ Len(Append(B(i - 1), f)) = i
          /\ \A j \in 1 .. i : Append(B(i - 1), f)[j] = B(i)[j]
      <4>1. /\ Append(B(i - 1), f) \in Seq(Fragment)
            /\ Len(Append(B(i - 1), f)) = (i - 1) + 1
            /\ \A j \in 1 .. i - 1 : Append(B(i - 1), f)[j] = B(i - 1)[j]
            /\ Append(B(i - 1), f)[(i - 1) + 1] = f
        BY <3>2, AppendProperties
      <4> QED
        BY <1>1, <3>4, <4>1
    <3> QED
      BY <3>1, <3>3, <3>5, SeqEqual
  <2> QED
    BY <2>1, <2>2
<1>8. buffer' \in Seq(Fragment) /\ data_remain' \in Int
  BY <1>1, <1>3, <1>5, <1>6, <1>7
<1>9. data_remain' = 0 <=> i = N
  <2>1. i < N \/ i = N
    BY <1>1
  <2> QED
    BY <1>1, <1>3, <1>5, <2>1
<1>10. data_remain' = 0 => Whole(buffer')
  <2> SUFFICES ASSUME i = N PROVE Whole(B(N))
    BY <1>7, <1>9
  <2>1. B(N)[1].pdu = p /\ B(N)[1].total = n
    BY <1>1 DEF Frag
  <2>2. B(N) = Fragments(p, n)
    BY DEF Fragments, N
  <2> QED
    BY <2>1, <2>2 DEF Whole
<1>11. /\ got' \in Seq(Seq(Fragment))
       /\ \A c \in DOMAIN got' : c \notin DOMAIN got => Whole(got'[c])
       /\ \A c \in DOMAIN got : c \in DOMAIN got' /\ got'[c] = got[c]
  <2>1. CASE got' = got
    BY <2>1 DEF PeerType
  <2>2. CASE data_remain' = 0 /\ got' = Append(got, buffer')
    <3> DEFINE b == buffer'
    <3>1. got \in Seq(Seq(Fragment)) /\ b \in Seq(Fragment) /\ Whole(b)
      BY <1>8, <1>10, <2>2 DEF PeerType
    <3> HIDE DEF b
    <3>2. LET r == Append(got, b)
          IN  /\ r \in Seq(Seq(Fragment)) /\ Len(r) = Len(got) + 1
              /\ \A c \in 1 .. Len(got) : r[c] = got[c]
              /\ r[Len(got) + 1] = b
      BY <3>1, AppendProperties
    <3>3. got' = Append(got, b)
      BY <2>2 DEF b
    <3>4. /\ got' \in Seq(Seq(Fragment)) /\ Len(got') = Len(got) + 1
          /\ \A c \in 1 .. Len(got) : got'[c] = got[c]
          /\ got'[Len(got) + 1] = b
      BY ONLY <3>2, <3>3
    <3>5. Len(got) \in Nat /\ DOMAIN got = 1 .. Len(got) /\ DOMAIN got' = 1 .. Len(got')
      BY <3>1, <3>4, LenProperties
    <3> QED
      BY <3>1, <3>4, <3>5
  <2> QED
    BY <1>5, <2>1, <2>2
<1>12. ASSUME NEW g \in Fragment, Follows(f, g) PROVE Synced(g)'
  <2>1. PICK k \in 1 .. N - 1 : f = Frag(p, n, k) /\ g = Frag(p, n, k + 1)
    BY <1>12 DEF Follows, p, n, N
  <2>2. k = i
    BY <1>1, <1>2, <1>3, <2>1, OffsetsDiffer DEF Frag
  <2>3. g = Frag(p, n, i + 1) /\ i + 1 \in 2 .. N
    BY <1>1, <2>1, <2>2
  <2>4. g.pdu = p /\ g.total = n
    BY <2>3 DEF Frag
  <2>5. data_remain' = n - ((i + 1) - 1) * AclMax
    <3>1. i < N /\ (i + 1) - 1 = i
      BY <1>1, <2>3
    <3> QED
      BY <1>1, <1>3, <1>5, <3>1
  <2>6. buffer' = B((i + 1) - 1)
    BY <1>1, <1>7
  <2> QED
    BY <2>3, <2>4, <2>5, <2>6 DEF Synced, N
<1>13. ASSUME NEW g \in Fragment, Skips(f, g) PROVE Skewed(g)'
  <2>1. CASE f.last
    BY <1>3, <1>9, <2>1 DEF Skewed
  <2>2. CASE \E k \in 1 .. N - 2 : f = Frag(p, n, k) /\ g = Frag(p, n, k + 2)
    <3>1. PICK k \in 1 .. N - 2 : f = Frag(p, n, k) /\ g = Frag(p, n, k + 2)
      BY <2>2
    <3>2. k = i
      BY <1>1, <1>2, <1>3, <3>1, OffsetsDiffer DEF Frag
    <3>3. g.total = n /\ g.off = ((i + 2) - 1) * AclMax /\ i < N
      BY <1>1, <3>1, <3>2 DEF Frag
    <3>4. ((i + 2) - 1) * AclMax = i * AclMax + AclMax
      <4>1. \A a \in Nat, b \in Nat : ((a + 2) - 1) * b = a * b + b
        OBVIOUS
      <4> QED
        BY <1>1, <4>1
    <3>5. data_remain' = n - i * AclMax /\ n - i * AclMax > n - g.off
      <4>1. i * AclMax \in Int /\ g.off = i * AclMax + AclMax
        BY <1>3, <3>3, <3>4
      <4> QED
        BY <1>1, <1>3, <1>5, <3>3, <4>1
    <3> QED
      BY <3>3, <3>5 DEF Skewed
  <2> QED
    BY <1>13, <2>1, <2>2 DEF Skips, p, n, N
<1> QED
  BY <1>3, <1>8, <1>9, <1>11, <1>12, <1>13 DEF PeerType

(* A continuation behind a missing fragment completes no PDU, and neither  *)
(* does the one that follows it.                                           *)
LEMMA ReceivedSkewed ==
    ASSUME PeerType, NEW f \in Fragment, IsFrag(f), f.pb = "cont", Skewed(f),
           Receive(f)
    PROVE  /\ PeerType'
           /\ got' = got
           /\ \A g \in Fragment : Follows(f, g) => Skewed(g)'
<1> DEFINE p == f.pdu
           n == f.total
           N == NumFrags(n)
<1>1. p \in Nat /\ n \in Nat /\ N \in Nat \ {0}
  BY FragmentKinds, NumFragsBounds
<1>2. PICK i \in 1 .. N : f = Frag(p, n, i)
  BY DEF IsFrag
<1> HIDE DEF p, n, N
<1>3. /\ f.off = (i - 1) * AclMax
      /\ f.off \in Nat /\ f.len \in Nat /\ f.len <= n - f.off
      /\ i # 1 /\ f.len > 0
      /\ i < N => f.len = AclMax
      /\ i * AclMax = f.off + AclMax
  <2>1. i \in 1 .. NumFrags(n)
    BY DEF N
  <2>2. LET e == Frag(p, n, i)
        IN  /\ e.off = (i - 1) * AclMax
            /\ e.off \in Nat /\ e.len \in Nat /\ e.len <= n - e.off
            /\ e.pb = "cont" <=> i # 1
            /\ i > 1 => e.len > 0
            /\ i < NumFrags(n) => e.len = AclMax /\ e.len < n - e.off
            /\ i * AclMax = e.off + AclMax
    BY <1>1, <2>1, FragBounds
  <2> QED
    BY <1>1, <1>2, <2>2 DEF N
<1>4. data_remain = 0 \/ data_remain > n - f.off
  BY DEF Skewed, n
<1>5. data_remain \in Int /\ buffer \in Seq(Fragment)
  BY DEF PeerType
<1>6. CASE ~Fits(f)
  <2>1. data_remain' = 0 /\ buffer' = buffer /\ got' = got
    BY <1>6 DEF Receive
  <2> QED
    BY <2>1 DEF PeerType, Skewed
<1>7. CASE Fits(f)
  <2>1. f.len <= data_remain
    BY <1>7 DEF Fits
  <2>2. data_remain > n - f.off
    BY <1>3, <1>4, <1>5, <2>1
  <2>3. data_remain' = data_remain - f.len /\ buffer' = Append(buffer, f)
        /\ got' = IF data_remain' = 0 THEN Append(got, buffer') ELSE got
    BY <1>7 DEF Receive, Stored
  <2>4. data_remain' \in Int /\ data_remain' > n - f.off - f.len
        /\ data_remain' # 0
    BY <1>1, <1>3, <1>5, <2>2, <2>3
  <2>5. buffer' \in Seq(Fragment)
    BY <1>5, <2>3, AppendProperties
  <2>6. ASSUME NEW g \in Fragment, Follows(f, g) PROVE Skewed(g)'
    <3>1. PICK k \in 1 .. N - 1 : f = Frag(p, n, k) /\ g = Frag(p, n, k + 1)
      BY <2>6 DEF Follows, p, n, N
    <3>2. k = i
      BY <1>1, <1>2, <1>3, <3>1, OffsetsDiffer DEF Frag
    <3>3. g.total = n /\ g.off = ((i + 1) - 1) * AclMax /\ i < N /\ (i + 1) - 1 = i
      BY <1>1, <3>1, <3>2 DEF Frag
    <3>4. g.off = f.off + AclMax /\ f.len = AclMax
      BY <1>3, <3>3
    <3>5. data_remain' > g.total - g.off
      BY <1>1, <1>3, <2>4, <3>3, <3>4
    <3> QED
      BY <3>5 DEF Skewed
  <2> QED
    BY <2>3, <2>4, <2>5, <2>6 DEF PeerType
<1> QED
  BY <1>6, <1>7

-----------------------------------------------------------------------------
(* What is left of a chain of fragments without its first one.             *)
LEMMA ChainTail ==
    ASSUME NEW w \in Seq(Fragment), NEW v \in Seq(Fragment), NEW k \in Nat,
           Len(w) > 0, Len(v) = Len(w) - 1,
           \A i \in 1 .. Len(v) : v[i] = w[i + 1],
           ChainedBut(w, k)
    PROVE  /\ k = 0 => ChainedBut(v, 0)
           /\ k > 0 => ChainedBut(v, k - 1)
<1>1. Len(w) \in Nat /\ Len(v) \in Nat
  BY LenProperties
<1>2. \A i \in 1 .. Len(v) : i + 1 \in 1 .. Len(w) /\ IsFrag(v[i])
  BY <1>1 DEF ChainedBut
<1>3. ASSUME NEW i \in 1 .. Len(v) - 1, i + 1 # k, v[i + 1].pb = "cont"
      PROVE  Follows(v[i], v[i + 1])
  <2>1. i + 1 \in 1 .. Len(w) - 1 /\ v[i] = w[i + 1] /\ v[i + 1] = w[(i + 1) + 1]
    BY <1>1
  <2> QED
    BY <1>3, <2>1 DEF ChainedBut
<1>4. \A i \in 1 .. Len(v) - 1 : (k = 0 => i + 1 # k) /\ (i # k - 1 => i + 1 # k)
  BY <1>1
<1> QED
  BY <1>2, <1>3, <1>4 DEF ChainedBut

(* A part of a chain from its start on is one.                             *)
LEMMA ChainPrefix ==
    ASSUME NEW w \in Seq(Fragment), NEW v \in Seq(Fragment), NEW k \in Nat,
           Len(v) <= Len(w),
           \A i \in 1 .. Len(v) : v[i] = w[i],
           ChainedBut(w, k)
    PROVE  ChainedBut(v, k)
<1>1. Len(w) \in Nat /\ Len(v) \in Nat
  BY LenProperties
<1>2. \A i \in 1 .. Len(v) : i \in 1 .. Len(w) /\ IsFrag(v[i])
  BY <1>1 DEF ChainedBut
<1>3. \A i \in 1 .. Len(v) - 1 : i \in 1 .. Len(w) - 1 /\ v[i] = w[i]
                                 /\ v[i + 1] = w[i + 1]
  BY <1>1
<1> QED
  BY <1>2, <1>3 DEF ChainedBut

(* The fragments of a PDU continue each other from first to last.          *)
LEMMA PduChain ==
    ASSUME NEW p \in Nat, NEW n \in Nat
    PROVE  LET fr == Fragments(p, n)
           IN  /\ fr \in Seq(Fragment) /\ Len(fr) \in Nat \ {0}
               /\ fr[1].pb = "start"
               /\ fr[Len(fr)].last
               /\ \A i \in 1 .. Len(fr) : IsFrag(fr[i])
               /\ \A i \in 1 .. Len(fr) - 1 :
                     fr[i + 1].pb = "cont" /\ Follows(fr[i], fr[i + 1])
<1> DEFINE fr == Fragments(p, n)
           N == NumFrags(n)
<1>1. N \in Nat \ {0}
  BY NumFragsBounds
<1>2. fr \in Seq(Fragment) /\ Len(fr) = N
  BY <1>1, FragmentsType, LenProperties DEF Fragments
<1>3. \A i \in 1 .. N : fr[i] = Frag(p, n, i)
  BY DEF Fragments
<1>4. \A i \in 1 .. N : /\ fr[i].pdu = p /\ fr[i].total = n
                        /\ fr[i].pb = IF i = 1 THEN "start" ELSE "cont"
                        /\ i = N => fr[i].last
  <2>1. \A i \in 1 .. N : /\ Frag(p, n, i).pdu = p /\ Frag(p, n, i).total = n
                          /\ Frag(p, n, i).pb = IF i = 1 THEN "start" ELSE "cont"
                          /\ i = N => Frag(p, n, i).last
    BY DEF Frag
  <2> HIDE DEF fr, N
  <2> QED
    BY <1>3, <2>1
<1> HIDE DEF fr
<1>5. ASSUME NEW i \in 1 .. N PROVE IsFrag(fr[i])
  BY <1>3, <1>4 DEF IsFrag
<1>6. ASSUME NEW i \in 1 .. N - 1
      PROVE  fr[i + 1].pb = "cont" /\ Follows(fr[i], fr[i + 1])
  <2>1. i \in 1 .. N /\ i + 1 \in 1 .. N /\ i + 1 # 1
    BY <1>1
  <2>2. fr[i] = Frag(p, n, i) /\ fr[i + 1] = Frag(p, n, i + 1)
        /\ fr[i].pdu = p /\ fr[i].total = n
    BY <1>3, <1>4, <2>1
  <2> QED
    BY <1>4, <2>1, <2>2 DEF Follows
<1>7. /\ fr \in Seq(Fragment) /\ Len(fr) \in Nat \ {0}
      /\ fr[1].pb = "start"
      /\ fr[Len(fr)].last
  <2>1. 1 \in 1 .. N /\ N \in 1 .. N
    BY <1>1
  <2> QED
    BY <1>1, <1>2, <1>4, <2>1
<1>8. /\ \A i \in 1 .. Len(fr) : IsFrag(fr[i])
      /\ \A i \in 1 .. Len(fr) - 1 :
            fr[i + 1].pb = "cont" /\ Follows(fr[i], fr[i + 1])
  BY <1>2, <1>5, <1>6
<1> QED
  BY <1>7, <1>8 DEF fr

(* Another PDU may be queued whatever state the stream is in.              *)
LEMMA StreamLonger ==
    ASSUME NEW w \in Seq(Fragment), NEW p \in Nat, NEW n \in Nat
    PROVE  LET v == w \o Fragments(p, n)
           IN  /\ Reads(w) => Reads(v)
               /\ Missed(w) => Missed(v)
               /\ WillMiss(w) => WillMiss(v)
               /\ Tight(w) => Tight(v)
<1> DEFINE fr == Fragments(p, n)
           v == w \o fr
<1>1. /\ fr \in Seq(Fragment) /\ Len(fr) \in Nat \ {0}
      /\ fr[1].pb = "start" /\ fr[Len(fr)].last
      /\ \A i \in 1 .. Len(fr) : IsFrag(fr[i])
      /\ \A i \in 1 .. Len(fr) - 1 :
            fr[i + 1].pb = "cont" /\ Follows(fr[i], fr[i + 1])
  BY PduChain
<1> HIDE DEF fr
<1>2. /\ v \in Seq(Fragment) /\ Len(v) = Len(w) + Len(fr) /\ Len(w) \in Nat
      /\ \A i \in 1 .. Len(w) + Len(fr) :
            v[i] = IF i <= Len(w) THEN w[i] ELSE fr[i - Len(w)]
  BY <1>1, ConcatProperties, LenProperties
<1> HIDE DEF v
<1> DEFINE l == Len(w)
           m == Len(fr)
<1>3. l \in Nat /\ m \in Nat \ {0} /\ Len(v) = l + m
  BY <1>1, <1>2
<1>4. \A i \in 1 .. l : v[i] = w[i]
  BY <1>2, <1>3
<1>5. \A i \in 1 .. m : v[l + i] = fr[i] /\ l + i \in 1 .. l + m
  <2> SUFFICES ASSUME NEW i \in 1 .. m PROVE v[l + i] = fr[i] /\ l + i \in 1 .. l + m
    OBVIOUS
  <2>1. l + i \in 1 .. l + m /\ ~(l + i <= l) /\ (l + i) - l = i
    BY <1>3
  <2> QED
    BY <1>2, <2>1
<1>6. \A i \in 1 .. l + m : i \in 1 .. l \/ (i - l \in 1 .. m /\ v[i] = fr[i - l])
  BY <1>2, <1>3
<1>7. v[l + 1].pb = "start" /\ v[l + m].last
  BY <1>1, <1>3, <1>5
<1>8. ASSUME NEW i \in l + 1 .. l + m - 1
      PROVE  v[i + 1].pb = "cont" /\ Follows(v[i], v[i + 1])
  <2>1. i - l \in 1 .. m - 1 /\ i \in 1 .. l + m /\ i + 1 \in 1 .. l + m
        /\ (i + 1) - l = (i - l) + 1 /\ i \notin 1 .. l /\ i + 1 \notin 1 .. l
    BY <1>3
  <2>2. v[i] = fr[i - l] /\ v[i + 1] = fr[(i - l) + 1]
    BY <1>6, <2>1
  <2> QED
    BY <1>1, <2>1, <2>2
<1> HIDE DEF l, m
<1>9. \A i \in 1 .. l + m : ChainedBut(w, 0) => IsFrag(v[i])
  BY <1>1, <1>4, <1>6 DEF ChainedBut, l, m
<1>10. ASSUME NEW k \in Nat, ChainedBut(w, k) PROVE ChainedBut(v, k)
  <2>1. ASSUME NEW i \in 1 .. l + m PROVE IsFrag(v[i])
    <3>1. \A j \in 1 .. l : IsFrag(w[j])
      BY <1>10 DEF ChainedBut, l
    <3> QED
      BY <1>1, <1>4, <1>6, <3>1 DEF m
  <2>2. ASSUME NEW i \in 1 .. l + m - 1, i # k, v[i + 1].pb = "cont"
        PROVE  Follows(v[i], v[i + 1])
    <3>1. CASE i < l
      <4>1. i \in 1 .. l - 1 /\ v[i] = w[i] /\ v[i + 1] = w[i + 1]
        BY <1>3, <1>4, <3>1, SMTT(20)
      <4> QED
        BY <1>10, <2>2, <4>1 DEF ChainedBut, l
    <3>2. CASE i = l
      <4>1. v[i + 1].pb = "start"
        BY <1>7, <3>2
      <4> QED
        BY <2>2, <4>1
    <3>3. CASE i > l
      <4>1. i \in l + 1 .. l + m - 1
        BY <1>3, <3>3
      <4> QED
        BY <1>8, <4>1
    <3> QED
      BY <1>3, <3>1, <3>2, <3>3
  <2> QED
    BY <1>3, <2>1, <2>2 DEF ChainedBut
<1>11. /\ l > 0 => v[1] = w[1]
       /\ l = 0 => v[1].pb = "start"
  BY <1>3, <1>4, <1>7
<1>12. Reads(w) => Reads(v)
  BY <1>10, <1>11, <1>3 DEF Reads, Synced, l
<1>13. Missed(w) => Missed(v)
  BY <1>10, <1>11, <1>3 DEF Missed, Skewed, l
<1>14. ASSUME WillMiss(w) PROVE WillMiss(v)
  <2>1. PICK k \in 1 .. l - 1 : Skips(w[k], w[k + 1]) /\ ChainedBut(w, k)
    BY <1>14 DEF WillMiss, l
  <2>2. k \in 1 .. (l + m) - 1 /\ v[k] = w[k] /\ v[k + 1] = w[k + 1] /\ k \in Nat
        /\ l > 0
    BY <1>3, <1>4
  <2>3. ChainedBut(v, k)
    BY <1>10, <2>1, <2>2
  <2> QED
    BY <1>3, <1>11, <1>14, <2>1, <2>2, <2>3 DEF WillMiss, l
<1>15. ASSUME Tight(w) PROVE Tight(v)
  <2>1. ASSUME NEW i \in 1 .. (l + m) - 1, v[i + 1].pb = "start" PROVE v[i].last
    <3>1. CASE i < l
      <4>1. i \in 1 .. l - 1 /\ v[i] = w[i] /\ v[i + 1] = w[i + 1]
        BY <1>3, <1>4, <3>1
      <4> QED
        BY <1>15, <2>1, <4>1 DEF Tight, l
    <3>2. CASE i = l
      <4>1. l > 0 /\ v[l] = w[l]
        BY <1>3, <1>4, <3>2
      <4> QED
        BY <1>15, <3>2, <4>1 DEF Tight, l
    <3>3. CASE i > l
      <4>1. i \in l + 1 .. l + m - 1
        BY <1>3, <3>3
      <4> QED
        BY <1>8, <2>1, <4>1
    <3> QED
      BY <1>3, <3>1, <3>2, <3>3
  <2>2. v[1].pb = "start" => data_remain = 0
    BY <1>3, <1>11, <1>15 DEF Tight, l
  <2> QED
    BY <1>3, <1>7, <2>1, <2>2 DEF Tight
<1> QED
  BY <1>12, <1>13, <1>14, <1>15 DEF v, fr

(* The next fragment of the stream arrives: PDUs handed on are whole, and  *)
(* the receiver fits what is left, unless it misses a fragment.            *)
LEMMA StreamReceived ==
    ASSUME PeerType, NEW w \in Seq(Fragment), NEW v \in Seq(Fragment),
           Len(w) > 0, Len(v) = Len(w) - 1,
           \A i \in 1 .. Len(v) : v[i] = w[i + 1],
           Receive(w[1]),
           Reads(w) \/ Missed(w) \/ WillMiss(w)
    PROVE  /\ PeerType'
           /\ \A i \in DOMAIN got' :
                 (i \in DOMAIN got /\ got'[i] = got[i]) \/ Whole(got'[i])
           /\ Reads(w) => Reads(v)'
           /\ Missed(w) => Reads(v)' \/ Missed(v)'
           /\ WillMiss(w) => Missed(v)' \/ WillMiss(v)'
           /\ Reads(w) /\ Tight(w) => Tight(v)'
<1> DEFINE f == w[1]
<1>1. Len(w) \in Nat \ {0} /\ Len(v) \in Nat
  BY LenProperties
<1>2. f \in Fragment /\ \A i \in 1 .. Len(v) : v[i] \in Fragment
  BY <1>1, ElementOfSeq
<1>3. IsFrag(f)
  BY <1>1 DEF Reads, Missed, WillMiss, ChainedBut
<1>4. f.pb = "start" \/ f.pb = "cont"
  BY <1>2, FragmentKinds
<1>5. v # <<>> => Len(v) > 0 /\ v[1] = w[2] /\ w[2] \in Fragment
  BY <1>1, <1>2, EmptySeq
<1>6. Len(v) > 0 => v[1] = w[1 + 1] /\ v[1] \in Fragment /\ 1 \in 1 .. Len(w) - 1
                    /\ (v[1].pb = "start" \/ v[1].pb = "cont")
  BY <1>1, <1>2, FragmentKinds
<1> HIDE DEF f
<1>7. ASSUME Synced(f)
      PROVE  /\ PeerType'
             /\ \A i \in DOMAIN got' : i \notin DOMAIN got => Whole(got'[i])
             /\ \A i \in DOMAIN got : i \in DOMAIN got' /\ got'[i] = got[i]
             /\ f.last => data_remain' = 0
             /\ \A g \in Fragment : Follows(f, g) => Synced(g)'
             /\ \A g \in Fragment : Skips(f, g) => Skewed(g)'
  <2>1. Receive(f)
    BY DEF f
  <2> QED
    BY <1>2, <1>3, <1>7, <2>1, ReceivedSynced
<1>8. ASSUME NEW k \in Nat, ChainedBut(w, k), k # 1, Synced(f), Len(v) > 0
      PROVE  Synced(v[1])'
  <2>1. CASE v[1].pb = "start"
    BY <2>1 DEF Synced
  <2>2. CASE v[1].pb = "cont"
    <3>1. Follows(f, v[1])
      BY <1>6, <1>8, <2>2 DEF ChainedBut, f
    <3> QED
      BY <1>6, <1>7, <1>8, <3>1
  <2> QED
    BY <1>6, <1>8, <2>1, <2>2
<1>9. ASSUME Reads(w) PROVE Reads(v)'
  <2>1. ChainedBut(w, 0) /\ Synced(f)
    BY <1>1, <1>9 DEF Reads, f
  <2>2. ChainedBut(v, 0)
    BY <2>1, ChainTail
  <2>3. Len(v) > 0 => Synced(v[1])'
    BY <1>8, <2>1
  <2> QED
    BY <2>2, <2>3 DEF Reads
<1>10. ASSUME Missed(w), f.pb = "cont"
       PROVE  PeerType' /\ got' = got /\ Missed(v)'
  <2>1. ChainedBut(w, 0) /\ Skewed(f) /\ Receive(f)
    BY <1>1, <1>10 DEF Missed, f
  <2>2. /\ PeerType' /\ got' = got
        /\ \A g \in Fragment : Follows(f, g) => Skewed(g)'
    BY <1>2, <1>3, <1>10, <2>1, ReceivedSkewed
  <2>3. ChainedBut(v, 0)
    BY <2>1, ChainTail
  <2>4. ASSUME Len(v) > 0 PROVE Skewed(v[1])'
    <3>1. CASE v[1].pb = "start"
      BY <3>1 DEF Skewed
    <3>2. CASE v[1].pb = "cont"
      <4>1. Follows(f, v[1])
        BY <1>6, <2>1, <2>4, <3>2 DEF ChainedBut, f
      <4> QED
        BY <1>6, <2>2, <2>4, <4>1
    <3> QED
      BY <1>6, <2>4, <3>1, <3>2
  <2> QED
    BY <2>2, <2>3, <2>4 DEF Missed
<1>11. ASSUME Missed(w), f.pb = "start" PROVE Reads(w)
  <2>1. Synced(f)
    BY <1>11 DEF Synced
  <2> QED
    BY <1>11, <2>1 DEF Reads, Missed, f
<1>12. ASSUME WillMiss(w) PROVE Missed(v)' \/ WillMiss(v)'
  <2>1. PICK k \in 1 .. Len(w) - 1 : Skips(w[k], w[k + 1]) /\ ChainedBut(w, k)
    BY <1>12 DEF WillMiss
  <2>2. Synced(f) /\ k \in Nat /\ Len(v) > 0
    BY <1>1, <1>12, <2>1 DEF WillMiss, f
  <2>3. CASE k = 1
    <3>1. Skips(f, v[1])
      BY <1>6, <2>1, <2>2, <2>3 DEF f
    <3>2. Skewed(v[1])'
      BY <1>6, <1>7, <2>2, <3>1
    <3>3. k > 0 /\ k - 1 = 0
      BY <2>3
    <3>4. ChainedBut(v, 0)
      BY <2>1, <2>2, <3>3, ChainTail
    <3> QED
      BY <3>2, <3>4 DEF Missed
  <2>4. CASE k # 1
    <3>1. k - 1 \in 1 .. Len(v) - 1 /\ k > 0 /\ (k - 1) + 1 = k
          /\ k - 1 \in 1 .. Len(v) /\ k \in 1 .. Len(v)
      BY <1>1, <2>1, <2>4
    <3>2. v[k - 1] = w[k] /\ v[(k - 1) + 1] = w[k + 1]
      BY <3>1
    <3>3. ChainedBut(v, k - 1)
      BY <2>1, <2>2, <3>1, ChainTail
    <3>4. Synced(v[1])'
      BY <1>8, <2>1, <2>2, <2>4
    <3>5. Skips(v[k - 1], v[(k - 1) + 1])
      BY <2>1, <3>2
    <3> QED
      BY <3>1, <3>3, <3>4, <3>5 DEF WillMiss
  <2> QED
    BY <2>3, <2>4
<1>13. ASSUME Reads(w), Tight(w) PROVE Tight(v)'
  <2>1. f.last => data_remain' = 0
    BY <1>1, <1>7, <1>13 DEF Reads, f
  <2>2. ASSUME NEW i \in 1 .. Len(v) - 1, v[i + 1].pb = "start" PROVE v[i].last
    <3>1. i + 1 \in 1 .. Len(w) - 1 /\ v[i] = w[i + 1] /\ v[i + 1] = w[(i + 1) + 1]
      BY <1>1
    <3> QED
      BY <1>13, <2>2, <3>1 DEF Tight
  <2>3. ASSUME Len(v) > 0
        PROVE  v[Len(v)].last /\ (v[1].pb = "start" => data_remain' = 0)
    <3>1. v[Len(v)] = w[Len(w)]
      BY <1>1, <2>3
    <3>2. v[1].pb = "start" => f.last
      BY <1>6, <1>13, <2>3 DEF Tight, f
    <3> QED
      BY <1>1, <1>13, <2>1, <3>1, <3>2 DEF Tight
  <2>4. Len(v) = 0 => data_remain' = 0
    <3> SUFFICES ASSUME Len(v) = 0 PROVE f.last
      BY <2>1
    <3>1. Len(w) = 1
      BY <1>1
    <3> QED
      BY <1>13, <3>1 DEF Tight, f
  <2> QED
    BY <2>2, <2>3, <2>4 DEF Tight
<1>14. Reads(w) \/ WillMiss(w) => Synced(f)
  BY <1>1 DEF Reads, WillMiss, f
<1>15. PeerType' /\ \A i \in DOMAIN got' :
                       (i \in DOMAIN got /\ got'[i] = got[i]) \/ Whole(got'[i])
  <2>1. CASE Synced(f)
    BY <1>7, <2>1
  <2>2. CASE Missed(w) /\ f.pb = "cont"
    BY <1>10, <2>2
  <2> QED
    BY <1>4, <1>11, <1>14, <2>1, <2>2
<1> QED
  BY <1>4, <1>9, <1>10, <1>11, <1>12, <1>13, <1>15

(* One fragment disappears from a stream with nothing wrong.               *)
LEMMA StreamCut ==
    ASSUME NEW w \in Seq(Fragment), NEW v \in Seq(Fragment),
           NEW c \in 1 .. Len(w), Len(v) = Len(w) - 1,
           \A i \in 1 .. c - 1 : v[i] = w[i],
           \A i \in c .. Len(v) : v[i] = w[i + 1],
           Reads(w), Tight(w)
    PROVE  Reads(v) \/ Missed(v) \/ WillMiss(v)
<1>1. Len(w) \in Nat \ {0} /\ Len(v) \in Nat /\ c \in Nat \ {0}
  BY LenProperties
<1>2. \A i \in 1 .. Len(w) : w[i] \in Fragment /\ (w[i].pb = "start" \/ w[i].pb = "cont")
  BY ElementOfSeq, FragmentKinds
<1>3. ChainedBut(w, 0) /\ Synced(w[1])
  BY <1>1 DEF Reads
<1>4. \A i \in 1 .. Len(w) : IsFrag(w[i])
  BY <1>3 DEF ChainedBut
<1>5. ASSUME NEW i \in 1 .. Len(w) - 1, w[i + 1].pb = "cont"
      PROVE  Follows(w[i], w[i + 1])
  BY <1>3, <1>5 DEF ChainedBut
<1>6. CASE c = 1
  <2>1. \A i \in 1 .. Len(v) : v[i] = w[i + 1]
    BY <1>6
  <2>2. ChainedBut(v, 0)
    <3>1. 0 \in Nat /\ Len(w) > 0
      BY <1>1
    <3> QED
      BY <1>3, <2>1, <3>1, ChainTail
  <2>3. CASE ~(Len(v) > 0)
    BY <2>2, <2>3 DEF Reads
  <2>4. CASE Len(v) > 0 /\ w[2].pb = "start"
    <3>1. v[1] = w[2]
      BY <1>1, <2>1, <2>4
    <3> QED
      BY <2>2, <2>4, <3>1 DEF Reads, Synced
  <2>5. CASE Len(v) > 0 /\ w[2].pb = "cont"
    <3>1. v[1] = w[2] /\ w[2] \in Fragment /\ w[1] \in Fragment /\ 1 \in 1 .. Len(w) - 1
      BY <1>1, <1>2, <2>1, <2>5
    <3>2. Follows(w[1], w[2])
      BY <1>5, <2>5, <3>1
    <3>3. Skewed(w[2])
      <4>1. CASE w[1].pb = "start"
        BY <1>1, <4>1 DEF Skewed, Tight
      <4>2. CASE w[1].pb = "cont"
        <5> DEFINE f == w[1]
                   n == f.total
                   N == NumFrags(n)
        <5>1. n \in Nat /\ f.pdu \in Nat /\ N \in Nat \ {0}
          BY <3>1, FragmentKinds, NumFragsBounds
        <5>2. PICK i \in 2 .. N : f = Frag(f.pdu, n, i)
                                  /\ data_remain = n - (i - 1) * AclMax
          BY <1>3, <4>2 DEF Synced
        <5>3. PICK k \in 1 .. N - 1 : f = Frag(f.pdu, n, k)
                                      /\ w[2] = Frag(f.pdu, n, k + 1)
          BY <3>2 DEF Follows
        <5> HIDE DEF n, N, f
        <5>4. f.off = (i - 1) * AclMax /\ f.off = (k - 1) * AclMax
          BY <5>2, <5>3 DEF Frag
        <5>5. i = k
          BY <5>1, <5>2, <5>3, <5>4, OffsetsDiffer
        <5>6. w[2].total = n /\ w[2].off = ((k + 1) - 1) * AclMax
          BY <5>3 DEF Frag
        <5>7. ((k + 1) - 1) * AclMax = (k - 1) * AclMax + AclMax
              /\ (k - 1) * AclMax \in Int
          <6>1. \A a \in Int, b \in Int : ((a + 1) - 1) * b = (a - 1) * b + b
                                          /\ (a - 1) * b \in Int
            OBVIOUS
          <6>2. k \in Int
            BY <5>1, <5>3
          <6> QED
            BY <6>1, <6>2
        <5>8. data_remain > w[2].total - w[2].off
          BY <5>1, <5>2, <5>5, <5>6, <5>7
        <5> QED
          BY <5>8 DEF Skewed
      <4> QED
        BY <1>2, <1>1, <4>1, <4>2
    <3> QED
      BY <2>2, <3>1, <3>3 DEF Missed
  <2> QED
    BY <1>1, <1>2, <2>3, <2>4, <2>5
<1>7. CASE c > 1
  <2> DEFINE a == c - 1
  <2>1. a \in 1 .. Len(w) - 1 /\ a + 1 = c /\ a \in Nat
    BY <1>1, <1>7
  <2>2. \A i \in 1 .. a : v[i] = w[i]
    OBVIOUS
  <2>3. Len(v) > 0 /\ v[1] = w[1]
    BY <1>1, <1>7, <2>1, <2>2
  <2>4. \A i \in 1 .. Len(v) : IsFrag(v[i])
    <3> SUFFICES ASSUME NEW i \in 1 .. Len(v) PROVE IsFrag(v[i])
      OBVIOUS
    <3>1. CASE i <= a
      BY <1>1, <1>4, <2>2, <3>1
    <3>2. CASE i > a
      <4>1. i \in c .. Len(v) /\ i + 1 \in 1 .. Len(w)
        BY <1>1, <2>1, <3>2
      <4> QED
        BY <1>4, <4>1
    <3> QED
      BY <1>1, <2>1, <3>1, <3>2
  <2>5. ASSUME NEW i \in 1 .. Len(v) - 1, i # a, v[i + 1].pb = "cont"
        PROVE  Follows(v[i], v[i + 1])
    <3>1. CASE i < a
      <4>1. i \in 1 .. a /\ i + 1 \in 1 .. a /\ i \in 1 .. Len(w) - 1
        BY <1>1, <2>1, <3>1
      <4>2. v[i] = w[i] /\ v[i + 1] = w[i + 1]
        BY <2>2, <4>1
      <4> QED
        BY <1>5, <2>5, <4>1, <4>2
    <3>2. CASE i > a
      <4>1. i \in c .. Len(v) /\ i + 1 \in c .. Len(v) /\ i + 1 \in 1 .. Len(w) - 1
        BY <1>1, <2>1, <3>2
      <4>2. v[i] = w[i + 1] /\ v[i + 1] = w[(i + 1) + 1]
        BY <4>1
      <4> QED
        BY <1>5, <2>5, <4>1, <4>2
    <3> QED
      BY <1>1, <2>1, <2>5, <3>1, <3>2
  <2>6. ChainedBut(v, a)
    BY <2>4, <2>5 DEF ChainedBut
  <2>7. CASE c = Len(w) \/ (c < Len(w) /\ w[c + 1].pb = "start")
    <3>1. a \notin 1 .. Len(v) - 1 \/ v[a + 1].pb = "start"
      <4>1. CASE c = Len(w)
        BY <1>1, <2>1, <4>1
      <4>2. CASE c < Len(w) /\ w[c + 1].pb = "start"
        BY <1>1, <2>1, <4>2
      <4> QED
        BY <2>7, <4>1, <4>2
    <3>2. ChainedBut(v, 0)
      <4>1. ASSUME NEW i \in 1 .. Len(v) - 1, v[i + 1].pb = "cont"
            PROVE  Follows(v[i], v[i + 1])
        <5>1. i # a
          BY <3>1, <4>1
        <5> QED
          BY <2>5, <4>1, <5>1
      <4> QED
        BY <2>4, <4>1 DEF ChainedBut
    <3> QED
      BY <1>3, <2>3, <3>2 DEF Reads
  <2>8. CASE c < Len(w) /\ w[c + 1].pb = "cont"
    <3>1. /\ a \in 1 .. Len(v) - 1 /\ c \in 1 .. Len(w) - 1 /\ c \in c .. Len(v)
          /\ a \in 1 .. a
      BY <1>1, <2>1, <2>8
    <3>2. v[a] = w[a] /\ v[a + 1] = w[c + 1]
      BY <2>1, <2>2, <3>1
    <3>3. Follows(w[c], w[c + 1])
      BY <1>5, <2>8, <3>1
    <3>4. Skips(w[a], w[c + 1])
      <4>1. CASE w[c].pb = "start"
        <5>1. w[a].last
          BY <2>1, <4>1 DEF Tight
        <5> QED
          BY <2>8, <5>1 DEF Skips
      <4>2. CASE w[c].pb = "cont"
        <5>1. Follows(w[a], w[c])
          BY <1>5, <2>1, <4>2
        <5> DEFINE f == w[a]
                   p == f.pdu
                   n == f.total
                   N == NumFrags(n)
        <5>2. w[a] \in Fragment
          BY <1>1, <1>2, <2>1
        <5>3. p \in Nat /\ n \in Nat /\ N \in Nat \ {0}
          BY <5>2, FragmentKinds, NumFragsBounds
        <5>4. PICK i \in 1 .. N - 1 : f = Frag(p, n, i) /\ w[c] = Frag(p, n, i + 1)
          BY <5>1 DEF Follows
        <5>5. w[c].pdu = p /\ w[c].total = n /\ w[c].off = ((i + 1) - 1) * AclMax
          BY <5>4 DEF Frag
        <5>6. PICK k \in 1 .. N - 1 : w[c] = Frag(p, n, k) /\ w[c + 1] = Frag(p, n, k + 1)
          BY <3>3, <5>5 DEF Follows
        <5> HIDE DEF f, p, n, N
        <5>7. w[c].off = (k - 1) * AclMax
          BY <5>6 DEF Frag
        <5>8. k = i + 1
          <6>1. k \in Int /\ i + 1 \in Int
            BY <5>3, <5>4, <5>6
          <6>2. ((i + 1) - 1) * AclMax = (k - 1) * AclMax
            BY <5>5, <5>7
          <6> QED
            BY <6>1, <6>2, OffsetsDiffer
        <5>9. i \in 1 .. N - 2 /\ k + 1 = i + 2
          BY <5>3, <5>4, <5>6, <5>8
        <5>10. f = Frag(p, n, i) /\ w[c + 1] = Frag(p, n, i + 2)
          BY <5>4, <5>6, <5>9
        <5> QED
          BY <5>9, <5>10 DEF Skips, f, p, n, N
      <4> QED
        BY <1>2, <4>1, <4>2
    <3> QED
      BY <1>3, <2>3, <2>6, <3>1, <3>2, <3>4 DEF WillMiss
  <2> QED
    BY <1>1, <1>2, <2>7, <2>8
<1> QED
  BY <1>1, <1>6, <1>7

-----------------------------------------------------------------------------
(* The receiver's invariant, with what PdusWhole says of the PDUs.         *)
PeerInv == PeerType /\ ReceiverInv /\ PdusWhole

Sound(w) == Reads(w) \/ (lost = 1 /\ (Missed(w) \/ WillMiss(w)))

LEMMA EmptyStream ==
    ASSUME data_remain = 0
    PROVE  Reads(<<>>) /\ Tight(<<>>)
<1>1. Len(<<>>) = 0 /\ 1 .. Len(<<>>) = {} /\ 1 .. Len(<<>>) - 1 = {}
  BY EmptySeq
<1> QED
  BY <1>1 DEF Reads, Tight, ChainedBut

(* The stream as a sequence: what the controller holds, then the queue.    *)
LEMMA StreamParts ==
    ASSUME TypeOK
    PROVE  /\ Stream \in Seq(Fragment) /\ air \in Seq(Fragment) /\ fifo \in Seq(Fragment)
           /\ Len(Stream) = Len(air) + Len(fifo)
           /\ Len(air) \in Nat /\ Len(fifo) \in Nat
           /\ \A i \in 1 .. Len(air) : Stream[i] = air[i]
           /\ \A i \in Len(air) + 1 .. Len(Stream) : Stream[i] = fifo[i - Len(air)]
<1>1. air \in Seq(Fragment) /\ fifo \in Seq(Fragment)
  BY DEF TypeOK
<1>2. Len(air) \in Nat /\ Len(fifo) \in Nat
  BY <1>1, LenProperties
<1>3. /\ Stream \in Seq(Fragment) /\ Len(Stream) = Len(air) + Len(fifo)
      /\ \A i \in 1 .. Len(air) + Len(fifo) : Stream[i] =
                     IF i <= Len(air) THEN air[i] ELSE fifo[i - Len(air)]
  BY <1>1, ConcatProperties DEF Stream
<1>4. \A i \in 1 .. Len(air) : Stream[i] = air[i]
  BY <1>2, <1>3
<1>5. \A i \in Len(air) + 1 .. Len(Stream) : Stream[i] = fifo[i - Len(air)]
  BY <1>2, <1>3
<1> QED
  BY <1>1, <1>2, <1>3, <1>4, <1>5

(* The faults of a link are numbers, and the count of them only grows.     *)
LEMMA Faults ==
    ASSUME IInv
    PROVE  /\ lost \in Nat /\ early \in Nat /\ conns \in Nat
           /\ OneFault <=> \/ lost = 0 /\ early = 0
                           \/ lost = 0 /\ conns <= 1
                           \/ lost = 1 /\ early = 0 /\ conns <= 1
           /\ link = "up" /\ conn = "idle" /\ early = 0 => air = <<>> /\ lost = 0
           /\ link = "up" /\ conn = "idle" /\ OneFault => lost = 0
           /\ air # <<>> => link = "up"
<1>1. /\ lost \in Nat /\ early \in Nat /\ conns \in Nat /\ done \in Nat
      /\ air \in Seq(Fragment) /\ link \in {"down", "up"}
  BY DEF IInv, TypeOK
<1>2. Len(air) \in Nat /\ (Len(air) = 0 => air = <<>>)
  BY <1>1, LenProperties, EmptySeq
<1>3. OneFault <=> \/ lost = 0 /\ early = 0
                   \/ lost = 0 /\ conns <= 1
                   \/ lost = 1 /\ early = 0 /\ conns <= 1
  BY <1>1 DEF OneFault
<1>4. link = "up" /\ conn = "idle" => Len(air) + done + lost = early
  BY DEF IInv, EarlyAccounted
<1>5. link = "up" /\ conn = "idle" /\ early = 0 => air = <<>> /\ lost = 0
  BY <1>1, <1>2, <1>4
<1>6. link = "up" /\ conn = "idle" /\ OneFault => lost = 0
  BY <1>1, <1>2, <1>3, <1>4
<1>7. air # <<>> => link = "up"
  BY <1>1 DEF IInv
<1> QED
  BY <1>1, <1>3, <1>5, <1>6, <1>7

(* What the invariant says of the stream, as its own formula.              *)
LEMMA ReceiverInvParts ==
    ReceiverInv <=>
      /\ conns = 0 => /\ link = "down" /\ conn = "idle" /\ evts = <<>>
                      /\ fifo = <<>> /\ data_remain = 0
      /\ link = "up" /\ conn = "idle" /\ conns <= 1 /\ early = 0 => data_remain = 0
      /\ link = "up" /\ OneFault /\ (conns <= 1 \/ conn = "open") =>
            /\ Sound(Stream)
            /\ lost + early = 0 /\ conns <= 1 /\ conn = "open" => Tight(Stream)
BY DEF ReceiverInv, Sound

(* A step that leaves the receiver alone leaves what is said of a stream.  *)
LEMMA StreamBecomes ==
    ASSUME UNCHANGED peerVars, NEW v, Stream' = v
    PROVE  /\ Reads(Stream)' <=> Reads(v)
           /\ Missed(Stream)' <=> Missed(v)
           /\ WillMiss(Stream)' <=> WillMiss(v)
           /\ Tight(Stream)' <=> Tight(v)
<1>1. data_remain' = data_remain /\ buffer' = buffer
  BY DEF peerVars
<1> QED
  BY <1>1 DEF Reads, Missed, WillMiss, Tight, ChainedBut, Synced, Skewed

(* ... and the PDUs it has handed on, while no fault becomes a lesser one. *)
LEMMA SamePdus ==
    ASSUME UNCHANGED peerVars, PeerType, PdusWhole, OneFault' => OneFault
    PROVE  PeerType' /\ PdusWhole' /\ data_remain' = data_remain
BY DEF peerVars, PeerType, PdusWhole, OneFault

(* A PDU that is queued comes behind all that is under way.                *)
LEMMA SendPduStream ==
    ASSUME IInv, NEW n \in PduLen, SendPdu(n), link = "up"
    PROVE  /\ pdus + 1 \in Nat /\ n \in Nat
           /\ Stream' = Stream \o Fragments(pdus + 1, n)
<1> DEFINE fr == Fragments(pdus + 1, n)
<1>1. BufferSend(fifo \o fr, Int8(host_pkt_num + 1), ctrl_pkt_num)
  BY DEF SendPdu
<1>2. pdus + 1 \in Nat /\ n \in Nat
  BY DEF IInv, TypeOK
<1>3. fr \in Seq(Fragment)
  BY <1>2, FragmentsType
<1>4. /\ fifo \o fr \in Seq(Fragment) /\ air \in Seq(Fragment) /\ fifo \in Seq(Fragment)
      /\ ctrl_pkt_num \in Int /\ ctrl_pkt_num <= MaxPkt /\ link \in {"down", "up"}
  BY <1>3, ConcatProperties DEF IInv, TypeOK
<1>5. Int8(host_pkt_num + 1) \in Int
  <2>1. host_pkt_num + 1 \in Int
    BY DEF IInv, TypeOK
  <2> QED
    BY <2>1, Int8Range
<1> HIDE DEF fr
<1>6. air' \o fifo' = air \o (fifo \o fr)
  BY <1>1, <1>4, <1>5, BufferSendEffect
<1>7. (air \o fifo) \o fr = air \o (fifo \o fr)
  BY <1>3, <1>4, Regroup
<1>8. Stream' = Stream \o fr
  BY <1>6, <1>7 DEF Stream
<1> QED
  BY <1>2, <1>8 DEF fr

(* The application queues a PDU, on the connection or ahead of its event.  *)
LEMMA SendPduPeer ==
    ASSUME IInv, IInv', PeerInv, NEW n \in PduLen, SendPdu(n), link = "up",
           UNCHANGED peerVars, early' \in Nat, early' >= early,
           conn = "open" => early' = early
    PROVE  PeerInv'
<1> DEFINE fr == Fragments(pdus + 1, n)
           w == Stream
           v == w \o fr
<1>1. UNCHANGED <<conn, done, link, evts, rx, conns, lost>>
  BY DEF SendPdu
<1>2. pdus + 1 \in Nat /\ n \in Nat
  BY SendPduStream
<1>4. Stream' = v
  BY SendPduStream
<1>5. w \in Seq(Fragment)
  BY StreamParts DEF IInv
<1>6. /\ Reads(w) => Reads(v)
      /\ Missed(w) => Missed(v)
      /\ WillMiss(w) => WillMiss(v)
      /\ Tight(w) => Tight(v)
  BY <1>2, <1>5, StreamLonger
<1> HIDE DEF fr, v, w
<1>7. /\ Reads(Stream)' <=> Reads(v)
      /\ Missed(Stream)' <=> Missed(v)
      /\ WillMiss(Stream)' <=> WillMiss(v)
      /\ Tight(Stream)' <=> Tight(v)
  BY <1>4, StreamBecomes
<1>8. /\ lost' = lost /\ conns' = conns /\ link' = link /\ conn' = conn /\ evts' = evts
      /\ lost \in Nat /\ early \in Nat /\ conns \in Nat
  BY <1>1 DEF IInv, TypeOK
<1>9. OneFault' => OneFault
  BY <1>8 DEF OneFault
<1>10. PeerType' /\ PdusWhole' /\ data_remain' = data_remain
  BY <1>9, SamePdus DEF PeerInv
<1>11. Sound(w) => Sound(Stream)'
  BY <1>6, <1>7, <1>8 DEF Sound
<1>12. ReceiverInv
  BY DEF PeerInv
<1>13. ReceiverInv'
  <2>1. conns # 0 /\ (early' = 0 => early = 0)
    BY <1>8, <1>12 DEF ReceiverInv
  <2>2. link' = "up" /\ conn' = "idle" /\ conns' <= 1 /\ early' = 0 => data_remain' = 0
    BY <1>8, <1>10, <1>12, <2>1 DEF ReceiverInv
  <2>3. link' = "up" /\ OneFault' /\ (conns' <= 1 \/ conn' = "open") => Sound(Stream)'
    BY <1>8, <1>9, <1>11, <1>12, ReceiverInvParts DEF w
  <2>4. ASSUME lost' + early' = 0, conns' <= 1, conn' = "open" PROVE Tight(Stream)'
    <3>1. lost = 0 /\ early = 0
      BY <1>8, <2>4
    <3>2. OneFault /\ lost + early = 0
      BY <1>8, <2>4, <3>1 DEF OneFault
    <3>3. Tight(w)
      BY <1>8, <1>12, <2>4, <3>2, ReceiverInvParts DEF w
    <3> QED
      BY <1>6, <1>7, <3>3
  <2> QED
    BY <1>8, <2>1, <2>2, <2>3, <2>4 DEF ReceiverInv, Sound
<1> QED
  BY <1>10, <1>13 DEF PeerInv

(* Acknowledgements move fragments along, and change nothing else of the   *)
(* stream.                                                                 *)
LEMMA PacketCompStream ==
    ASSUME IInv, NEW num \in 1 .. done, PacketComp(num), link = "up"
    PROVE  Stream' = Stream
<1>1. BufferSend(fifo, host_pkt_num, ctrl_pkt_num - num)
  BY DEF PacketComp
<1>2. /\ air \in Seq(Fragment) /\ fifo \in Seq(Fragment) /\ host_pkt_num \in Int
      /\ ctrl_pkt_num - num \in Int /\ ctrl_pkt_num - num <= MaxPkt
      /\ link \in {"down", "up"}
  BY DEF IInv, TypeOK
<1> QED
  BY <1>1, <1>2, BufferSendEffect DEF Stream

(* Acknowledgements let the queue move on: the stream stays as it is.      *)
LEMMA PacketCompPeer ==
    ASSUME IInv, PeerInv, NEW num \in 1 .. done, PacketComp(num),
           UNCHANGED peerVars
    PROVE  PeerInv'
<1>1. UNCHANGED <<conn, link, evts, rx, sent, pdus, conns, lost, early>>
  BY DEF PacketComp, histVars
<1>3. PeerType' /\ PdusWhole' /\ data_remain' = data_remain
  BY <1>1, SamePdus DEF PeerInv, OneFault
<1>4. conns # 0
  BY DEF PeerInv, ReceiverInv, PacketComp
<1>5. ASSUME link = "up"
      PROVE  /\ Sound(Stream) => Sound(Stream)'
             /\ Tight(Stream) => Tight(Stream)'
  <2>1. Stream' = Stream
    BY <1>5, PacketCompStream
  <2>2. /\ Reads(Stream)' <=> Reads(Stream)
        /\ Missed(Stream)' <=> Missed(Stream)
        /\ WillMiss(Stream)' <=> WillMiss(Stream)
        /\ Tight(Stream)' <=> Tight(Stream)
    BY <2>1, StreamBecomes
  <2> QED
    BY <1>1, <2>2 DEF Sound
<1>6. ReceiverInv'
  BY <1>1, <1>3, <1>4, <1>5 DEF PeerInv, ReceiverInv, OneFault, Sound
<1> QED
  BY <1>3, <1>6 DEF PeerInv

(* The connection event drops the queue: the stream ends with what the     *)
(* controller got ahead of it, and without that nothing is under way.      *)
LEMMA ConnectionCompletePeer ==
    ASSUME IInv, PeerInv, ConnectionComplete, UNCHANGED peerVars
    PROVE  PeerInv'
<1>1. /\ evts # <<>> /\ conn' = "open" /\ fifo' = <<>>
      /\ Head(evts) = "conn"
      /\ UNCHANGED <<air, done, link, rx, pdus, conns, lost, early>>
  BY DEF ConnectionComplete, L2capInit
<1>2. PeerType' /\ PdusWhole' /\ data_remain' = data_remain
  BY <1>1, SamePdus DEF PeerInv, OneFault
<1>3. conns # 0
  BY <1>1 DEF PeerInv, ReceiverInv
<1>4. conn = "idle"
  BY <1>1, LinkEvents DEF IInv, Views
<1>5. Stream' = air
  BY <1>1, ConcatEmptySeq DEF IInv, TypeOK, Stream
<1>6. /\ Reads(Stream)' <=> Reads(air)
      /\ Tight(Stream)' <=> Tight(air)
  BY <1>5, StreamBecomes
<1>7. ASSUME link = "up", OneFault
      PROVE  /\ Reads(air)
             /\ early = 0 /\ conns <= 1 => Tight(air)
  <2>1. lost = 0 /\ (early = 0 => air = <<>>)
    BY <1>4, <1>7, Faults
  <2>2. CASE conns <= 1
    <3>1. Reads(Stream)
      BY <1>7, <2>1, <2>2 DEF PeerInv, ReceiverInv
    <3>2. /\ Stream \in Seq(Fragment) /\ air \in Seq(Fragment)
          /\ Len(air) <= Len(Stream) /\ Len(air) \in Nat
          /\ \A i \in 1 .. Len(air) : Stream[i] = air[i]
      BY StreamParts DEF IInv
    <3>3. ChainedBut(air, 0)
      <4>1. ChainedBut(Stream, 0) /\ 0 \in Nat
        BY <3>1 DEF Reads
      <4> QED
        BY <3>2, <4>1, ChainPrefix
    <3>4. Len(air) > 0 => Synced(air[1])
      <4>1. Len(air) > 0 => Len(Stream) > 0 /\ Stream[1] = air[1]
        BY <3>2, LenProperties
      <4> QED
        BY <3>1, <4>1 DEF Reads
    <3>5. Reads(air)
      BY <3>3, <3>4 DEF Reads
    <3>6. early = 0 => Tight(air)
      <4>1. early = 0 => data_remain = 0
        BY <1>4, <1>7, <2>2 DEF PeerInv, ReceiverInv
      <4> QED
        BY <2>1, <4>1, EmptyStream
    <3> QED
      BY <3>5, <3>6
  <2>3. CASE ~(conns <= 1)
    <3>1. early = 0
      BY <1>7, <2>1, <2>3, Faults
    <3>2. air = <<>>
      BY <2>1, <3>1
    <3>3. Reads(air)
      <4>1. Len(<<>>) = 0 /\ 1 .. Len(<<>>) = {} /\ 1 .. Len(<<>>) - 1 = {}
        BY EmptySeq
      <4> QED
        BY <3>2, <4>1 DEF Reads, ChainedBut
    <3> QED
      BY <2>3, <3>3
  <2> QED
    BY <2>2, <2>3
<1>8. /\ lost \in Nat /\ early \in Nat
  BY Faults
<1>9. ReceiverInv'
  <2>1. OneFault' <=> OneFault
    BY <1>1 DEF OneFault
  <2>2. link' = "up" /\ OneFault' => Reads(Stream)'
    BY <1>1, <1>6, <1>7, <2>1
  <2>3. ASSUME link' = "up", OneFault', lost' + early' = 0, conns' <= 1
        PROVE  Tight(Stream)'
    <3>1. early = 0
      BY <1>1, <1>8, <2>3
    <3> QED
      BY <1>1, <1>6, <1>7, <2>1, <2>3, <3>1
  <2> QED
    BY <1>1, <1>3, <2>2, <2>3 DEF ReceiverInv
<1> QED
  BY <1>2, <1>9 DEF PeerInv

(* With the link down nothing is claimed of the stream.                    *)
LEMMA DownPeer ==
    ASSUME IInv, PeerInv, DisconnectionComplete \/ LinkLoss, UNCHANGED peerVars
    PROVE  PeerInv'
<1>1. /\ link' = "down" /\ UNCHANGED <<fifo, conns, lost, early>>
      /\ conns # 0
  <2>1. CASE DisconnectionComplete
    <3>1. evts # <<>> /\ link = "down" /\ UNCHANGED <<fifo, link, conns, lost, early>>
      BY <2>1, LinkEvents DEF DisconnectionComplete, histVars, IInv, Views
    <3> QED
      BY <3>1 DEF PeerInv, ReceiverInv
  <2>2. CASE LinkLoss
    BY <2>2 DEF LinkLoss, hostVars, histVars, PeerInv, ReceiverInv
  <2> QED
    BY <2>1, <2>2
<1>2. PeerType' /\ PdusWhole' /\ data_remain' = data_remain
  BY <1>1, SamePdus DEF PeerInv, OneFault
<1>3. ReceiverInv'
  BY <1>1 DEF ReceiverInv
<1> QED
  BY <1>2, <1>3 DEF PeerInv

(* A new link starts with nothing received; the first one with nothing at  *)
(* all, and on a later one there is no claim before its connection event.  *)
LEMMA LinkUpPeer ==
    ASSUME IInv, PeerInv, LinkUp, got' = <<>>, UNCHANGED <<data_remain, buffer>>
    PROVE  PeerInv'
<1>1. /\ link = "down" /\ conn = "idle" /\ conns' = conns + 1
      /\ lost' = 0 /\ early' = 0
      /\ UNCHANGED <<fifo, conn, air>>
  BY DEF LinkUp, hostVars
<1>2. conns \in Nat /\ air = <<>>
  BY <1>1 DEF IInv, TypeOK
<1>3. PeerType' /\ PdusWhole'
  <2>1. <<>> \in Seq(Seq(Fragment)) /\ DOMAIN <<>> = {}
    BY EmptySeq, LenProperties
  <2> QED
    BY <2>1 DEF PeerInv, PeerType, PdusWhole
<1>4. CASE conns = 0
  <2>1. fifo = <<>> /\ data_remain = 0
    BY <1>4 DEF PeerInv, ReceiverInv
  <2>2. Stream' = <<>> /\ data_remain' = 0
    <3>1. <<>> \o <<>> = <<>>
      OBVIOUS
    <3> QED
      BY <1>1, <1>2, <2>1, <3>1 DEF Stream
  <2>3. Reads(Stream)'
    <3>1. Len(<<>>) = 0 /\ 1 .. Len(<<>>) = {} /\ 1 .. Len(<<>>) - 1 = {}
      BY EmptySeq
    <3> QED
      BY <2>2, <3>1 DEF Reads, ChainedBut
  <2>4. ReceiverInv'
    BY <1>1, <1>4, <2>2, <2>3 DEF ReceiverInv
  <2> QED
    BY <1>3, <2>4 DEF PeerInv
<1>5. CASE conns # 0
  <2>1. ~(conns' <= 1) /\ conns' # 0 /\ conn' # "open"
    BY <1>1, <1>2, <1>5
  <2>2. ReceiverInv'
    BY <2>1 DEF ReceiverInv
  <2> QED
    BY <1>3, <2>2 DEF PeerInv
<1> QED
  BY <1>4, <1>5

(* Whatever arrives, what is received consists of fragments.               *)
LEMMA ReceiveType ==
    ASSUME PeerType, NEW f \in Fragment, Receive(f)
    PROVE  PeerType'
<1>1. f.total \in Nat /\ f.len \in Int
  BY FragmentKinds
<1>2. data_remain \in Int /\ buffer \in Seq(Fragment) /\ got \in Seq(Seq(Fragment))
  BY DEF PeerType
<1>3. Stored(f) \in Seq(Fragment)
  <2>1. <<f>> \in Seq(Fragment) /\ Append(buffer, f) \in Seq(Fragment)
    BY <1>2, AppendProperties
  <2> QED
    BY <2>1 DEF Stored
<1>4. CASE ~Fits(f)
  BY <1>2, <1>4 DEF Receive, PeerType
<1>5. CASE Fits(f)
  <2>1. /\ data_remain' = (IF f.pb = "start" THEN f.total ELSE data_remain) - f.len
        /\ buffer' = Stored(f)
        /\ got' = IF data_remain' = 0 THEN Append(got, buffer') ELSE got
    BY <1>5 DEF Receive
  <2>2. data_remain' \in Int
    BY <1>1, <1>2, <2>1
  <2>3. buffer' \in Seq(Fragment) /\ got' \in Seq(Seq(Fragment))
    BY <1>2, <1>3, <2>1, AppendProperties
  <2> QED
    BY <2>2, <2>3 DEF PeerType
<1> QED
  BY <1>4, <1>5

(* What is said of the next stream, under its name.                        *)
LEMMA StreamIs ==
    ASSUME NEW v, Stream' = v
    PROVE  /\ Reads(Stream)' <=> Reads(v)'
           /\ Missed(Stream)' <=> Missed(v)'
           /\ WillMiss(Stream)' <=> WillMiss(v)'
           /\ Tight(Stream)' <=> Tight(v)'
BY DEF Reads, Missed, WillMiss, Tight, ChainedBut, Synced, Skewed

(* The controller transmits the first fragment of the stream.              *)
LEMMA TransmitPeer ==
    ASSUME IInv, PeerInv, Transmit, Receive(Head(air))
    PROVE  PeerInv'
<1>1. /\ air # <<>> /\ air' = Tail(air)
      /\ UNCHANGED <<fifo, conn, link, lost, early, conns>>
  BY DEF Transmit, hostVars, histVars
<1>2. link = "up" /\ lost \in Nat /\ early \in Nat
  BY <1>1, Faults
<1>3. /\ Stream \in Seq(Fragment) /\ air \in Seq(Fragment) /\ fifo \in Seq(Fragment)
      /\ Len(Stream) = Len(air) + Len(fifo)
      /\ Len(air) \in Nat \ {0} /\ Len(fifo) \in Nat
      /\ \A i \in 1 .. Len(air) : Stream[i] = air[i]
      /\ \A i \in Len(air) + 1 .. Len(Stream) : Stream[i] = fifo[i - Len(air)]
  BY <1>1, StreamParts, EmptySeq DEF IInv
<1>4. /\ Tail(air) \in Seq(Fragment) /\ Len(Tail(air)) = Len(air) - 1
      /\ \A i \in 1 .. Len(Tail(air)) : Tail(air)[i] = air[i + 1]
      /\ Head(air) = air[1]
  BY <1>1, <1>3, HeadTailProperties
<1>5. PICK w : w = Stream
  OBVIOUS
<1>6. PICK v : v = Tail(air) \o fifo
  OBVIOUS
<1>7. /\ v \in Seq(Fragment) /\ Len(v) = Len(w) - 1 /\ Len(w) > 0
      /\ w \in Seq(Fragment) /\ w = Stream /\ w[1] = Head(air)
      /\ \A i \in 1 .. Len(v) : v[i] = w[i + 1]
  <2>1. /\ v \in Seq(Fragment) /\ Len(v) = Len(Tail(air)) + Len(fifo)
        /\ \A i \in 1 .. Len(Tail(air)) + Len(fifo) :
              v[i] = IF i <= Len(Tail(air)) THEN Tail(air)[i]
                     ELSE fifo[i - Len(Tail(air))]
    BY <1>3, <1>4, <1>6, ConcatProperties
  <2>2. ASSUME NEW i \in 1 .. Len(v) PROVE v[i] = Stream[i + 1]
    <3>1. CASE i <= Len(air) - 1
      <4>1. i + 1 \in 1 .. Len(air) /\ i \in 1 .. Len(Tail(air))
        BY <1>3, <1>4, <2>1, <3>1
      <4> QED
        BY <1>3, <1>4, <2>1, <3>1, <4>1
    <3>2. CASE i > Len(air) - 1
      <4>1. i + 1 \in Len(air) + 1 .. Len(Stream)
            /\ (i + 1) - Len(air) = i - (Len(air) - 1)
            /\ ~(i <= Len(Tail(air)))
        BY <1>3, <1>4, <2>1, <3>2
      <4>2. Stream[i + 1] = fifo[i - (Len(air) - 1)]
        BY <1>3, <4>1
      <4> QED
        BY <1>4, <2>1, <2>2, <4>1, <4>2
    <3> QED
      BY <1>3, <1>4, <2>1, <3>1, <3>2
  <2>3. 1 \in 1 .. Len(air)
    BY <1>3
  <2> QED
    BY <1>3, <1>4, <1>5, <1>6, <2>1, <2>2, <2>3
<1>8. Stream' = v
  BY <1>1, <1>6 DEF Stream
<1>9. PeerType /\ ReceiverInv /\ PdusWhole
  BY DEF PeerInv
<1>10. /\ OneFault' <=> OneFault
       /\ conns # 0 /\ conns' = conns /\ lost' = lost /\ early' = early
  BY <1>1, <1>2, <1>9 DEF OneFault, ReceiverInv
<1>11. PeerType'
  <2>1. Head(air) \in Fragment
    BY <1>1, <1>3, HeadTailProperties
  <2> QED
    BY <1>9, <2>1, ReceiveType
<1>12. ASSUME OneFault
       PROVE  /\ conns <= 1 \/ conn = "open"
              /\ Reads(w) \/ (lost = 1 /\ (Missed(w) \/ WillMiss(w)))
  <2>1. conn \in {"idle", "open"}
    BY DEF IInv, TypeOK
  <2>2. conns <= 1 \/ conn = "open"
    BY <1>1, <1>2, <1>12, <2>1, Faults
  <2> QED
    BY <1>2, <1>7, <1>9, <1>12, <2>2 DEF ReceiverInv
<1>13. ASSUME OneFault
       PROVE  /\ \A i \in DOMAIN got' :
                    (i \in DOMAIN got /\ got'[i] = got[i]) \/ Whole(got'[i])
              /\ Reads(w) => Reads(v)'
              /\ Missed(w) => Reads(v)' \/ Missed(v)'
              /\ WillMiss(w) => Missed(v)' \/ WillMiss(v)'
              /\ Reads(w) /\ Tight(w) => Tight(v)'
  <2>1. Receive(w[1])
    BY <1>7
  <2> QED
    BY <1>7, <1>9, <1>12, <1>13, <2>1, StreamReceived
<1>14. PdusWhole'
  <2> SUFFICES ASSUME OneFault, NEW i \in DOMAIN got' PROVE Whole(got'[i])
    BY <1>10 DEF PdusWhole, OneFault
  <2>1. i \in DOMAIN got => Whole(got[i])
    BY <1>9 DEF PdusWhole, OneFault
  <2> QED
    BY <1>13, <2>1
<1>15. /\ Reads(Stream)' <=> Reads(v)'
       /\ Missed(Stream)' <=> Missed(v)'
       /\ WillMiss(Stream)' <=> WillMiss(v)'
       /\ Tight(Stream)' <=> Tight(v)'
  BY <1>8, StreamIs
<1>16. OneFault => Sound(Stream)'
  BY <1>10, <1>12, <1>13, <1>15 DEF Sound
<1>17. ASSUME OneFault, lost + early = 0, conns <= 1, conn = "open"
       PROVE  Tight(Stream)'
  <2>1. Tight(w) /\ lost = 0
    BY <1>2, <1>7, <1>9, <1>17 DEF ReceiverInv
  <2>2. Reads(w)
    BY <1>12, <1>17, <2>1
  <2> QED
    BY <1>13, <1>15, <1>17, <2>1, <2>2
<1>18. conn = "idle" /\ early = 0 => FALSE
  BY <1>1, <1>2, Faults
<1>19. ReceiverInv'
  BY <1>1, <1>10, <1>16, <1>17, <1>18 DEF ReceiverInv, Sound
<1> QED
  BY <1>11, <1>14, <1>19 DEF PeerInv

(* The USB loses a fragment: as the only fault, it meets a tight stream.   *)
LEMMA UsbLostPeer ==
    ASSUME IInv, IInv', PeerInv, UsbLost, UNCHANGED peerVars
    PROVE  PeerInv'
<1>1. PICK c \in DOMAIN air : air' = RemoveAt(air, c)
  BY DEF UsbLost
<1>2. /\ lost' = lost + 1
      /\ UNCHANGED <<fifo, conn, link, evts, early, conns>>
  BY DEF UsbLost, hostVars
<1>3. /\ Stream \in Seq(Fragment) /\ air \in Seq(Fragment) /\ fifo \in Seq(Fragment)
      /\ Len(Stream) = Len(air) + Len(fifo)
      /\ Len(air) \in Nat /\ Len(fifo) \in Nat /\ c \in 1 .. Len(air)
      /\ \A i \in 1 .. Len(air) : Stream[i] = air[i]
      /\ \A i \in Len(air) + 1 .. Len(Stream) : Stream[i] = fifo[i - Len(air)]
  BY StreamParts, LenProperties DEF IInv
<1>4. link = "up" /\ lost \in Nat /\ early \in Nat /\ conns \in Nat
  <2>1. air # <<>>
    BY <1>3, EmptySeq
  <2> QED
    BY <2>1, Faults
<1>5. PeerType /\ ReceiverInv /\ PdusWhole
  BY DEF PeerInv
<1>6. OneFault' => OneFault /\ lost = 0 /\ early = 0 /\ conns <= 1
  BY <1>2, <1>4 DEF OneFault
<1>7. PeerType' /\ PdusWhole' /\ data_remain' = data_remain
  BY <1>5, <1>6, SamePdus
<1>8. conn \in {"idle", "open"} /\ (conn = "idle" => early # 0)
  <2>1. air # <<>>
    BY <1>3, EmptySeq
  <2> QED
    BY <1>4, <2>1, Faults DEF IInv, TypeOK
<1>9. ASSUME OneFault'
      PROVE  /\ Reads(Stream) /\ Tight(Stream) /\ conn = "open"
             /\ Reads(Stream)' \/ Missed(Stream)' \/ WillMiss(Stream)'
  <2>1. OneFault /\ lost = 0 /\ early = 0 /\ conns <= 1 /\ conn = "open"
        /\ lost + early = 0
    BY <1>6, <1>8, <1>9
  <2>2. Reads(Stream) /\ Tight(Stream)
    BY <1>4, <1>5, <2>1 DEF ReceiverInv
  <2> DEFINE l == SubSeq(air, 1, c - 1)
             r == SubSeq(air, c + 1, Len(air))
             v == (l \o r) \o fifo
  <2>3. \A j \in 1 .. Len(air) : air[j] \in Fragment
    BY <1>3, ElementOfSeq
  <2>4. /\ l \in Seq(Fragment) /\ Len(l) = c - 1
        /\ \A j \in 1 .. c - 1 : l[j] = air[j]
    <3>1. /\ l \in Seq(Fragment)
          /\ Len(l) = IF 1 <= c - 1 THEN (c - 1) - 1 + 1 ELSE 0
          /\ \A j \in 1 .. (c - 1) - 1 + 1 : l[j] = air[1 + j - 1]
      BY <1>3, <2>3, SubSeqProperties
    <3> HIDE DEF l
    <3> QED
      BY <1>3, <3>1
  <2>5. /\ r \in Seq(Fragment) /\ Len(r) = Len(air) - c
        /\ \A j \in 1 .. Len(air) - c : r[j] = air[c + j]
    <3>1. /\ r \in Seq(Fragment)
          /\ Len(r) = IF c + 1 <= Len(air) THEN Len(air) - (c + 1) + 1 ELSE 0
          /\ \A j \in 1 .. Len(air) - (c + 1) + 1 : r[j] = air[(c + 1) + j - 1]
      BY <1>3, <2>3, SubSeqProperties
    <3> HIDE DEF r
    <3>2. \A j \in 1 .. Len(air) - c :
             j \in 1 .. Len(air) - (c + 1) + 1 /\ (c + 1) + j - 1 = c + j
      BY <1>3
    <3> QED
      BY <1>3, <3>1, <3>2
  <2> HIDE DEF l, r
  <2>6. /\ l \o r \in Seq(Fragment) /\ Len(l \o r) = Len(air) - 1
        /\ \A j \in 1 .. Len(air) - 1 :
              (l \o r)[j] = IF j <= c - 1 THEN l[j] ELSE r[j - (c - 1)]
    <3>1. /\ l \o r \in Seq(Fragment) /\ Len(l \o r) = Len(l) + Len(r)
          /\ \A j \in 1 .. Len(l) + Len(r) :
                (l \o r)[j] = IF j <= Len(l) THEN l[j] ELSE r[j - Len(l)]
      BY <2>4, <2>5, ConcatProperties
    <3>2. Len(l) + Len(r) = Len(air) - 1
      BY <1>3, <2>4, <2>5
    <3> QED
      BY <2>4, <3>1, <3>2
  <2>7. /\ \A j \in 1 .. c - 1 : (l \o r)[j] = air[j]
        /\ \A j \in c .. Len(air) - 1 : (l \o r)[j] = air[j + 1]
    <3>1. ASSUME NEW j \in 1 .. c - 1 PROVE (l \o r)[j] = air[j]
      <4>1. j \in 1 .. Len(air) - 1 /\ j <= c - 1
        BY <1>3
      <4> QED
        BY <2>4, <2>6, <4>1
    <3>2. ASSUME NEW j \in c .. Len(air) - 1 PROVE (l \o r)[j] = air[j + 1]
      <4>1. /\ j \in 1 .. Len(air) - 1 /\ ~(j <= c - 1)
            /\ j - (c - 1) \in 1 .. Len(air) - c
            /\ c + (j - (c - 1)) = j + 1
        BY <1>3
      <4> QED
        BY <2>5, <2>6, <4>1
    <3> QED
      BY <3>1, <3>2
  <2> DEFINE a == l \o r
  <2> HIDE DEF a
  <2>8. a \in Seq(Fragment) /\ Len(a) = Len(air) - 1
        /\ (\A j \in 1 .. c - 1 : a[j] = air[j])
        /\ (\A j \in c .. Len(air) - 1 : a[j] = air[j + 1])
        /\ v = a \o fifo
    BY <2>6, <2>7 DEF a
  <2> HIDE DEF v
  <2>9. /\ v \in Seq(Fragment) /\ Len(v) = Len(Stream) - 1
        /\ \A j \in 1 .. Len(Stream) - 1 :
              v[j] = IF j <= Len(air) - 1 THEN a[j] ELSE fifo[j - (Len(air) - 1)]
    <3>1. /\ v \in Seq(Fragment) /\ Len(v) = Len(a) + Len(fifo)
          /\ \A j \in 1 .. Len(a) + Len(fifo) :
                v[j] = IF j <= Len(a) THEN a[j] ELSE fifo[j - Len(a)]
      BY <1>3, <2>8, ConcatProperties
    <3>2. Len(a) + Len(fifo) = Len(Stream) - 1
      BY <1>3, <2>8
    <3> QED
      BY <2>8, <3>1, <3>2
  <2>10. ASSUME NEW j \in 1 .. c - 1 PROVE v[j] = Stream[j]
    <3>1. j \in 1 .. Len(Stream) - 1 /\ j <= Len(air) - 1 /\ j \in 1 .. Len(air)
      BY <1>3
    <3> QED
      BY <1>3, <2>8, <2>9, <3>1
  <2>11. ASSUME NEW j \in c .. Len(v) PROVE v[j] = Stream[j + 1]
    <3>1. j \in 1 .. Len(Stream) - 1
      BY <1>3, <2>9
    <3>2. CASE j <= Len(air) - 1
      <4>1. j \in c .. Len(air) - 1 /\ j + 1 \in 1 .. Len(air)
        BY <1>3, <2>9, <3>2
      <4> QED
        BY <1>3, <2>8, <2>9, <3>1, <3>2, <4>1
    <3>3. CASE j > Len(air) - 1
      <4>1. j + 1 \in Len(air) + 1 .. Len(Stream) /\ ~(j <= Len(air) - 1)
            /\ (j + 1) - Len(air) = j - (Len(air) - 1)
        BY <1>3, <2>9, <3>1, <3>3
      <4> QED
        BY <1>3, <2>9, <3>1, <4>1
    <3> QED
      BY <1>3, <3>1, <3>2, <3>3
  <2>12. c \in 1 .. Len(Stream)
    BY <1>3
  <2>13. Reads(v) \/ Missed(v) \/ WillMiss(v)
    BY <1>3, <2>2, <2>9, <2>10, <2>11, <2>12, StreamCut
  <2>14. Stream' = v
    BY <1>1, <1>2 DEF RemoveAt, Stream, v, l, r
  <2>15. Reads(Stream)' \/ Missed(Stream)' \/ WillMiss(Stream)'
    BY <2>13, <2>14, StreamBecomes
  <2> QED
    BY <2>1, <2>2, <2>15
<1>10. ReceiverInv'
  <2>1. conns' # 0 /\ lost' + early' # 0
    BY <1>2, <1>4, <1>5 DEF ReceiverInv
  <2>2. OneFault' => lost' = 1
    BY <1>2, <1>6
  <2>3. ~(conn' = "idle" /\ early' = 0)
    BY <1>2, <1>8
  <2> QED
    BY <1>9, <2>1, <2>2, <2>3 DEF ReceiverInv
<1> QED
  BY <1>7, <1>10 DEF PeerInv

LEMMA InitPeer == PeerInit => IInv /\ PeerInv
<1> SUFFICES ASSUME PeerInit PROVE IInv /\ PeerInv
  OBVIOUS
<1>1. IInv
  BY InitIInv DEF PeerInit
<1>2. <<>> \in Seq(Fragment) /\ <<>> \in Seq(Seq(Fragment)) /\ DOMAIN <<>> = {}
  BY EmptySeq, LenProperties
<1>3. PeerType /\ PdusWhole
  BY <1>2 DEF PeerInit, PeerType, PdusWhole
<1>4. ReceiverInv
  BY DEF PeerInit, Init, ReceiverInv
<1> QED
  BY <1>1, <1>3, <1>4 DEF PeerInv

LEMMA StepPeer == IInv /\ PeerInv /\ [PeerNext]_allVars => (IInv /\ PeerInv)'
<1> SUFFICES ASSUME IInv, PeerInv, [PeerNext]_allVars PROVE (IInv /\ PeerInv)'
  OBVIOUS
<1>1. CASE Transmit /\ Receive(Head(air))
  <2>1. IInv'
    BY <1>1, TransmitIInv
  <2> QED
    BY <1>1, <2>1, TransmitPeer
<1>2. CASE LinkUp /\ got' = <<>> /\ UNCHANGED <<data_remain, buffer>>
  <2>1. IInv'
    BY <1>2, LinkUpIInv
  <2> QED
    BY <1>2, <2>1, LinkUpPeer
<1>3. CASE (Host \/ LinkLoss \/ UsbLost) /\ UNCHANGED peerVars
  <2>1. IInv'
    BY <1>3, StepIInv DEF Next, Controller
  <2>2. ASSUME NEW n \in PduLen, Send(n) PROVE PeerInv'
    <3>1. SendPdu(n) /\ conn = "open" /\ early' = early /\ early \in Nat
      BY <2>2 DEF Send, IInv, TypeOK
    <3>2. CASE link = "up"
      BY <1>3, <2>1, <3>1, <3>2, SendPduPeer
    <3>3. CASE link = "down"
      <4>1. UNCHANGED <<link, conns, lost, early>>
        BY <3>1 DEF SendPdu
      <4>2. PeerType' /\ PdusWhole' /\ data_remain' = data_remain
        BY <1>3, <4>1, SamePdus DEF PeerInv, OneFault
      <4>3. conns # 0
        BY <3>1 DEF PeerInv, ReceiverInv
      <4>4. ReceiverInv'
        BY <3>3, <4>1, <4>3 DEF ReceiverInv
      <4> QED
        BY <4>2, <4>4 DEF PeerInv
    <3> QED
      BY <3>2, <3>3 DEF IInv, TypeOK
  <2>3. ASSUME NEW n \in PduLen, SendEarly(n) PROVE PeerInv'
    <3>1. SendPdu(n) /\ conn = "idle" /\ link = "up"
          /\ early' = early + (Len(air') - Len(air))
      BY <2>3 DEF SendEarly
    <3>2. early' \in Nat
      BY <2>1 DEF IInv, TypeOK
    <3>3. early' >= early
      <4> DEFINE q == fifo \o Fragments(pdus + 1, n)
      <4>1. BufferSend(q, Int8(host_pkt_num + 1), ctrl_pkt_num)
        BY <3>1 DEF SendPdu
      <4>2. /\ pdus + 1 \in Nat /\ n \in Nat /\ host_pkt_num + 1 \in Int
            /\ fifo \in Seq(Fragment) /\ air \in Seq(Fragment) /\ early \in Nat
            /\ ctrl_pkt_num \in Int /\ ctrl_pkt_num <= MaxPkt
            /\ link \in {"down", "up"}
        BY DEF IInv, TypeOK
      <4>3. Int8(host_pkt_num + 1) \in Int
        BY <4>2, Int8Range
      <4>4. q \in Seq(Fragment)
        BY <4>2, FragmentsType, ConcatProperties
      <4> HIDE DEF q
      <4>5. Len(air') >= Len(air) /\ air' \in Seq(Fragment)
        BY <3>1, <4>1, <4>2, <4>3, <4>4, BufferSendEffect
      <4>6. Len(air) \in Nat /\ Len(air') \in Nat
        BY <4>2, <4>5, LenProperties
      <4> QED
        BY <3>1, <4>2, <4>5, <4>6
    <3> QED
      BY <1>3, <2>1, <3>1, <3>2, <3>3, SendPduPeer
  <2>4. ASSUME NEW num \in 1 .. done, PacketComp(num) PROVE PeerInv'
    BY <1>3, <2>4, PacketCompPeer
  <2>5. ASSUME ConnectionComplete PROVE PeerInv'
    BY <1>3, <2>5, ConnectionCompletePeer
  <2>6. ASSUME DisconnectionComplete \/ LinkLoss PROVE PeerInv'
    BY <1>3, <2>6, DownPeer
  <2>7. ASSUME UsbLost PROVE PeerInv'
    BY <1>3, <2>1, <2>7, UsbLostPeer
  <2> QED
    BY <1>3, <2>1, <2>2, <2>3, <2>4, <2>5, <2>6, <2>7 DEF Host
<1>4. CASE UNCHANGED allVars
  <2>1. UNCHANGED vars /\ UNCHANGED peerVars
    BY <1>4 DEF allVars
  <2>2. IInv'
    BY <2>1, StepIInv
  <2>3. UNCHANGED <<fifo, air, conn, link, evts, lost, early, conns>>
    BY <2>1 DEF vars, hostVars, ctrlVars, histVars
  <2>4. PeerType' /\ PdusWhole' /\ data_remain' = data_remain
    BY <2>1, <2>3, SamePdus DEF PeerInv, OneFault
  <2>5. Stream' = Stream
    BY <2>3 DEF Stream
  <2>6. /\ Reads(Stream)' <=> Reads(Stream)
        /\ Missed(Stream)' <=> Missed(Stream)
        /\ WillMiss(Stream)' <=> WillMiss(Stream)
        /\ Tight(Stream)' <=> Tight(Stream)
    BY <2>1, <2>5, StreamBecomes
  <2>7. ReceiverInv'
    BY <2>3, <2>4, <2>6 DEF PeerInv, ReceiverInv, OneFault
  <2> QED
    BY <2>2, <2>4, <2>7 DEF PeerInv
<1> QED
  BY <1>1, <1>2, <1>3, <1>4 DEF PeerNext

(* As long as one thing goes wrong on a link, a lost fragment, a PDU cut   *)
(* off by the connection event or one left unfinished by the link before,  *)
(* eb_hci_handler hands only whole PDUs on (eb_hci.c:25-65).               *)
THEOREM PdusArriveWhole == PeerSpec => []PdusWhole
<1>1. PeerInv => PdusWhole
  BY DEF PeerInv
<1> QED
  BY <1>1, InitPeer, StepPeer, PTL DEF PeerSpec

(* The two hosts together behave as the transmit half on its own: what is  *)
(* proved of one host holds when it talks to another.                      *)
THEOREM PeerKeepsHost == PeerSpec => Spec
<1>1. PeerInit => Init
  BY DEF PeerInit
<1>2. [PeerNext]_allVars => [Next]_vars
  BY DEF PeerNext, allVars, Next, Host, Controller
<1> QED
  BY <1>1, <1>2, PTL DEF PeerSpec, Spec

-----------------------------------------------------------------------------
(* The reliable channel.  A place in a concatenation is one of the first   *)
(* part, or lies behind all of it.                                         *)
LEMMA PrefixOfConcat ==
    ASSUME NEW s \in Seq(Fragment), NEW t \in Seq(Fragment)
    PROVE  /\ \A j \in 1 .. Len(s) : SubSeq(s \o t, 1, j) = SubSeq(s, 1, j)
           /\ \A j \in 1 .. Len(t) :
                 SubSeq(s \o t, 1, Len(s) + j) = s \o SubSeq(t, 1, j)
<1> DEFINE m == Len(s)
           n == Len(t)
           u == s \o t
<1>1. /\ m \in Nat /\ n \in Nat /\ u \in Seq(Fragment) /\ Len(u) = m + n
      /\ \A i \in 1 .. m + n : u[i] = IF i <= m THEN s[i] ELSE t[i - m]
  BY LenProperties, ConcatProperties
<1>2. /\ \A i \in 1 .. m : s[i] \in Fragment
      /\ \A i \in 1 .. n : t[i] \in Fragment
      /\ \A i \in 1 .. m + n : u[i] \in Fragment
  <2>1. \A i \in 1 .. m + n : u[i] \in Fragment
    <3> HIDE DEF u
    <3> QED
      BY <1>1, ElementOfSeq
  <2> QED
    BY <2>1, ElementOfSeq
<1> HIDE DEF u
<1>3. ASSUME NEW j \in 1 .. m PROVE SubSeq(u, 1, j) = SubSeq(s, 1, j)
  <2>1. /\ SubSeq(u, 1, j) \in Seq(Fragment) /\ Len(SubSeq(u, 1, j)) = j
        /\ \A i \in 1 .. j : SubSeq(u, 1, j)[i] = u[i]
    <3>1. \A i \in 1 .. j : u[i] \in Fragment
      BY <1>1, <1>2
    <3>2. /\ SubSeq(u, 1, j) \in Seq(Fragment)
          /\ Len(SubSeq(u, 1, j)) = IF 1 <= j THEN j - 1 + 1 ELSE 0
          /\ \A i \in 1 .. j - 1 + 1 : SubSeq(u, 1, j)[i] = u[1 + i - 1]
      BY <3>1, <1>1, SubSeqProperties
    <3> QED
      BY <1>1, <3>2
  <2>2. /\ SubSeq(s, 1, j) \in Seq(Fragment) /\ Len(SubSeq(s, 1, j)) = j
        /\ \A i \in 1 .. j : SubSeq(s, 1, j)[i] = s[i]
    <3>1. \A i \in 1 .. j : s[i] \in Fragment
      BY <1>1, <1>2
    <3>2. /\ SubSeq(s, 1, j) \in Seq(Fragment)
          /\ Len(SubSeq(s, 1, j)) = IF 1 <= j THEN j - 1 + 1 ELSE 0
          /\ \A i \in 1 .. j - 1 + 1 : SubSeq(s, 1, j)[i] = s[1 + i - 1]
      BY <3>1, <1>1, SubSeqProperties
    <3> QED
      BY <1>1, <3>2
  <2>3. \A i \in 1 .. j : u[i] = s[i]
    BY <1>1
  <2>4. \A i \in 1 .. Len(SubSeq(u, 1, j)) : SubSeq(u, 1, j)[i] = SubSeq(s, 1, j)[i]
    BY <2>1, <2>2, <2>3
  <2> QED
    BY <2>1, <2>2, <2>4, SeqEqual
<1>4. ASSUME NEW j \in 1 .. n PROVE SubSeq(u, 1, m + j) = s \o SubSeq(t, 1, j)
  <2> DEFINE a == SubSeq(u, 1, m + j)
             b == SubSeq(t, 1, j)
             c == s \o b
  <2>1. /\ a \in Seq(Fragment) /\ Len(a) = m + j
        /\ \A i \in 1 .. m + j : a[i] = u[i]
    <3>1. \A i \in 1 .. m + j : u[i] \in Fragment
      BY <1>1, <1>2
    <3>2. /\ a \in Seq(Fragment)
          /\ Len(a) = IF 1 <= m + j THEN m + j - 1 + 1 ELSE 0
          /\ \A i \in 1 .. m + j - 1 + 1 : a[i] = u[1 + i - 1]
      BY <3>1, <1>1, SubSeqProperties
    <3> HIDE DEF a
    <3> QED
      BY <1>1, <3>2
  <2>2. /\ b \in Seq(Fragment) /\ Len(b) = j
        /\ \A i \in 1 .. j : b[i] = t[i]
    <3>1. \A i \in 1 .. j : t[i] \in Fragment
      BY <1>1, <1>2
    <3>2. /\ b \in Seq(Fragment)
          /\ Len(b) = IF 1 <= j THEN j - 1 + 1 ELSE 0
          /\ \A i \in 1 .. j - 1 + 1 : b[i] = t[1 + i - 1]
      BY <3>1, <1>1, SubSeqProperties
    <3> HIDE DEF b
    <3> QED
      BY <1>1, <3>2
  <2> HIDE DEF a, b
  <2>3. /\ c \in Seq(Fragment) /\ Len(c) = m + j
        /\ \A i \in 1 .. m + j : c[i] = IF i <= m THEN s[i] ELSE b[i - m]
    BY <2>2, ConcatProperties
  <2> HIDE DEF c
  <2>4. ASSUME NEW i \in 1 .. m + j PROVE a[i] = c[i]
    <3>1. i \in 1 .. m + n /\ a[i] = u[i]
      BY <1>1, <2>1
    <3>2. CASE i <= m
      BY <1>1, <2>3, <3>1, <3>2
    <3>3. CASE i > m
      <4>1. i - m \in 1 .. j
        BY <1>1, <3>3
      <4> QED
        BY <1>1, <2>2, <2>3, <3>1, <3>3, <4>1
    <3> QED
      BY <1>1, <3>2, <3>3
  <2>5. a = c
    BY <2>1, <2>3, <2>4, SeqEqual
  <2> QED
    BY <2>5 DEF a, b, c
<1> QED
  BY <1>3, <1>4 DEF u

(* Up to a place there are no more ends than in all, and behind an end     *)
(* there is one.                                                           *)
LEMMA EndsUpTo ==
    ASSUME NEW s \in Seq(Fragment), NEW j \in 1 .. Len(s)
    PROVE  /\ SubSeq(s, 1, j) \in Seq(Fragment)
           /\ Ends(SubSeq(s, 1, j)) \in Nat /\ Ends(SubSeq(s, 1, j)) <= Ends(s)
           /\ s[j].last => Ends(SubSeq(s, 1, j)) >= 1
<1> DEFINE a == SubSeq(s, 1, j)
           b == SubSeq(s, j + 1, Len(s))
<1>1. Len(s) \in Nat /\ j \in 0 .. Len(s) /\ \A i \in 1 .. j : s[i] \in Fragment
  BY LenProperties, ElementOfSeq
<1>2. /\ a \in Seq(Fragment) /\ b \in Seq(Fragment) /\ a \o b = s /\ Len(a) = j
  BY <1>1, SplitQueue
<1>3. a[j] = s[j]
  <2>1. \A i \in 1 .. j - 1 + 1 : a[i] = s[1 + i - 1]
    BY <1>1, SubSeqProperties
  <2> HIDE DEF a
  <2> QED
    BY <1>1, <2>1
<1> HIDE DEF a, b
<1>4. Ends(a) \in Nat /\ Ends(b) \in Nat /\ Ends(s) = Ends(a) + Ends(b)
  BY <1>2, EndsType, EndsConcat
<1>5. ASSUME s[j].last PROVE Ends(a) # 0
  <2>1. DOMAIN a = 1 .. j /\ IsFiniteSet(1 .. j)
    BY <1>1, <1>2, LenProperties, FS_Interval
  <2>2. j \in {i \in DOMAIN a : a[i].last} /\ IsFiniteSet({i \in DOMAIN a : a[i].last})
    BY <1>1, <1>3, <1>5, <2>1, FS_Subset
  <2>3. Cardinality({i \in DOMAIN a : a[i].last}) # 0
    BY <2>2, FS_EmptySet
  <2> QED
    BY <2>3 DEF Ends
<1> QED
  BY <1>2, <1>4, <1>5 DEF a

(* A queue has no ends but those it has.                                   *)
LEMMA NoOtherEnds ==
    ASSUME NEW s \in Seq(Fragment), NEW k \in Int, k < 1 \/ k > Ends(s)
    PROVE  PdusEnding(s, k) = {}
<1>1. DOMAIN s = 1 .. Len(s) /\ Ends(s) \in Nat
  BY LenProperties, EndsType
<1>2. \A j \in DOMAIN s : ~(s[j].last /\ Ends(SubSeq(s, 1, j)) = k)
  BY <1>1, EndsUpTo
<1> QED
  BY <1>2 DEF PdusEnding

(* The PDUs that end in a concatenation are those of the first part, and   *)
(* then those of the second.                                               *)
LEMMA EndingConcat ==
    ASSUME NEW s \in Seq(Fragment), NEW t \in Seq(Fragment), NEW k \in Int
    PROVE  PdusEnding(s \o t, k) = PdusEnding(s, k) \cup PdusEnding(t, k - Ends(s))
<1> DEFINE m == Len(s)
           n == Len(t)
           u == s \o t
           At(w, i, h) == w[i].last /\ Ends(SubSeq(w, 1, i)) = h
<1>1. /\ m \in Nat /\ n \in Nat /\ u \in Seq(Fragment) /\ Len(u) = m + n
      /\ DOMAIN s = 1 .. m /\ DOMAIN t = 1 .. n /\ DOMAIN u = 1 .. m + n
      /\ \A i \in 1 .. m + n : u[i] = IF i <= m THEN s[i] ELSE t[i - m]
      /\ Ends(s) \in Nat
  <2>1. u \in Seq(Fragment) /\ Len(u) = m + n
    BY ConcatProperties
  <2>2. \A i \in 1 .. m + n : u[i] = IF i <= m THEN s[i] ELSE t[i - m]
    BY ConcatProperties
  <2> QED
    BY <2>1, <2>2, LenProperties, EndsType
<1>2. ASSUME NEW i \in 1 .. m
      PROVE  u[i] = s[i] /\ (At(u, i, k) <=> At(s, i, k))
  <2>1. u[i] = s[i]
    BY <1>1
  <2>2. SubSeq(u, 1, i) = SubSeq(s, 1, i)
    BY PrefixOfConcat
  <2> HIDE DEF u
  <2> QED
    BY <2>1, <2>2
<1>3. ASSUME NEW i \in 1 .. n
      PROVE  u[m + i] = t[i] /\ (At(u, m + i, k) <=> At(t, i, k - Ends(s)))
  <2>1. u[m + i] = t[i]
    <3> HIDE DEF u, m, n
    <3>1. m + i \in 1 .. m + n /\ ~(m + i <= m) /\ (m + i) - m = i
      BY <1>1
    <3> QED
      BY <1>1, <3>1
  <2>2. SubSeq(u, 1, m + i) = s \o SubSeq(t, 1, i)
    BY PrefixOfConcat
  <2>3. SubSeq(t, 1, i) \in Seq(Fragment) /\ Ends(SubSeq(t, 1, i)) \in Nat
    BY EndsUpTo
  <2>4. Ends(SubSeq(u, 1, m + i)) = Ends(s) + Ends(SubSeq(t, 1, i))
    BY <2>2, <2>3, EndsConcat
  <2> HIDE DEF u
  <2> QED
    BY <1>1, <2>1, <2>3, <2>4
<1>4. /\ PdusEnding(u, k) = {u[i].pdu : i \in {j \in DOMAIN u : At(u, j, k)}}
      /\ PdusEnding(s, k) = {s[i].pdu : i \in {j \in DOMAIN s : At(s, j, k)}}
      /\ PdusEnding(t, k - Ends(s)) =
            {t[i].pdu : i \in {j \in DOMAIN t : At(t, j, k - Ends(s))}}
  BY DEF PdusEnding
<1> HIDE DEF At, u, m, n
<1>5. ASSUME NEW p \in PdusEnding(u, k)
      PROVE  p \in PdusEnding(s, k) \cup PdusEnding(t, k - Ends(s))
  <2>1. PICK i \in 1 .. m + n : At(u, i, k) /\ p = u[i].pdu
    BY <1>1, <1>4
  <2>2. CASE i <= m
    <3>1. i \in 1 .. m
      BY <1>1, <2>2
    <3>2. At(s, i, k) /\ p = s[i].pdu
      BY <1>2, <2>1, <3>1
    <3> QED
      BY <1>1, <1>4, <3>1, <3>2
  <2>3. CASE i > m
    <3>1. i - m \in 1 .. n /\ m + (i - m) = i
      BY <1>1, <2>3
    <3>2. At(t, i - m, k - Ends(s)) /\ p = t[i - m].pdu
      BY <1>3, <2>1, <3>1
    <3> QED
      BY <1>1, <1>4, <3>1, <3>2
  <2> QED
    BY <1>1, <2>2, <2>3
<1>6. ASSUME NEW p \in PdusEnding(s, k) PROVE p \in PdusEnding(u, k)
  <2>1. PICK i \in 1 .. m : At(s, i, k) /\ p = s[i].pdu
    BY <1>1, <1>4
  <2>2. i \in 1 .. m + n /\ At(u, i, k) /\ p = u[i].pdu
    BY <1>1, <1>2, <2>1
  <2> QED
    BY <1>1, <1>4, <2>2
<1>7. ASSUME NEW p \in PdusEnding(t, k - Ends(s)) PROVE p \in PdusEnding(u, k)
  <2>1. PICK i \in 1 .. n : At(t, i, k - Ends(s)) /\ p = t[i].pdu
    BY <1>1, <1>4
  <2>2. m + i \in 1 .. m + n /\ At(u, m + i, k) /\ p = u[m + i].pdu
    BY <1>1, <1>3, <2>1
  <2> QED
    BY <1>1, <1>4, <2>2
<1>8. PdusEnding(u, k) = PdusEnding(s, k) \cup PdusEnding(t, k - Ends(s))
  BY <1>5, <1>6, <1>7
<1> QED
  BY <1>8 DEF u

LEMMA EndedType ==
    ASSUME NEW s \in Seq(Fragment), NEW S,
           \A k \in 1 .. Ends(s) : EndedPdus(s)[k] \in S
    PROVE  EndedPdus(s) \in Seq(S) /\ Len(EndedPdus(s)) = Ends(s)
<1> DEFINE e == EndedPdus(s)
           n == Ends(s)
<1>1. n \in Nat
  BY EndsType
<1>2. e = [k \in 1 .. n |-> CHOOSE p \in PdusEnding(s, k) : TRUE]
  BY DEF EndedPdus
<1>3. DOMAIN e = 1 .. n /\ e = [k \in 1 .. n |-> e[k]]
  BY <1>2
<1> HIDE DEF e, n
<1>4. e \in [1 .. n -> S]
  BY <1>3 DEF e, n
<1>5. e \in Seq(S)
  BY <1>1, <1>4
<1>6. Len(e) = n
  BY <1>1, <1>3, <1>5
<1> QED
  BY <1>5, <1>6 DEF e, n

LEMMA EndedConcat ==
    ASSUME NEW s \in Seq(Fragment), NEW t \in Seq(Fragment)
    PROVE  EndedPdus(s \o t) = EndedPdus(s) \o EndedPdus(t)
<1> DEFINE a == EndedPdus(s)
           b == EndedPdus(t)
           u == s \o t
           c == EndedPdus(u)
           m == Ends(s)
           n == Ends(t)
           S == {a[k] : k \in 1 .. m} \cup {b[k] : k \in 1 .. n}
<1>1. /\ m \in Nat /\ n \in Nat /\ u \in Seq(Fragment) /\ Ends(u) = m + n
  BY EndsType, EndsConcat, ConcatProperties
<1>2. a \in Seq(S) /\ Len(a) = m
  <2>1. \A k \in 1 .. m : a[k] \in S
    OBVIOUS
  <2> HIDE DEF S
  <2> QED
    BY <2>1, EndedType
<1>3. b \in Seq(S) /\ Len(b) = n
  <2>1. \A k \in 1 .. n : b[k] \in S
    OBVIOUS
  <2> HIDE DEF S
  <2> QED
    BY <2>1, EndedType
<1>4. ASSUME NEW k \in 1 .. m PROVE c[k] = a[k]
  <2>1. k \in 1 .. m + n /\ k \in Int /\ k - m \in Int /\ k - m < 1
    BY <1>1
  <2>2. PdusEnding(t, k - m) = {}
    BY <2>1, NoOtherEnds
  <2>3. PdusEnding(u, k) = PdusEnding(s, k) \cup PdusEnding(t, k - m)
    BY <2>1, EndingConcat
  <2>4. c[k] = CHOOSE p \in PdusEnding(u, k) : TRUE
    <3> HIDE DEF u, m, n
    <3> QED
      BY <1>1, <2>1 DEF EndedPdus
  <2>5. a[k] = CHOOSE p \in PdusEnding(s, k) : TRUE
    BY DEF EndedPdus
  <2> HIDE DEF a, c, m, u
  <2>6. PdusEnding(u, k) = PdusEnding(s, k)
    BY <2>2, <2>3
  <2> QED
    BY <2>4, <2>5, <2>6
<1>5. ASSUME NEW k \in m + 1 .. m + n PROVE c[k] = b[k - m]
  <2>1. k \in 1 .. m + n /\ k \in Int /\ k - m \in 1 .. n /\ k > m
    BY <1>1
  <2>2. PdusEnding(s, k) = {}
    BY <2>1, NoOtherEnds
  <2>3. PdusEnding(u, k) = PdusEnding(s, k) \cup PdusEnding(t, k - m)
    BY <2>1, EndingConcat
  <2>4. c[k] = CHOOSE p \in PdusEnding(u, k) : TRUE
    <3> HIDE DEF u, m, n
    <3> QED
      BY <1>1, <2>1 DEF EndedPdus
  <2>5. b[k - m] = CHOOSE p \in PdusEnding(t, k - m) : TRUE
    BY <2>1 DEF EndedPdus
  <2> HIDE DEF b, c, m, u
  <2>6. PdusEnding(u, k) = PdusEnding(t, k - m)
    BY <2>2, <2>3
  <2> QED
    BY <2>4, <2>5, <2>6
<1>6. \A k \in 1 .. m : a[k] \in S
  OBVIOUS
<1>7. \A k \in 1 .. n : b[k] \in S
  OBVIOUS
<1> HIDE DEF S
<1>8. c \in Seq(S) /\ Len(c) = m + n
  <2>1. ASSUME NEW k \in 1 .. m + n PROVE c[k] \in S
    <3>1. CASE k <= m
      <4>1. k \in 1 .. m
        BY <1>1, <3>1
      <4> QED
        BY <1>4, <1>6, <4>1
    <3>2. CASE k > m
      <4>1. k \in m + 1 .. m + n /\ k - m \in 1 .. n
        BY <1>1, <3>2
      <4> QED
        BY <1>5, <1>7, <4>1
    <3> QED
      BY <1>1, <3>1, <3>2
  <2> HIDE DEF u
  <2> QED
    BY <1>1, <2>1, EndedType
<1> DEFINE d == a \o b
<1>9. /\ d \in Seq(S) /\ Len(d) = m + n
      /\ \A k \in 1 .. m + n : d[k] = IF k <= m THEN a[k] ELSE b[k - m]
  <2> HIDE DEF a, b, m, n
  <2> QED
    BY <1>2, <1>3, ConcatProperties
<1>10. c = d
  <2>1. ASSUME NEW k \in 1 .. m + n PROVE c[k] = d[k]
    <3>1. CASE k <= m
      <4>1. k \in 1 .. m
        BY <1>1, <3>1
      <4> QED
        BY <1>4, <1>9, <3>1, <4>1
    <3>2. CASE k > m
      <4>1. k \in m + 1 .. m + n /\ ~(k <= m)
        BY <1>1, <3>2
      <4>2. c[k] = b[k - m]
        BY <1>5, <4>1
      <4>3. d[k] = b[k - m]
        <5> HIDE DEF a, b, d, m, n
        <5> QED
          BY <1>9, <4>1
      <4> HIDE DEF b, c, d, m
      <4> QED
        BY <4>2, <4>3
    <3>3. k <= m \/ k > m
      BY <1>1
    <3> HIDE DEF c, d, m
    <3> QED
      BY <3>1, <3>2, <3>3
  <2> HIDE DEF a, b, c, d, m, n
  <2> QED
    BY <1>8, <1>9, <2>1, SeqEqual
<1> QED
  BY <1>10

LEMMA EndedEmpty == EndedPdus(<<>>) = <<>>
<1>1. <<>> \in Seq(Fragment)
  BY EmptySeq
<1>2. EndedPdus(<<>>) \in Seq({}) /\ Len(EndedPdus(<<>>)) = 0
  <2>1. 1 .. Ends(<<>>) = {}
    BY EndsEmpty
  <2> QED
    BY <1>1, <2>1, EndsEmpty, EndedType
<1> QED
  BY <1>2, EmptySeq

(* A single fragment ends its PDU or none.                                 *)
LEMMA EndedSingle ==
    ASSUME NEW f \in Fragment
    PROVE  EndedPdus(<<f>>) = IF f.last THEN <<f.pdu>> ELSE <<>>
<1> DEFINE s == <<f>>
<1>1. s \in Seq(Fragment) /\ Len(s) = 1 /\ DOMAIN s = {1} /\ s[1] = f
  OBVIOUS
<1> HIDE DEF s
<1>2. {i \in DOMAIN s : s[i].last} = IF f.last THEN {1} ELSE {}
  BY <1>1
<1>3. Ends(s) = IF f.last THEN 1 ELSE 0
  BY <1>2, FS_Singleton, FS_EmptySet DEF Ends
<1>4. CASE ~f.last
  <2>1. EndedPdus(s) \in Seq({}) /\ Len(EndedPdus(s)) = 0
    BY <1>1, <1>3, <1>4, EndedType
  <2>2. EndedPdus(s) = <<>>
    BY <2>1, EmptySeq
  <2> QED
    BY <1>4, <2>2 DEF s
<1>5. CASE f.last
  <2>1. SubSeq(s, 1, 1) = s
    BY <1>1, SubSeqFull
  <2>2. PdusEnding(s, 1) = {f.pdu}
    BY <1>1, <1>3, <1>5, <2>1 DEF PdusEnding
  <2>3. EndedPdus(s)[1] = f.pdu
    BY <1>3, <1>5, <2>2 DEF EndedPdus
  <2>4. EndedPdus(s) \in Seq({f.pdu}) /\ Len(EndedPdus(s)) = 1
    BY <1>1, <1>3, <1>5, <2>3, EndedType
  <2>5. /\ <<f.pdu>> \in Seq({f.pdu}) /\ Len(<<f.pdu>>) = 1 /\ <<f.pdu>>[1] = f.pdu
    OBVIOUS
  <2>6. EndedPdus(s) = <<f.pdu>>
    BY <2>3, <2>4, <2>5, SeqEqual
  <2> QED
    BY <1>5, <2>6 DEF s
<1> QED
  BY <1>4, <1>5

(* The fragments of a PDU end that PDU and no other.                       *)
LEMMA EndedPdu ==
    ASSUME NEW p \in Nat, NEW n \in Nat
    PROVE  EndedPdus(Fragments(p, n)) = <<p>>
<1> DEFINE N == NumFrags(n)
           fr == Fragments(p, n)
<1>1. N \in Nat \ {0} /\ Ends(fr) = 1 /\ fr \in Seq(Fragment)
  BY NumFragsBounds, EndsOfPdu, FragmentsType
<1>2. /\ DOMAIN fr = 1 .. N /\ Len(fr) = N
      /\ \A i \in 1 .. N : fr[i].pdu = p /\ (fr[i].last <=> i = N)
  <2>1. DOMAIN fr = 1 .. N /\ \A i \in 1 .. N : fr[i].pdu = p /\ (fr[i].last <=> i = N)
    BY DEF Fragments, Frag
  <2> HIDE DEF fr, N
  <2> QED
    BY <1>1, <2>1, LenProperties
<1> HIDE DEF fr, N
<1>3. SubSeq(fr, 1, N) = fr
  BY <1>1, <1>2, SubSeqFull
<1>4. {j \in DOMAIN fr : fr[j].last /\ Ends(SubSeq(fr, 1, j)) = 1} = {N}
  <2>1. N \in DOMAIN fr /\ fr[N].last
    BY <1>1, <1>2
  <2>2. Ends(SubSeq(fr, 1, N)) = 1
    BY <1>1, <1>3
  <2>3. \A j \in DOMAIN fr : fr[j].last => j = N
    BY <1>2
  <2> QED
    BY <2>1, <2>2, <2>3
<1>5. PdusEnding(fr, 1) = {p}
  BY <1>1, <1>2, <1>4 DEF PdusEnding
<1>6. EndedPdus(fr)[1] = p
  BY <1>1, <1>5 DEF EndedPdus
<1>7. EndedPdus(fr) \in Seq({p}) /\ Len(EndedPdus(fr)) = 1
  <2>1. \A k \in 1 .. Ends(fr) : EndedPdus(fr)[k] \in {p}
    BY <1>1, <1>6
  <2> QED
    BY <1>1, <2>1, EndedType
<1>8. <<p>> \in Seq({p}) /\ Len(<<p>>) = 1 /\ <<p>>[1] = p
  OBVIOUS
<1>9. EndedPdus(fr) = <<p>>
  BY <1>6, <1>7, <1>8, SeqEqual
<1> QED
  BY <1>9 DEF fr

-----------------------------------------------------------------------------
(* What is underway and what has arrived are sequences.                    *)
LEMMA EndedIsSeq ==
    ASSUME NEW s \in Seq(Fragment)
    PROVE  \E S : EndedPdus(s) \in Seq(S)
<1> DEFINE S == {EndedPdus(s)[k] : k \in 1 .. Ends(s)}
<1>1. \A k \in 1 .. Ends(s) : EndedPdus(s)[k] \in S
  OBVIOUS
<1> HIDE DEF S
<1>2. EndedPdus(s) \in Seq(S)
  BY <1>1, EndedType
<1> QED
  BY <1>2

LEMMA BegunAppend ==
    ASSUME NEW g \in Seq(Seq(Fragment)), NEW b \in Seq(Fragment)
    PROVE  Begun(Append(g, b)) = Append(Begun(g), b[1].pdu)
<1> DEFINE n == Len(g)
           h == Append(g, b)
           S == {g[i][1].pdu : i \in 1 .. n} \cup {b[1].pdu}
           e == Begun(g)
           c == Begun(h)
           d == Append(e, b[1].pdu)
<1>1. n \in Nat /\ DOMAIN g = 1 .. n
  BY LenProperties
<1>2. /\ h \in Seq(Seq(Fragment)) /\ Len(h) = n + 1
      /\ \A i \in 1 .. n : h[i] = g[i]
      /\ h[n + 1] = b
  BY AppendProperties
<1> HIDE DEF h
<1>3. DOMAIN h = 1 .. n + 1
  BY <1>2, LenProperties
<1>4. b[1].pdu \in S /\ \A i \in 1 .. n : g[i][1].pdu \in S
  OBVIOUS
<1> HIDE DEF S
<1>5. e \in Seq(S) /\ Len(e) = n /\ \A i \in 1 .. n : e[i] = g[i][1].pdu
  <2>1. e = [i \in 1 .. n |-> g[i][1].pdu]
    BY <1>1 DEF Begun
  <2> HIDE DEF e
  <2>2. e \in Seq(S)
    BY <1>1, <1>4, <2>1, IsASeq
  <2>3. Len(e) = n
    BY <1>1, <2>1, <2>2, LenProperties
  <2> QED
    BY <2>1, <2>2, <2>3
<1>6. c \in Seq(S) /\ Len(c) = n + 1 /\ \A i \in 1 .. n + 1 : c[i] = h[i][1].pdu
  <2>1. c = [i \in 1 .. n + 1 |-> h[i][1].pdu]
    BY <1>3 DEF Begun
  <2>2. \A i \in 1 .. n + 1 : h[i][1].pdu \in S
    <3> SUFFICES ASSUME NEW i \in 1 .. n + 1 PROVE h[i][1].pdu \in S
      OBVIOUS
    <3>1. CASE i = n + 1
      BY <1>2, <1>4, <3>1
    <3>2. CASE i # n + 1
      <4>1. i \in 1 .. n
        BY <1>1, <3>2
      <4> QED
        BY <1>2, <1>4, <4>1
    <3> QED
      BY <3>1, <3>2
  <2> HIDE DEF c
  <2>3. c \in Seq(S)
    <3>1. n + 1 \in Nat
      BY <1>1
    <3> QED
      BY <2>1, <2>2, <3>1, IsASeq
  <2>4. Len(c) = n + 1
    BY <1>1, <2>1, <2>3, LenProperties
  <2> QED
    BY <2>1, <2>3, <2>4
<1> HIDE DEF c, e
<1>7. /\ d \in Seq(S) /\ Len(d) = n + 1
      /\ \A i \in 1 .. n : d[i] = e[i]
      /\ d[n + 1] = b[1].pdu
  BY <1>4, <1>5, AppendProperties
<1> HIDE DEF d
<1>8. ASSUME NEW i \in 1 .. n + 1 PROVE c[i] = d[i]
  <2>1. CASE i = n + 1
    BY <1>2, <1>6, <1>7, <2>1
  <2>2. CASE i # n + 1
    <3>1. i \in 1 .. n
      BY <1>1, <2>2
    <3>2. c[i] = h[i][1].pdu /\ h[i] = g[i]
      BY <1>2, <1>6, <3>1
    <3>3. d[i] = e[i] /\ e[i] = g[i][1].pdu
      BY <1>5, <1>7, <3>1
    <3> QED
      BY <3>2, <3>3
  <2> QED
    BY <2>1, <2>2
<1>9. c = d
  BY <1>6, <1>7, <1>8, SeqEqual
<1> QED
  BY <1>9 DEF c, d, e, h

LEMMA BegunEmpty == Begun(<<>>) = <<>>
<1>1. DOMAIN <<>> = {}
  BY EmptySeq, LenProperties
<1>2. Begun(<<>>) = [i \in 1 .. 0 |-> <<>>[i][1].pdu]
  BY <1>1 DEF Begun
<1> QED
  BY <1>2

(* A receiver in step hands a PDU on with the last fragment of that PDU,   *)
(* and only then.                                                          *)
LEMMA ReceivedLast ==
    ASSUME PeerType, NEW f \in Fragment, IsFrag(f), Synced(f), Receive(f)
    PROVE  /\ f.last => /\ got' = Append(got, buffer') /\ buffer' \in Seq(Fragment)
                        /\ buffer'[1].pdu = f.pdu
           /\ ~f.last => got' = got
<1> DEFINE p == f.pdu
           n == f.total
           N == NumFrags(n)
<1>1. p \in Nat /\ n \in Nat /\ N \in Nat \ {0} /\ f.len \in Int
  BY FragmentKinds, NumFragsBounds
<1>2. PICK i \in 1 .. N : f = Frag(p, n, i)
  BY DEF IsFrag
<1> HIDE DEF p, n, N
<1>3. /\ f.off = (i - 1) * AclMax /\ f.off \in Nat /\ f.len \in Nat /\ f.len <= n - f.off
      /\ f.last <=> i = N
      /\ f.pb = "start" <=> i = 1
      /\ f.pb = "cont" <=> i # 1
      /\ i < N => f.len < n - f.off
      /\ i = N => f.len = n - f.off
  <2>1. i \in 1 .. NumFrags(n)
    BY DEF N
  <2>2. LET e == Frag(p, n, i)
        IN  /\ e.off = (i - 1) * AclMax /\ e.off \in Nat /\ e.len \in Nat
            /\ e.len <= n - e.off
            /\ e.last <=> i = NumFrags(n)
            /\ e.pb = "start" <=> i = 1
            /\ e.pb = "cont" <=> i # 1
            /\ i < NumFrags(n) => e.len = AclMax /\ e.len < n - e.off
            /\ i = NumFrags(n) => e.len = n - e.off
    BY <1>1, <2>1, FragBounds
  <2> QED
    BY <1>2, <2>2 DEF N
<1>4. f.last <=> f.len = n - f.off
  BY <1>1, <1>3
<1>5. buffer' = Stored(f) => buffer' \in Seq(Fragment)
  <2>1. <<f>> \in Seq(Fragment) /\ Append(buffer, f) \in Seq(Fragment)
    BY AppendProperties DEF PeerType
  <2> QED
    BY <2>1 DEF Stored
<1>6. CASE f.pb = "start"
  <2>1. f.off = 0
    BY <1>3, <1>6
  <2>2. /\ data_remain' = n - f.len /\ buffer' = <<f>>
        /\ got' = IF data_remain' = 0 THEN Append(got, buffer') ELSE got
    BY <1>6 DEF Receive, Fits, Stored, n
  <2>3. f.last <=> data_remain' = 0
    BY <1>1, <1>3, <1>4, <2>1, <2>2
  <2>4. buffer'[1].pdu = f.pdu
    BY <2>2
  <2> QED
    BY <1>5, <1>6, <2>2, <2>3, <2>4 DEF Stored
<1>7. CASE f.pb = "cont"
  <2>1. PICK k \in 2 .. N : /\ f = Frag(p, n, k)
                            /\ buffer = [j \in 1 .. k - 1 |-> Frag(p, n, j)]
                            /\ data_remain = n - (k - 1) * AclMax
    BY <1>7 DEF Synced, p, n, N
  <2>2. f.off = (k - 1) * AclMax
    BY <2>1 DEF Frag
  <2>3. data_remain = n - f.off
    BY <2>1, <2>2
  <2>4. Fits(f) /\ f.pb # "start"
    BY <1>3, <1>7, <2>3 DEF Fits
  <2>5. /\ data_remain' = data_remain - f.len /\ buffer' = Append(buffer, f)
        /\ got' = IF data_remain' = 0 THEN Append(got, buffer') ELSE got
    BY <2>4 DEF Receive, Stored
  <2>6. f.last <=> data_remain' = 0
    BY <1>1, <1>3, <1>4, <2>3, <2>5
  <2>7. buffer'[1].pdu = f.pdu
    <3>1. k - 1 \in Nat /\ 1 \in 1 .. k - 1 /\ buffer \in Seq(Fragment)
      BY <1>1, <2>1 DEF PeerType
    <3>2. Len(buffer) = k - 1 /\ buffer[1] = Frag(p, n, 1)
      <4>1. DOMAIN buffer = 1 .. k - 1 /\ buffer[1] = Frag(p, n, 1)
        BY <2>1, <3>1
      <4> QED
        BY <3>1, <4>1, LenProperties
    <3>3. buffer'[1] = buffer[1]
      BY <2>5, <3>1, <3>2, AppendProperties
    <3>4. Frag(p, n, 1).pdu = p
      BY DEF Frag
    <3> QED
      BY <3>2, <3>3, <3>4 DEF p
  <2>8. buffer' = Stored(f)
    BY <2>4, <2>5 DEF Stored
  <2> QED
    BY <1>5, <2>5, <2>6, <2>7, <2>8
<1> QED
  BY <1>6, <1>7, FragmentKinds

-----------------------------------------------------------------------------
(* A link on which nothing was sent early has brought nothing before the   *)
(* host hears of it.                                                       *)
Fresh == link = "up" /\ conn = "idle" /\ early = 0 => got = <<>>

LEMMA StepFresh ==
    ASSUME IInv, IInv', Fresh, [PeerNext]_allVars
    PROVE  Fresh'
<1>1. CASE Transmit /\ Receive(Head(air))
  <2>1. air # <<>> /\ UNCHANGED <<link, conn, early>>
    BY <1>1 DEF Transmit, hostVars, histVars
  <2> QED
    BY <2>1, Faults DEF Fresh
<1>2. CASE LinkUp /\ got' = <<>> /\ UNCHANGED <<data_remain, buffer>>
  BY <1>2 DEF Fresh
<1>3. CASE (Host \/ LinkLoss \/ UsbLost) /\ UNCHANGED peerVars
  <2>1. got' = got
    BY <1>3 DEF peerVars
  <2>2. ASSUME NEW n \in PduLen, Send(n) PROVE Fresh'
    BY <2>2 DEF Send, SendPdu, Fresh
  <2>3. ASSUME NEW n \in PduLen, SendEarly(n) PROVE Fresh'
    <3>1. /\ SendPdu(n) /\ link = "up" /\ UNCHANGED <<link, conn>>
          /\ early' = early + (Len(air') - Len(air))
      BY <2>3 DEF SendEarly, SendPdu
    <3>2. BufferSend(fifo \o Fragments(pdus + 1, n), Int8(host_pkt_num + 1), ctrl_pkt_num)
      BY <3>1 DEF SendPdu
    <3>3. early' = 0 => early = 0
      <4> DEFINE q == fifo \o Fragments(pdus + 1, n)
      <4>1. /\ pdus + 1 \in Nat /\ n \in Nat /\ host_pkt_num + 1 \in Int
            /\ fifo \in Seq(Fragment) /\ air \in Seq(Fragment) /\ early \in Nat
            /\ ctrl_pkt_num \in Int /\ ctrl_pkt_num <= MaxPkt
            /\ link \in {"down", "up"}
        BY DEF IInv, TypeOK
      <4>2. Int8(host_pkt_num + 1) \in Int
        BY <4>1, Int8Range
      <4>3. q \in Seq(Fragment)
        BY <4>1, FragmentsType, ConcatProperties
      <4> HIDE DEF q
      <4>4. Len(air') >= Len(air) /\ air' \in Seq(Fragment)
        BY <3>1, <3>2, <4>1, <4>2, <4>3, BufferSendEffect DEF q
      <4>5. Len(air) \in Nat /\ Len(air') \in Nat
        BY <4>1, <4>4, LenProperties
      <4> QED
        BY <3>1, <4>1, <4>4, <4>5
    <3> QED
      BY <2>1, <3>1, <3>3 DEF Fresh
  <2>4. ASSUME NEW num \in 1 .. done, PacketComp(num) PROVE Fresh'
    BY <2>1, <2>4 DEF PacketComp, histVars, Fresh
  <2>5. ASSUME ConnectionComplete PROVE Fresh'
    BY <2>5 DEF ConnectionComplete, Fresh
  <2>6. ASSUME DisconnectionComplete \/ LinkLoss PROVE Fresh'
    <3>1. link' # "up"
      BY <2>6, LinkEvents DEF DisconnectionComplete, LinkLoss, IInv, Views
    <3> QED
      BY <3>1 DEF Fresh
  <2>7. ASSUME UsbLost PROVE Fresh'
    BY <2>1, <2>7 DEF UsbLost, hostVars, Fresh
  <2> QED
    BY <1>3, <2>2, <2>3, <2>4, <2>5, <2>6, <2>7 DEF Host
<1>4. CASE UNCHANGED allVars
  BY <1>4 DEF allVars, peerVars, vars, hostVars, ctrlVars, histVars, Fresh
<1> QED
  BY <1>1, <1>2, <1>3, <1>4 DEF PeerNext

(* The steps of the channel, as they are seen from the two hosts.          *)
LEMMA ChannelClosed ==
    ASSUME ~Reliable, ~Reliable'
    PROVE  UNCHANGED Channel!vars
<1>1. Reliable' = Reliable
  BY DEF Reliable, Live
<1>2. Underway' = Underway /\ Arrived' = Arrived
  BY DEF Underway, Arrived
<1> QED
  BY <1>1, <1>2 DEF Channel!vars

LEMMA ChannelSame ==
    ASSUME Reliable, Reliable', EndedPdus(Stream)' = EndedPdus(Stream), got' = got
    PROVE  UNCHANGED Channel!vars
<1>1. Reliable' = Reliable
  BY DEF Reliable, Live
<1>2. Underway' = Underway /\ Arrived' = Arrived
  BY DEF Underway, Arrived, Stream, Begun
<1> QED
  BY <1>1, <1>2 DEF Channel!vars

LEMMA ChannelCloses ==
    ASSUME Reliable, ~Reliable'
    PROVE  Channel!Close
<1>1. Reliable = TRUE /\ Reliable' = FALSE
  BY DEF Reliable, Live
<1>2. Underway' = <<>> /\ Arrived' = <<>>
  BY DEF Underway, Arrived
<1> QED
  BY <1>1, <1>2 DEF Channel!Close

LEMMA ChannelOpens ==
    ASSUME ~Reliable, Reliable', EndedPdus(Stream)' = <<>>, Begun(got)' = <<>>
    PROVE  Channel!Open
<1>1. Underway' = <<>> /\ Arrived' = <<>>
  BY DEF Underway, Arrived, Stream
<1>2. Reliable' = TRUE
  BY DEF Reliable, Live
<1> QED
  BY <1>1, <1>2 DEF Channel!Open

LEMMA ChannelSends ==
    ASSUME Reliable, Reliable', NEW p \in 1 .. MaxPdus, got' = got,
           EndedPdus(Stream)' = Append(EndedPdus(Stream), p)
    PROVE  Channel!Next
<1>1. Underway' = Append(Underway, p)
  BY DEF Underway, Stream
<1>2. Arrived' = Arrived
  BY DEF Arrived, Begun
<1>3. Reliable' = Reliable
  BY DEF Reliable, Live
<1>4. Channel!Send(p)
  BY <1>1, <1>2, <1>3 DEF Channel!Send
<1> QED
  BY <1>4 DEF Channel!Next

LEMMA ChannelDelivers ==
    ASSUME Reliable, Reliable', NEW p, NEW S, NEW e \in Seq(S), p \in S,
           EndedPdus(Stream) = <<p>> \o e, EndedPdus(Stream)' = e,
           Begun(got)' = Append(Begun(got), p)
    PROVE  Channel!Deliver
<1>1. Underway = <<p>> \o e /\ Underway' = e
  BY DEF Underway, Stream
<1>2. Arrived = Begun(got) /\ Arrived' = Begun(got)'
  BY DEF Arrived
<1>3. Reliable' = Reliable
  BY DEF Reliable, Live
<1>4. <<p>> \o e # <<>> /\ Head(<<p>> \o e) = p /\ Tail(<<p>> \o e) = e
  <2> DEFINE q == <<p>> \o e
  <2>1. <<p>> \in Seq(S) /\ Len(<<p>>) = 1 /\ <<p>>[1] = p /\ Len(e) \in Nat
    BY LenProperties
  <2>2. /\ q \in Seq(S) /\ Len(q) = 1 + Len(e)
        /\ \A i \in 1 .. 1 + Len(e) : q[i] = IF i <= 1 THEN <<p>>[i] ELSE e[i - 1]
    BY <2>1, ConcatProperties
  <2> HIDE DEF q
  <2>3. q # <<>>
    BY <2>1, <2>2, EmptySeq
  <2>4. /\ Tail(q) \in Seq(S) /\ Len(Tail(q)) = Len(q) - 1
        /\ \A i \in 1 .. Len(Tail(q)) : Tail(q)[i] = q[i + 1]
    BY <2>2, <2>3, HeadTailProperties
  <2>5. \A i \in 1 .. Len(e) : Tail(q)[i] = e[i]
    <3> SUFFICES ASSUME NEW i \in 1 .. Len(e) PROVE Tail(q)[i] = e[i]
      OBVIOUS
    <3>1. i + 1 \in 1 .. 1 + Len(e) /\ ~(i + 1 <= 1) /\ (i + 1) - 1 = i
          /\ i \in 1 .. Len(Tail(q))
      BY <2>1, <2>2, <2>4
    <3> QED
      BY <2>2, <2>4, <3>1
  <2>6. Tail(q) = e
    <3>1. Len(Tail(q)) = Len(e)
      BY <2>1, <2>2, <2>4
    <3> QED
      BY <2>4, <2>5, <3>1, SeqEqual
  <2>7. Head(q) = p
    <3>1. Head(q) = q[1] /\ 1 \in 1 .. 1 + Len(e)
      BY <2>1, <2>2, <2>3
    <3> QED
      BY <2>1, <2>2, <3>1
  <2> QED
    BY <2>3, <2>6, <2>7 DEF q
<1> QED
  BY <1>1, <1>2, <1>3, <1>4 DEF Channel!Deliver

(* A fragment arrives on a reliable channel: it is the last of the oldest  *)
(* PDU that is under way, which is handed on, or changes nothing.          *)
LEMMA TransmitChannel ==
    ASSUME IInv, PeerInv, Reliable, Transmit, Receive(Head(air))
    PROVE  Channel!Deliver \/ UNCHANGED Channel!vars
<1> DEFINE f == Head(air)
           v == Tail(air) \o fifo
<1>1. /\ air # <<>> /\ air' = Tail(air)
      /\ UNCHANGED <<fifo, conn, link, lost, early>>
  BY DEF Transmit, hostVars, histVars
<1>2. Reliable'
  BY <1>1 DEF Reliable, Live
<1>3. /\ air \in Seq(Fragment) /\ fifo \in Seq(Fragment)
      /\ lost \in Nat /\ early \in Nat /\ conns \in Nat
  BY DEF IInv, TypeOK
<1>4. /\ f \in Fragment /\ f = air[1] /\ Len(air) \in Nat \ {0}
      /\ Tail(air) \in Seq(Fragment)
  BY <1>1, <1>3, HeadTailProperties, EmptySeq
<1>5. /\ <<f>> \in Seq(Fragment) /\ v \in Seq(Fragment)
  BY <1>3, <1>4, ConcatProperties
<1>6. Stream = <<f>> \o v /\ Stream' = v
  <2>1. air = <<f>> \o Tail(air)
    <3>1. /\ <<f>> \o Tail(air) \in Seq(Fragment)
          /\ Len(<<f>> \o Tail(air)) = 1 + Len(Tail(air))
          /\ \A i \in 1 .. 1 + Len(Tail(air)) : (<<f>> \o Tail(air))[i] =
                 IF i <= 1 THEN <<f>>[i] ELSE Tail(air)[i - 1]
      <4>1. Len(<<f>>) = 1
        OBVIOUS
      <4> HIDE DEF f
      <4> QED
        BY <1>4, <1>5, <4>1, ConcatProperties
    <3>2. /\ Len(Tail(air)) = Len(air) - 1
          /\ \A i \in 1 .. Len(Tail(air)) : Tail(air)[i] = air[i + 1]
      BY <1>1, <1>3, HeadTailProperties
    <3> DEFINE x == <<f>> \o Tail(air)
    <3>3. ASSUME NEW i \in 1 .. Len(air) PROVE air[i] = x[i]
      <4>1. i \in 1 .. 1 + Len(Tail(air))
        BY <1>4, <3>2
      <4>2. CASE i = 1
        <5>1. x[1] = f
          BY <3>1, <4>1, <4>2
        <5> HIDE DEF x, f
        <5> QED
          BY <1>4, <4>2, <5>1
      <4>3. CASE i # 1
        <5>1. i - 1 \in 1 .. Len(Tail(air)) /\ (i - 1) + 1 = i /\ ~(i <= 1)
          BY <1>4, <3>2, <4>3
        <5>2. x[i] = Tail(air)[i - 1]
          BY <3>1, <4>1, <5>1
        <5> HIDE DEF x, f
        <5> QED
          BY <3>2, <5>1, <5>2
      <4> QED
        BY <4>2, <4>3
    <3>4. x \in Seq(Fragment) /\ Len(x) = Len(air)
      BY <1>4, <3>1, <3>2
    <3> HIDE DEF x
    <3>5. air = x
      BY <1>3, <3>3, <3>4, SeqEqual
    <3> QED
      BY <3>5 DEF x
  <2>2. (<<f>> \o Tail(air)) \o fifo = <<f>> \o (Tail(air) \o fifo)
    <3> HIDE DEF f
    <3> QED
      BY <1>3, <1>4, <1>5, Regroup
  <2> HIDE DEF f
  <2> QED
    BY <1>1, <2>1, <2>2 DEF Stream
<1>7. IsFrag(f) /\ Synced(f)
  <2>1. OneFault /\ lost # 1 /\ link = "up" /\ conn = "open"
    BY <1>3, Faults DEF Reliable, Live
  <2>2. Reads(Stream)
    BY <2>1 DEF PeerInv, ReceiverInv
  <2>3. Len(Stream) \in Nat \ {0} /\ Stream[1] = f
    <3>1. 1 \in 1 .. Len(air)
      BY <1>4
    <3> QED
      BY <1>4, <3>1, StreamParts DEF IInv
  <2> HIDE DEF f
  <2>4. 1 \in 1 .. Len(Stream) /\ Len(Stream) > 0
    BY <2>3
  <2> QED
    BY <2>2, <2>3, <2>4 DEF Reads, ChainedBut
<1> HIDE DEF f, v
<1>8. EndedPdus(Stream) = EndedPdus(<<f>>) \o EndedPdus(v)
  BY <1>5, <1>6, EndedConcat
<1>9. EndedPdus(Stream)' = EndedPdus(v)
  BY <1>6 DEF EndedPdus, PdusEnding, Ends
<1>10. PICK S : EndedPdus(v) \in Seq(S)
  BY <1>5, EndedIsSeq
<1>11. PeerType /\ Receive(f)
  BY DEF PeerInv, f
<1>12. CASE f.last
  <2>1. got' = Append(got, buffer') /\ buffer' \in Seq(Fragment) /\ buffer'[1].pdu = f.pdu
    BY <1>4, <1>7, <1>11, <1>12, ReceivedLast
  <2>2. got \in Seq(Seq(Fragment))
    BY <1>11 DEF PeerType
  <2>3. Begun(got') = Append(Begun(got), f.pdu)
    BY <2>1, <2>2, BegunAppend
  <2>4. EndedPdus(Stream) = <<f.pdu>> \o EndedPdus(v)
    BY <1>4, <1>8, <1>12, EndedSingle
  <2>5. EndedPdus(v) \in Seq(S \cup {f.pdu}) /\ f.pdu \in S \cup {f.pdu}
    BY <1>10
  <2>6. Begun(got)' = Begun(got')
    BY DEF Begun
  <2> QED
    BY <1>2, <1>9, <2>3, <2>4, <2>5, <2>6, ChannelDelivers
<1>13. CASE ~f.last
  <2>1. got' = got
    BY <1>4, <1>7, <1>11, <1>13, ReceivedLast
  <2>2. EndedPdus(Stream) = EndedPdus(v)
    BY <1>4, <1>8, <1>10, <1>13, EndedSingle, ConcatEmptySeq
  <2> QED
    BY <1>2, <1>9, <2>1, <2>2, ChannelSame
<1> QED
  BY <1>12, <1>13

(* Every step of the two hosts is a step of the channel, or none.          *)
LEMMA StepChannel ==
    ASSUME IInv, IInv', PeerInv, Fresh, [PeerNext]_allVars
    PROVE  [Channel!Next]_(Channel!vars)
<1>1. CASE Transmit /\ Receive(Head(air))
  <2>1. CASE Reliable
    BY <1>1, <2>1, TransmitChannel DEF Channel!Next
  <2>2. CASE ~Reliable
    <3>1. ~Reliable'
      BY <1>1, <2>2 DEF Reliable, Live, Transmit, hostVars, histVars
    <3> QED
      BY <2>2, <3>1, ChannelClosed
  <2> QED
    BY <2>1, <2>2
<1>2. CASE LinkUp /\ got' = <<>> /\ UNCHANGED <<data_remain, buffer>>
  <2>1. ~Reliable /\ ~Reliable'
    BY <1>2 DEF Reliable, Live, LinkUp, hostVars
  <2> QED
    BY <2>1, ChannelClosed
<1>3. CASE (Host \/ LinkLoss \/ UsbLost) /\ UNCHANGED peerVars
  <2>1. got' = got
    BY <1>3 DEF peerVars
  <2>2. ASSUME NEW n \in PduLen, Send(n) PROVE [Channel!Next]_(Channel!vars)
    <3>1. SendPdu(n) /\ UNCHANGED <<link, conn, lost, early>> /\ pdus < MaxPdus
      BY <2>2 DEF Send, SendPdu
    <3>2. CASE ~Reliable
      <4>1. ~Reliable'
        BY <3>1, <3>2 DEF Reliable, Live
      <4> QED
        BY <3>2, <4>1, ChannelClosed
    <3>3. CASE Reliable
      <4>1. Reliable' /\ link = "up"
        BY <3>1, <3>3 DEF Reliable, Live
      <4> DEFINE fr == Fragments(pdus + 1, n)
      <4>2. pdus + 1 \in Nat /\ n \in Nat /\ Stream' = Stream \o fr
        BY <3>1, <4>1, SendPduStream
      <4>3. pdus + 1 \in 1 .. MaxPdus
        BY <3>1 DEF IInv, TypeOK
      <4>4. Stream \in Seq(Fragment) /\ fr \in Seq(Fragment) /\ EndedPdus(fr) = <<pdus + 1>>
        BY <4>2, StreamParts, FragmentsType, EndedPdu DEF IInv
      <4> HIDE DEF fr
      <4>5. EndedPdus(Stream \o fr) = EndedPdus(Stream) \o <<pdus + 1>>
        BY <4>4, EndedConcat
      <4>6. PICK S : EndedPdus(Stream) \in Seq(S)
        BY <4>4, EndedIsSeq
      <4>7. EndedPdus(Stream) \in Seq(S \cup {pdus + 1}) /\ pdus + 1 \in S \cup {pdus + 1}
        BY <4>6
      <4>8. Append(EndedPdus(Stream), pdus + 1) = EndedPdus(Stream) \o <<pdus + 1>>
        BY <4>7, AppendIsConcat
      <4>9. EndedPdus(Stream)' = EndedPdus(Stream \o fr)
        BY <4>2 DEF EndedPdus, PdusEnding, Ends
      <4> QED
        BY <2>1, <3>3, <4>1, <4>3, <4>5, <4>8, <4>9, ChannelSends
    <3> QED
      BY <3>2, <3>3
  <2>3. ASSUME NEW n \in PduLen, SendEarly(n) PROVE [Channel!Next]_(Channel!vars)
    <3>1. ~Reliable /\ ~Reliable'
      BY <2>3 DEF SendEarly, SendPdu, Reliable, Live
    <3> QED
      BY <3>1, ChannelClosed
  <2>4. ASSUME NEW num \in 1 .. done, PacketComp(num) PROVE [Channel!Next]_(Channel!vars)
    <3>1. UNCHANGED <<link, conn, lost, early>>
      BY <2>4 DEF PacketComp, histVars
    <3>2. Reliable' <=> Reliable
      BY <3>1 DEF Reliable, Live
    <3>3. CASE ~Reliable
      BY <3>2, <3>3, ChannelClosed
    <3>4. CASE Reliable
      <4>1. Stream' = Stream
        BY <2>4, <3>4, PacketCompStream DEF Reliable, Live
      <4>2. EndedPdus(Stream)' = EndedPdus(Stream)
        BY <4>1 DEF EndedPdus, PdusEnding, Ends
      <4> QED
        BY <2>1, <3>2, <3>4, <4>2, ChannelSame
    <3> QED
      BY <3>3, <3>4
  <2>5. ASSUME ConnectionComplete PROVE [Channel!Next]_(Channel!vars)
    <3>1. /\ conn = "idle" /\ fifo' = <<>> /\ UNCHANGED <<air, link, lost, early>>
      BY <2>5, LinkEvents DEF ConnectionComplete, L2capInit, IInv, Views
    <3>2. ~Reliable
      BY <3>1 DEF Reliable, Live
    <3>3. CASE ~Reliable'
      BY <3>2, <3>3, ChannelClosed
    <3>4. CASE Reliable'
      <4>1. link = "up" /\ early = 0
        BY <3>1, <3>4, Faults DEF Reliable, Live
      <4>2. air = <<>> /\ got = <<>>
        BY <3>1, <4>1, Faults DEF Fresh
      <4>3. Stream' = <<>>
        BY <3>1, <4>2, EmptySeq, ConcatEmptySeq DEF Stream
      <4>4. EndedPdus(Stream)' = EndedPdus(<<>>)
        BY <4>3 DEF EndedPdus, PdusEnding, Ends
      <4>5. Begun(got)' = Begun(<<>>)
        BY <2>1, <4>2 DEF Begun
      <4> QED
        BY <3>2, <3>4, <4>4, <4>5, EndedEmpty, BegunEmpty, ChannelOpens DEF Channel!Next
    <3> QED
      BY <3>3, <3>4
  <2>6. ASSUME DisconnectionComplete \/ LinkLoss \/ UsbLost
        PROVE  [Channel!Next]_(Channel!vars)
    <3>1. DisconnectionComplete \/ LinkLoss => link' # "up"
      BY LinkEvents DEF DisconnectionComplete, LinkLoss, IInv, Views
    <3>2. UsbLost => lost' + early' # 0
      BY DEF UsbLost, IInv, TypeOK
    <3>3. ~Reliable'
      BY <2>6, <3>1, <3>2 DEF Reliable, Live
    <3>4. CASE Reliable
      BY <3>3, <3>4, ChannelCloses DEF Channel!Next
    <3>5. CASE ~Reliable
      BY <3>3, <3>5, ChannelClosed
    <3> QED
      BY <3>4, <3>5
  <2> QED
    BY <1>3, <2>2, <2>3, <2>4, <2>5, <2>6 DEF Host
<1>4. CASE UNCHANGED allVars
  <2>1. UNCHANGED <<Reliable, Underway, Arrived>>
    BY <1>4 DEF allVars, peerVars, vars, hostVars, ctrlVars, histVars, Reliable, Live,
                Underway, Arrived, EndedPdus, PdusEnding, Ends, Begun
  <2> QED
    BY <2>1 DEF Channel!vars
<1> QED
  BY <1>1, <1>2, <1>3, <1>4 DEF PeerNext

(* The two hosts, the controller and the USB pipe between them implement   *)
(* the channel the ATT, SMP and DFU code relies on: from the connection    *)
(* event to the end of the link or the first fragment lost, the PDUs given *)
(* to eb_l2cap_send are handed on at the other end, once each and in order *)
(* (eb_l2cap.c:89-142, eb_hci.c:25-65).  That each of them is whole is     *)
(* PdusArriveWhole.                                                        *)
THEOREM PeerImplementsChannel == PeerSpec => ChannelSpec
<1>1. PeerInit => IInv /\ PeerInv /\ Fresh
  BY InitPeer DEF PeerInit, Fresh
<1>2. IInv /\ PeerInv /\ Fresh /\ [PeerNext]_allVars => (IInv /\ PeerInv /\ Fresh)'
  BY StepPeer, StepFresh
<1>3. PeerInit => Channel!Init
  <2>1. PeerInit => ~Reliable
    BY DEF PeerInit, Init, Reliable, Live
  <2>2. ~Reliable => Reliable = FALSE /\ Underway = <<>> /\ Arrived = <<>>
    BY DEF Underway, Arrived, Reliable, Live
  <2> QED
    BY <2>1, <2>2 DEF Channel!Init
<1>4. IInv /\ IInv' /\ PeerInv /\ Fresh /\ [PeerNext]_allVars => [Channel!Next]_(Channel!vars)
  BY StepChannel
<1> QED
  BY <1>1, <1>2, <1>3, <1>4, PTL DEF PeerSpec, ChannelSpec, Channel!Spec

=============================================================================
