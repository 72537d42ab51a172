--------------------------- MODULE DfuClientProofs ---------------------------
(***************************************************************************)
(* Proofs about DfuClient, for every size of the objects and of the        *)
(* packets, every number of packets between checksums, and any number of   *)
(* connections, losses, errors and answers.                                *)
(*                                                                         *)
(* An update ends once, whatever the device.  That only the bytes of the   *)
(* file are executed, that a success is complete and that the client keeps *)
(* its pace is proved for devices that keep no part of an object between   *)
(* connections: what the client does with such a part is at fault, as the  *)
(* run of ContinuesAtOffset shows.                                         *)
(***************************************************************************)
EXTENDS DfuClient, SequenceTheorems, TLAPS

-----------------------------------------------------------------------------
Waiting == {"sel", "set_prn", "create", "write", "get_crc", "execute"}
Pending == {"pd_sel", "pd_set_prn", "pd_create", "pd_get_crc", "pd_execute"}

(* The states behind the creation of the object, and those before it.      *)
Transfer == {"write", "get_crc", "pd_get_crc", "execute", "pd_execute"}
Before == {"sel", "pd_sel", "set_prn", "pd_set_prn", "create", "pd_create"}

Op == {"select", "prn", "create", "data", "crc", "execute"}
Pdu == [op : Op, type : Type, size : Nat, bytes : Seq(Nat)] \cup {AnswerPdu}
Result == {"crc_not_match", "success", "error", "abort"}
Object == [size : Nat, bytes : Seq(Nat)]
Executed == [type : Type, bytes : Seq(Nat)]

TypeInv ==
    /\ state \in {"idle"} \cup Waiting \cup Pending
    /\ cur_type \in Type
    /\ prn_cnt \in 0 .. Prn
    /\ pkg_num \in -Half .. Half - 1
    /\ pos \in Nat
    /\ size \in [Type -> Nat]
    /\ acc \in [Type -> Seq(Nat)]
    /\ txq \in Seq(Pdu) /\ air \in Seq(Pdu)
    /\ link \in {"down", "up", "lost"}
    /\ object \in [Type -> Object] /\ dev_type \in Type
    /\ executed \in Seq(Executed)
    /\ ends \in Seq(Result)
    /\ starts \in Nat /\ answers \in Nat

-----------------------------------------------------------------------------
(* What is on its way to the device: at most one request, nothing but      *)
(* answers behind it, and only what the state accounts for.                *)
Pipe == air \o txq

OneRequest(p) ==
    \A i, j \in 1 .. Len(p) :
        i < j /\ p[i].op \notin {"data", "answer"} => p[j].op = "answer"

Sendable ==
    CASE state \in {"write", "get_crc"} -> {"answer", "data"}
      [] state = "pd_get_crc" -> {"answer", "data", "crc"}
      [] state \in Pending \ {"pd_get_crc"} -> {"answer", Expected[state]}
      [] OTHER -> {"answer"}

Only(p, ops) == \A i \in 1 .. Len(p) : p[i].op \in ops

Concern(p, t) ==
    \A i \in 1 .. Len(p) : p[i].op \in {"select", "create"} => p[i].type = t

PipeInv ==
    /\ link # "up" => air = <<>>
    /\ link = "up" =>
        /\ OneRequest(Pipe)
        /\ Only(Pipe, Sendable)
        /\ Concern(Pipe, cur_type)

(* At most one response is on its way, to the request that is pending; it  *)
(* has left only answers behind.                                           *)
Answered(op) == rsp # <<>> /\ rsp[1].op = op

RspInv ==
    /\ rsp # <<>> => rsp = <<rsp[1]>>
    /\ state \in Waiting => rsp = <<>>
    /\ link = "up" /\ state = "idle" => rsp = <<>>
    /\ rsp # <<>> /\ state \in Pending =>
        rsp[1] = ErrorResponse \/ rsp[1].op = Expected[state]
    /\ rsp # <<>> /\ link = "up" => Only(Pipe, {"answer"})

-----------------------------------------------------------------------------
(* The bytes taken are those of the file up to pos.                        *)
TakenInv ==
    /\ state \in Before => pos = 0
    /\ state \in Transfer \cup {"pd_create"} =>
        /\ size[cur_type] = Size[cur_type]
        /\ pos <= Size[cur_type]
        /\ acc[cur_type] = SubSeq(File(cur_type), 1, pos)

(* Nothing the device still has matches the file.                          *)
Foreign == {<<>>, <<0>>}

ObjectInv ==
    /\ starts = 0 => link = "down" /\ \A t \in Type : object[t].bytes \in Foreign
    /\ link = "up" =>
        /\ state \in {"sel", "pd_sel"} => object[cur_type].bytes \in Foreign
        /\ state # "idle" /\ cur_type = "cmd" => object["data"].bytes \in Foreign
        /\ state \in Transfer => dev_type = cur_type
        /\ state = "pd_create" /\ Answered("create") => dev_type = cur_type
        /\ state = "pd_get_crc" /\ Answered("crc") =>
                rsp[1].bytes = object[cur_type].bytes
        /\ state \in {"execute", "pd_execute"} =>
                object[cur_type].bytes = File(cur_type)
    /\ state = "pd_sel" /\ Answered("select") => rsp[1].bytes \in Foreign

(* What was executed, as far as the client is.                             *)
ExecutedInv ==
    /\ Len(executed) <= 2
    /\ \A i \in 1 .. Len(executed) :
        /\ executed[i].type = IF i = 1 THEN "cmd" ELSE "data"
        /\ executed[i].bytes = File(executed[i].type)
    /\ state # "idle" =>
        Len(executed) = (IF cur_type = "cmd" THEN 0 ELSE 1)
                        + (IF state = "pd_execute" /\ Answered("execute") THEN 1 ELSE 0)
    /\ \A i \in 1 .. Len(ends) : ends[i] = "success" => Len(executed) = 2
    /\ EndsOnce

DfuInv == TypeInv /\ PipeInv /\ RspInv /\ TakenInv /\ ObjectInv /\ ExecutedInv

-----------------------------------------------------------------------------
(* Conversion to int8_t, the least of some numbers, and the file.          *)
Small == -Half .. Half - 1

LEMMA Int8OK ==
    ASSUME NEW x \in Int
    PROVE  Int8(x) \in Small /\ (x \in Small => Int8(x) = x)
<1> DEFINE n == 2 * Half
           y == x + Half
<1>1. Half \in Nat \ {0} /\ n \in Nat \ {0} /\ y \in Int /\ n = Half + Half
  BY DfuClientAssumption
<1> HIDE DEF n, y
<1>2. y % n \in 0 .. n - 1
  BY <1>1
<1>3. y \in 0 .. n - 1 => y % n = y
  BY <1>1
<1>4. Int8(x) = (y % n) - Half
  BY DEF Int8, n, y
<1> QED
  BY <1>1, <1>2, <1>3, <1>4 DEF y, Small

LEMMA LeastOf ==
    ASSUME NEW a \in Int, NEW b \in Int
    PROVE  /\ Least({a, b}) \in {a, b}
           /\ Least({a, b}) <= a /\ Least({a, b}) <= b
<1>1. \E x \in {a, b} : \A y \in {a, b} : x <= y
  <2>1. CASE a <= b
    BY <2>1
  <2>2. CASE b <= a
    BY <2>2
  <2> QED
    BY <2>1, <2>2
<1> QED
  BY <1>1 DEF Least

LEMMA LeastOfThree ==
    ASSUME NEW a \in Int, NEW b \in Int, NEW c \in Int
    PROVE  /\ Least({a, b, c}) \in {a, b, c}
           /\ Least({a, b, c}) <= a /\ Least({a, b, c}) <= b
           /\ Least({a, b, c}) <= c
<1>1. \E x \in {a, b, c} : \A y \in {a, b, c} : x <= y
  <2>1. CASE a <= b /\ a <= c
    BY <2>1
  <2>2. CASE b <= a /\ b <= c
    BY <2>2
  <2>3. CASE c <= a /\ c <= b
    BY <2>3
  <2> QED
    BY <2>1, <2>2, <2>3
<1> QED
  BY <1>1 DEF Least

LEMMA FileOK ==
    ASSUME NEW t \in Type
    PROVE  /\ Size[t] \in Nat \ {0}
           /\ File(t) \in Seq(Nat) /\ Len(File(t)) = Size[t]
           /\ \A i \in 1 .. Size[t] : File(t)[i] = i
<1>1. Size[t] \in Nat \ {0}
  BY DfuClientAssumption
<1> QED
  BY <1>1 DEF File

-----------------------------------------------------------------------------
LEMMA Split ==
    ASSUME NEW S, NEW s \in Seq(S), NEW k \in 0 .. Len(s)
    PROVE  /\ SubSeq(s, 1, k) \in Seq(S)
           /\ SubSeq(s, k + 1, Len(s)) \in Seq(S)
           /\ Len(SubSeq(s, k + 1, Len(s))) = Len(s) - k
           /\ s = SubSeq(s, 1, k) \o SubSeq(s, k + 1, Len(s))
<1>1. /\ Len(s) \in Nat /\ \A i \in 1 .. Len(s) : s[i] \in S
      /\ k \in Int /\ k + 1 \in Int
  BY LenProperties, ElementOfSeq
<1>2. SubSeq(s, 1, k) \in Seq(S)
  <2>1. \A i \in 1 .. k : s[i] \in S
    BY <1>1
  <2> QED
    BY <1>1, <2>1, SubSeqProperties
<1>3. /\ SubSeq(s, k + 1, Len(s)) \in Seq(S)
      /\ Len(SubSeq(s, k + 1, Len(s))) = Len(s) - k
  <2>1. \A i \in k + 1 .. Len(s) : s[i] \in S
    BY <1>1
  <2>2. /\ SubSeq(s, k + 1, Len(s)) \in Seq(S)
        /\ Len(SubSeq(s, k + 1, Len(s)))
                = IF k + 1 <= Len(s) THEN Len(s) - (k + 1) + 1 ELSE 0
    BY <1>1, <2>1, SubSeqProperties
  <2> QED
    BY <1>1, <2>2
<1>4. SubSeq(s, 1, k) \o SubSeq(s, k + 1, Len(s)) = SubSeq(s, 1, Len(s))
  <2>1. /\ 1 \in 1 .. Len(s) + 1 /\ k \in 1 - 1 .. Len(s)
        /\ Len(s) \in k .. Len(s)
    BY <1>1
  <2> QED
    BY ONLY <2>1, ConcatAdjacentSubSeq, s \in Seq(S)
<1> QED
  BY <1>2, <1>3, <1>4, SubSeqFull

(* Concatenation is associative.                                           *)
LEMMA Regroup ==
    \A a, b, c \in Seq(Pdu) : (a \o b) \o c = a \o (b \o c)
BY ConcatAssociative

(* What is sent goes to the end of the pipe, wherever it waits.            *)
LEMMA QueueEffect ==
    ASSUME NEW queued, NEW k, NEW ms, NEW on,
           queued \in Seq(Pdu), ms \in Seq(Pdu), air \in Seq(Pdu),
           k \in 0 .. Len(queued), on \in BOOLEAN,
           Queue(queued, k, ms, on)
    PROVE  /\ txq' \in Seq(Pdu) /\ air' \in Seq(Pdu)
           /\ on => (air \o txq)' = (air \o queued) \o ms
           /\ ~on => air' = air
           /\ Len(txq') <= Len(queued) - k + Len(ms)
<1> DEFINE gone == SubSeq(queued, 1, k)
           rest == SubSeq(queued, k + 1, Len(queued))
<1>1. /\ gone \in Seq(Pdu) /\ rest \in Seq(Pdu)
      /\ Len(rest) = Len(queued) - k
      /\ queued = gone \o rest
  BY Split
<1>2. PICK j \in 0 .. (IF rest = <<>> THEN Len(ms) ELSE 0) :
        /\ txq' = rest \o SubSeq(ms, j + 1, Len(ms))
        /\ air' = IF on THEN air \o gone \o SubSeq(ms, 1, j) ELSE air
  BY DEF Queue
<1> DEFINE first == SubSeq(ms, 1, j)
           others == SubSeq(ms, j + 1, Len(ms))
<1>3. /\ first \in Seq(Pdu) /\ others \in Seq(Pdu)
      /\ Len(others) = Len(ms) - j /\ j \in 0 .. Len(ms)
      /\ ms = first \o others
  <2>1. Len(ms) \in Nat /\ j \in 0 .. Len(ms)
    BY <1>2, LenProperties
  <2> QED
    BY <2>1, Split
<1>4. rest = <<>> \/ first = <<>>
  <2>1. CASE rest # <<>>
    <3>1. j = 0
      BY <1>2, <2>1
    <3> QED
      BY <3>1, SubSeqEmpty
  <2> QED
    BY <2>1
<1> HIDE DEF gone, rest, first, others
<1>5. txq' = rest \o others /\ air' = IF on THEN (air \o gone) \o first ELSE air
  BY <1>2 DEF first, others
<1>6. /\ txq' \in Seq(Pdu) /\ Len(txq') = Len(rest) + Len(others)
      /\ air \o gone \in Seq(Pdu) /\ air' \in Seq(Pdu)
  BY <1>1, <1>3, <1>5, ConcatProperties
<1>7. gone \in Seq(Pdu) /\ rest \in Seq(Pdu) /\ first \in Seq(Pdu) /\ others \in Seq(Pdu)
  BY <1>1, <1>3
<1>8. ASSUME on PROVE air' \o txq' = (air \o queued) \o ms
  <2> DEFINE front == air \o gone
             tail == rest \o others
  <2>1. front \in Seq(Pdu) /\ tail \in Seq(Pdu)
    BY <1>6, <1>7, ConcatProperties
  <2>2. front \o rest = air \o queued
    <3>1. (air \o gone) \o rest = air \o (gone \o rest)
      <4>1. air \in Seq(Pdu) /\ gone \in Seq(Pdu) /\ rest \in Seq(Pdu)
        BY <1>7
      <4> QED
        BY ONLY <4>1, Regroup
    <3> QED
      BY <1>1, <3>1
  <2>3. first \o tail = rest \o ms
    <3>1. CASE rest = <<>>
      BY <1>1, <1>3, <2>1, <3>1, ConcatEmptySeq
    <3>2. CASE first = <<>>
      BY <1>1, <1>3, <2>1, <3>2, ConcatEmptySeq
    <3> QED
      BY <1>4, <3>1, <3>2
  <2>4. air' \o txq' = (front \o first) \o tail
    BY <1>5, <1>8
  <2> HIDE DEF front, tail
  <2>5. (front \o first) \o tail = front \o (first \o tail)
    <3>1. front \in Seq(Pdu) /\ first \in Seq(Pdu) /\ tail \in Seq(Pdu)
      BY <1>7, <2>1
    <3> QED
      BY ONLY <3>1, Regroup
  <2>6. (front \o rest) \o ms = front \o (rest \o ms)
    <3>1. front \in Seq(Pdu) /\ rest \in Seq(Pdu) /\ ms \in Seq(Pdu)
      BY <1>7, <2>1
    <3> QED
      BY ONLY <3>1, Regroup
  <2> QED
    BY <2>2, <2>3, <2>4, <2>5, <2>6
<1>9. Len(queued) \in Nat /\ Len(ms) \in Nat
  BY LenProperties
<1>10. Len(txq') <= Len(queued) - k + Len(ms)
  BY <1>1, <1>3, <1>6, <1>9
<1> QED
  BY <1>5, <1>6, <1>8, <1>10

LEMMA SendEffect ==
    ASSUME TypeInv, NEW ms, ms \in Seq(Pdu), NEW k, k \in 0 .. Len(txq),
           Send(ms, k)
    PROVE  /\ txq' \in Seq(Pdu) /\ air' \in Seq(Pdu)
           /\ link = "up" => Pipe' = Pipe \o ms
           /\ link # "up" => air' = air
           /\ Len(txq') <= Len(txq) - k + Len(ms)
<1> DEFINE on == link = "up"
<1>1. Queue(txq, k, ms, on) /\ on \in BOOLEAN
  BY DEF Send
<1>2. txq \in Seq(Pdu) /\ air \in Seq(Pdu)
  BY DEF TypeInv
<1> HIDE DEF on
<1>3. /\ txq' \in Seq(Pdu) /\ air' \in Seq(Pdu)
      /\ on => (air \o txq)' = (air \o txq) \o ms
      /\ ~on => air' = air
      /\ Len(txq') <= Len(txq) - k + Len(ms)
  BY <1>1, <1>2, QueueEffect
<1> QED
  BY <1>3 DEF on, Pipe

LEMMA PipeType == TypeInv => Pipe \in Seq(Pdu)
BY ConcatProperties DEF TypeInv, Pipe

(* Behind data and answers anything may be sent that is in order itself.   *)
LEMMA Extended ==
    ASSUME NEW p, p \in Seq(Pdu), NEW ms, ms \in Seq(Pdu), NEW ops, NEW t,
           Only(p, {"answer", "data"}), OneRequest(ms),
           Only(p, ops), Only(ms, ops), Concern(ms, t)
    PROVE  /\ OneRequest(p \o ms) /\ Only(p \o ms, ops) /\ Concern(p \o ms, t)
<1> DEFINE s == p \o ms
<1>1. /\ Len(p) \in Nat /\ Len(ms) \in Nat /\ Len(s) = Len(p) + Len(ms)
      /\ \A i \in 1 .. Len(s) : s[i] = IF i <= Len(p) THEN p[i] ELSE ms[i - Len(p)]
  BY ConcatProperties, LenProperties
<1> HIDE DEF s
<1>2. \A i \in 1 .. Len(s) :
        \/ i \in 1 .. Len(p) /\ s[i] = p[i]
        \/ /\ i - Len(p) \in 1 .. Len(ms) /\ s[i] = ms[i - Len(p)]
           /\ i > Len(p)
  BY <1>1
<1>3. Only(s, ops)
  BY <1>2 DEF Only
<1>4. Concern(s, t)
  BY <1>2 DEF Concern, Only
<1>5. OneRequest(s)
  <2> SUFFICES ASSUME NEW i \in 1 .. Len(s), NEW j \in 1 .. Len(s), i < j,
                      s[i].op \notin {"data", "answer"}
               PROVE  s[j].op = "answer"
    BY DEF OneRequest
  <2>1. i - Len(p) \in 1 .. Len(ms) /\ s[i] = ms[i - Len(p)] /\ i > Len(p)
    BY <1>2 DEF Only
  <2>2. j - Len(p) \in 1 .. Len(ms) /\ s[j] = ms[j - Len(p)]
    BY <1>1, <1>2, <2>1
  <2>3. i - Len(p) < j - Len(p)
    BY <1>1
  <2> QED
    BY <2>1, <2>2, <2>3 DEF OneRequest
<1> QED
  BY <1>3, <1>4, <1>5 DEF s

LEMMA PipeSent ==
    ASSUME TypeInv, PipeInv, link' = link,
           NEW ms, ms \in Seq(Pdu), NEW k, k \in 0 .. Len(txq), Send(ms, k),
           link = "up" => Only(Pipe, {"answer", "data"}) /\ Only(Pipe, Sendable'),
           OneRequest(ms), Only(ms, Sendable'), Concern(ms, cur_type')
    PROVE  /\ PipeInv'
           /\ txq' \in Seq(Pdu) /\ air' \in Seq(Pdu)
           /\ Len(txq') <= Len(txq) - k + Len(ms)
           /\ link = "up" /\ Only(Pipe, Op) /\ Only(ms, Op) => Only(Pipe', Op)
<1>1. /\ txq' \in Seq(Pdu) /\ air' \in Seq(Pdu)
      /\ link = "up" => Pipe' = Pipe \o ms
      /\ link # "up" => air' = air
      /\ Len(txq') <= Len(txq) - k + Len(ms)
  BY SendEffect
<1>2. CASE link = "up"
  <2>1. /\ OneRequest(Pipe \o ms) /\ Only(Pipe \o ms, Sendable')
        /\ Concern(Pipe \o ms, cur_type')
    BY <1>2, PipeType, Extended
  <2>2. /\ OneRequest(Pipe') /\ Only(Pipe', Sendable') /\ Concern(Pipe', cur_type')
    BY <1>1, <1>2, <2>1
  <2>3. Only(Pipe, Op) /\ Only(ms, Op) => Only(Pipe \o ms, Op)
    BY <1>2, PipeType, Extended
  <2>4. Only(Pipe, Op) /\ Only(ms, Op) => Only(Pipe', Op)
    BY <1>1, <1>2, <2>3
  <2> QED
    BY <1>1, <1>2, <2>2, <2>4 DEF PipeInv, OneRequest, Only, Concern
<1>3. CASE link # "up"
  BY <1>1, <1>3 DEF PipeInv
<1> QED
  BY <1>1, <1>2, <1>3

LEMMA Single ==
    ASSUME NEW m \in Pdu
    PROVE  /\ <<m>> \in Seq(Pdu) /\ Len(<<m>>) = 1
           /\ OneRequest(<<m>>)
           /\ \A ops : m.op \in ops => Only(<<m>>, ops)
           /\ \A t : (m.op \in {"select", "create"} => m.type = t) => Concern(<<m>>, t)
<1>1. /\ <<m>> \in Seq(Pdu) /\ Len(<<m>>) = 1 /\ <<m>>[1] = m
      /\ \A i \in 1 .. 1 : i = 1
  OBVIOUS
<1> QED
  BY <1>1 DEF OneRequest, Only, Concern

LEMMA Empty ==
    /\ <<>> \in Seq(Pdu) /\ Len(<<>>) = 0 /\ OneRequest(<<>>)
    /\ \A ops : Only(<<>>, ops)
    /\ \A t : Concern(<<>>, t)
BY DEF OneRequest, Only, Concern

-----------------------------------------------------------------------------
(* What a step with pkg_num = p spends, after q PDUs left the queue: what  *)
(* is queued and what may still be sent stay within what there was.        *)
Spends(p, q) ==
    /\ link = "up" /\ Only(Pipe, Op) => Only(Pipe', Op)
    /\ p >= 0 => pkg_num' >= 0 /\ Len(txq') + pkg_num' <= Len(txq) - q + p

SpendsOne(p, q) ==
    /\ Spends(p, q)
    /\ p > 0 => pkg_num' = p - 1
    /\ Len(txq') <= Len(txq) - q + 1

(* A request waits for a packet, or is sent and pends.                     *)
LEMMA RequestStep ==
    ASSUME TypeInv, PipeInv, link' = link,
           NEW st \in Waiting \ {"write"}, NEW pd \in Pending, NEW m \in Pdu,
           NEW p \in Small, NEW q, q \in 0 .. Len(txq),
           StRequest(st, pd, m, p, q),
           m.op = Expected[pd],
           m.op \in {"select", "create"} => m.type = cur_type',
           pd = "pd_get_crc" <=> st = "get_crc",
           link = "up" => Only(Pipe, IF st = "get_crc" THEN {"answer", "data"}
                                     ELSE {"answer"})
    PROVE  /\ state' = IF p = 0 THEN st ELSE pd
           /\ pkg_num' \in Small
           /\ txq' \in Seq(Pdu) /\ air' \in Seq(Pdu)
           /\ PipeInv'
           /\ SpendsOne(p, q)
<1>1. /\ link = "up" => Only(Pipe, {"answer", "data"})
      /\ p \in Int /\ Len(txq) \in Nat /\ Half \in Nat \ {0}
  BY LenProperties, DfuClientAssumption DEF TypeInv, Only, Small
<1>2. CASE p = 0
  <2>1. state' = st /\ pkg_num' = 0 /\ Send(<<>>, q)
    BY <1>2 DEF StRequest, SendNothing
  <2>2. link = "up" => Only(Pipe, Sendable')
    BY <2>1 DEF Sendable, Waiting, Pending, Only
  <2>3. /\ PipeInv' /\ txq' \in Seq(Pdu) /\ air' \in Seq(Pdu)
        /\ Len(txq') <= Len(txq) - q + 0
        /\ link = "up" /\ Only(Pipe, Op) => Only(Pipe', Op)
    BY <1>1, <2>1, <2>2, Empty, PipeSent
  <2>4. Len(txq') \in Nat
    BY <2>3, LenProperties
  <2>5. SpendsOne(p, q)
    BY <1>1, <1>2, <2>1, <2>3, <2>4 DEF Spends, SpendsOne
  <2> QED
    BY <1>1, <1>2, <2>1, <2>3, <2>5 DEF Small
<1>3. CASE p # 0
  <2>1. state' = pd /\ pkg_num' = Int8(p - 1) /\ Send(<<m>>, q)
    BY <1>3 DEF StRequest
  <2>2. link = "up" => Only(Pipe, Sendable')
    BY <2>1 DEF Sendable, Waiting, Pending, Only
  <2>3. m.op \in Sendable'
    BY <2>1 DEF Sendable, Pending, Expected
  <2>4. /\ PipeInv' /\ txq' \in Seq(Pdu) /\ air' \in Seq(Pdu)
        /\ Len(txq') <= Len(txq) - q + 1
        /\ link = "up" /\ Only(Pipe, Op) => Only(Pipe', Op)
    <3>1. /\ <<m>> \in Seq(Pdu) /\ Len(<<m>>) = 1 /\ OneRequest(<<m>>)
          /\ Only(<<m>>, Sendable') /\ Concern(<<m>>, cur_type')
          /\ Only(<<m>>, Op)
      <4>1. m.op \in Op
        BY DEF Op, Pending, Expected
      <4> QED
        BY <2>3, <4>1, Single
    <3> HIDE DEF Sendable
    <3> QED
      BY <1>1, <2>1, <2>2, <3>1, PipeSent
  <2>5. Len(txq') \in Nat
    BY <2>4, LenProperties
  <2>6. pkg_num' \in Small
    BY <1>1, <2>1, Int8OK
  <2>7. p >= 0 => pkg_num' = p - 1
    <3>1. p >= 0 => p - 1 \in Small
      BY <1>1, <1>3 DEF Small
    <3> QED
      BY <1>1, <2>1, <3>1, Int8OK
  <2>8. SpendsOne(p, q)
    BY <1>1, <1>3, <2>4, <2>5, <2>7 DEF Spends, SpendsOne
  <2> QED
    BY <1>1, <1>3, <2>1, <2>4, <2>6, <2>8
<1> QED
  BY <1>2, <1>3

-----------------------------------------------------------------------------
(* The object was created as the file has it, and pos bytes are taken.     *)
TakenUpTo ==
    /\ size[cur_type] = Size[cur_type]
    /\ pos <= Size[cur_type]
    /\ acc[cur_type] = SubSeq(File(cur_type), 1, pos)

LEMMA Product ==
    ASSUME NEW a \in Nat, NEW b \in Nat PROVE a * b \in Nat
OBVIOUS

LEMMA PacketOK ==
    ASSUME TypeInv, TakenUpTo, NEW i \in Nat \ {0}
    PROVE  Packet(i) \in Pdu /\ Packet(i).op = "data"
<1> DEFINE from == pos + (i - 1) * SendLen + 1
           to == IF pos + i * SendLen < size[cur_type] THEN pos + i * SendLen
                 ELSE size[cur_type]
           bytes == SubSeq(File(cur_type), from, to)
<1>1. /\ SendLen \in Nat /\ pos \in Nat /\ i - 1 \in Nat
      /\ cur_type \in Type
  <2>1. SendLen \in Nat
    BY DfuClientAssumption
  <2>2. pos \in Nat /\ cur_type \in Type
    BY DEF TypeInv
  <2>3. i - 1 \in Nat
    OBVIOUS
  <2> QED
    BY <2>1, <2>2, <2>3
<1>2. (i - 1) * SendLen \in Nat /\ i * SendLen \in Nat
  BY <1>1, Product
<1>3. from \in Nat \ {0} /\ to \in Int /\ to <= Size[cur_type]
  <2> DEFINE a == (i - 1) * SendLen
             b == i * SendLen
             n == size[cur_type]
  <2>1. a \in Nat /\ b \in Nat /\ pos \in Nat
    BY <1>1, <1>2
  <2>2. n \in Nat /\ n = Size[cur_type]
    BY <1>1 DEF TypeInv, TakenUpTo
  <2>3. from = pos + a + 1 /\ to = IF pos + b < n THEN pos + b ELSE n
    OBVIOUS
  <2> HIDE DEF a, b, n, from, to
  <2> QED
    BY ONLY <2>1, <2>2, <2>3
<1> HIDE DEF from, to
<1>4. \A j \in from .. to : File(cur_type)[j] \in Nat
  BY <1>1, <1>3, FileOK
<1>5. bytes \in Seq(Nat)
  BY <1>3, <1>4, SubSeqProperties
<1>6. Packet(i) = [op |-> "data", type |-> cur_type, size |-> 0, bytes |-> bytes]
  BY DEF Packet, Data, Request, from, to
<1> QED
  BY <1>1, <1>5, <1>6 DEF Pdu, Op

LEMMA PacketsOK ==
    ASSUME TypeInv, TakenUpTo, NEW k \in Nat
    PROVE  /\ Packets(k) \in Seq(Pdu) /\ Len(Packets(k)) = k
           /\ Only(Packets(k), {"data"})
<1>1. \A i \in 1 .. k : Packet(i) \in Pdu /\ Packet(i).op = "data"
  BY PacketOK
<1>2. Packets(k) = [i \in 1 .. k |-> Packet(i)]
  BY DEF Packets
<1>3. Packets(k) \in Seq(Pdu) /\ Len(Packets(k)) = k
  BY <1>1, <1>2
<1> QED
  BY <1>1, <1>2, <1>3 DEF Only

LEMMA CtrlOK ==
    ASSUME TypeInv, NEW op \in Op
    PROVE  Ctrl(op) \in Pdu /\ Ctrl(op).op = op
BY EmptySeq DEF Ctrl, Request, Pdu, TypeInv

(* Data packets, and perhaps the request of a checksum behind them.        *)
LEMMA Sequel ==
    ASSUME NEW p, p \in Seq(Pdu), Only(p, {"data"}),
           NEW m \in Pdu, m.op = "crc"
    PROVE  /\ p \o <<m>> \in Seq(Pdu) /\ Len(p \o <<m>>) = Len(p) + 1
           /\ OneRequest(p \o <<m>>) /\ Only(p \o <<m>>, {"answer", "data", "crc"})
           /\ Only(p \o <<m>>, {"data", "crc"})
           /\ \A t : Concern(p \o <<m>>, t)
           /\ p \o <<>> = p
           /\ OneRequest(p) /\ Only(p, {"answer", "data"})
           /\ \A t : Concern(p, t)
<1>1. /\ <<m>> \in Seq(Pdu) /\ Len(<<m>>) = 1 /\ OneRequest(<<m>>)
      /\ Only(<<m>>, {"answer", "data", "crc"}) /\ \A t : Concern(<<m>>, t)
      /\ Only(<<m>>, {"data", "crc"})
  BY Single
<1>2. /\ Only(p, {"answer", "data"}) /\ Only(p, {"answer", "data", "crc"})
      /\ Only(p, {"data", "crc"})
  BY DEF Only
<1>3. p \o <<m>> \in Seq(Pdu) /\ Len(p \o <<m>>) = Len(p) + 1
  BY <1>1, ConcatProperties
<1>4. ASSUME NEW t
      PROVE  /\ OneRequest(p \o <<m>>) /\ Concern(p \o <<m>>, t)
             /\ Only(p \o <<m>>, {"answer", "data", "crc"})
  BY <1>1, <1>2, Extended
<1>7. Only(p \o <<m>>, {"data", "crc"})
  BY <1>1, <1>2, Extended
<1>5. OneRequest(p) /\ \A t : Concern(p, t)
  BY DEF OneRequest, Only, Concern
<1>6. p \o <<>> = p
  BY ConcatEmptySeq
<1> QED
  BY <1>2, <1>3, <1>4, <1>5, <1>6, <1>7

(* How many packets st_write sends.                                        *)
Count(p) == Least({Budget(p), PacketsLeft, ToPrn})

LEMMA CountOK ==
    ASSUME TypeInv, TakenUpTo, NEW p \in Small
    PROVE  /\ Count(p) \in Nat /\ Count(p) <= ToPrn
           /\ p >= 0 => Count(p) <= p
           /\ p \in Int /\ p - Count(p) \in Int
           /\ ToPrn \in Nat /\ ToPrn = Prn - prn_cnt
<1>1. Half \in Nat \ {0} /\ SendLen \in Nat \ {0} /\ Prn \in Nat
  BY DfuClientAssumption
<1>2. p \in Int /\ Budget(p) \in Nat /\ (p >= 0 => Budget(p) = p)
  BY <1>1 DEF Small, Budget
<1>3. PacketsLeft \in Nat
  <2> DEFINE n == size[cur_type] - pos + SendLen - 1
  <2>1. n \in Nat
    BY <1>1, FileOK DEF TypeInv, TakenUpTo
  <2> HIDE DEF n
  <2>2. n \div SendLen \in Nat
    BY <1>1, <2>1
  <2> QED
    BY <2>2 DEF n, PacketsLeft
<1>4. ToPrn \in Nat /\ ToPrn = Prn - prn_cnt
  BY <1>1 DEF ToPrn, TypeInv
<1> DEFINE a == Budget(p)
           b == PacketsLeft
           c == ToPrn
<1>5. a \in Nat /\ b \in Nat /\ c \in Nat /\ Count(p) = Least({a, b, c})
  BY <1>2, <1>3, <1>4 DEF Count
<1>6. c = Prn - prn_cnt /\ (p >= 0 => a = p)
  BY <1>2, <1>4
<1>7. c = ToPrn
  OBVIOUS
<1> HIDE DEF a, b, c
<1>8. Count(p) \in {a, b, c} /\ Count(p) <= a /\ Count(p) <= c
  BY <1>5, LeastOfThree
<1> QED
  BY <1>2, <1>5, <1>6, <1>7, <1>8

(* The bytes taken are the next ones of the file.                          *)
LEMMA TakeOn ==
    ASSUME TypeInv, TakenUpTo, NEW k \in Nat,
           pos' = Least({pos + k * SendLen, size[cur_type]}),
           acc' = [acc EXCEPT ![cur_type] =
                        @ \o SubSeq(File(cur_type), pos + 1, pos')]
    PROVE  /\ pos' \in Nat /\ pos' <= Size[cur_type]
           /\ acc' \in [Type -> Seq(Nat)]
           /\ acc'[cur_type] = SubSeq(File(cur_type), 1, pos')
<1> DEFINE f == File(cur_type)
           n == Size[cur_type]
<1>1. /\ cur_type \in Type /\ pos \in Nat /\ n \in Nat /\ pos <= n
      /\ f \in Seq(Nat) /\ Len(f) = n /\ size[cur_type] = n
      /\ acc[cur_type] = SubSeq(f, 1, pos) /\ acc \in [Type -> Seq(Nat)]
  BY FileOK DEF TypeInv, TakenUpTo
<1> HIDE DEF f, n
<1>2. k * SendLen \in Nat
  BY Product, DfuClientAssumption
<1> DEFINE end == pos + k * SendLen
<1>a. end \in Nat /\ end >= pos /\ pos' = Least({end, n})
  BY <1>1, <1>2
<1> HIDE DEF end
<1>3. pos' \in Nat /\ pos' >= pos /\ pos' <= n
  <2>1. Least({end, n}) \in {end, n} /\ Least({end, n}) <= n
    <3>1. end \in Int /\ n \in Int
      BY <1>1, <1>a
    <3> QED
      BY ONLY <3>1, LeastOf
  <2> QED
    BY <1>1, <1>a, <2>1
<1>4. acc' = [acc EXCEPT ![cur_type] = SubSeq(f, 1, pos) \o SubSeq(f, pos + 1, pos')]
  BY <1>1 DEF f
<1>5. SubSeq(f, 1, pos) \o SubSeq(f, pos + 1, pos') = SubSeq(f, 1, pos')
  <2>1. /\ 1 \in 1 .. Len(f) + 1 /\ pos \in 1 - 1 .. Len(f)
        /\ pos' \in pos .. Len(f)
    BY <1>1, <1>3
  <2>2. f \in Seq(Nat)
    BY <1>1
  <2> QED
    BY ONLY <2>1, <2>2, ConcatAdjacentSubSeq
<1>6. SubSeq(f, 1, pos') \in Seq(Nat)
  <2>1. \A i \in 1 .. pos' : f[i] \in Nat
    BY <1>1, <1>3, ElementOfSeq
  <2>2. 1 \in Int /\ pos' \in Int
    BY <1>3
  <2> QED
    BY ONLY <2>1, <2>2, SubSeqProperties
<1>7. acc' = [acc EXCEPT ![cur_type] = SubSeq(f, 1, pos')]
  BY <1>4, <1>5
<1>8. acc' \in [Type -> Seq(Nat)] /\ acc'[cur_type] = SubSeq(f, 1, pos')
  BY <1>1, <1>6, <1>7
<1> QED
  BY <1>3, <1>8 DEF f, n

LEMMA WriteStep ==
    ASSUME TypeInv, PipeInv, TakenUpTo, link' = link, cur_type' = cur_type,
           NEW p \in Small, NEW q, q \in 0 .. Len(txq), StWrite(p, q),
           link = "up" => Only(Pipe, {"answer", "data"})
    PROVE  /\ state' \in {"write", "get_crc", "pd_get_crc"}
           /\ pkg_num' \in Small /\ prn_cnt' \in 0 .. Prn
           /\ pos' \in Nat /\ size' = size /\ acc' \in [Type -> Seq(Nat)]
           /\ TakenUpTo'
           /\ txq' \in Seq(Pdu) /\ air' \in Seq(Pdu)
           /\ PipeInv'
           /\ Spends(p, q)
<1>1. /\ Len(txq) \in Nat /\ Half \in Nat \ {0} /\ p \in Int
      /\ Prn \in Nat /\ prn_cnt \in 0 .. Prn
  BY LenProperties, DfuClientAssumption DEF TypeInv, Small
<1>2. CASE p = 0 \/ PacketsLeft = 0
  <2>1. /\ state' = "write" /\ pkg_num' = p /\ SendNothing(q)
        /\ UNCHANGED <<prn_cnt, pos, size, acc>>
    BY <1>2 DEF StWrite, transferVars
  <2>2. link = "up" => Only(Pipe, Sendable')
    <3>1. Sendable' = {"answer", "data"}
      BY <2>1 DEF Sendable, Pending
    <3> QED
      BY <3>1
  <2>3. /\ PipeInv' /\ txq' \in Seq(Pdu) /\ air' \in Seq(Pdu)
        /\ Len(txq') <= Len(txq) - q + 0
        /\ link = "up" /\ Only(Pipe, Op) => Only(Pipe', Op)
    <3>1. Send(<<>>, q)
      BY <2>1 DEF SendNothing
    <3> HIDE DEF Sendable
    <3> QED
      BY <2>2, <3>1, Empty, PipeSent
  <2>4. Len(txq') \in Nat
    BY <2>3, LenProperties
  <2>5. TakenUpTo'
    BY <2>1 DEF TakenUpTo
  <2>6. Spends(p, q)
    BY <1>1, <2>1, <2>3, <2>4 DEF Spends
  <2> QED
    BY <1>1, <2>1, <2>3, <2>5, <2>6 DEF TypeInv
<1>3. CASE ~(p = 0 \/ PacketsLeft = 0)
  <2> DEFINE k == Count(p)
             check == k = PacketsLeft \/ k = ToPrn
             left == Int8(p - k)
             crc == Ctrl("crc")
             sent == Packets(k) \o (IF check /\ left # 0 THEN <<crc>> ELSE <<>>)
  <2>1. /\ Send(sent, q)
        /\ pos' = Least({pos + k * SendLen, size[cur_type]})
        /\ acc' = [acc EXCEPT ![cur_type] = @ \o SubSeq(File(cur_type), pos + 1, pos')]
        /\ prn_cnt' = IF check THEN 0 ELSE prn_cnt + k
        /\ pkg_num' = IF check /\ left # 0 THEN Int8(left - 1) ELSE left
        /\ state' = IF ~check THEN "write"
                    ELSE IF left = 0 THEN "get_crc" ELSE "pd_get_crc"
        /\ size' = size
    BY <1>3, Zenon DEF StWrite, Count
  <2>2. /\ k \in Nat /\ k <= ToPrn /\ (p >= 0 => k <= p)
        /\ p - k \in Int /\ ToPrn = Prn - prn_cnt /\ ToPrn \in Nat
    BY CountOK
  <2>3. crc \in Pdu /\ crc.op = "crc"
    BY CtrlOK DEF Op
  <2> HIDE DEF k, crc
  <2>4. /\ Packets(k) \in Seq(Pdu) /\ Len(Packets(k)) = k
        /\ Only(Packets(k), {"data"})
    BY <2>2, PacketsOK
  <2>5. /\ left \in Small /\ left \in Int /\ Int8(left - 1) \in Small
        /\ p >= 0 => left = p - k
        /\ left > 0 => Int8(left - 1) = left - 1
    <3>1. left \in Small /\ left \in Int
      BY <1>1, <2>2, Int8OK DEF Small
    <3>2. p >= 0 => p - k \in Small
      BY <1>1, <2>2 DEF Small
    <3>3. left > 0 => left - 1 \in Small
      BY <1>1, <3>1 DEF Small
    <3>4. p >= 0 => left = p - k
      BY <2>2, <3>2, Int8OK
    <3> HIDE DEF left
    <3> QED
      BY <3>1, <3>3, <3>4, Int8OK
  <2> HIDE DEF left, check
  <2>6. /\ sent \in Seq(Pdu) /\ OneRequest(sent) /\ \A t : Concern(sent, t)
        /\ Len(sent) = IF check /\ left # 0 THEN k + 1 ELSE k
        /\ Only(sent, IF check /\ left # 0 THEN {"answer", "data", "crc"}
                      ELSE {"answer", "data"})
        /\ Only(sent, Op)
    <3>1. CASE check /\ left # 0
      <4>1. sent = Packets(k) \o <<crc>>
        BY <3>1
      <4>2. Only(sent, {"data", "crc"})
        BY <2>3, <2>4, <4>1, Sequel
      <4> HIDE DEF sent
      <4> QED
        BY <2>3, <2>4, <3>1, <4>1, <4>2, Sequel DEF Only, Op
    <3>2. CASE ~(check /\ left # 0)
      <4>1. sent = Packets(k) \o <<>>
        BY <3>2
      <4>2. sent = Packets(k)
        BY <2>3, <2>4, <4>1, Sequel
      <4> HIDE DEF sent
      <4> QED
        BY <2>3, <2>4, <3>2, <4>2, Sequel DEF Only, Op
    <3> QED
      BY <3>1, <3>2
  <2> HIDE DEF sent
  <2>7. /\ state' \in {"write", "get_crc", "pd_get_crc"}
        /\ state' = "pd_get_crc" <=> (check /\ left # 0)
    BY <2>1
  <2>8. /\ link = "up" => Only(Pipe, Sendable')
        /\ Only(sent, Sendable')
    <3>1. CASE check /\ left # 0
      <4>1. Sendable' = {"answer", "data", "crc"}
        BY <2>7, <3>1 DEF Sendable
      <4>2. Only(sent, {"answer", "data", "crc"})
        BY <2>6, <3>1
      <4> QED
        BY <4>1, <4>2 DEF Only
    <3>2. CASE ~(check /\ left # 0)
      <4>1. Sendable' = {"answer", "data"}
        BY <2>7, <3>2 DEF Sendable, Pending
      <4>2. Only(sent, {"answer", "data"})
        BY <2>6, <3>2
      <4> QED
        BY <4>1, <4>2
    <3> QED
      BY <3>1, <3>2
  <2>9. /\ PipeInv' /\ txq' \in Seq(Pdu) /\ air' \in Seq(Pdu)
        /\ Len(txq') <= Len(txq) - q + Len(sent)
        /\ link = "up" /\ Only(Pipe, Op) => Only(Pipe', Op)
    BY <2>1, <2>6, <2>8, PipeSent
  <2>10. /\ pos' \in Nat /\ pos' <= Size[cur_type] /\ acc' \in [Type -> Seq(Nat)]
         /\ acc'[cur_type] = SubSeq(File(cur_type), 1, pos')
    BY <2>1, <2>2, TakeOn
  <2>11. TakenUpTo'
    BY <2>1, <2>10 DEF TakenUpTo, File
  <2>12. Len(txq') \in Nat
    BY <2>9, LenProperties
  <2>13. pkg_num' \in Small
    BY <2>1, <2>5
  <2>14. prn_cnt' \in 0 .. Prn
    BY <1>1, <2>1, <2>2
  <2>15. p >= 0 => pkg_num' >= 0 /\ Len(txq') + pkg_num' <= Len(txq) - q + p
    <3> SUFFICES ASSUME p >= 0
                 PROVE  pkg_num' >= 0 /\ Len(txq') + pkg_num' <= Len(txq) - q + p
      OBVIOUS
    <3>1. left = p - k /\ left >= 0
      BY <1>1, <2>2, <2>5
    <3>2. CASE check /\ left # 0
      BY <1>1, <2>1, <2>2, <2>5, <2>6, <2>9, <2>12, <3>1, <3>2
    <3>3. CASE ~(check /\ left # 0)
      BY <1>1, <2>1, <2>2, <2>5, <2>6, <2>9, <2>12, <3>1, <3>3
    <3> QED
      BY <3>2, <3>3
  <2>16. Spends(p, q)
    BY <2>9, <2>15 DEF Spends
  <2> QED
    BY <2>1, <2>7, <2>9, <2>10, <2>11, <2>13, <2>14, <2>16
<1> QED
  BY <1>2, <1>3

-----------------------------------------------------------------------------
(* A step of the client in which no response stays and the device does     *)
(* nothing.                                                                *)
Quiet ==
    /\ rsp' = <<>>
    /\ UNCHANGED <<link, object, dev_type, executed, ends, starts, answers>>

LEMMA RspGone == rsp' = <<>> => RspInv'
BY DEF RspInv

LEMMA StillExecuted ==
    ASSUME ExecutedInv, rsp' = <<>>, UNCHANGED <<executed, ends>>,
           state # "idle", state' \in Waiting \cup Pending,
           Len(executed) = IF cur_type' = "cmd" THEN 0 ELSE 1
    PROVE  ExecutedInv'
<1>1. ~Answered("execute")'
  BY DEF Answered
<1>2. EndsOnce'
  BY DEF ExecutedInv, EndsOnce
<1> QED
  BY <1>1, <1>2 DEF ExecutedInv

LEMMA NoneExecuted ==
    ASSUME ExecutedInv, state # "idle",
           ~(state = "pd_execute" /\ Answered("execute"))
    PROVE  Len(executed) = IF cur_type = "cmd" THEN 0 ELSE 1
<1> DEFINE base == IF cur_type = "cmd" THEN 0 ELSE 1
           more == IF state = "pd_execute" /\ Answered("execute") THEN 1 ELSE 0
<1>1. Len(executed) = base + more
  BY DEF ExecutedInv
<1>2. base \in Int /\ more = 0
  OBVIOUS
<1> QED
  BY <1>1, <1>2

(* Once a response is there, only answers of the host are on their way.    *)
LEMMA PipeFree ==
    ASSUME DfuInv,
           state \in {"sel", "set_prn", "create", "execute"} \/ rsp # <<>>,
           link = "up"
    PROVE  Only(Pipe, {"answer"})
<1>1. CASE rsp # <<>>
  BY <1>1 DEF DfuInv, RspInv
<1>2. CASE state \in {"sel", "set_prn", "create", "execute"}
  <2>1. Sendable = {"answer"}
    BY <1>2 DEF Sendable, Pending
  <2> QED
    BY <2>1 DEF DfuInv, PipeInv
<1> QED
  BY <1>1, <1>2

LEMMA SetPrnOK ==
    ASSUME DfuInv, Quiet, NEW p \in Small, NEW q, q \in 0 .. Len(txq),
           StSetPrn(p, q),
           state = "set_prn" \/ (state = "pd_sel" /\ rsp # <<>>)
    PROVE  DfuInv' /\ SpendsOne(p, q)
<1>1. TypeInv /\ PipeInv /\ TakenInv /\ ObjectInv /\ ExecutedInv
  BY DEF DfuInv
<1>2. /\ StRequest("set_prn", "pd_set_prn", Ctrl("prn"), p, q)
      /\ UNCHANGED <<cur_type, prn_cnt, pos, size, acc>>
      /\ rsp' = <<>>
      /\ UNCHANGED <<link, object, dev_type, executed, ends, starts, answers>>
  BY DEF StSetPrn, transferVars, Quiet
<1>3. Ctrl("prn") \in Pdu /\ Ctrl("prn").op = "prn"
  BY <1>1, CtrlOK DEF Op
<1>4. link = "up" => Only(Pipe, {"answer"})
  BY PipeFree
<1>5. /\ state' = IF p = 0 THEN "set_prn" ELSE "pd_set_prn"
      /\ pkg_num' \in Small /\ txq' \in Seq(Pdu) /\ air' \in Seq(Pdu) /\ PipeInv'
      /\ SpendsOne(p, q)
  <2>1. /\ "set_prn" \in Waiting \ {"write"} /\ "pd_set_prn" \in Pending
        /\ Expected["pd_set_prn"] = "prn"
    BY DEF Waiting, Pending, Expected
  <2> QED
    BY <1>1, <1>2, <1>3, <1>4, <2>1, RequestStep
<1>6. TypeInv'
  BY <1>1, <1>2, <1>5 DEF TypeInv, Waiting, Pending, Small
<1>7. TakenInv'
  BY <1>1, <1>2, <1>5 DEF TakenInv, Before, Transfer
<1>8. ObjectInv'
  BY <1>1, <1>2, <1>5 DEF ObjectInv, Transfer, Answered
<1>9. ExecutedInv'
  <2>1. Len(executed) = IF cur_type' = "cmd" THEN 0 ELSE 1
    BY <1>1, <1>2, NoneExecuted
  <2> QED
    BY <1>1, <1>2, <1>5, <2>1, StillExecuted DEF Waiting, Pending
<1> QED
  BY <1>2, <1>5, <1>6, <1>7, <1>8, <1>9, RspGone DEF DfuInv

LEMMA SelectOK ==
    ASSUME DfuInv, Quiet, NEW p \in Small, NEW q, q \in 0 .. Len(txq),
           NEW t \in Type, StSelect(t, p, q),
           \/ state = "sel" /\ t = cur_type
           \/ state = "pd_execute" /\ Answered("execute") /\ cur_type = "cmd" /\ t = "data"
    PROVE  DfuInv' /\ SpendsOne(p, q)
<1>1. TypeInv /\ PipeInv /\ TakenInv /\ ObjectInv /\ ExecutedInv
  BY DEF DfuInv
<1> DEFINE m == Request("select", t, 0, <<>>)
<1>2. /\ StRequest("sel", "pd_sel", m, p, q)
      /\ prn_cnt' = 0 /\ cur_type' = t /\ pos' = 0
      /\ UNCHANGED <<size, acc>>
      /\ rsp' = <<>>
      /\ UNCHANGED <<link, object, dev_type, executed, ends, starts, answers>>
  BY DEF StSelect, Quiet
<1>3. m \in Pdu /\ m.op = "select" /\ m.type = t
  BY EmptySeq DEF Request, Pdu, Op
<1>4. link = "up" => Only(Pipe, {"answer"})
  BY PipeFree DEF Answered
<1> HIDE DEF m
<1>5. /\ state' = IF p = 0 THEN "sel" ELSE "pd_sel"
      /\ pkg_num' \in Small /\ txq' \in Seq(Pdu) /\ air' \in Seq(Pdu) /\ PipeInv'
      /\ SpendsOne(p, q)
  <2>1. /\ "sel" \in Waiting \ {"write"} /\ "pd_sel" \in Pending
        /\ Expected["pd_sel"] = "select"
    BY DEF Waiting, Pending, Expected
  <2> QED
    BY <1>1, <1>2, <1>3, <1>4, <2>1, RequestStep
<1>6. TypeInv'
  <2>1. Prn \in Nat
    BY DfuClientAssumption
  <2> QED
    BY <1>1, <1>2, <1>5, <2>1 DEF TypeInv, Waiting, Pending, Small
<1>7. TakenInv'
  BY <1>1, <1>2, <1>5 DEF TakenInv, Before, Transfer
<1>8. ObjectInv'
  BY <1>1, <1>2, <1>5 DEF ObjectInv, Transfer, Answered, Type
<1>9. ExecutedInv'
  <2>1. Len(executed) = IF cur_type' = "cmd" THEN 0 ELSE 1
    <3>1. CASE state = "sel"
      BY <1>1, <1>2, <3>1, NoneExecuted
    <3>2. CASE state = "pd_execute" /\ Answered("execute")
      BY <1>1, <1>2, <3>2 DEF ExecutedInv
    <3> QED
      BY <3>1, <3>2
  <2> QED
    BY <1>1, <1>2, <1>5, <2>1, StillExecuted DEF Waiting, Pending
<1> QED
  BY <1>2, <1>5, <1>6, <1>7, <1>8, <1>9, RspGone DEF DfuInv

LEMMA CreateOK ==
    ASSUME DfuInv, Quiet, NEW p \in Small, NEW q, q \in 0 .. Len(txq),
           StCreate(p, q),
           state = "create" \/ (state = "pd_set_prn" /\ rsp # <<>>)
    PROVE  DfuInv' /\ SpendsOne(p, q)
<1>1. TypeInv /\ PipeInv /\ TakenInv /\ ObjectInv /\ ExecutedInv
  BY DEF DfuInv
<1> DEFINE n == Size[cur_type]
           m == Request("create", cur_type, n, <<>>)
<1>2. /\ StRequest("create", "pd_create", m, p, q)
      /\ IF p = 0 THEN UNCHANGED <<size, acc>>
         ELSE /\ size' = [size EXCEPT ![cur_type] = n]
              /\ acc' = [acc EXCEPT ![cur_type] = <<>>]
      /\ UNCHANGED <<cur_type, prn_cnt, pos>>
      /\ rsp' = <<>>
      /\ UNCHANGED <<link, object, dev_type, executed, ends, starts, answers>>
  BY DEF StCreate, Quiet
<1>3. m \in Pdu /\ m.op = "create" /\ m.type = cur_type /\ n \in Nat
  BY <1>1, FileOK, EmptySeq DEF Request, Pdu, Op, TypeInv
<1>4. link = "up" => Only(Pipe, {"answer"})
  BY PipeFree
<1> HIDE DEF m
<1>5. /\ state' = IF p = 0 THEN "create" ELSE "pd_create"
      /\ pkg_num' \in Small /\ txq' \in Seq(Pdu) /\ air' \in Seq(Pdu) /\ PipeInv'
      /\ SpendsOne(p, q)
  <2>1. /\ "create" \in Waiting \ {"write"} /\ "pd_create" \in Pending
        /\ Expected["pd_create"] = "create"
    BY DEF Waiting, Pending, Expected
  <2> QED
    BY <1>1, <1>2, <1>3, <1>4, <2>1, RequestStep
<1>6. size' \in [Type -> Nat] /\ acc' \in [Type -> Seq(Nat)] /\ cur_type \in Type
  <2>1. /\ size \in [Type -> Nat] /\ acc \in [Type -> Seq(Nat)] /\ cur_type \in Type
        /\ <<>> \in Seq(Nat)
    BY <1>1 DEF TypeInv
  <2> QED
    BY <1>2, <1>3, <2>1
<1>7. TypeInv'
  BY <1>1, <1>2, <1>5, <1>6 DEF TypeInv, Waiting, Pending, Small
<1>8. TakenInv'
  <2>1. pos = 0
    BY <1>1 DEF TakenInv, Before
  <2>2. CASE p = 0
    BY <1>2, <1>5, <2>1, <2>2 DEF TakenInv, Before, Transfer
  <2>3. CASE p # 0
    <3>1. state' = "pd_create"
      BY <1>5, <2>3
    <3>2. size'[cur_type] = n /\ acc'[cur_type] = <<>>
      BY <1>1, <1>2, <2>3 DEF TypeInv
    <3>3. SubSeq(File(cur_type), 1, 0) = <<>>
      BY SubSeqEmpty
    <3>4. /\ size'[cur_type'] = Size[cur_type'] /\ pos' <= Size[cur_type']
          /\ acc'[cur_type'] = SubSeq(File(cur_type'), 1, pos')
      BY <1>2, <1>3, <2>1, <3>2, <3>3 DEF TypeInv
    <3> QED
      BY <1>2, <2>1, <3>1, <3>4 DEF TakenInv, File
  <2> QED
    BY <2>2, <2>3
<1>9. ObjectInv'
  BY <1>1, <1>2, <1>5 DEF ObjectInv, Transfer, Answered
<1>10. ExecutedInv'
  <2>1. Len(executed) = IF cur_type' = "cmd" THEN 0 ELSE 1
    BY <1>1, <1>2, NoneExecuted
  <2> QED
    BY <1>1, <1>2, <1>5, <2>1, StillExecuted DEF Waiting, Pending
<1> QED
  BY <1>2, <1>5, <1>7, <1>8, <1>9, <1>10, RspGone DEF DfuInv

LEMMA GetCrcOK ==
    ASSUME DfuInv, Quiet, NEW p \in Small, NEW q, q \in 0 .. Len(txq),
           StGetCrc(p, q), state = "get_crc"
    PROVE  DfuInv' /\ SpendsOne(p, q)
<1>1. TypeInv /\ PipeInv /\ TakenInv /\ ObjectInv /\ ExecutedInv
  BY DEF DfuInv
<1>2. /\ StRequest("get_crc", "pd_get_crc", Ctrl("crc"), p, q)
      /\ UNCHANGED <<cur_type, prn_cnt, pos, size, acc>>
      /\ rsp' = <<>>
      /\ UNCHANGED <<link, object, dev_type, executed, ends, starts, answers>>
  BY DEF StGetCrc, transferVars, Quiet
<1>3. Ctrl("crc") \in Pdu /\ Ctrl("crc").op = "crc"
  BY <1>1, CtrlOK DEF Op
<1>4. link = "up" => Only(Pipe, {"answer", "data"})
  <2>1. Sendable = {"answer", "data"}
    BY DEF Sendable, Pending
  <2> QED
    BY <1>1, <2>1 DEF PipeInv
<1>5. /\ state' = IF p = 0 THEN "get_crc" ELSE "pd_get_crc"
      /\ pkg_num' \in Small /\ txq' \in Seq(Pdu) /\ air' \in Seq(Pdu) /\ PipeInv'
      /\ SpendsOne(p, q)
  <2>1. /\ "get_crc" \in Waiting \ {"write"} /\ "pd_get_crc" \in Pending
        /\ Expected["pd_get_crc"] = "crc"
    BY DEF Waiting, Pending, Expected
  <2> QED
    BY <1>1, <1>2, <1>3, <1>4, <2>1, RequestStep
<1>6. TypeInv'
  BY <1>1, <1>2, <1>5 DEF TypeInv, Waiting, Pending, Small
<1>7. TakenInv'
  BY <1>1, <1>2, <1>5 DEF TakenInv, Before, Transfer, File
<1>8. ObjectInv'
  BY <1>1, <1>2, <1>5 DEF ObjectInv, Transfer, Answered
<1>9. ExecutedInv'
  <2>1. Len(executed) = IF cur_type' = "cmd" THEN 0 ELSE 1
    BY <1>1, <1>2, NoneExecuted
  <2> QED
    BY <1>1, <1>2, <1>5, <2>1, StillExecuted DEF Waiting, Pending
<1> QED
  BY <1>2, <1>5, <1>6, <1>7, <1>8, <1>9, RspGone DEF DfuInv

LEMMA ExecuteOK ==
    ASSUME DfuInv, Quiet, NEW p \in Small, NEW q, q \in 0 .. Len(txq),
           StExecute(p, q),
           \/ state = "execute"
           \/ /\ state = "pd_get_crc" /\ rsp # <<>>
              /\ link = "up" => object[cur_type].bytes = File(cur_type)
    PROVE  DfuInv' /\ SpendsOne(p, q)
<1>1. TypeInv /\ PipeInv /\ TakenInv /\ ObjectInv /\ ExecutedInv
  BY DEF DfuInv
<1>2. /\ StRequest("execute", "pd_execute", Ctrl("execute"), p, q)
      /\ UNCHANGED <<cur_type, prn_cnt, pos, size, acc>>
      /\ rsp' = <<>>
      /\ UNCHANGED <<link, object, dev_type, executed, ends, starts, answers>>
  BY DEF StExecute, transferVars, Quiet
<1>3. Ctrl("execute") \in Pdu /\ Ctrl("execute").op = "execute"
  BY <1>1, CtrlOK DEF Op
<1>4. link = "up" => Only(Pipe, {"answer"})
  BY PipeFree
<1>5. /\ state' = IF p = 0 THEN "execute" ELSE "pd_execute"
      /\ pkg_num' \in Small /\ txq' \in Seq(Pdu) /\ air' \in Seq(Pdu) /\ PipeInv'
      /\ SpendsOne(p, q)
  <2>1. /\ "execute" \in Waiting \ {"write"} /\ "pd_execute" \in Pending
        /\ Expected["pd_execute"] = "execute"
    BY DEF Waiting, Pending, Expected
  <2> QED
    BY <1>1, <1>2, <1>3, <1>4, <2>1, RequestStep
<1>6. TypeInv'
  BY <1>1, <1>2, <1>5 DEF TypeInv, Waiting, Pending, Small
<1>7. TakenInv'
  BY <1>1, <1>2, <1>5 DEF TakenInv, Before, Transfer, File
<1>8. ObjectInv'
  BY <1>1, <1>2, <1>5 DEF ObjectInv, Transfer, Answered, File
<1>9. ExecutedInv'
  <2>1. Len(executed) = IF cur_type' = "cmd" THEN 0 ELSE 1
    BY <1>1, <1>2, NoneExecuted
  <2> QED
    BY <1>1, <1>2, <1>5, <2>1, StillExecuted DEF Waiting, Pending
<1> QED
  BY <1>2, <1>5, <1>6, <1>7, <1>8, <1>9, RspGone DEF DfuInv

LEMMA WriteOK ==
    ASSUME DfuInv, Quiet, NEW p \in Small, NEW q, q \in 0 .. Len(txq),
           StWrite(p, q), cur_type' = cur_type,
           \/ state = "write"
           \/ state = "pd_create" /\ Answered("create")
           \/ state = "pd_get_crc" /\ rsp # <<>>
    PROVE  DfuInv' /\ Spends(p, q)
<1>1. TypeInv /\ PipeInv /\ TakenInv /\ ObjectInv /\ ExecutedInv
  BY DEF DfuInv
<1>2. /\ rsp' = <<>>
      /\ UNCHANGED <<cur_type, link, object, dev_type, executed, ends, starts, answers>>
  BY DEF Quiet
<1>3. TakenUpTo
  BY <1>1 DEF TakenUpTo, TakenInv, Transfer
<1>4. link = "up" => Only(Pipe, {"answer", "data"})
  <2>1. CASE state = "write"
    <3>1. Sendable = {"answer", "data"}
      BY <2>1 DEF Sendable, Pending
    <3> QED
      BY <1>1, <3>1 DEF PipeInv
  <2>2. CASE rsp # <<>>
    BY <2>2, PipeFree DEF Only
  <2> QED
    BY <2>1, <2>2 DEF Answered
<1>5. /\ state' \in {"write", "get_crc", "pd_get_crc"}
      /\ pkg_num' \in Small /\ prn_cnt' \in 0 .. Prn
      /\ pos' \in Nat /\ size' = size /\ acc' \in [Type -> Seq(Nat)]
      /\ TakenUpTo'
      /\ txq' \in Seq(Pdu) /\ air' \in Seq(Pdu)
      /\ PipeInv' /\ Spends(p, q)
  BY <1>1, <1>2, <1>3, <1>4, WriteStep
<1>6. TypeInv'
  BY <1>1, <1>2, <1>5 DEF TypeInv, Waiting, Pending, Small
<1>7. TakenInv'
  BY <1>5 DEF TakenInv, TakenUpTo, Before, Transfer
<1>8. ObjectInv'
  BY <1>1, <1>2, <1>5 DEF ObjectInv, Transfer, Answered
<1>9. ExecutedInv'
  <2>1. Len(executed) = IF cur_type' = "cmd" THEN 0 ELSE 1
    BY <1>1, <1>2, NoneExecuted
  <2> QED
    BY <1>1, <1>2, <1>5, <2>1, StillExecuted DEF Waiting, Pending
<1> QED
  BY <1>2, <1>5, <1>6, <1>7, <1>8, <1>9, RspGone DEF DfuInv

-----------------------------------------------------------------------------
(* The host's actions.                                                     *)

(* A file is all its bytes, and none of another's.                         *)
LEMMA WholeFile ==
    ASSUME NEW t \in Type, NEW n \in Nat, n <= Size[t],
           Len(SubSeq(File(t), 1, n)) = Size[t]
    PROVE  SubSeq(File(t), 1, n) = File(t)
<1>1. /\ File(t) \in Seq(Nat) /\ Len(File(t)) = Size[t] /\ Size[t] \in Nat
      /\ \A i \in 1 .. n : File(t)[i] \in Nat
  BY FileOK
<1>2. Len(SubSeq(File(t), 1, n)) = n
  <2>1. Len(SubSeq(File(t), 1, n)) = IF 1 <= n THEN n - 1 + 1 ELSE 0
    <3>1. 1 \in Int /\ n \in Int
      OBVIOUS
    <3> QED
      BY ONLY <1>1, <3>1, SubSeqProperties
  <2> QED
    BY <2>1
<1> QED
  BY <1>1, <1>2, SubSeqFull

LEMMA ForeignIsNoPart ==
    ASSUME cur_type \in Type, NEW r, r.bytes \in Foreign
    PROVE  ~Matches(r)
<1>1. CASE r.bytes = <<>>
  BY <1>1 DEF Matches
<1>2. CASE r.bytes = <<0>>
  <2>1. SubSeq(File(cur_type), 1, 1)[1] = 1
    <3>1. /\ File(cur_type) \in Seq(Nat) /\ Size[cur_type] \in Nat \ {0}
          /\ File(cur_type)[1] = 1
      BY FileOK
    <3>2. \A i \in 1 .. 1 : File(cur_type)[i] \in Nat
      BY <3>1
    <3>3. 1 \in Int /\ 1 \in 1 .. 1 - 1 + 1
      OBVIOUS
    <3> QED
      BY <3>1, <3>2, <3>3, SubSeqProperties
  <2>2. Len(<<0>>) = 1 /\ <<0>>[1] = 0
    OBVIOUS
  <2> QED
    BY <1>2, <2>1, <2>2 DEF Matches
<1> QED
  BY <1>1, <1>2 DEF Foreign


(* A result behind those there are.                                        *)
LEMMA EndsAppended ==
    ASSUME ExecutedInv, ends \in Seq(Result), NEW result \in Result,
           ends' = Append(ends, result), state' = "idle", executed' = executed,
           result = "error" \/ state # "idle",
           result = "success" => Len(executed) = 2
    PROVE  ExecutedInv'
<1>1. /\ Len(ends) \in Nat /\ Len(ends') = Len(ends) + 1
      /\ \A i \in 1 .. Len(ends) : ends'[i] = ends[i]
      /\ ends'[Len(ends) + 1] = result
      /\ DOMAIN ends' = 1 .. Len(ends')
  BY AppendProperties, LenProperties
<1>2. DOMAIN ends = 1 .. Len(ends)
  BY LenProperties
<1>3. EndsOnce'
  <2> SUFFICES ASSUME NEW i \in 1 .. Len(ends) + 1, i > 1
               PROVE  ends'[i] = "error"
    BY <1>1 DEF EndsOnce
  <2>1. CASE i <= Len(ends)
    <3>1. i \in DOMAIN ends /\ ends'[i] = ends[i]
      BY <1>1, <1>2, <2>1
    <3> QED
      BY <3>1 DEF ExecutedInv, EndsOnce
  <2>2. CASE i = Len(ends) + 1
    <3>1. ends # <<>>
      BY <2>2
    <3>2. state = "idle"
      BY <3>1 DEF ExecutedInv, EndsOnce
    <3> QED
      BY <1>1, <2>2, <3>2
  <2> QED
    BY <1>1, <2>1, <2>2
<1>4. \A i \in 1 .. Len(ends') : ends'[i] = "success" => Len(executed) = 2
  <2> SUFFICES ASSUME NEW i \in 1 .. Len(ends) + 1, ends'[i] = "success"
               PROVE  Len(executed) = 2
    BY <1>1
  <2>1. CASE i <= Len(ends)
    BY <1>1, <2>1 DEF ExecutedInv
  <2>2. CASE i = Len(ends) + 1
    BY <1>1, <2>2
  <2> QED
    BY <1>1, <2>1, <2>2
<1> QED
  BY <1>3, <1>4 DEF ExecutedInv

LEMMA FinishOK ==
    ASSUME DfuInv, NEW result \in Result, Finish(result),
           rsp' = <<>>, rsp # <<>>,
           UNCHANGED <<pkg_num, txq, air, link, deviceVars, starts, answers>>,
           result = "error" \/ state # "idle",
           result = "success" => Len(executed) = 2
    PROVE  DfuInv'
<1>1. TypeInv /\ PipeInv /\ TakenInv /\ ObjectInv /\ ExecutedInv
  BY DEF DfuInv
<1>2. /\ state' = "idle" /\ ends' = Append(ends, result)
      /\ UNCHANGED <<cur_type, prn_cnt, pos, size, acc, pkg_num, txq, air,
                     link, object, dev_type, executed, starts, answers>>
  BY DEF Finish, transferVars, deviceVars
<1>3. PipeInv'
  <2>1. link = "up" => Only(Pipe, {"answer"})
    BY PipeFree
  <2>2. Sendable' = {"answer"}
    BY <1>2 DEF Sendable, Pending
  <2> QED
    BY <1>1, <1>2, <2>1, <2>2 DEF PipeInv, Pipe, OneRequest, Only, Concern
<1>4. TypeInv'
  BY <1>1, <1>2, AppendProperties DEF TypeInv
<1>5. TakenInv'
  BY <1>2 DEF TakenInv, Before, Transfer
<1>6. ObjectInv'
  BY <1>1, <1>2 DEF ObjectInv, Transfer
<1>7. ExecutedInv'
  <2>1. ends \in Seq(Result)
    BY <1>1 DEF TypeInv
  <2> QED
    BY <1>1, <1>2, <2>1, EndsAppended
<1> QED
  BY <1>3, <1>4, <1>5, <1>6, <1>7, RspGone DEF DfuInv

(* What a notification makes the client spend.                             *)
GattSpends ==
    \/ state' = "idle" /\ UNCHANGED <<pkg_num, txq, air>>
    \/ state = "pd_sel" /\ SpendsOne(pkg_num, 0)
       /\ state' = IF pkg_num = 0 THEN "set_prn" ELSE "pd_set_prn"
    \/ state = "pd_set_prn" /\ SpendsOne(pkg_num, 0)
       /\ state' = IF pkg_num = 0 THEN "create" ELSE "pd_create"
    \/ state \in {"pd_create", "pd_get_crc", "pd_execute"} /\ Spends(pkg_num, 0)

LEMMA GattRecvOK ==
    ASSUME DfuInv, GattRecv
    PROVE  DfuInv' /\ rsp' = <<>> /\ GattSpends
<1>1. TypeInv /\ PipeInv /\ RspInv /\ TakenInv /\ ObjectInv /\ ExecutedInv
  BY DEF DfuInv
<1> DEFINE r == rsp[1]
<1>2. rsp # <<>> /\ rsp = <<r>> /\ Head(rsp) = r /\ rsp' = <<>>
  <2>1. rsp # <<>> /\ rsp = <<r>> /\ rsp' = Tail(rsp)
    BY <1>1 DEF GattRecv, RspInv
  <2>2. Head(<<r>>) = r /\ Tail(<<r>>) = <<>>
    OBVIOUS
  <2> QED
    BY <2>1, <2>2
<1>3. UNCHANGED <<link, object, dev_type, executed, starts, answers>>
  BY DEF GattRecv, deviceVars, countVars
<1>4. ASSUME UNCHANGED ends PROVE Quiet
  BY <1>2, <1>3, <1>4 DEF Quiet
<1>5. pkg_num \in Small /\ Len(txq) \in Nat /\ 0 \in 0 .. Len(txq)
  BY <1>1, LenProperties DEF TypeInv, Small
<1>6. CASE r = ErrorResponse /\ Finish("error") /\ UNCHANGED <<pkg_num, txq, air>>
  <2>1. "error" \in Result
    BY DEF Result
  <2>2. UNCHANGED <<pkg_num, txq, air, link, deviceVars, starts, answers>>
    BY <1>3, <1>6 DEF GattRecv
  <2>3. GattSpends
    BY <1>6 DEF GattSpends, Finish
  <2> QED
    BY <1>2, <1>6, <2>1, <2>2, <2>3, FinishOK
<1>7. CASE r # ErrorResponse /\ RecvSuccess(r)
  <2>1. CASE /\ r.op = "select" /\ state = "pd_sel"
             /\ IF Matches(r) THEN StWrite(pkg_num, 0) /\ UNCHANGED cur_type
                ELSE StSetPrn(pkg_num, 0)
             /\ UNCHANGED ends
    <3>1. ~Matches(r)
      <4>1. r.bytes \in Foreign
        BY <1>1, <1>2, <2>1 DEF ObjectInv, Answered
      <4> QED
        BY <1>1, <4>1, ForeignIsNoPart DEF TypeInv
    <3>2. DfuInv' /\ SpendsOne(pkg_num, 0)
      BY <1>2, <1>4, <1>5, <2>1, <3>1, SetPrnOK
    <3>3. state' = IF pkg_num = 0 THEN "set_prn" ELSE "pd_set_prn"
      BY <2>1, <3>1 DEF StSetPrn, StRequest
    <3> QED
      BY <1>2, <2>1, <3>2, <3>3 DEF GattSpends
  <2>2. CASE r.op = "prn" /\ state = "pd_set_prn" /\ StCreate(pkg_num, 0) /\ UNCHANGED ends
    <3>1. DfuInv' /\ SpendsOne(pkg_num, 0)
      BY <1>2, <1>4, <1>5, <2>2, CreateOK
    <3>2. state' = IF pkg_num = 0 THEN "create" ELSE "pd_create"
      BY <2>2 DEF StCreate, StRequest
    <3> QED
      BY <1>2, <2>2, <3>1, <3>2 DEF GattSpends
  <2>3. CASE /\ r.op = "create" /\ state = "pd_create" /\ StWrite(pkg_num, 0)
             /\ UNCHANGED <<cur_type, ends>>
    <3>1. DfuInv' /\ Spends(pkg_num, 0)
      BY <1>2, <1>4, <1>5, <2>3, WriteOK DEF Answered
    <3> QED
      BY <1>2, <2>3, <3>1 DEF GattSpends
  <2>4. CASE /\ r.op = "crc" /\ state = "pd_get_crc"
             /\ IF ~CheckCrc(r)
                THEN /\ Finish("crc_not_match")
                     /\ UNCHANGED <<pkg_num, txq, air>>
                ELSE /\ IF Whole(r) THEN StExecute(pkg_num, 0)
                        ELSE StWrite(pkg_num, 0) /\ UNCHANGED cur_type
                     /\ UNCHANGED ends
    <3>1. CASE ~CheckCrc(r)
      <4>1. "crc_not_match" \in Result
        BY DEF Result
      <4>2. /\ Finish("crc_not_match")
            /\ UNCHANGED <<pkg_num, txq, air, link, deviceVars, starts, answers>>
        BY <1>3, <2>4, <3>1 DEF GattRecv
      <4>3. GattSpends
        BY <4>2 DEF GattSpends, Finish
      <4> QED
        BY <1>2, <2>4, <4>1, <4>2, <4>3, FinishOK
    <3>2. CASE CheckCrc(r) /\ Whole(r)
      <4>1. link = "up" => object[cur_type].bytes = File(cur_type)
        <5>1. /\ size[cur_type] = Size[cur_type] /\ pos <= Size[cur_type] /\ pos \in Nat
              /\ acc[cur_type] = SubSeq(File(cur_type), 1, pos) /\ cur_type \in Type
          BY <1>1, <2>4 DEF TakenInv, Transfer, TypeInv
        <5>2. Len(SubSeq(File(cur_type), 1, pos)) = Size[cur_type]
          BY <3>2, <5>1 DEF CheckCrc, Whole
        <5>3. SubSeq(File(cur_type), 1, pos) = File(cur_type)
          BY <5>1, <5>2, WholeFile
        <5>4. link = "up" => r.bytes = object[cur_type].bytes
          BY <1>1, <1>2, <2>4 DEF ObjectInv, Answered
        <5> QED
          BY <3>2, <5>1, <5>3, <5>4 DEF CheckCrc
      <4>2. Quiet /\ StExecute(pkg_num, 0)
        BY <1>4, <2>4, <3>2
      <4>3. DfuInv' /\ SpendsOne(pkg_num, 0)
        BY <1>2, <1>5, <2>4, <4>1, <4>2, ExecuteOK
      <4> QED
        BY <1>2, <2>4, <4>3 DEF GattSpends, SpendsOne
    <3>3. CASE CheckCrc(r) /\ ~Whole(r)
      <4>1. DfuInv' /\ Spends(pkg_num, 0)
        BY <1>2, <1>4, <1>5, <2>4, <3>3, WriteOK
      <4> QED
        BY <1>2, <2>4, <4>1 DEF GattSpends
    <3> QED
      BY <3>1, <3>2, <3>3
  <2>5. CASE /\ r.op = "execute" /\ state = "pd_execute"
             /\ IF cur_type = "cmd"
                THEN StSelect("data", pkg_num, 0) /\ UNCHANGED ends
                ELSE Finish("success") /\ UNCHANGED <<pkg_num, txq, air>>
    <3>1. Answered("execute")
      BY <1>2, <2>5 DEF Answered
    <3>2. CASE cur_type = "cmd"
      <4>1. "data" \in Type /\ StSelect("data", pkg_num, 0) /\ Quiet
        BY <1>4, <2>5, <3>2 DEF Type
      <4>2. DfuInv' /\ SpendsOne(pkg_num, 0)
        BY <1>5, <2>5, <3>1, <3>2, <4>1, SelectOK
      <4> QED
        BY <1>2, <2>5, <4>2 DEF GattSpends, SpendsOne
    <3>3. CASE cur_type # "cmd"
      <4>1. "success" \in Result
        BY DEF Result
      <4>2. /\ Finish("success")
            /\ UNCHANGED <<pkg_num, txq, air, link, deviceVars, starts, answers>>
        BY <1>3, <2>5, <3>3 DEF GattRecv
      <4>3. Len(executed) = 2
        BY <1>1, <2>5, <3>1, <3>3 DEF ExecutedInv
      <4>4. GattSpends
        BY <4>2 DEF GattSpends, Finish
      <4> QED
        BY <1>2, <2>5, <4>1, <4>2, <4>3, <4>4, FinishOK
    <3> QED
      BY <3>2, <3>3
  <2> QED
    BY <1>7, <2>1, <2>2, <2>3, <2>4, <2>5 DEF RecvSuccess
<1>8. CASE r # ErrorResponse /\ ~IsExpected(r) /\ UNCHANGED <<clientVars, txq, air, ends>>
  <2>1. /\ UNCHANGED <<state, cur_type, prn_cnt, pkg_num, pos, size, acc, txq, air, ends>>
        /\ state = "idle"
    BY <1>1, <1>2, <1>8
       DEF clientVars, RspInv, IsExpected, TypeInv, Pending, Expected
  <2>2. TypeInv'
    BY <1>1, <1>3, <2>1 DEF TypeInv
  <2>3. PipeInv'
    BY <1>1, <1>3, <2>1 DEF PipeInv, Pipe, Sendable, OneRequest, Only, Concern
  <2>4. TakenInv' /\ ObjectInv'
    BY <1>1, <1>3, <2>1 DEF TakenInv, ObjectInv, Before, Transfer, File
  <2>5. ExecutedInv'
    BY <1>1, <1>3, <2>1 DEF ExecutedInv, EndsOnce, File
  <2>6. GattSpends
    BY <2>1 DEF GattSpends
  <2> QED
    BY <1>2, <2>2, <2>3, <2>4, <2>5, <2>6, RspGone DEF DfuInv
<1> QED
  BY <1>2, <1>6, <1>7, <1>8 DEF GattRecv

(* What the credits let go stays in order, and so does an answer behind it. *)
LEMMA PipeAnswered ==
    ASSUME NEW p, p \in Seq(Pdu), NEW ops, "answer" \in ops, NEW t,
           OneRequest(p), Only(p, ops), Concern(p, t)
    PROVE  LET s == p \o <<AnswerPdu>>
           IN  OneRequest(s) /\ Only(s, ops) /\ Concern(s, t)
<1> DEFINE s == p \o <<AnswerPdu>>
<1>1. /\ Len(p) \in Nat /\ Len(s) = Len(p) + 1
      /\ \A i \in 1 .. Len(p) + 1 : s[i] = IF i <= Len(p) THEN p[i] ELSE AnswerPdu
  <2>1. Len(p) \in Nat /\ <<AnswerPdu>> \in Seq(Pdu)
    BY LenProperties DEF Pdu
  <2>2. /\ Len(<<AnswerPdu>>) = 1 /\ <<AnswerPdu>>[1] = AnswerPdu
        /\ Len(s) = Len(p) + Len(<<AnswerPdu>>)
        /\ \A i \in 1 .. Len(p) + Len(<<AnswerPdu>>) :
            s[i] = IF i <= Len(p) THEN p[i] ELSE <<AnswerPdu>>[i - Len(p)]
    BY <2>1, ConcatProperties
  <2> QED
    BY <2>1, <2>2
<1>2. AnswerPdu.op = "answer"
  BY DEF AnswerPdu
<1> HIDE DEF s
<1>3. \A i \in 1 .. Len(s) : \/ i \in 1 .. Len(p) /\ s[i] = p[i]
                             \/ i = Len(s) /\ s[i].op = "answer"
  BY <1>1, <1>2
<1>4. OneRequest(s)
  <2> SUFFICES ASSUME NEW i \in 1 .. Len(s), NEW j \in 1 .. Len(s), i < j,
                      s[i].op \notin {"data", "answer"}
               PROVE  s[j].op = "answer"
    BY DEF OneRequest
  <2>1. i \in 1 .. Len(p) /\ s[i] = p[i]
    BY <1>3
  <2> QED
    BY <1>3, <2>1 DEF OneRequest
<1>5. Only(s, ops) /\ Concern(s, t)
  BY <1>3 DEF Only, Concern
<1> QED
  BY <1>4, <1>5 DEF s

LEMMA TxCompleteOK ==
    ASSUME DfuInv, NEW n, NEW k, k \in 0 .. Len(txq), TxComplete(n, k)
    PROVE  /\ DfuInv'
           /\ Spends(PaceOf(Len(txq) - k), k)
           /\ rsp' # <<>> => state' = state /\ rsp' = rsp /\ Len(txq') <= Len(txq) - k
<1>1. TypeInv /\ PipeInv /\ RspInv /\ TakenInv /\ ObjectInv /\ ExecutedInv
  BY DEF DfuInv
<1> DEFINE p == PaceOf(Len(txq) - k)
<1>2. p \in Small
  <2>1. Len(txq) \in Nat /\ Pace \in Nat
    BY <1>1, LenProperties, DfuClientAssumption DEF TypeInv
  <2>2. Pace - (Len(txq) - k) \in Int
    BY <2>1
  <2> QED
    BY <2>2, Int8OK DEF PaceOf
<1> HIDE DEF p
<1>3. /\ CanSend(p, k)
      /\ UNCHANGED <<rsp, link, object, dev_type, executed, ends, starts, answers>>
  BY DEF TxComplete, p, deviceVars, countVars
<1>4. ASSUME state \in Waiting PROVE Quiet /\ rsp' = <<>>
  BY <1>1, <1>3, <1>4 DEF Quiet, RspInv
<1> DEFINE Done == /\ DfuInv' /\ Spends(p, k)
                   /\ rsp' # <<>> => /\ state' = state /\ rsp' = rsp
                                     /\ Len(txq') <= Len(txq) - k
<1>5. ASSUME state = "write" PROVE Done
  <2>1. StWrite(p, k) /\ cur_type' = cur_type
    BY <1>3, <1>5 DEF CanSend
  <2> QED
    BY <1>2, <1>4, <1>5, <2>1, WriteOK DEF Waiting, SpendsOne
<1>6. ASSUME state = "sel" PROVE Done
  <2>1. StSelect(cur_type, p, k) /\ cur_type \in Type
    BY <1>1, <1>3, <1>6 DEF CanSend, TypeInv
  <2> QED
    BY <1>2, <1>4, <1>6, <2>1, SelectOK DEF Waiting, SpendsOne
<1>7. ASSUME state = "set_prn" PROVE Done
  <2>1. StSetPrn(p, k)
    BY <1>3, <1>7 DEF CanSend
  <2> QED
    BY <1>2, <1>4, <1>7, <2>1, SetPrnOK DEF Waiting, SpendsOne
<1>8. ASSUME state = "create" PROVE Done
  <2>1. StCreate(p, k)
    BY <1>3, <1>8 DEF CanSend
  <2> QED
    BY <1>2, <1>4, <1>8, <2>1, CreateOK DEF Waiting, SpendsOne
<1>9. ASSUME state = "get_crc" PROVE Done
  <2>1. StGetCrc(p, k)
    BY <1>3, <1>9 DEF CanSend
  <2> QED
    BY <1>2, <1>4, <1>9, <2>1, GetCrcOK DEF Waiting, SpendsOne
<1>10. ASSUME state = "execute" PROVE Done
  <2>1. StExecute(p, k)
    BY <1>3, <1>10 DEF CanSend
  <2> QED
    BY <1>2, <1>4, <1>10, <2>1, ExecuteOK DEF Waiting, SpendsOne
<1>11. ASSUME state \notin Waiting PROVE Done
  <2>1. /\ pkg_num' = p /\ SendNothing(k)
        /\ UNCHANGED <<state, cur_type, prn_cnt, pos, size, acc>>
    BY <1>3, <1>11 DEF CanSend, Waiting, transferVars
  <2>2. /\ txq' \in Seq(Pdu) /\ air' \in Seq(Pdu)
        /\ link = "up" => Pipe' = Pipe
        /\ link # "up" => air' = air
    <3>1. Send(<<>>, k)
      BY <2>1 DEF SendNothing
    <3>2. /\ txq' \in Seq(Pdu) /\ air' \in Seq(Pdu)
          /\ link = "up" => Pipe' = Pipe \o <<>>
          /\ link # "up" => air' = air
      BY <1>1, <3>1, Empty, SendEffect
    <3>3. Pipe \o <<>> = Pipe
      BY <1>1, PipeType, ConcatEmptySeq
    <3> QED
      BY <3>2, <3>3
  <2>3. TypeInv'
    BY <1>1, <1>2, <1>3, <2>1, <2>2 DEF TypeInv, Small
  <2>4. PipeInv'
    BY <1>1, <1>3, <2>1, <2>2 DEF PipeInv, Sendable, OneRequest, Only, Concern
  <2>5. RspInv'
    BY <1>1, <1>3, <2>1, <2>2 DEF RspInv, Only
  <2>6. TakenInv' /\ ObjectInv'
    BY <1>1, <1>3, <2>1 DEF TakenInv, ObjectInv, Before, Transfer, File, Answered
  <2>7. ExecutedInv'
    BY <1>1, <1>3, <2>1 DEF ExecutedInv, EndsOnce, File, Answered
  <2>8. /\ Len(txq') <= Len(txq) - k
        /\ Spends(p, k)
    <3>1. Send(<<>>, k)
      BY <2>1 DEF SendNothing
    <3>2. Len(txq') <= Len(txq) - k + 0
      BY <1>1, <3>1, Empty, SendEffect
    <3>3. p \in Int /\ Len(txq) \in Nat /\ Len(txq') \in Nat
      BY <1>1, <1>2, <2>2, LenProperties DEF TypeInv, Small
    <3> QED
      BY <2>1, <2>2, <3>2, <3>3 DEF Spends, Only
  <2> QED
    BY <1>3, <2>1, <2>3, <2>4, <2>5, <2>6, <2>7, <2>8 DEF DfuInv
<1>12. Done
  BY <1>5, <1>6, <1>7, <1>8, <1>9, <1>10, <1>11 DEF Waiting
<1> QED
  BY <1>12 DEF p

LEMMA AnswerOK ==
    ASSUME DfuInv, Answer
    PROVE  DfuInv'
<1>1. TypeInv /\ PipeInv /\ RspInv /\ TakenInv /\ ObjectInv /\ ExecutedInv
  BY DEF DfuInv
<1>2. /\ Send(<<AnswerPdu>>, 0) /\ link = "up" /\ answers' = answers + 1
      /\ UNCHANGED <<state, cur_type, prn_cnt, pkg_num, pos, size, acc, rsp,
                     link, object, dev_type, executed, ends, starts>>
  BY DEF Answer, clientVars, deviceVars
<1>3. txq' \in Seq(Pdu) /\ air' \in Seq(Pdu) /\ Pipe' = Pipe \o <<AnswerPdu>>
  <2>1. <<AnswerPdu>> \in Seq(Pdu) /\ 0 \in 0 .. Len(txq)
    BY <1>1, LenProperties DEF TypeInv, Pdu
  <2> QED
    BY <1>1, <1>2, <2>1, SendEffect
<1>4. Pipe \in Seq(Pdu)
  BY <1>1, PipeType
<1>5. TypeInv'
  BY <1>1, <1>2, <1>3 DEF TypeInv
<1>6. PipeInv'
  <2>1. "answer" \in Sendable /\ Sendable' = Sendable
    BY <1>2 DEF Sendable
  <2>2. OneRequest(Pipe) /\ Only(Pipe, Sendable) /\ Concern(Pipe, cur_type)
    BY <1>1, <1>2 DEF PipeInv
  <2> HIDE DEF Sendable
  <2>3. OneRequest(Pipe') /\ Only(Pipe', Sendable) /\ Concern(Pipe', cur_type)
    BY <1>3, <1>4, <2>1, <2>2, PipeAnswered
  <2> QED
    BY <1>2, <2>1, <2>3 DEF PipeInv, OneRequest, Only, Concern
<1>7. RspInv'
  <2>1. rsp # <<>> => Only(Pipe', {"answer"})
    <3> SUFFICES ASSUME rsp # <<>> PROVE Only(Pipe', {"answer"})
      OBVIOUS
    <3>1. Only(Pipe, {"answer"}) /\ OneRequest(Pipe) /\ Concern(Pipe, cur_type)
      BY <1>1, <1>2 DEF RspInv, PipeInv
    <3> QED
      BY <1>3, <1>4, <3>1, PipeAnswered
  <2> QED
    BY <1>1, <1>2, <2>1 DEF RspInv, Only
<1>8. TakenInv' /\ ObjectInv'
  BY <1>1, <1>2 DEF TakenInv, ObjectInv, Before, Transfer, File, Answered
<1>9. ExecutedInv'
  BY <1>1, <1>2 DEF ExecutedInv, EndsOnce, File, Answered
<1> QED
  BY <1>5, <1>6, <1>7, <1>8, <1>9 DEF DfuInv

LEMMA DisconnectedOK ==
    ASSUME DfuInv, Disconnected
    PROVE  DfuInv'
<1>1. TypeInv /\ PipeInv /\ RspInv /\ TakenInv /\ ObjectInv /\ ExecutedInv
  BY DEF DfuInv
<1>2. /\ link = "lost" /\ link' = "down"
      /\ UNCHANGED <<txq, air, rsp, object, dev_type, executed, starts, answers>>
  BY DEF Disconnected, queueVars, deviceVars, countVars
<1>3. /\ state' = "idle" /\ pkg_num' \in Small
      /\ UNCHANGED <<cur_type, prn_cnt, pos, size, acc>>
      /\ ends' \in Seq(Result)
      /\ \/ state = "idle" /\ ends' = ends
         \/ state # "idle" /\ ends' = Append(ends, "abort")
  <2>1. CASE state = "idle"
    BY <1>1, <2>1 DEF Disconnected, clientVars, TypeInv, Small
  <2>2. CASE state # "idle"
    <3>1. 0 \in Small
      BY DfuClientAssumption DEF Small
    <3>2. ends \in Seq(Result) /\ "abort" \in Result
      BY <1>1 DEF TypeInv, Result
    <3> QED
      BY <2>2, <3>1, <3>2, AppendProperties DEF Disconnected, Finish, transferVars
  <2> QED
    BY <2>1, <2>2
<1>4. TypeInv'
  BY <1>1, <1>2, <1>3 DEF TypeInv, Small
<1>5. PipeInv' /\ RspInv'
  BY <1>1, <1>2, <1>3 DEF PipeInv, RspInv, Waiting, Pending
<1>6. TakenInv' /\ ObjectInv'
  BY <1>1, <1>2, <1>3 DEF TakenInv, ObjectInv, Before, Transfer
<1>7. ExecutedInv'
  <2>1. CASE state = "idle" /\ ends' = ends
    BY <1>1, <1>2, <1>3, <2>1 DEF ExecutedInv, EndsOnce, File
  <2>2. CASE state # "idle" /\ ends' = Append(ends, "abort")
    <3>1. "abort" \in Result /\ ends \in Seq(Result)
      BY <1>1 DEF Result, TypeInv
    <3> QED
      BY <1>1, <1>2, <1>3, <2>2, <3>1, EndsAppended
  <2> QED
    BY <1>3, <2>1, <2>2
<1> QED
  BY <1>4, <1>5, <1>6, <1>7 DEF DfuInv

-----------------------------------------------------------------------------
(* The controller, the USB pipe and the device.                            *)

LEMMA LinkLossOK ==
    ASSUME DfuInv, LinkLoss
    PROVE  DfuInv'
<1>1. TypeInv /\ RspInv /\ TakenInv /\ ObjectInv /\ ExecutedInv
  BY DEF DfuInv
<1>2. /\ link = "up" /\ link' = "lost" /\ air' = <<>>
      /\ UNCHANGED <<state, cur_type, prn_cnt, pkg_num, pos, size, acc, txq, rsp,
                     object, dev_type, executed, ends, starts, answers>>
  BY DEF LinkLoss, clientVars, deviceVars, countVars
<1>3. TypeInv'
  BY <1>1, <1>2 DEF TypeInv
<1>4. PipeInv' /\ RspInv'
  BY <1>1, <1>2 DEF PipeInv, RspInv
<1>5. TakenInv' /\ ObjectInv'
  BY <1>1, <1>2 DEF TakenInv, ObjectInv, Before, Transfer, File, Answered
<1>6. ExecutedInv'
  BY <1>1, <1>2 DEF ExecutedInv, EndsOnce, File, Answered
<1> QED
  BY <1>3, <1>4, <1>5, <1>6 DEF DfuInv

(* What is left when one PDU is gone is in the order it was.               *)
Thinned(s, p) ==
    \E f \in [1 .. Len(s) -> 1 .. Len(p)] :
        /\ \A i, j \in 1 .. Len(s) : i < j => f[i] < f[j]
        /\ \A i \in 1 .. Len(s) : s[i] = p[f[i]]

LEMMA ThinnedOK ==
    ASSUME NEW s, NEW p, Thinned(s, p), NEW ops, NEW t
    PROVE  /\ OneRequest(p) => OneRequest(s)
           /\ Only(p, ops) => Only(s, ops)
           /\ Concern(p, t) => Concern(s, t)
<1>1. PICK f \in [1 .. Len(s) -> 1 .. Len(p)] :
        /\ \A i, j \in 1 .. Len(s) : i < j => f[i] < f[j]
        /\ \A i \in 1 .. Len(s) : s[i] = p[f[i]]
  BY DEF Thinned
<1>2. \A i \in 1 .. Len(s) : f[i] \in 1 .. Len(p)
  BY <1>1
<1>3. OneRequest(p) => OneRequest(s)
  BY <1>1, <1>2 DEF OneRequest
<1>4. Only(p, ops) => Only(s, ops)
  BY <1>1, <1>2 DEF Only
<1>5. Concern(p, t) => Concern(s, t)
  BY <1>1, <1>2 DEF Concern
<1> QED
  BY <1>3, <1>4, <1>5

LEMMA RemovedOK ==
    ASSUME NEW a, a \in Seq(Pdu), NEW b, b \in Seq(Pdu), NEW i, i \in 1 .. Len(a)
    PROVE  RemoveAt(a, i) \in Seq(Pdu) /\ Thinned(RemoveAt(a, i) \o b, a \o b)
<1>1. Len(a) \in Nat /\ Len(b) \in Nat /\ i - 1 \in 0 .. Len(a) /\ i \in 0 .. Len(a)
  BY LenProperties
<1> DEFINE front == SubSeq(a, 1, i - 1)
           back == SubSeq(a, i + 1, Len(a))
           r == RemoveAt(a, i)
<1>2. r = front \o back
  BY DEF RemoveAt
<1>3. /\ front \in Seq(Pdu) /\ Len(front) = i - 1
      /\ \A j \in 1 .. i - 1 : front[j] = a[j]
  <2>1. /\ 1 \in Int /\ i - 1 \in Int /\ \A j \in 1 .. i - 1 : a[j] \in Pdu
        /\ (i - 1) - 1 + 1 = i - 1
    BY <1>1, ElementOfSeq
  <2>2. /\ front \in Seq(Pdu)
        /\ Len(front) = IF 1 <= i - 1 THEN (i - 1) - 1 + 1 ELSE 0
        /\ \A j \in 1 .. (i - 1) - 1 + 1 : front[j] = a[1 + j - 1]
    BY ONLY <2>1, SubSeqProperties DEF front
  <2> HIDE DEF front
  <2> QED
    BY <1>1, <2>1, <2>2
<1>4. /\ back \in Seq(Pdu) /\ Len(back) = Len(a) - i
      /\ \A j \in 1 .. Len(a) - i : back[j] = a[i + j]
  <2>1. /\ i + 1 \in Int /\ Len(a) \in Int /\ \A j \in i + 1 .. Len(a) : a[j] \in Pdu
        /\ Len(a) - (i + 1) + 1 = Len(a) - i
    BY <1>1, ElementOfSeq
  <2>2. /\ back \in Seq(Pdu)
        /\ Len(back) = IF i + 1 <= Len(a) THEN Len(a) - (i + 1) + 1 ELSE 0
        /\ \A j \in 1 .. Len(a) - (i + 1) + 1 : back[j] = a[i + 1 + j - 1]
    BY ONLY <2>1, SubSeqProperties DEF back
  <2> HIDE DEF back
  <2>3. Len(back) = Len(a) - i
    BY <1>1, <2>2
  <2>4. ASSUME NEW j \in 1 .. Len(a) - i PROVE back[j] = a[i + j]
    <3>1. i + 1 + j - 1 = i + j /\ j \in 1 .. Len(a) - (i + 1) + 1
      BY <1>1
    <3>2. back[j] = a[i + 1 + j - 1]
      BY <2>2, <3>1
    <3> QED
      BY <3>1, <3>2
  <2> QED
    BY <2>2, <2>3, <2>4
<1> HIDE DEF front, back, r
<1>5. /\ r \in Seq(Pdu) /\ Len(r) = Len(a) - 1
      /\ \A j \in 1 .. Len(a) - 1 : r[j] = IF j < i THEN a[j] ELSE a[j + 1]
  <2>1. /\ r \in Seq(Pdu) /\ Len(r) = Len(front) + Len(back)
        /\ \A j \in 1 .. Len(front) + Len(back) :
            r[j] = IF j <= Len(front) THEN front[j] ELSE back[j - Len(front)]
    BY <1>2, <1>3, <1>4, ConcatProperties
  <2>2. ASSUME NEW j \in 1 .. Len(a) - 1
        PROVE  r[j] = IF j < i THEN a[j] ELSE a[j + 1]
    <3>1. r[j] = IF j <= i - 1 THEN front[j] ELSE back[j - (i - 1)]
      BY <1>1, <1>3, <1>4, <2>1
    <3>2. CASE j <= i - 1
      BY <1>1, <1>3, <3>1, <3>2
    <3>3. CASE ~(j <= i - 1)
      <4>1. j - (i - 1) \in 1 .. Len(a) - i /\ i + (j - (i - 1)) = j + 1
        BY <1>1, <3>3
      <4>2. back[j - (i - 1)] = a[j + 1]
        BY <1>4, <4>1
      <4> QED
        BY <1>1, <3>1, <3>3, <4>2
    <3> QED
      BY <3>2, <3>3
  <2> QED
    BY <1>1, <1>3, <1>4, <2>1, <2>2
<1> DEFINE s == r \o b
           p == a \o b
<1>6. /\ Len(s) = Len(a) - 1 + Len(b)
      /\ \A j \in 1 .. Len(s) : s[j] = IF j <= Len(a) - 1 THEN r[j]
                                       ELSE b[j - (Len(a) - 1)]
  <2>1. /\ Len(s) = Len(r) + Len(b)
        /\ \A j \in 1 .. Len(r) + Len(b) : s[j] = IF j <= Len(r) THEN r[j]
                                                  ELSE b[j - Len(r)]
    BY <1>5, ConcatProperties
  <2> HIDE DEF s
  <2> QED
    BY <1>1, <1>5, <2>1
<1>7. /\ Len(p) = Len(a) + Len(b)
      /\ \A j \in 1 .. Len(p) : p[j] = IF j <= Len(a) THEN a[j] ELSE b[j - Len(a)]
  BY ConcatProperties
<1> HIDE DEF s, p
<1> DEFINE f == [j \in 1 .. Len(s) |-> IF j < i THEN j ELSE j + 1]
<1>8. f \in [1 .. Len(s) -> 1 .. Len(p)]
  BY <1>1, <1>6, <1>7
<1>9. \A j, k \in 1 .. Len(s) : j < k => f[j] < f[k]
  BY <1>1
<1>10. ASSUME NEW j \in 1 .. Len(s) PROVE s[j] = p[f[j]]
  <2>1. f[j] = IF j < i THEN j ELSE j + 1
    OBVIOUS
  <2>2. f[j] \in 1 .. Len(p)
    BY <1>8
  <2> HIDE DEF f
  <2>3. CASE j <= Len(a) - 1
    <3>1. f[j] <= Len(a) /\ j \in 1 .. Len(a) - 1
      BY <1>1, <2>1, <2>3
    <3>2. p[f[j]] = a[f[j]] /\ s[j] = r[j]
      BY <1>6, <1>7, <2>2, <2>3, <3>1
    <3>3. r[j] = a[f[j]]
      BY <1>5, <2>1, <3>1
    <3> QED
      BY <3>2, <3>3
  <2>4. CASE ~(j <= Len(a) - 1)
    <3>1. f[j] = j + 1 /\ ~(f[j] <= Len(a)) /\ j - (Len(a) - 1) = f[j] - Len(a)
      BY <1>1, <2>1, <2>4
    <3> QED
      BY <1>6, <1>7, <2>2, <2>4, <3>1
  <2> QED
    BY <2>3, <2>4
<1>11. Thinned(s, p)
  <2> HIDE DEF f
  <2> QED
    BY <1>8, <1>9, <1>10 DEF Thinned
<1> QED
  BY <1>5, <1>11 DEF s, p, r

LEMMA UsbLostOK ==
    ASSUME DfuInv, UsbLost
    PROVE  DfuInv'
<1>1. TypeInv /\ PipeInv /\ RspInv /\ TakenInv /\ ObjectInv /\ ExecutedInv
  BY DEF DfuInv
<1>2. PICK i \in DOMAIN air : air' = RemoveAt(air, i)
  BY DEF UsbLost
<1>3. UNCHANGED <<state, cur_type, prn_cnt, pkg_num, pos, size, acc, txq, rsp,
                  link, object, dev_type, executed, ends, starts, answers>>
  BY DEF UsbLost, clientVars, deviceVars
<1>4. /\ air \in Seq(Pdu) /\ txq \in Seq(Pdu) /\ i \in 1 .. Len(air) /\ link = "up"
      /\ air # <<>>
  <2>1. air \in Seq(Pdu) /\ txq \in Seq(Pdu)
    BY <1>1 DEF TypeInv
  <2>2. i \in 1 .. Len(air) /\ air # <<>>
    BY <2>1, LenProperties
  <2> QED
    BY <1>1, <2>1, <2>2 DEF PipeInv
<1>5. air' \in Seq(Pdu) /\ Thinned(Pipe', Pipe)
  <2>1. /\ RemoveAt(air, i) \in Seq(Pdu)
        /\ Thinned(RemoveAt(air, i) \o txq, air \o txq)
    BY <1>4, RemovedOK
  <2> QED
    BY <1>2, <1>3, <2>1 DEF Pipe
<1>6. TypeInv'
  BY <1>1, <1>3, <1>5 DEF TypeInv
<1>7. PipeInv'
  <2>1. Sendable' = Sendable
    BY <1>3 DEF Sendable
  <2>2. OneRequest(Pipe) /\ Only(Pipe, Sendable) /\ Concern(Pipe, cur_type)
    BY <1>1, <1>4 DEF PipeInv
  <2> HIDE DEF Sendable
  <2>3. OneRequest(Pipe') /\ Only(Pipe', Sendable) /\ Concern(Pipe', cur_type)
    BY <1>5, <2>2, ThinnedOK
  <2> QED
    BY <1>3, <1>4, <2>1, <2>3 DEF PipeInv, OneRequest, Only, Concern
<1>8. RspInv'
  <2>1. rsp # <<>> => Only(Pipe', {"answer"})
    <3>1. rsp # <<>> => Only(Pipe, {"answer"})
      BY <1>1, <1>4 DEF RspInv
    <3> QED
      BY <1>5, <3>1, ThinnedOK
  <2> QED
    BY <1>1, <1>3, <2>1 DEF RspInv, Only
<1>9. TakenInv' /\ ObjectInv'
  BY <1>1, <1>3 DEF TakenInv, ObjectInv, Before, Transfer, File, Answered
<1>10. ExecutedInv'
  BY <1>1, <1>3 DEF ExecutedInv, EndsOnce, File, Answered
<1> QED
  BY <1>6, <1>7, <1>8, <1>9, <1>10 DEF DfuInv

(* The device takes the first PDU: what the state tells of it, and what    *)
(* stays behind it.                                                        *)
LEMMA DeviceStep ==
    ASSUME DfuInv, air # <<>>, air' = Tail(air),
           UNCHANGED <<clientVars, txq, link>>
    PROVE  LET m == Head(air)
           IN  /\ link = "up" /\ m \in Pdu /\ m.op \in Sendable
               /\ air' \in Seq(Pdu) /\ PipeInv'
               /\ m.op \in {"select", "create"} => m.type = cur_type
               /\ rsp # <<>> => m.op = "answer" /\ Only(Pipe', {"answer"})
               /\ m.op \notin {"data", "answer"} => Only(Pipe', {"answer"})
               /\ Only(Pipe, Op) => Only(Pipe', Op)
<1>1. TypeInv /\ PipeInv /\ RspInv
  BY DEF DfuInv
<1> DEFINE m == Head(air)
           p == Pipe
           s == Tail(air) \o txq
<1>2. /\ air \in Seq(Pdu) /\ txq \in Seq(Pdu) /\ link = "up"
      /\ OneRequest(p) /\ Only(p, Sendable) /\ Concern(p, cur_type)
  BY <1>1 DEF TypeInv, PipeInv
<1>3. /\ Len(air) \in Nat \ {0} /\ Len(txq) \in Nat
      /\ m \in Pdu /\ m = air[1] /\ Tail(air) \in Seq(Pdu)
      /\ Len(Tail(air)) = Len(air) - 1
      /\ \A i \in 1 .. Len(air) - 1 : Tail(air)[i] = air[i + 1]
  BY <1>2
<1>4. /\ Len(p) = Len(air) + Len(txq)
      /\ \A i \in 1 .. Len(p) : p[i] = IF i <= Len(air) THEN air[i] ELSE txq[i - Len(air)]
  BY <1>2, ConcatProperties DEF Pipe
<1>5. /\ s \in Seq(Pdu) /\ Len(s) = Len(air) - 1 + Len(txq)
      /\ \A i \in 1 .. Len(s) :
            s[i] = IF i <= Len(air) - 1 THEN Tail(air)[i] ELSE txq[i - (Len(air) - 1)]
  <2>1. /\ s \in Seq(Pdu) /\ Len(s) = Len(Tail(air)) + Len(txq)
        /\ \A i \in 1 .. Len(Tail(air)) + Len(txq) :
            s[i] = IF i <= Len(Tail(air)) THEN Tail(air)[i]
                   ELSE txq[i - Len(Tail(air))]
    BY <1>2, <1>3, ConcatProperties
  <2> QED
    BY <1>3, <2>1
<1>6. Pipe' = s
  BY DEF Pipe
<1> HIDE DEF m, p, s
<1>7. 1 \in 1 .. Len(p) /\ p[1] = m /\ Len(s) = Len(p) - 1
  BY <1>3, <1>4, <1>5
<1>8. ASSUME NEW i \in 1 .. Len(s)
      PROVE  i + 1 \in 1 .. Len(p) /\ s[i] = p[i + 1] /\ 1 < i + 1
  <2>1. i + 1 \in 1 .. Len(p) /\ 1 < i + 1
    BY <1>3, <1>4, <1>5
  <2>2. CASE i <= Len(air) - 1
    <3>1. s[i] = air[i + 1]
      BY <1>3, <1>5, <2>2
    <3>2. p[i + 1] = air[i + 1]
      BY <1>3, <1>4, <2>1, <2>2
    <3> QED
      BY <2>1, <3>1, <3>2
  <2>3. CASE ~(i <= Len(air) - 1)
    <3>1. i - (Len(air) - 1) = i + 1 - Len(air) /\ ~(i + 1 <= Len(air))
      BY <1>3, <2>3
    <3> QED
      BY <1>4, <1>5, <2>1, <2>3, <3>1
  <2> QED
    BY <2>2, <2>3
<1>9. Only(s, Sendable) /\ Concern(s, cur_type)
  BY <1>2, <1>8 DEF Only, Concern
<1>10. OneRequest(s)
  <2> SUFFICES ASSUME NEW i \in 1 .. Len(s), NEW j \in 1 .. Len(s), i < j,
                      s[i].op \notin {"data", "answer"}
               PROVE  s[j].op = "answer"
    BY DEF OneRequest
  <2>1. i + 1 < j + 1
    OBVIOUS
  <2> QED
    BY <1>2, <1>8, <2>1 DEF OneRequest
<1>11. m.op \notin {"data", "answer"} => Only(s, {"answer"})
  BY <1>2, <1>7, <1>8 DEF OneRequest, Only
<1>12. rsp # <<>> => m.op = "answer" /\ Only(s, {"answer"})
  <2>1. rsp # <<>> => Only(p, {"answer"})
    BY <1>1, <1>2 DEF RspInv, p
  <2> QED
    BY <1>7, <1>8, <2>1 DEF Only
<1>13. m.op \in Sendable /\ (m.op \in {"select", "create"} => m.type = cur_type)
  BY <1>2, <1>7 DEF Only, Concern
<1>14. PipeInv'
  <2>1. Sendable' = Sendable /\ cur_type' = cur_type /\ link' = link
    BY DEF Sendable, clientVars
  <2>2. OneRequest(Pipe') /\ Only(Pipe', Sendable') /\ Concern(Pipe', cur_type')
    BY <1>6, <1>9, <1>10, <2>1
  <2> QED
    BY <1>2, <2>1, <2>2 DEF PipeInv, OneRequest, Only, Concern
<1>15. Only(p, Op) => Only(s, Op)
  BY <1>8 DEF Only
<1> QED
  BY <1>2, <1>3, <1>6, <1>11, <1>12, <1>13, <1>14, <1>15 DEF m, p

(* Which state a request stands for.                                       *)
LEMMA StateOf ==
    ASSUME TypeInv, NEW op \in Sendable
    PROVE  /\ op = "select" => state = "pd_sel"
           /\ op = "prn" => state = "pd_set_prn"
           /\ op = "create" => state = "pd_create"
           /\ op = "crc" => state = "pd_get_crc"
           /\ op = "execute" => state = "pd_execute"
           /\ op = "data" => state \in {"write", "get_crc", "pd_get_crc"}
           /\ op \notin {"data", "answer"} => state \in Pending /\ op = Expected[state]
<1>1. CASE state \in {"write", "get_crc"}
  <2>1. Sendable = {"answer", "data"}
    BY <1>1 DEF Sendable, Pending
  <2> QED
    BY <1>1, <2>1
<1>2. CASE state = "pd_get_crc"
  <2>1. Sendable = {"answer", "data", "crc"}
    BY <1>2 DEF Sendable, Pending
  <2> QED
    BY <1>2, <2>1 DEF Pending, Expected
<1>3. CASE state \in Pending \ {"pd_get_crc"}
  <2>1. Sendable = {"answer", Expected[state]}
    BY <1>3 DEF Sendable, Pending
  <2> QED
    BY <1>3, <2>1 DEF Pending, Expected
<1>4. CASE state \in {"idle", "sel", "set_prn", "create", "execute"}
  <2>1. Sendable = {"answer"}
    BY <1>4 DEF Sendable, Pending
  <2> QED
    BY <2>1
<1> QED
  BY <1>1, <1>2, <1>3, <1>4 DEF TypeInv, Waiting, Pending

(* The response to a request, with only answers behind the request.        *)
LEMMA Responded ==
    ASSUME DfuInv, rsp = <<>>, NEW r, rsp' = Append(rsp, r),
           state \in Pending, state' = state, link' = link,
           r = ErrorResponse \/ r.op = Expected[state],
           Only(Pipe', {"answer"})
    PROVE  RspInv' /\ rsp' # <<>> /\ rsp'[1] = r
<1>1. rsp' = <<r>> /\ <<r>>[1] = r /\ <<r>> # <<>>
  OBVIOUS
<1>2. state \notin Waiting /\ state # "idle"
  BY DEF Waiting, Pending
<1> QED
  BY <1>1, <1>2 DEF RspInv, Only

LEMMA DevRecvOK ==
    ASSUME DfuInv, DevRecv
    PROVE  DfuInv'
<1> DEFINE m == Head(air)
<1>1. TypeInv /\ PipeInv /\ RspInv /\ TakenInv /\ ObjectInv /\ ExecutedInv
  BY DEF DfuInv
<1>2. /\ link = "up" /\ m \in Pdu /\ m.op \in Sendable
      /\ air' \in Seq(Pdu) /\ PipeInv'
      /\ m.op \in {"select", "create"} => m.type = cur_type
      /\ rsp # <<>> => m.op = "answer" /\ Only(Pipe', {"answer"})
      /\ m.op \notin {"data", "answer"} => Only(Pipe', {"answer"})
  BY DeviceStep DEF DevRecv
<1>3. UNCHANGED <<state, cur_type, prn_cnt, pkg_num, pos, size, acc, txq, link,
                  ends, starts, answers>>
  BY DEF DevRecv, clientVars, countVars
<1>4. TakenInv'
  BY <1>1, <1>3 DEF TakenInv, Before, Transfer, File
<1>5. ASSUME object' \in [Type -> Object], dev_type' \in Type,
             executed' \in Seq(Executed)
      PROVE  TypeInv'
  BY <1>1, <1>2, <1>3, <1>5 DEF TypeInv
<1>6. ASSUME UNCHANGED executed, state # "pd_execute" \/ UNCHANGED rsp
      PROVE  ExecutedInv'
  BY <1>1, <1>3, <1>6 DEF ExecutedInv, EndsOnce, File, Answered
<1>7. /\ object \in [Type -> Object] /\ dev_type \in Type
      /\ executed \in Seq(Executed) /\ cur_type \in Type
  BY <1>1 DEF TypeInv
<1>8. /\ DevRecv
      /\ (m.op # "answer" => m \in [op : Op, type : Type, size : Nat, bytes : Seq(Nat)])
      /\ starts # 0
  BY <1>1, <1>2 DEF Pdu, AnswerPdu, ObjectInv
<1> HIDE DEF m
<1>9. CASE Select(m)
  <2>1. /\ state = "pd_sel" /\ rsp = <<>> /\ m.type = cur_type
        /\ state \in Pending /\ Expected[state] = "select"
    BY <1>1, <1>2, <1>9, StateOf DEF Select, Pending, Expected
  <2> DEFINE r == Response("select", object[m.type].size, object[m.type].bytes)
  <2>2. r.op = "select" /\ r.bytes = object[cur_type].bytes
    BY <2>1 DEF Response
  <2> HIDE DEF r
  <2>3. /\ rsp' = Append(rsp, r) /\ dev_type' = cur_type
        /\ UNCHANGED <<object, executed>>
    BY <1>9, <2>1 DEF Select, Notify, r
  <2>4. RspInv' /\ rsp'[1] = r
    BY <1>2, <1>3, <1>9, <2>1, <2>2, <2>3, Responded DEF Select
  <2>5. TypeInv' /\ ExecutedInv'
    BY <1>5, <1>6, <1>7, <2>1, <2>3
  <2>6. ObjectInv'
    BY <1>1, <1>2, <1>3, <1>8, <2>1, <2>2, <2>3, <2>4 DEF ObjectInv, Transfer, Answered
  <2> QED
    BY <1>2, <1>4, <2>4, <2>5, <2>6 DEF DfuInv
<1>10. CASE SetPrn(m)
  <2>1. /\ state = "pd_set_prn" /\ rsp = <<>>
        /\ state \in Pending /\ Expected[state] = "prn"
    BY <1>1, <1>2, <1>10, StateOf DEF SetPrn, Pending, Expected
  <2> DEFINE r == Response("prn", 0, <<>>)
  <2>2. r.op = "prn"
    BY DEF Response
  <2> HIDE DEF r
  <2>3. rsp' = Append(rsp, r) /\ UNCHANGED <<object, dev_type, executed>>
    BY <1>10 DEF SetPrn, Notify, deviceVars, r
  <2>4. RspInv' /\ rsp'[1] = r
    BY <1>2, <1>3, <1>10, <2>1, <2>2, <2>3, Responded DEF SetPrn
  <2>5. TypeInv' /\ ExecutedInv'
    BY <1>5, <1>6, <1>7, <2>1, <2>3
  <2>6. ObjectInv'
    BY <1>1, <1>2, <1>3, <1>8, <2>1, <2>3, <2>4 DEF ObjectInv, Transfer, Answered
  <2> QED
    BY <1>2, <1>4, <2>4, <2>5, <2>6 DEF DfuInv
<1>11. CASE Create(m)
  <2>1. /\ state = "pd_create" /\ rsp = <<>> /\ m.type = cur_type
        /\ state \in Pending /\ Expected[state] = "create" /\ m.size \in Nat
    BY <1>1, <1>2, <1>8, <1>11, StateOf DEF Create, Pending, Expected
  <2> DEFINE r == Response("create", 0, <<>>)
             new == [size |-> m.size, bytes |-> <<>>]
  <2>2. r.op = "create" /\ new \in Object
    BY <2>1, EmptySeq DEF Response, Object
  <2>3. /\ rsp' = Append(rsp, r) /\ dev_type' = cur_type
        /\ object' = [object EXCEPT ![cur_type] = new]
        /\ UNCHANGED executed
    BY <1>11, <2>1 DEF Create, Notify
  <2> HIDE DEF r, new
  <2>4. RspInv' /\ rsp'[1] = r
    BY <1>2, <1>3, <1>11, <2>1, <2>2, <2>3, Responded DEF Create
  <2>5. /\ object' \in [Type -> Object]
        /\ \A t \in Type : t # cur_type => object'[t] = object[t]
    BY <1>7, <2>2, <2>3
  <2>6. TypeInv' /\ ExecutedInv'
    BY <1>5, <1>6, <1>7, <2>1, <2>3, <2>5
  <2>7. ObjectInv'
    BY <1>1, <1>2, <1>3, <1>8, <2>1, <2>2, <2>3, <2>4, <2>5
       DEF ObjectInv, Transfer, Answered, Type
  <2> QED
    BY <1>2, <1>4, <2>4, <2>6, <2>7 DEF DfuInv
<1>12. CASE TakeData(m)
  <2>1. /\ state \in {"write", "get_crc", "pd_get_crc"} /\ rsp = <<>>
        /\ m.bytes \in Seq(Nat)
    BY <1>1, <1>2, <1>8, <1>12, StateOf DEF TakeData
  <2>2. dev_type = cur_type
    BY <1>1, <1>2, <2>1 DEF ObjectInv, Transfer
  <2> DEFINE o == object[cur_type]
             bytes == o.bytes \o m.bytes
             new == [o EXCEPT !.bytes = bytes]
  <2>3. /\ object' = [object EXCEPT ![cur_type] = new]
        /\ UNCHANGED <<dev_type, executed, rsp>>
    BY <1>12, <2>2 DEF TakeData
  <2>4. new \in Object
    <3>1. o \in Object
      BY <1>7
    <3>2. bytes \in Seq(Nat)
      BY <2>1, <3>1, ConcatProperties DEF Object
    <3> HIDE DEF o, bytes
    <3> QED
      BY <3>1, <3>2 DEF Object
  <2> HIDE DEF new, bytes, o
  <2>5. /\ object' \in [Type -> Object]
        /\ \A t \in Type : t # cur_type => object'[t] = object[t]
    BY <1>7, <2>3, <2>4
  <2>6. TypeInv' /\ ExecutedInv'
    BY <1>5, <1>6, <1>7, <2>3, <2>5
  <2>7. ObjectInv'
    BY <1>1, <1>2, <1>3, <1>8, <2>1, <2>2, <2>3, <2>5
       DEF ObjectInv, Transfer, Answered, Type
  <2>8. RspInv'
    BY <1>3, <2>1, <2>3 DEF RspInv
  <2> QED
    BY <1>2, <1>4, <2>6, <2>7, <2>8 DEF DfuInv
<1>13. CASE Checksum(m)
  <2>1. /\ state = "pd_get_crc" /\ rsp = <<>>
        /\ state \in Pending /\ Expected[state] = "crc"
    BY <1>1, <1>2, <1>13, StateOf DEF Checksum, Pending, Expected
  <2>2. dev_type = cur_type
    BY <1>1, <1>2, <2>1 DEF ObjectInv, Transfer
  <2> DEFINE r == Response("crc", Len(object[dev_type].bytes), object[dev_type].bytes)
  <2>3. r.op = "crc" /\ r.bytes = object[cur_type].bytes
    BY <2>2 DEF Response
  <2> HIDE DEF r
  <2>4. rsp' = Append(rsp, r) /\ UNCHANGED <<object, dev_type, executed>>
    BY <1>13 DEF Checksum, Notify, deviceVars, r
  <2>5. RspInv' /\ rsp'[1] = r
    BY <1>2, <1>3, <1>13, <2>1, <2>3, <2>4, Responded DEF Checksum
  <2>6. TypeInv' /\ ExecutedInv'
    BY <1>5, <1>6, <1>7, <2>1, <2>4
  <2>7. ObjectInv'
    BY <1>1, <1>2, <1>3, <1>8, <2>1, <2>2, <2>3, <2>4, <2>5
       DEF ObjectInv, Transfer, Answered
  <2> QED
    BY <1>2, <1>4, <2>5, <2>6, <2>7 DEF DfuInv
<1>14. CASE Execute(m)
  <2>1. /\ state = "pd_execute" /\ rsp = <<>>
        /\ state \in Pending /\ Expected[state] = "execute"
    BY <1>1, <1>2, <1>14, StateOf DEF Execute, Pending, Expected
  <2>2. dev_type = cur_type /\ object[cur_type].bytes = File(cur_type)
    BY <1>1, <1>2, <2>1 DEF ObjectInv, Transfer
  <2> DEFINE r == Response("execute", 0, <<>>)
             e == [type |-> dev_type, bytes |-> object[dev_type].bytes]
  <2>3. r.op = "execute"
    BY DEF Response
  <2>4. e \in Executed /\ e.type = cur_type /\ e.bytes = File(cur_type)
    BY <1>7, <2>2 DEF Executed, Object
  <2> HIDE DEF r, e
  <2>5. /\ rsp' = Append(rsp, r) /\ executed' = Append(executed, e)
        /\ UNCHANGED <<object, dev_type>>
    BY <1>14 DEF Execute, Notify, r, e
  <2>6. RspInv' /\ rsp' # <<>> /\ rsp'[1] = r
    BY <1>2, <1>3, <1>14, <2>1, <2>3, <2>5, Responded DEF Execute
  <2>7. /\ executed' \in Seq(Executed) /\ Len(executed') = Len(executed) + 1
        /\ Len(executed) \in Nat
        /\ \A i \in 1 .. Len(executed) : executed'[i] = executed[i]
        /\ executed'[Len(executed) + 1] = e
    BY <1>7, <2>4, <2>5, AppendProperties, LenProperties
  <2>8. TypeInv'
    BY <1>5, <1>7, <2>5, <2>7
  <2>9. ObjectInv'
    BY <1>1, <1>2, <1>3, <1>8, <2>1, <2>2, <2>3, <2>5, <2>6
       DEF ObjectInv, Transfer, Answered
  <2>10. ExecutedInv'
    <3>1. Len(executed) = (IF cur_type = "cmd" THEN 0 ELSE 1)
      BY <1>1, <2>1, NoneExecuted DEF Answered
    <3>2. ends = <<>> /\ ends' = <<>>
      BY <1>1, <1>3, <2>1 DEF ExecutedInv, EndsOnce
    <3>3. Len(executed') = (IF cur_type = "cmd" THEN 0 ELSE 1) + 1 /\ Len(executed') <= 2
      BY <2>7, <3>1
    <3>4. ASSUME NEW i \in 1 .. Len(executed')
          PROVE  /\ executed'[i].type = IF i = 1 THEN "cmd" ELSE "data"
                 /\ executed'[i].bytes = File(executed'[i].type)
      <4>1. CASE i \in 1 .. Len(executed)
        BY <1>1, <2>7, <4>1 DEF ExecutedInv
      <4>2. CASE i = Len(executed) + 1
        BY <1>7, <2>4, <2>7, <3>1, <4>2 DEF Type
      <4> QED
        BY <2>7, <4>1, <4>2
    <3>5. Answered("execute")' /\ state' = "pd_execute"
      BY <1>3, <2>1, <2>3, <2>6 DEF Answered
    <3>6. EndsOnce'
      BY <3>2 DEF EndsOnce
    <3> QED
      BY <1>3, <3>2, <3>3, <3>4, <3>5, <3>6 DEF ExecutedInv, File
  <2> QED
    BY <1>2, <1>4, <2>6, <2>8, <2>9, <2>10 DEF DfuInv
<1>15. CASE m.op = "answer" /\ UNCHANGED <<deviceVars, rsp>>
  <2>1. UNCHANGED <<object, dev_type, executed, rsp>>
    BY <1>15 DEF deviceVars
  <2>2. TypeInv' /\ ExecutedInv'
    BY <1>5, <1>6, <1>7, <2>1
  <2>3. RspInv'
    BY <1>1, <1>2, <1>3, <2>1 DEF RspInv, Only
  <2>4. ObjectInv'
    BY <1>1, <1>3, <2>1 DEF ObjectInv, Answered, File
  <2> QED
    BY <1>2, <1>4, <2>2, <2>3, <2>4 DEF DfuInv
<1> QED
  BY <1>8, <1>9, <1>10, <1>11, <1>12, <1>13, <1>14, <1>15 DEF DevRecv, m

LEMMA DevRefuseOK ==
    ASSUME DfuInv, DevRefuse
    PROVE  DfuInv'
<1> DEFINE m == Head(air)
<1>1. TypeInv /\ PipeInv /\ RspInv /\ TakenInv /\ ObjectInv /\ ExecutedInv
  BY DEF DfuInv
<1>2. /\ link = "up" /\ m \in Pdu /\ m.op \in Sendable
      /\ air' \in Seq(Pdu) /\ PipeInv'
      /\ rsp # <<>> => m.op = "answer"
      /\ m.op \notin {"data", "answer"} => Only(Pipe', {"answer"})
  BY DeviceStep DEF DevRefuse
<1>3. /\ UNCHANGED <<state, cur_type, prn_cnt, pkg_num, pos, size, acc, txq, link,
                     object, dev_type, executed, ends, starts, answers>>
      /\ rsp' = Append(rsp, ErrorResponse) /\ m.op \notin {"data", "answer"}
  BY DEF DevRefuse, Refuse, Notify, clientVars, deviceVars
<1> HIDE DEF m
<1>4. state \in Pending /\ rsp = <<>>
  BY <1>1, <1>2, <1>3, StateOf
<1>5. RspInv' /\ rsp'[1] = ErrorResponse
  BY <1>2, <1>3, <1>4, Responded
<1>6. ErrorResponse.op = "error"
  BY DEF ErrorResponse, Response
<1>7. \A op : op \in Op => ~Answered(op)'
  BY <1>5, <1>6 DEF Answered, Op
<1>8. TypeInv'
  BY <1>1, <1>2, <1>3 DEF TypeInv
<1>9. TakenInv'
  BY <1>1, <1>3 DEF TakenInv, Before, Transfer, File
<1>10. ObjectInv'
  BY <1>1, <1>3, <1>5, <1>6 DEF ObjectInv, Answered, File
<1>11. ExecutedInv'
  BY <1>1, <1>3, <1>4, <1>5, <1>6 DEF ExecutedInv, EndsOnce, File, Answered
<1> QED
  BY <1>2, <1>5, <1>8, <1>9, <1>10, <1>11 DEF DfuInv

-----------------------------------------------------------------------------
(* A connection starts.                                                    *)
LEMMA StartOK ==
    ASSUME ~Resumable, DfuInv, Start
    PROVE  DfuInv' /\ Len(txq') <= 1 /\ Only(Pipe', Op)
<1> DEFINE m == Request("select", "cmd", 0, <<>>)
<1>1. TypeInv /\ PipeInv /\ ObjectInv /\ ExecutedInv
  BY DEF DfuInv
<1>2. /\ link = "down" /\ link' = "up" /\ state' = "pd_sel" /\ cur_type' = "cmd"
      /\ prn_cnt' = 0 /\ pos' = 0 /\ pkg_num' = StartPkgs - 1
      /\ starts' = starts + 1 /\ rsp' = <<>> /\ ends' = <<>> /\ executed' = <<>>
      /\ Queue(<<>>, 0, <<m>>, TRUE)
      /\ UNCHANGED <<size, acc, dev_type, answers>>
  BY DEF Start
<1>3. m \in Pdu /\ m.op = "select" /\ m.type = "cmd"
  BY EmptySeq DEF Request, Pdu, Op, Type
<1> HIDE DEF m
<1>4. txq' \in Seq(Pdu) /\ air' \in Seq(Pdu) /\ Pipe' = <<m>> /\ Len(txq') <= 1
  <2>1. air = <<>> /\ air \in Seq(Pdu)
    BY <1>1, <1>2 DEF PipeInv, TypeInv
  <2>2. /\ <<>> \in Seq(Pdu) /\ <<m>> \in Seq(Pdu) /\ 0 \in 0 .. Len(<<>>)
        /\ TRUE \in BOOLEAN
    BY <1>3
  <2>3. /\ txq' \in Seq(Pdu) /\ air' \in Seq(Pdu)
        /\ (air \o txq)' = (air \o <<>>) \o <<m>>
        /\ Len(txq') <= Len(<<>>) - 0 + Len(<<m>>)
    BY <1>2, <2>1, <2>2, QueueEffect
  <2>4. (<<>> \o <<>>) \o <<m>> = <<m>>
    BY <2>2, ConcatEmptySeq
  <2>5. Len(<<>>) = 0 /\ Len(<<m>>) = 1 /\ Len(txq') \in Nat
    BY <2>3, LenProperties
  <2> QED
    BY <2>1, <2>3, <2>4, <2>5 DEF Pipe
<1>12. Only(Pipe', Op)
  <2>1. Only(<<m>>, Op)
    BY <1>3, Single DEF Op
  <2> QED
    BY <1>4, <2>1
<1>5. PipeInv'
  <2>1. Sendable' = {"answer", "select"}
    BY <1>2 DEF Sendable, Pending, Expected
  <2>2. /\ OneRequest(<<m>>) /\ Only(<<m>>, {"answer", "select"})
        /\ Concern(<<m>>, "cmd")
    BY <1>3, Single
  <2> QED
    BY <1>2, <1>4, <2>1, <2>2 DEF PipeInv, OneRequest, Only, Concern
<1>6. \A t \in Type : object'[t].bytes \in Foreign
  <2>1. CASE object' = object /\ starts = 0
    BY <1>1, <2>1 DEF ObjectInv
  <2>2. CASE object' = [t \in Type |-> EmptyObject]
    BY <2>2 DEF EmptyObject, Foreign
  <2> QED
    BY <2>1, <2>2 DEF Start
<1>7. object' \in [Type -> Object]
  <2>1. EmptyObject \in Object
    BY EmptySeq DEF EmptyObject, Object
  <2>2. object \in [Type -> Object]
    BY <1>1 DEF TypeInv
  <2> QED
    BY <2>1, <2>2 DEF Start
<1>8. TypeInv'
  <2>1. StartPkgs - 1 \in -Half .. Half - 1 /\ 0 \in 0 .. Prn
    BY DfuClientAssumption
  <2>2. <<>> \in Seq(Executed) /\ <<>> \in Seq(Result) /\ "cmd" \in Type
    BY EmptySeq DEF Type
  <2> QED
    BY <1>1, <1>2, <1>4, <1>7, <2>1, <2>2 DEF TypeInv, Pending
<1>9. TakenInv'
  BY <1>2 DEF TakenInv, Before, Transfer
<1>10. ObjectInv'
  <2>1. starts' # 0
    BY <1>1, <1>2 DEF TypeInv
  <2> QED
    BY <1>2, <1>6, <2>1 DEF ObjectInv, Transfer, Answered, Type
<1>11. ExecutedInv'
  <2>1. EndsOnce'
    BY <1>2 DEF EndsOnce
  <2> QED
    BY <1>2, <2>1 DEF ExecutedInv
<1> QED
  BY <1>2, <1>4, <1>5, <1>8, <1>9, <1>10, <1>11, <1>12, RspGone DEF DfuInv

LEMMA InitOK == ~Resumable /\ Init => DfuInv
<1> SUFFICES ASSUME ~Resumable, Init PROVE DfuInv
  OBVIOUS
<1>1. \A t \in Type : object[t] \in {EmptyObject, [size |-> Size[t], bytes |-> <<0>>]}
  BY DEF Init, Leftovers, Type
<1>2. /\ object \in [Type -> Object]
      /\ \A t \in Type : object[t].bytes \in Foreign
  <2>1. ASSUME NEW t \in Type PROVE object[t] \in Object /\ object[t].bytes \in Foreign
    <3>1. Size[t] \in Nat /\ <<0>> \in Seq(Nat) /\ <<>> \in Seq(Nat)
      BY FileOK
    <3>2. CASE object[t] = EmptyObject
      BY <3>1, <3>2 DEF EmptyObject, Object, Foreign
    <3>3. CASE object[t] = [size |-> Size[t], bytes |-> <<0>>]
      BY <3>1, <3>3 DEF Object, Foreign
    <3> QED
      BY <1>1, <3>2, <3>3
  <2>2. object = [t \in Type |-> object[t]]
    BY DEF Init
  <2> QED
    BY <2>1, <2>2
<1>3. TypeInv
  <2>1. 0 \in -Half .. Half - 1 /\ 0 \in 0 .. Prn
    BY DfuClientAssumption
  <2>2. /\ <<>> \in Seq(Executed) /\ <<>> \in Seq(Result) /\ <<>> \in Seq(Pdu)
        /\ <<>> \in Seq(Nat) /\ "cmd" \in Type
    BY EmptySeq DEF Type
  <2> QED
    BY <1>2, <2>1, <2>2 DEF Init, TypeInv
<1>4. PipeInv /\ RspInv /\ TakenInv
  BY DEF Init, PipeInv, RspInv, TakenInv, Waiting, Pending, Before, Transfer
<1>5. ObjectInv
  BY <1>2 DEF Init, ObjectInv
<1>6. ExecutedInv
  BY DEF Init, ExecutedInv, EndsOnce
<1> QED
  BY <1>3, <1>4, <1>5, <1>6 DEF DfuInv

LEMMA StutterOK ==
    ASSUME DfuInv, UNCHANGED vars
    PROVE  DfuInv'
<1>1. TypeInv /\ PipeInv /\ RspInv /\ TakenInv /\ ObjectInv /\ ExecutedInv
  BY DEF DfuInv
<1>2. UNCHANGED <<state, cur_type, prn_cnt, pkg_num, pos, size, acc, txq, air, rsp,
                  link, object, dev_type, executed, ends, starts, answers>>
  BY DEF vars, clientVars, queueVars, deviceVars, countVars
<1>3. TypeInv'
  BY <1>1, <1>2 DEF TypeInv
<1>4. PipeInv' /\ RspInv'
  BY <1>1, <1>2 DEF PipeInv, RspInv, Sendable, Pipe, OneRequest, Only, Concern
<1>5. TakenInv' /\ ObjectInv'
  BY <1>1, <1>2 DEF TakenInv, ObjectInv, File, Answered
<1>6. ExecutedInv'
  BY <1>1, <1>2 DEF ExecutedInv, EndsOnce, File, Answered
<1> QED
  BY <1>3, <1>4, <1>5, <1>6 DEF DfuInv

LEMMA NextOK ==
    ASSUME ~Resumable, DfuInv, [Next]_vars
    PROVE  DfuInv'
<1>1. CASE Start
  BY <1>1, StartOK
<1>2. CASE GattRecv
  BY <1>2, GattRecvOK
<1>3. ASSUME NEW n \in 0 .. done, NEW k \in 0 .. Len(txq), TxComplete(n, k)
      PROVE  DfuInv'
  BY <1>3, TxCompleteOK
<1>4. CASE Answer
  BY <1>4, AnswerOK
<1>5. CASE Disconnected
  BY <1>5, DisconnectedOK
<1>6. CASE LinkLoss
  BY <1>6, LinkLossOK
<1>7. CASE UsbLost
  BY <1>7, UsbLostOK
<1>8. CASE DevRecv
  BY <1>8, DevRecvOK
<1>9. CASE DevRefuse
  BY <1>9, DevRefuseOK
<1>10. CASE UNCHANGED vars
  BY <1>10, StutterOK
<1> QED
  BY <1>1, <1>2, <1>3, <1>4, <1>5, <1>6, <1>7, <1>8, <1>9, <1>10 DEF Next

(* What is on its way, what the device holds and what it has executed fit  *)
(* the state of the client (dfu_client.c, and the application that starts  *)
(* and paces it).                                                          *)
THEOREM InvariantDfuInv ==
    ASSUME ~Resumable
    PROVE  Spec => []DfuInv
<1>1. Init => DfuInv
  BY InitOK
<1>2. DfuInv /\ [Next]_vars => DfuInv'
  BY NextOK
<1> QED
  BY <1>1, <1>2, PTL DEF Spec

(* To a device that keeps no part of an object between connections the     *)
(* client never gives the command to execute an object that has not        *)
(* exactly the bytes of the file, whatever is lost, refused or cut off     *)
(* (dfu_client.c:238-256, 300-312).                                        *)
THEOREM OnlyTheFile ==
    ASSUME ~Resumable
    PROVE  Spec => []ExecutesTheFile
<1>1. DfuInv => ExecutesTheFile
  BY LenProperties DEF DfuInv, TypeInv, ExecutedInv, ExecutesTheFile
<1> QED
  BY <1>1, InvariantDfuInv, PTL

(* The command object is executed first, the data object second, and an    *)
(* update is a success only with both (dfu_client.c:316-323).              *)
THEOREM SuccessNeedsBoth ==
    ASSUME ~Resumable
    PROVE  Spec => []SuccessIsComplete
<1>1. DfuInv => SuccessIsComplete
  <2> SUFFICES ASSUME DfuInv PROVE SuccessIsComplete
    OBVIOUS
  <2> DEFINE types == [i \in DOMAIN executed |-> executed[i].type]
  <2>1. /\ Len(executed) \in 0 .. 2 /\ DOMAIN executed = 1 .. Len(executed)
        /\ DOMAIN ends = 1 .. Len(ends)
    <3>1. executed \in Seq(Executed) /\ ends \in Seq(Result) /\ Len(executed) <= 2
      BY DEF DfuInv, TypeInv, ExecutedInv
    <3>2. Len(executed) \in Nat /\ DOMAIN executed = 1 .. Len(executed)
      BY <3>1
    <3>3. DOMAIN ends = 1 .. Len(ends)
      BY <3>1
    <3> QED
      BY <3>1, <3>2, <3>3
  <2>2. \A i \in 1 .. Len(executed) :
            executed[i].type = IF i = 1 THEN "cmd" ELSE "data"
    BY DEF DfuInv, ExecutedInv
  <2>3. types \in {<<>>, <<"cmd">>, <<"cmd", "data">>}
    <3>1. CASE Len(executed) = 0
      BY <2>1, <3>1
    <3>2. CASE Len(executed) = 1
      BY <2>1, <2>2, <3>2
    <3>3. CASE Len(executed) = 2
      BY <2>1, <2>2, <3>3
    <3> QED
      BY <2>1, <3>1, <3>2, <3>3
  <2>4. "success" \in ToSet(ends) => Len(executed) = 2
    BY <2>1 DEF DfuInv, ExecutedInv, ToSet
  <2> QED
    BY <2>3, <2>4 DEF SuccessIsComplete
<1> QED
  BY <1>1, InvariantDfuInv, PTL

-----------------------------------------------------------------------------
(* The pace.  The packets of the first requests are more than the          *)
(* application wants queued, but three of them are spent before data       *)
(* follows.                                                                *)
Paced == Pace >= 1 /\ StartPkgs <= Pace + 3

Most == IF StartPkgs > Pace THEN StartPkgs ELSE Pace

Fresh ==
    /\ Len(txq) <= 1
    /\ \/ state = "pd_sel" /\ pkg_num < StartPkgs
       \/ state = "pd_set_prn" /\ pkg_num < StartPkgs - 1
       \/ state = "pd_create" /\ pkg_num < StartPkgs - 2

PaceInv ==
    answers = 0 =>
        /\ pkg_num >= 0 /\ Len(txq) <= Pace
        /\ link = "up" => Only(Pipe, Op)
        /\ rsp # <<>> /\ state \in Pending => txq = <<>>
        /\ \/ Len(txq) + pkg_num <= Pace
           \/ state = "idle" /\ Len(txq) + pkg_num <= Most
           \/ Fresh

LEMMA Numbers ==
    TypeInv => /\ Len(txq) \in Nat /\ pkg_num \in Int /\ pkg_num \in Small
               /\ Pace \in Nat /\ StartPkgs \in Nat \ {0} /\ Half \in Nat \ {0}
               /\ Pace < Half /\ StartPkgs < Half
BY LenProperties, DfuClientAssumption DEF TypeInv, Small

LEMMA NumbersAfter == TypeInv' => Len(txq') \in Nat /\ pkg_num' \in Int
<1> SUFFICES ASSUME TypeInv' PROVE Len(txq') \in Nat /\ pkg_num' \in Int
  OBVIOUS
<1>1. txq' \in Seq(Pdu) /\ pkg_num' \in -Half .. Half - 1
  BY DEF TypeInv
<1>2. Len(txq') \in Nat
  BY <1>1, LenProperties
<1>3. pkg_num' \in Int
  BY <1>1, DfuClientAssumption
<1> QED
  BY <1>2, <1>3

LEMMA PaceGattRecv ==
    ASSUME Paced, DfuInv, PaceInv, GattRecv
    PROVE  PaceInv'
<1>1. DfuInv' /\ rsp' = <<>> /\ GattSpends
  BY GattRecvOK
<1>2. rsp # <<>> /\ link' = link /\ answers' = answers
  BY DEF GattRecv, countVars
<1> SUFFICES ASSUME answers = 0 PROVE PaceInv'
  BY <1>2 DEF PaceInv
<1>3. /\ Len(txq) \in Nat /\ pkg_num \in Int /\ Len(txq') \in Nat /\ pkg_num' \in Int
      /\ Pace \in Nat /\ StartPkgs \in Nat
  <2>1. TypeInv /\ TypeInv'
    BY <1>1 DEF DfuInv
  <2> QED
    BY <2>1, Numbers, NumbersAfter
<1>4. /\ pkg_num >= 0 /\ Len(txq) <= Pace
      /\ link = "up" => Only(Pipe, Op)
      /\ state \in Pending => txq = <<>>
      /\ \/ Len(txq) + pkg_num <= Pace
         \/ state = "idle" /\ Len(txq) + pkg_num <= Most
         \/ Fresh
  BY <1>2 DEF PaceInv
<1>5. state \in Pending => Len(txq) = 0
  BY <1>4
<1>6. CASE state' = "idle" /\ UNCHANGED <<pkg_num, txq, air>>
  <2>1. Len(txq') + pkg_num' <= Most
    BY <1>3, <1>4, <1>6 DEF Most, Fresh
  <2> QED
    BY <1>1, <1>2, <1>4, <1>6, <2>1 DEF PaceInv, Pipe, Only
<1>7. ASSUME state \in Pending, Spends(pkg_num, 0),
             Len(txq') + pkg_num' <= Pace \/ Fresh', Len(txq') <= Pace
      PROVE  PaceInv'
  BY <1>1, <1>2, <1>4, <1>7 DEF PaceInv, Spends, Only
<1>8. ASSUME SpendsOne(pkg_num, 0), state \in Pending
      PROVE  /\ Len(txq') <= Pace /\ Len(txq') <= 1 /\ pkg_num' >= 0
             /\ Len(txq') + pkg_num' <= pkg_num
             /\ pkg_num > 0 => pkg_num' = pkg_num - 1
  BY <1>3, <1>4, <1>5, <1>8 DEF SpendsOne, Spends, Paced
<1>9. CASE /\ state = "pd_sel" /\ SpendsOne(pkg_num, 0)
           /\ state' = IF pkg_num = 0 THEN "set_prn" ELSE "pd_set_prn"
  <2>1. state \in Pending
    BY <1>9 DEF Pending
  <2>2. Len(txq') + pkg_num' <= Pace \/ Fresh'
    BY <1>3, <1>4, <1>5, <1>8, <1>9, <2>1 DEF Fresh
  <2> QED
    BY <1>7, <1>8, <1>9, <2>1, <2>2 DEF SpendsOne
<1>10. CASE /\ state = "pd_set_prn" /\ SpendsOne(pkg_num, 0)
            /\ state' = IF pkg_num = 0 THEN "create" ELSE "pd_create"
  <2>1. state \in Pending
    BY <1>10 DEF Pending
  <2>2. Len(txq') + pkg_num' <= Pace \/ Fresh'
    BY <1>3, <1>4, <1>5, <1>8, <1>10, <2>1 DEF Fresh
  <2> QED
    BY <1>7, <1>8, <1>10, <2>1, <2>2 DEF SpendsOne
<1>11. CASE state \in {"pd_create", "pd_get_crc", "pd_execute"} /\ Spends(pkg_num, 0)
  <2>1. state \in Pending
    BY <1>11 DEF Pending
  <2>2. pkg_num <= Pace
    BY <1>3, <1>4, <1>5, <1>11, <2>1 DEF Fresh, Paced
  <2>3. Len(txq') + pkg_num' <= Pace /\ Len(txq') <= Pace
    BY <1>3, <1>4, <1>5, <1>11, <2>1, <2>2 DEF Spends
  <2> QED
    BY <1>7, <1>11, <2>1, <2>3
<1> QED
  BY <1>1, <1>6, <1>9, <1>10, <1>11 DEF GattSpends

LEMMA PaceTxComplete ==
    ASSUME DfuInv, PaceInv, NEW n, NEW k, k \in 0 .. Len(txq), TxComplete(n, k)
    PROVE  PaceInv'
<1> DEFINE p == PaceOf(Len(txq) - k)
<1>1. /\ DfuInv' /\ Spends(p, k)
      /\ rsp' # <<>> => state' = state /\ rsp' = rsp /\ Len(txq') <= Len(txq) - k
  BY TxCompleteOK
<1>2. link' = link /\ answers' = answers
  BY DEF TxComplete, countVars
<1> SUFFICES ASSUME answers = 0 PROVE PaceInv'
  BY <1>2 DEF PaceInv
<1>3. TypeInv /\ TypeInv'
  BY <1>1 DEF DfuInv
<1>4. /\ Len(txq) \in Nat /\ Len(txq') \in Nat /\ pkg_num' \in Int
      /\ Pace \in Nat /\ Half \in Nat \ {0} /\ Pace < Half /\ k \in 0 .. Len(txq)
  BY <1>3, Numbers, NumbersAfter
<1>5. /\ Len(txq) <= Pace
      /\ link = "up" => Only(Pipe, Op)
      /\ rsp # <<>> /\ state \in Pending => txq = <<>>
  BY DEF PaceInv
<1>6. p = Pace - (Len(txq) - k) /\ p >= 0 /\ p \in Int
  <2>1. Pace - (Len(txq) - k) \in Int /\ Pace - (Len(txq) - k) \in Small
    BY <1>4, <1>5 DEF Small
  <2>2. Int8(Pace - (Len(txq) - k)) = Pace - (Len(txq) - k)
    BY <2>1, Int8OK
  <2> QED
    BY <1>4, <1>5, <2>2 DEF PaceOf
<1> HIDE DEF p
<1>7. pkg_num' >= 0 /\ Len(txq') + pkg_num' <= Pace /\ Len(txq') <= Pace
  BY <1>1, <1>4, <1>6 DEF Spends
<1>8. link' = "up" => Only(Pipe', Op)
  BY <1>1, <1>2, <1>5 DEF Spends
<1>9. rsp' # <<>> /\ state' \in Pending => txq' = <<>>
  <2> SUFFICES ASSUME rsp' # <<>>, state' \in Pending PROVE txq' = <<>>
    OBVIOUS
  <2>1. txq = <<>> /\ Len(txq') <= Len(txq) - k
    BY <1>1, <1>5 DEF Pending
  <2>2. Len(txq') = 0
    BY <1>4, <2>1
  <2> QED
    BY <1>3, <2>2 DEF TypeInv
<1> QED
  BY <1>7, <1>8, <1>9 DEF PaceInv, Only, Pending

LEMMA PaceDevice ==
    ASSUME DfuInv, PaceInv, DevRecv \/ DevRefuse, DfuInv'
    PROVE  PaceInv'
<1> DEFINE m == Head(air)
<1>1. /\ air # <<>> /\ air' = Tail(air)
      /\ UNCHANGED <<clientVars, txq, link, answers>>
      /\ \/ rsp' = rsp
         \/ m.op \notin {"data", "answer"}
  BY DEF DevRecv, DevRefuse, Select, SetPrn, Create, TakeData, Checksum, Execute,
         Refuse, countVars
<1>2. /\ m.op \notin {"data", "answer"} => Only(Pipe', {"answer"})
      /\ Only(Pipe, Op) => Only(Pipe', Op)
      /\ link = "up"
  BY <1>1, DeviceStep
<1> HIDE DEF m
<1>3. state' = state /\ pkg_num' = pkg_num /\ txq' = txq /\ answers' = answers
      /\ link' = link
  BY <1>1 DEF clientVars
<1> SUFFICES ASSUME answers = 0 PROVE PaceInv'
  BY <1>3 DEF PaceInv
<1>4. Only(Pipe', Op)
  BY <1>2 DEF PaceInv
<1>5. ASSUME m.op \notin {"data", "answer"} PROVE txq' = <<>>
  <2>1. txq' \in Seq(Pdu) /\ air' \in Seq(Pdu)
    BY DEF DfuInv, TypeInv
  <2>2. Len(Pipe') = Len(air') + Len(txq') /\ Len(air') \in Nat /\ Len(txq') \in Nat
    BY <2>1, ConcatProperties, LenProperties DEF Pipe
  <2>3. \A i \in 1 .. Len(Pipe') : Pipe'[i].op = "answer" /\ Pipe'[i].op \in Op
    BY <1>2, <1>4, <1>5 DEF Only
  <2>4. Len(Pipe') = 0
    <3>1. 1 \notin 1 .. Len(Pipe')
      BY <2>3 DEF Op
    <3> QED
      BY <2>2, <3>1
  <2>5. Len(txq') = 0
    BY <2>2, <2>4
  <2> QED
    BY <2>1, <2>5
<1>6. rsp' # <<>> /\ state' \in Pending => txq' = <<>>
  BY <1>1, <1>3, <1>5 DEF PaceInv, Pending
<1> QED
  BY <1>3, <1>4, <1>6 DEF PaceInv, Fresh, Only, Pending

LEMMA PaceNext ==
    ASSUME ~Resumable, Paced, DfuInv, PaceInv, [Next]_vars, DfuInv'
    PROVE  PaceInv'
<1>1. CASE Start
  <2>1. Len(txq') <= 1 /\ Only(Pipe', Op)
    BY <1>1, StartOK
  <2>2. state' = "pd_sel" /\ pkg_num' = StartPkgs - 1 /\ rsp' = <<>>
    BY <1>1 DEF Start
  <2>3. Len(txq') \in Nat /\ Pace \in Nat /\ StartPkgs \in Nat \ {0}
    BY DfuClientAssumption, LenProperties DEF DfuInv, TypeInv
  <2> QED
    BY <2>1, <2>2, <2>3 DEF PaceInv, Fresh, Paced
<1>2. CASE GattRecv
  BY <1>2, PaceGattRecv
<1>3. ASSUME NEW n \in 0 .. done, NEW k \in 0 .. Len(txq), TxComplete(n, k)
      PROVE  PaceInv'
  BY <1>3, PaceTxComplete
<1>4. CASE Answer
  <2>1. answers' # 0
    BY <1>4 DEF Answer, DfuInv, TypeInv
  <2> QED
    BY <2>1 DEF PaceInv
<1>5. CASE Disconnected
  <2>1. /\ txq' = txq /\ link' = "down" /\ answers' = answers /\ state' = "idle"
        /\ (state = "idle" /\ pkg_num' = pkg_num) \/ pkg_num' = 0
    BY <1>5 DEF Disconnected, Finish, queueVars, countVars, clientVars
  <2>2. Len(txq) \in Nat
    BY LenProperties DEF DfuInv, TypeInv
  <2> QED
    BY <2>1, <2>2 DEF PaceInv, Fresh, Pending
<1>6. CASE LinkLoss
  <2>1. UNCHANGED <<state, pkg_num, txq, rsp, answers>> /\ link' = "lost"
    BY <1>6 DEF LinkLoss, clientVars, countVars
  <2> QED
    BY <2>1 DEF PaceInv, Fresh
<1>7. CASE UsbLost
  <2>1. UNCHANGED <<state, pkg_num, txq, rsp, answers, link>>
    BY <1>7 DEF UsbLost, clientVars
  <2>2. PICK i \in DOMAIN air : air' = RemoveAt(air, i)
    BY <1>7 DEF UsbLost
  <2>3. air \in Seq(Pdu) /\ txq \in Seq(Pdu) /\ i \in 1 .. Len(air)
    BY LenProperties DEF DfuInv, TypeInv
  <2>4. Thinned(RemoveAt(air, i) \o txq, air \o txq)
    BY <2>3, RemovedOK
  <2>5. Only(Pipe, Op) => Only(Pipe', Op)
    BY <2>1, <2>2, <2>4, ThinnedOK DEF Pipe
  <2> QED
    BY <2>1, <2>5 DEF PaceInv, Fresh, Only
<1>8. CASE DevRecv \/ DevRefuse
  BY <1>8, PaceDevice
<1>9. CASE UNCHANGED vars
  BY <1>9 DEF vars, clientVars, queueVars, countVars, PaceInv, Fresh, Only, Pipe
<1> QED
  BY <1>1, <1>2, <1>3, <1>4, <1>5, <1>6, <1>7, <1>8, <1>9 DEF Next

(* As long as the host answers nothing itself, the client never has more   *)
(* queued than it was allowed when started or than the application wants,  *)
(* and pkg_num, an int8_t, never goes below 0, when the start allows at    *)
(* most three packets more than the application wants later: dfu_single.c  *)
(* has 8 and 6 (dfu_client.c:101-194, dfu_single.c:212).                   *)
THEOREM KeepsItsPace ==
    ASSUME ~Resumable, Paced
    PROVE  Spec => []PaceKept
<1>1. Init => PaceInv
  BY DfuClientAssumption DEF Init, PaceInv, Pipe, Only
<1>2. PaceInv /\ DfuInv /\ DfuInv' /\ [Next]_vars => PaceInv'
  BY PaceNext
<1>3. DfuInv /\ PaceInv => PaceKept
  <2> SUFFICES ASSUME DfuInv, PaceInv, answers = 0
               PROVE  /\ pkg_num >= 0 /\ Len(txq) + pkg_num <= Most
    BY DEF PaceKept, Most
  <2>1. /\ Len(txq) \in Nat /\ pkg_num \in Int /\ Pace \in Nat /\ StartPkgs \in Nat
    BY Numbers DEF DfuInv
  <2> QED
    BY <2>1 DEF PaceInv, Fresh, Most
<1> QED
  BY <1>1, <1>2, <1>3, InvariantDfuInv, PTL DEF Spec

-----------------------------------------------------------------------------
(* The end of an update, whatever the device keeps.                        *)
EndsInv == ends \in Seq(Result) /\ EndsOnce

LEMMA EndsFinish ==
    ASSUME EndsInv, NEW result \in Result, Finish(result),
           result = "error" \/ state # "idle"
    PROVE  EndsInv'
<1>1. ends' = Append(ends, result) /\ state' = "idle" /\ ends \in Seq(Result)
  BY DEF Finish, EndsInv
<1>2. /\ Len(ends) \in Nat /\ DOMAIN ends = 1 .. Len(ends) /\ ends' \in Seq(Result)
      /\ DOMAIN ends' = 1 .. Len(ends) + 1
      /\ \A i \in 1 .. Len(ends) : ends'[i] = ends[i]
      /\ ends'[Len(ends) + 1] = result
  BY <1>1
<1>3. state # "idle" => Len(ends) = 0
  BY DEF EndsInv, EndsOnce
<1>4. ASSUME NEW i \in 1 .. Len(ends) + 1, i > 1 PROVE ends'[i] = "error"
  <2>1. CASE i \in 1 .. Len(ends)
    BY <1>2, <1>4, <2>1 DEF EndsInv, EndsOnce
  <2>2. CASE i = Len(ends) + 1
    <3>1. state = "idle"
      BY <1>2, <1>3, <1>4, <2>2
    <3> QED
      BY <1>2, <2>2, <3>1
  <2> QED
    BY <1>2, <2>1, <2>2
<1> QED
  BY <1>1, <1>2, <1>4 DEF EndsInv, EndsOnce

LEMMA EndsKept ==
    ASSUME EndsInv, ends' = ends, state = "idle" => state' = "idle"
    PROVE  EndsInv'
BY DEF EndsInv, EndsOnce

LEMMA EndsNext == EndsInv /\ [Next]_vars => EndsInv'
<1> SUFFICES ASSUME EndsInv, [Next]_vars PROVE EndsInv'
  OBVIOUS
<1>1. CASE Start
  BY <1>1, EmptySeq DEF Start, EndsInv, EndsOnce
<1>2. CASE GattRecv
  <2>1. CASE Finish("error")
    BY <2>1, EndsFinish DEF Result
  <2>2. CASE RecvSuccess(Head(rsp))
    <3>1. \/ ends' = ends /\ state # "idle"
          \/ state # "idle" /\ Finish("crc_not_match")
          \/ state # "idle" /\ Finish("success")
      BY <2>2 DEF RecvSuccess
    <3> QED
      BY <3>1, EndsKept, EndsFinish DEF Result
  <2>3. CASE UNCHANGED <<clientVars, txq, air, ends>>
    BY <2>3, EndsKept DEF clientVars
  <2> QED
    BY <1>2, <2>1, <2>2, <2>3 DEF GattRecv
<1>3. ASSUME NEW n \in 0 .. done, NEW k \in 0 .. Len(txq), TxComplete(n, k)
      PROVE  EndsInv'
  <2>1. ends' = ends /\ CanSend(PaceOf(Len(txq) - k), k)
    BY <1>3 DEF TxComplete
  <2>2. state = "idle" => state' = "idle"
    BY <2>1 DEF CanSend
  <2> QED
    BY <2>1, <2>2, EndsKept
<1>4. CASE Disconnected
  <2>1. CASE state = "idle"
    BY <1>4, <2>1, EndsKept DEF Disconnected, clientVars
  <2>2. CASE state # "idle"
    BY <1>4, <2>2, EndsFinish DEF Disconnected, Result
  <2> QED
    BY <2>1, <2>2
<1>5. CASE Answer \/ LinkLoss \/ UsbLost \/ DevRecv \/ DevRefuse \/ UNCHANGED vars
  <2>1. ends' = ends /\ state' = state
    BY <1>5 DEF Answer, LinkLoss, UsbLost, DevRecv, DevRefuse, vars, clientVars
  <2> QED
    BY <2>1, EndsKept
<1> QED
  BY <1>1, <1>2, <1>3, <1>4, <1>5 DEF Next

(* Whatever the device does or keeps, an update that runs has not ended,   *)
(* and after its one result only errors reported late follow               *)
(* (dfu_client.c:258-285, 291-295).                                        *)
THEOREM UpdateEndsOnce == Spec => []EndsOnce
<1>1. Init => EndsInv
  BY EmptySeq DEF Init, EndsInv, EndsOnce
<1>2. EndsInv /\ [Next]_vars => EndsInv'
  BY EndsNext
<1>3. EndsInv => EndsOnce
  BY DEF EndsInv
<1> QED
  BY <1>1, <1>2, <1>3, PTL DEF Spec

=============================================================================
