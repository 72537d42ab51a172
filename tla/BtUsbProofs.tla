----------------------------- MODULE BtUsbProofs -----------------------------
(***************************************************************************)
(* Proofs about BtUsb, for every size of the ring, every reserve, every    *)
(* number of restarts and of packets: the ring stays a bounded queue under *)
(* the three threads, sessions stay in order in it, and nothing but        *)
(* advertising reports is lost while a session runs.                       *)
(***************************************************************************)
EXTENDS BtUsb, SequenceTheorems, TLAPS

-----------------------------------------------------------------------------
(* The sizes of the ring, and its slots.                                   *)
Sizes == BufNum \in Nat \ {0} /\ Reserve \in 2 .. BufNum

Slot == 0 .. BufNum - 1

(* The indices name slots, and the slots that count hold packets.          *)
RingInv ==
    /\ fr \in Slot /\ ra \in Slot
    /\ hci_buf \in [Slot -> AllPackets \cup {[kind |-> "none"]}]
    /\ \A i \in 1 .. Cache!Count : hci_buf[(fr + i) % BufNum] \in AllPackets

(* The control points of a reader, and those where it holds what it read.  *)
Points == {"read", "check", "lock", "callback", "done"}
Holding == {"check", "lock", "callback"}

Holds(t) == reader[t] \in Holding /\ buf[t] \notin {Timeout, Eio}

ReaderInv ==
    /\ reader \in [Endpoint -> Points]
    /\ buf \in [Endpoint -> AllPackets \cup {Timeout, Eio}]
    /\ \A t \in Endpoint : reader[t] \in {"lock", "callback"} => buf[t] # Timeout
    /\ \A t \in Endpoint : Holds(t) => buf[t].session = session /\ buf[t].ep = t
    /\ main = "init" => \A t \in Endpoint : reader[t] = "done"

HistoryInv ==
    /\ session \in 1 .. MaxSessions
    /\ main \in {"deinit", "join", "init"} => session < MaxSessions
    /\ reads \in [Endpoint -> Seq(AllPackets)]
    /\ \A t \in Endpoint : \A i \in 1 .. Len(reads[t]) : reads[t][i].n = i
    /\ taken \in Seq(AllPackets)

NoneFromLater ==
    \A i \in 1 .. Cache!Count : Cache!Contents[i].session <= session

BInv ==
    /\ RingInv
    /\ ReaderInv
    /\ HistoryInv
    /\ NoneFromLater
    /\ SessionsOrdered
    /\ NothingLost

-----------------------------------------------------------------------------
(* What is inserted into the way, and where the others are then.           *)
LEMMA Inserted ==
    ASSUME NEW S, NEW a \in Seq(S), NEW b \in Seq(S), NEW p \in S
    PROVE  LET one == a \o b
               two == a \o (<<p>> \o b)
           IN  /\ Len(one) = Len(a) + Len(b) /\ Len(two) = Len(a) + Len(b) + 1
               /\ one \in Seq(S) /\ two \in Seq(S)
               /\ two[Len(a) + 1] = p
               /\ \A j \in 1 .. Len(a) : two[j] = one[j]
               /\ \A j \in Len(a) + 1 .. Len(a) + Len(b) : two[j + 1] = one[j]
<1> DEFINE c == <<p>> \o b
<1>1. /\ Len(a) \in Nat /\ Len(b) \in Nat /\ <<p>> \in Seq(S)
      /\ Len(<<p>>) = 1 /\ <<p>>[1] = p
  BY LenProperties
<1>2. /\ c \in Seq(S) /\ Len(c) = Len(b) + 1
      /\ c[1] = p /\ \A i \in 1 .. Len(b) : c[i + 1] = b[i]
  <2>1. /\ c \in Seq(S) /\ Len(c) = 1 + Len(b)
        /\ \A i \in 1 .. 1 + Len(b) : c[i] = IF i <= 1 THEN <<p>>[i] ELSE b[i - 1]
    BY <1>1, ConcatProperties
  <2> QED
    BY <1>1, <2>1
<1> HIDE DEF c
<1>3. /\ a \o b \in Seq(S) /\ Len(a \o b) = Len(a) + Len(b)
      /\ \A i \in 1 .. Len(a) + Len(b) :
            (a \o b)[i] = IF i <= Len(a) THEN a[i] ELSE b[i - Len(a)]
  BY ConcatProperties
<1>4. /\ a \o c \in Seq(S) /\ Len(a \o c) = Len(a) + Len(c)
      /\ \A i \in 1 .. Len(a) + Len(c) :
            (a \o c)[i] = IF i <= Len(a) THEN a[i] ELSE c[i - Len(a)]
  BY <1>2, ConcatProperties
<1>5. (a \o c)[Len(a) + 1] = p
  BY <1>1, <1>2, <1>4
<1>6. \A j \in 1 .. Len(a) : (a \o c)[j] = (a \o b)[j]
  BY <1>1, <1>2, <1>3, <1>4
<1>7. ASSUME NEW j \in Len(a) + 1 .. Len(a) + Len(b)
      PROVE  (a \o c)[j + 1] = (a \o b)[j]
  <2> DEFINE i == j - Len(a)
  <2>1. i \in 1 .. Len(b) /\ j + 1 - Len(a) = i + 1
    BY <1>1
  <2>2. (a \o c)[j + 1] = c[i + 1]
    BY <1>1, <1>2, <1>4, <2>1
  <2>3. (a \o b)[j] = b[i]
    BY <1>1, <1>3
  <2> QED
    BY <1>2, <2>1, <2>2, <2>3
<1> QED
  BY <1>1, <1>2, <1>3, <1>4, <1>5, <1>6, <1>7 DEF c

(* A packet that may be dropped, or that is another's, makes no difference.*)
LEMMA DeliversSkip ==
    ASSUME NEW read, NEW s, NEW t,
           NEW a \in Seq(AllPackets), NEW b \in Seq(AllPackets),
           NEW p \in AllPackets, ~Kept(p, s, t)
    PROVE  Delivers(read, a \o b, s, t) <=> Delivers(read, a \o (<<p>> \o b), s, t)
<1> DEFINE one == a \o b
           two == a \o (<<p>> \o b)
           to(j) == IF j <= Len(a) THEN j ELSE j + 1
           fro(j) == IF j <= Len(a) THEN j ELSE j - 1
<1>1. /\ Len(a) \in Nat /\ Len(b) \in Nat
      /\ Len(one) = Len(a) + Len(b) /\ Len(two) = Len(a) + Len(b) + 1
      /\ one \in Seq(AllPackets) /\ two \in Seq(AllPackets)
      /\ two[Len(a) + 1] = p
      /\ \A j \in 1 .. Len(a) : two[j] = one[j]
      /\ \A j \in Len(a) + 1 .. Len(a) + Len(b) : two[j + 1] = one[j]
  BY Inserted, LenProperties
<1>2. DOMAIN one = 1 .. Len(one) /\ DOMAIN two = 1 .. Len(two)
  BY <1>1, LenProperties
<1> HIDE DEF one, two
<1>3. \A j \in DOMAIN one : to(j) \in DOMAIN two /\ two[to(j)] = one[j]
  BY <1>1, <1>2, SMTT(20)
<1>4. \A i, j \in DOMAIN one : i < j => to(i) < to(j)
  BY <1>1, <1>2
<1>5. \A j \in DOMAIN two :
        Kept(two[j], s, t) => fro(j) \in DOMAIN one /\ one[fro(j)] = two[j]
  <2> SUFFICES ASSUME NEW j \in DOMAIN two, j # Len(a) + 1
               PROVE  fro(j) \in DOMAIN one /\ one[fro(j)] = two[j]
    BY <1>1
  <2>1. CASE j <= Len(a)
    BY <1>1, <1>2, <2>1
  <2>2. CASE j > Len(a) + 1
    <3>1. j - 1 \in Len(a) + 1 .. Len(a) + Len(b) /\ (j - 1) + 1 = j
      BY <1>1, <1>2, <2>2
    <3>2. two[(j - 1) + 1] = one[j - 1]
      BY <1>1, <3>1
    <3> QED
      BY <1>1, <1>2, <2>2, <3>1, <3>2
  <2> QED
    BY <1>1, <1>2, <2>1, <2>2
<1>6. \A i, j \in DOMAIN two :
        i < j /\ i # Len(a) + 1 /\ j # Len(a) + 1 => fro(i) < fro(j)
  BY <1>1, <1>2
<1>7. Delivers(read, one, s, t) => Delivers(read, two, s, t)
  <2> SUFFICES ASSUME Delivers(read, one, s, t) PROVE Delivers(read, two, s, t)
    OBVIOUS
  <2>1. \A i \in DOMAIN read : Kept(read[i], s, t) =>
            \E j \in DOMAIN two : two[j] = read[i]
    BY <1>3 DEF Delivers
  <2>2. \A j \in DOMAIN two : Kept(two[j], s, t) =>
            \E i \in DOMAIN read : read[i] = two[j]
    BY <1>5 DEF Delivers
  <2>3. ASSUME NEW i \in DOMAIN two, NEW j \in DOMAIN two, i < j,
               Kept(two[i], s, t), Kept(two[j], s, t)
        PROVE  two[i].n < two[j].n
    <3>1. /\ fro(i) \in DOMAIN one /\ one[fro(i)] = two[i]
          /\ fro(j) \in DOMAIN one /\ one[fro(j)] = two[j]
      BY <1>5, <2>3
    <3>2. fro(i) < fro(j)
      BY <1>1, <1>6, <2>3
    <3> HIDE DEF fro
    <3> QED
      BY <2>3, <3>1, <3>2 DEF Delivers
  <2> QED
    BY <2>1, <2>2, <2>3 DEF Delivers
<1>8. Delivers(read, two, s, t) => Delivers(read, one, s, t)
  <2> SUFFICES ASSUME Delivers(read, two, s, t) PROVE Delivers(read, one, s, t)
    OBVIOUS
  <2>1. \A i \in DOMAIN read : Kept(read[i], s, t) =>
            \E j \in DOMAIN one : one[j] = read[i]
    <3> SUFFICES ASSUME NEW i \in DOMAIN read, Kept(read[i], s, t)
                 PROVE  \E j \in DOMAIN one : one[j] = read[i]
      OBVIOUS
    <3>1. PICK j \in DOMAIN two : two[j] = read[i]
      BY DEF Delivers
    <3> HIDE DEF fro
    <3> QED
      BY <1>5, <3>1
  <2> HIDE DEF to
  <2>2. \A j \in DOMAIN one : Kept(one[j], s, t) =>
            \E i \in DOMAIN read : read[i] = one[j]
    BY <1>3 DEF Delivers
  <2>3. ASSUME NEW i \in DOMAIN one, NEW j \in DOMAIN one, i < j,
               Kept(one[i], s, t), Kept(one[j], s, t)
        PROVE  one[i].n < one[j].n
    <3>1. /\ to(i) \in DOMAIN two /\ two[to(i)] = one[i]
          /\ to(j) \in DOMAIN two /\ two[to(j)] = one[j]
          /\ to(i) < to(j)
      BY <1>3, <1>4, <2>3
    <3> QED
      BY <2>3, <3>1 DEF Delivers
  <2> QED
    BY <2>1, <2>2, <2>3 DEF Delivers
<1> QED
  BY <1>7, <1>8 DEF one, two

(* A packet that is read gets on the way behind all the others.            *)
LEMMA DeliversRead ==
    ASSUME NEW s, NEW t, NEW read \in Seq(AllPackets),
           NEW way \in Seq(AllPackets), NEW p \in AllPackets,
           \A i \in 1 .. Len(read) : read[i].n < p.n,
           Delivers(read, way, s, t)
    PROVE  Delivers(Append(read, p), Append(way, p), s, t)
<1> DEFINE r == Append(read, p)
           w == Append(way, p)
<1>1. /\ Len(read) \in Nat /\ DOMAIN read = 1 .. Len(read)
      /\ DOMAIN r = 1 .. Len(read) + 1
      /\ r[Len(read) + 1] = p /\ \A i \in 1 .. Len(read) : r[i] = read[i]
  BY AppendProperties, LenProperties
<1>2. /\ Len(way) \in Nat /\ DOMAIN way = 1 .. Len(way)
      /\ DOMAIN w = 1 .. Len(way) + 1
      /\ w[Len(way) + 1] = p /\ \A i \in 1 .. Len(way) : w[i] = way[i]
  BY AppendProperties, LenProperties
<1> HIDE DEF r, w
<1>3. \A i \in DOMAIN r : Kept(r[i], s, t) => \E j \in DOMAIN w : w[j] = r[i]
  <2> SUFFICES ASSUME NEW i \in DOMAIN r, Kept(r[i], s, t)
               PROVE  \E j \in DOMAIN w : w[j] = r[i]
    OBVIOUS
  <2>1. CASE i = Len(read) + 1
    <3>1. Len(way) + 1 \in DOMAIN w
      BY <1>2
    <3> QED
      BY <1>1, <1>2, <2>1, <3>1
  <2>2. CASE i \in 1 .. Len(read)
    <3>1. PICK j \in DOMAIN way : way[j] = read[i]
      BY <1>1, <2>2 DEF Delivers
    <3>2. j \in DOMAIN w /\ w[j] = r[i]
      BY <1>1, <1>2, <2>2, <3>1
    <3> QED
      BY <3>2
  <2> QED
    BY <1>1, <2>1, <2>2
<1>4. \A j \in DOMAIN w : Kept(w[j], s, t) => \E i \in DOMAIN r : r[i] = w[j]
  <2> SUFFICES ASSUME NEW j \in DOMAIN w, Kept(w[j], s, t)
               PROVE  \E i \in DOMAIN r : r[i] = w[j]
    OBVIOUS
  <2>1. CASE j = Len(way) + 1
    <3>1. Len(read) + 1 \in DOMAIN r
      BY <1>1
    <3> QED
      BY <1>1, <1>2, <2>1, <3>1
  <2>2. CASE j \in 1 .. Len(way)
    <3>1. PICK i \in DOMAIN read : read[i] = way[j]
      BY <1>2, <2>2 DEF Delivers
    <3>2. i \in DOMAIN r /\ r[i] = w[j]
      BY <1>1, <1>2, <2>2, <3>1
    <3> QED
      BY <3>2
  <2> QED
    BY <1>2, <2>1, <2>2
<1>5. ASSUME NEW i \in DOMAIN w, NEW j \in DOMAIN w, i < j,
             Kept(w[i], s, t), Kept(w[j], s, t)
      PROVE  w[i].n < w[j].n
  <2>1. i \in 1 .. Len(way) /\ w[i] = way[i]
    BY <1>2, <1>5
  <2>2. CASE j = Len(way) + 1
    <3>1. PICK k \in DOMAIN read : read[k] = way[i]
      BY <1>2, <1>5, <2>1 DEF Delivers
    <3> QED
      BY <1>1, <1>2, <2>1, <2>2, <3>1
  <2>3. CASE j \in 1 .. Len(way)
    BY <1>2, <1>5, <2>1, <2>3 DEF Delivers
  <2> QED
    BY <1>2, <2>2, <2>3
<1> QED
  BY <1>3, <1>4, <1>5 DEF Delivers, r, w

-----------------------------------------------------------------------------
(* The ring of the reader threads and eb_schedule, for every size of it    *)
(* and every reserve.                                                      *)
LEMMA SizesOK == Sizes
BY BtUsbAssumption DEF Sizes

(* Arithmetic of the indices: a number that is at most once around the     *)
(* ring away from a slot.                                                  *)
LEMMA Wrap ==
    ASSUME NEW n \in Nat \ {0}, NEW a \in -n .. 2 * n - 1
    PROVE  a % n = IF a < 0 THEN a + n ELSE IF a < n THEN a ELSE a - n
<1>1. a \in -n .. -1 => a % n = a + n
  OBVIOUS
<1>2. a \in 0 .. n - 1 => a % n = a
  OBVIOUS
<1>3. a \in n .. 2 * n - 1 => a % n = a - n
  OBVIOUS
<1>4. a \in -n .. -1 \/ a \in 0 .. n - 1 \/ a \in n .. 2 * n - 1
  OBVIOUS
<1> QED
  BY <1>1, <1>2, <1>3, <1>4

(* Slots, how many of them count, and where the i-th packet is.            *)
LEMMA SlotOf ==
    ASSUME Sizes, NEW f \in Slot, NEW i \in 0 .. BufNum
    PROVE  /\ (f + i) % BufNum = IF f + i < BufNum THEN f + i ELSE f + i - BufNum
           /\ (f + i) % BufNum \in Slot
<1> DEFINE a == f + i
<1>1. /\ BufNum \in Nat \ {0} /\ a \in -BufNum .. 2 * BufNum - 1
      /\ a >= 0 /\ a \in Int
  BY DEF Sizes, Slot
<1> HIDE DEF a
<1>2. a % BufNum = IF a < 0 THEN a + BufNum ELSE IF a < BufNum THEN a ELSE a - BufNum
  BY <1>1, Wrap
<1>3. /\ a % BufNum = IF a < BufNum THEN a ELSE a - BufNum
      /\ a % BufNum \in Slot
  BY <1>1, <1>2 DEF Slot
<1> QED
  BY <1>3 DEF a, Slot, Sizes

LEMMA CountOf ==
    ASSUME Sizes, NEW f \in Slot, NEW r \in Slot
    PROVE  /\ (r - f) % BufNum = IF r < f THEN r - f + BufNum ELSE r - f
           /\ (r - f) % BufNum \in 0 .. BufNum - 1
<1>1. BufNum \in Nat \ {0} /\ r - f \in -BufNum .. 2 * BufNum - 1
      /\ r - f \in Int /\ r - f < BufNum /\ r - f > -BufNum
      /\ (r - f < 0 <=> r < f)
  BY DEF Sizes, Slot
<1>2. (r - f) % BufNum = IF r < f THEN r - f + BufNum ELSE r - f
  BY <1>1, Wrap
<1> QED
  BY <1>1, <1>2

LEMMA ContentsType ==
    ASSUME Sizes, RingInv
    PROVE  /\ Cache!Count \in 0 .. BufNum - 1
           /\ Cache!Contents \in Seq(AllPackets) /\ Len(Cache!Contents) = Cache!Count
           /\ \A i \in 1 .. Cache!Count : Cache!Contents[i] = hci_buf[(fr + i) % BufNum]
<1>1. Cache!Count \in 0 .. BufNum - 1
  BY CountOf DEF RingInv, Cache!Count
<1> QED
  BY <1>1 DEF RingInv, Cache!Contents

-----------------------------------------------------------------------------
LEMMA InitRing ==
    ASSUME Sizes, Cache!CacheInit
    PROVE  RingInv /\ Cache!Contents = <<>>
<1>1. fr \in Slot /\ ra \in Slot /\ hci_buf \in [Slot -> AllPackets \cup {[kind |-> "none"]}]
  BY DEF Sizes, Cache!CacheInit, Slot
<1>2. Cache!Count = 0
  BY <1>1, CountOf DEF Cache!CacheInit, Cache!Count
<1>3. Cache!Contents = <<>>
  BY <1>2 DEF Cache!Contents
<1> QED
  BY <1>1, <1>2, <1>3 DEF RingInv

(* A packet that is stored becomes the last one of the queue.              *)
LEMMA StoreRing ==
    ASSUME Sizes, RingInv, NEW p \in AllPackets, ~Cache!IsFull, Cache!Store(p)
    PROVE  /\ RingInv' /\ Cache!Contents' = Append(Cache!Contents, p)
           /\ Cache!Count < BufNum - 1
<1>1. /\ fr \in Slot /\ ra \in Slot /\ Cache!Count \in 0 .. BufNum - 1
      /\ hci_buf \in [Slot -> AllPackets \cup {[kind |-> "none"]}]
  BY ContentsType DEF RingInv
<1>2. /\ ra' = (ra + 1) % BufNum /\ fr' = fr
      /\ hci_buf' = [hci_buf EXCEPT ![ra'] = p]
  BY DEF Cache!Store
<1>3. BufNum \in Nat \ {0} /\ 1 \in 0 .. BufNum
  BY DEF Sizes
<1>4. /\ ra' \in Slot
      /\ ra' = IF ra + 1 < BufNum THEN ra + 1 ELSE ra + 1 - BufNum
  BY <1>1, <1>2, <1>3, SlotOf
<1>5. fr # ra'
  BY <1>2 DEF Cache!IsFull
<1>6. /\ Cache!Count = IF ra < fr THEN ra - fr + BufNum ELSE ra - fr
      /\ Cache!Count' = IF ra' < fr THEN ra' - fr + BufNum ELSE ra' - fr
  BY <1>1, <1>2, <1>4, CountOf DEF Cache!Count
<1>7. Cache!Count' = Cache!Count + 1 /\ Cache!Count < BufNum - 1
  BY <1>1, <1>3, <1>4, <1>5, <1>6 DEF Slot
<1>8. \A i \in 1 .. Cache!Count + 1 :
        /\ (fr + i) % BufNum = IF fr + i < BufNum THEN fr + i ELSE fr + i - BufNum
        /\ (fr + i) % BufNum \in Slot
  <2> SUFFICES ASSUME NEW i \in 1 .. Cache!Count + 1
               PROVE  /\ (fr + i) % BufNum = IF fr + i < BufNum THEN fr + i ELSE fr + i - BufNum
                      /\ (fr + i) % BufNum \in Slot
    OBVIOUS
  <2>1. i \in 0 .. BufNum
    BY <1>1, <1>3, <1>7
  <2> QED
    BY <1>1, <2>1, SlotOf
<1>9. (fr + (Cache!Count + 1)) % BufNum = ra'
  <2>1. Cache!Count + 1 \in 1 .. Cache!Count + 1
    BY <1>1, <1>3
  <2>2. (fr + (Cache!Count + 1)) % BufNum
          = IF fr + (Cache!Count + 1) < BufNum THEN fr + (Cache!Count + 1)
            ELSE fr + (Cache!Count + 1) - BufNum
    BY <1>8, <2>1
  <2> QED
    BY <1>1, <1>3, <1>4, <1>5, <1>6, <1>7, <2>2 DEF Slot
<1>10. \A i \in 1 .. Cache!Count : (fr + i) % BufNum # ra'
  <2> SUFFICES ASSUME NEW i \in 1 .. Cache!Count PROVE (fr + i) % BufNum # ra'
    OBVIOUS
  <2>1. i \in 1 .. Cache!Count + 1
    BY <1>1, <1>3
  <2>2. (fr + i) % BufNum = IF fr + i < BufNum THEN fr + i ELSE fr + i - BufNum
    BY <1>8, <2>1
  <2> QED
    BY <1>1, <1>3, <1>4, <1>5, <1>6, <2>2 DEF Slot
<1>11. \A i \in 1 .. Cache!Count + 1 :
        hci_buf'[(fr' + i) % BufNum]
            = IF i = Cache!Count + 1 THEN p ELSE hci_buf[(fr + i) % BufNum]
  <2> SUFFICES ASSUME NEW i \in 1 .. Cache!Count + 1
               PROVE  hci_buf'[(fr' + i) % BufNum]
                        = IF i = Cache!Count + 1 THEN p ELSE hci_buf[(fr + i) % BufNum]
    OBVIOUS
  <2>1. i = Cache!Count + 1 \/ i \in 1 .. Cache!Count
    BY <1>1, <1>3
  <2>2. (fr + i) % BufNum \in DOMAIN hci_buf
    BY <1>1, <1>8
  <2> DEFINE k == (fr + i) % BufNum
  <2>3. hci_buf'[k] = IF k = ra' THEN p ELSE hci_buf[k]
    BY <1>2, <2>2
  <2>4. k = ra' <=> i = Cache!Count + 1
    BY <1>1, <1>3, <1>9, <1>10, <2>1
  <2> QED
    BY <1>2, <2>3, <2>4
<1>12. RingInv'
  <2>1. hci_buf' \in [Slot -> AllPackets \cup {[kind |-> "none"]}]
    BY <1>1, <1>2, <1>4
  <2>2. ASSUME NEW i \in 1 .. Cache!Count' PROVE hci_buf'[(fr' + i) % BufNum] \in AllPackets
    <3>1. i = Cache!Count + 1 \/ i \in 1 .. Cache!Count
      BY <1>1, <1>3, <1>7, <2>2
    <3> QED
      BY <1>7, <1>11, <3>1 DEF RingInv
  <2> QED
    BY <1>1, <1>2, <1>4, <2>1, <2>2 DEF RingInv, Slot
<1>13. Cache!Contents' = Append(Cache!Contents, p)
  <2>1. /\ Cache!Contents \in Seq(AllPackets) /\ Len(Cache!Contents) = Cache!Count
        /\ \A i \in 1 .. Cache!Count : Cache!Contents[i] = hci_buf[(fr + i) % BufNum]
    BY ContentsType
  <2>2. /\ Cache!Contents' \in Seq(AllPackets) /\ Len(Cache!Contents') = Cache!Count + 1
        /\ \A i \in 1 .. Cache!Count + 1 : Cache!Contents'[i] = hci_buf'[(fr' + i) % BufNum]
    <3>1. Cache!Contents' = [i \in 1 .. Cache!Count + 1 |-> hci_buf'[(fr' + i) % BufNum]]
      BY <1>7 DEF Cache!Contents
    <3>2. \A i \in 1 .. Cache!Count + 1 : hci_buf'[(fr' + i) % BufNum] \in AllPackets
      BY <1>7, <1>12 DEF RingInv
    <3> QED
      BY <1>1, <3>1, <3>2
  <2>3. /\ Append(Cache!Contents, p) \in Seq(AllPackets)
        /\ Len(Append(Cache!Contents, p)) = Cache!Count + 1
        /\ \A i \in 1 .. Cache!Count + 1 :
              Append(Cache!Contents, p)[i] = IF i = Cache!Count + 1 THEN p ELSE Cache!Contents[i]
    BY <1>1, <1>3, <2>1, AppendProperties
  <2>4. \A i \in 1 .. Cache!Count + 1 : Cache!Contents'[i] = Append(Cache!Contents, p)[i]
    <3> SUFFICES ASSUME NEW i \in 1 .. Cache!Count + 1
                 PROVE  Cache!Contents'[i] = Append(Cache!Contents, p)[i]
      OBVIOUS
    <3>1. i = Cache!Count + 1 \/ i \in 1 .. Cache!Count
      BY <1>1, <1>3
    <3> QED
      BY <1>1, <1>3, <1>11, <2>1, <2>2, <2>3, <3>1
  <2> QED
    BY <2>2, <2>3, <2>4, SeqEqual
<1> QED
  BY <1>7, <1>12, <1>13

(* The packet taken out is the first one of the queue.                     *)
LEMMA GetRing ==
    ASSUME Sizes, RingInv, Cache!BufGet
    PROVE  /\ RingInv' /\ Cache!Contents # <<>> /\ Cache!Contents' = Tail(Cache!Contents)
           /\ Cache!Oldest = Head(Cache!Contents) /\ Cache!Oldest \in AllPackets
<1>1. /\ fr \in Slot /\ ra \in Slot /\ Cache!Count \in 1 .. BufNum - 1
      /\ hci_buf \in [Slot -> AllPackets \cup {[kind |-> "none"]}]
  BY ContentsType DEF RingInv, Cache!BufGet
<1>2. /\ fr' = (fr + 1) % BufNum /\ ra' = ra /\ hci_buf' = hci_buf
  BY DEF Cache!BufGet
<1>3. BufNum \in Nat \ {0} /\ 1 \in 0 .. BufNum
  BY DEF Sizes
<1>4. /\ fr' \in Slot
      /\ fr' = IF fr + 1 < BufNum THEN fr + 1 ELSE fr + 1 - BufNum
  BY <1>1, <1>2, <1>3, SlotOf
<1>5. /\ Cache!Count = IF ra < fr THEN ra - fr + BufNum ELSE ra - fr
      /\ Cache!Count' = IF ra < fr' THEN ra - fr' + BufNum ELSE ra - fr'
  BY <1>1, <1>2, <1>4, CountOf DEF Cache!Count
<1>6. Cache!Count' = Cache!Count - 1
  BY <1>1, <1>3, <1>4, <1>5 DEF Slot
<1>7. \A i \in 1 .. Cache!Count - 1 : (fr' + i) % BufNum = (fr + (i + 1)) % BufNum
  <2> SUFFICES ASSUME NEW i \in 1 .. Cache!Count - 1
               PROVE  (fr' + i) % BufNum = (fr + (i + 1)) % BufNum
    OBVIOUS
  <2>1. i \in 0 .. BufNum /\ i + 1 \in 0 .. BufNum
    BY <1>1, <1>3
  <2>2. (fr' + i) % BufNum = IF fr' + i < BufNum THEN fr' + i ELSE fr' + i - BufNum
    BY <1>4, <2>1, SlotOf
  <2>3. (fr + (i + 1)) % BufNum
          = IF fr + (i + 1) < BufNum THEN fr + (i + 1) ELSE fr + (i + 1) - BufNum
    BY <1>1, <2>1, SlotOf
  <2> QED
    BY <1>1, <1>3, <1>4, <2>2, <2>3 DEF Slot
<1>8. \A i \in 1 .. Cache!Count - 1 :
          hci_buf'[(fr' + i) % BufNum] = hci_buf[(fr + (i + 1)) % BufNum]
  BY <1>2, <1>7
<1>9. \A i \in 1 .. Cache!Count - 1 : i + 1 \in 1 .. Cache!Count
  BY <1>1
<1>10. RingInv'
  BY <1>1, <1>2, <1>4, <1>6, <1>8, <1>9 DEF RingInv, Slot
<1>11. /\ Cache!Contents \in Seq(AllPackets) /\ Len(Cache!Contents) = Cache!Count
       /\ \A i \in 1 .. Cache!Count : Cache!Contents[i] = hci_buf[(fr + i) % BufNum]
  BY ContentsType
<1>12. Cache!Contents # <<>>
  BY <1>1, <1>11, EmptySeq
<1>13. Cache!Contents' = Tail(Cache!Contents)
  <2>1. /\ Cache!Contents' \in Seq(AllPackets) /\ Len(Cache!Contents') = Cache!Count - 1
        /\ \A i \in 1 .. Cache!Count - 1 : Cache!Contents'[i] = hci_buf'[(fr' + i) % BufNum]
    <3>1. Cache!Contents' = [i \in 1 .. Cache!Count - 1 |-> hci_buf'[(fr' + i) % BufNum]]
      BY <1>6 DEF Cache!Contents
    <3>2. \A i \in 1 .. Cache!Count - 1 : hci_buf'[(fr' + i) % BufNum] \in AllPackets
      BY <1>6, <1>10 DEF RingInv
    <3> QED
      BY <1>1, <3>1, <3>2
  <2>2. /\ Tail(Cache!Contents) \in Seq(AllPackets) /\ Len(Tail(Cache!Contents)) = Cache!Count - 1
        /\ \A i \in 1 .. Cache!Count - 1 : Tail(Cache!Contents)[i] = Cache!Contents[i + 1]
    BY <1>1, <1>11, <1>12, HeadTailProperties
  <2>3. \A i \in 1 .. Cache!Count - 1 : Cache!Contents'[i] = Tail(Cache!Contents)[i]
    BY <1>8, <1>9, <1>11, <2>1, <2>2
  <2> QED
    BY <2>1, <2>2, <2>3, SeqEqual
<1>14. Cache!Oldest = Head(Cache!Contents) /\ Cache!Oldest \in AllPackets
  <2>1. Head(Cache!Contents) = Cache!Contents[1] /\ 1 \in 1 .. Cache!Count
    BY <1>1, <1>11, <1>12, HeadTailProperties
  <2> QED
    BY <1>11, <2>1 DEF Cache!Oldest, RingInv
<1> QED
  BY <1>10, <1>12, <1>13, <1>14

LEMMA ClearRing ==
    ASSUME Sizes, RingInv, Cache!BufClear
    PROVE  RingInv' /\ Cache!Contents' = <<>>
<1>1. /\ fr' \in Slot /\ ra' \in Slot /\ fr' = ra'
      /\ hci_buf' \in [Slot -> AllPackets \cup {[kind |-> "none"]}]
  BY DEF Sizes, RingInv, Cache!BufClear, Slot
<1>2. Cache!Count' = 0
  <2>1. fr' = 0 /\ ra' = 0 /\ BufNum \in Nat \ {0}
    BY DEF Cache!BufClear, Sizes
  <2>2. (0 - 0) % BufNum = 0
    BY <2>1
  <2> QED
    BY <2>1, <2>2 DEF Cache!Count
<1>3. Cache!Contents' = <<>>
  BY <1>2 DEF Cache!Contents
<1> QED
  BY <1>1, <1>2, <1>3 DEF RingInv, Slot

(* Every step on the ring is one on the queue, or none.                    *)
LEMMA CacheStep ==
    ASSUME Sizes, RingInv, [Cache!CacheNext]_(Cache!cacheVars)
    PROVE  RingInv' /\ [Cache!Queue!Next]_(Cache!Contents)
<1>1. CASE UNCHANGED Cache!cacheVars
  BY <1>1 DEF Cache!cacheVars, RingInv, Cache!Contents, Cache!Count
<1>2. ASSUME NEW p \in AllPackets, Cache!BufIn(p)
      PROVE  RingInv' /\ [Cache!Queue!Next]_(Cache!Contents)
  <2>1. CASE Cache!Refused(p)
    BY <1>1, <1>2, <2>1 DEF Cache!BufIn
  <2>2. CASE ~Cache!Refused(p)
    <3>1. ~Cache!IsFull /\ Cache!Store(p)
      BY <1>2, <2>2 DEF Cache!BufIn
    <3>2. /\ RingInv' /\ Cache!Contents' = Append(Cache!Contents, p) /\ Cache!Count < BufNum - 1
      BY <3>1, StoreRing
    <3>3. Len(Cache!Contents) = Cache!Count /\ Cache!Count \in Nat
      BY ContentsType
    <3>4. p \in {q \in AllPackets : IsAdvert(q)} => Cache!Count < BufNum - Reserve + 1
      BY <2>2, <3>3 DEF Cache!Refused, Sizes
    <3>5. Cache!Queue!Put(p)
      BY <3>2, <3>3, <3>4 DEF Cache!Queue!Put
    <3> QED
      BY <3>2, <3>5 DEF Cache!Queue!Next
  <2> QED
    BY <2>1, <2>2
<1>3. CASE Cache!BufGet
  BY <1>3, GetRing DEF Cache!Queue!Next, Cache!Queue!Get
<1>4. CASE Cache!BufClear
  BY <1>4, ClearRing DEF Cache!Queue!Next, Cache!Queue!Clear
<1> QED
  BY <1>1, <1>2, <1>3, <1>4 DEF Cache!CacheNext

(* The ring implements the bounded queue: nothing it holds is overwritten, *)
(* repeated or reordered when the indices wrap, a report is never taken    *)
(* when room is scarce, and the queue is never longer than the ring        *)
(* (hci_cache.c:13-64).                                                    *)
THEOREM RingImplementsQueue == Cache!CacheSpec => Cache!QueueSpec
<1>1. Cache!CacheInit => RingInv /\ Cache!Queue!Init
  BY SizesOK, InitRing DEF Cache!Queue!Init
<1>2. RingInv /\ [Cache!CacheNext]_(Cache!cacheVars)
        => RingInv' /\ [Cache!Queue!Next]_(Cache!Contents)
  BY SizesOK, CacheStep
<1> QED
  BY <1>1, <1>2, PTL DEF Cache!CacheSpec, Cache!QueueSpec, Cache!Queue!Spec

-----------------------------------------------------------------------------
(* The ring inside the program.                                            *)
LEMMA ContentsOK ==
    ASSUME RingInv
    PROVE  /\ Cache!Contents \in Seq(AllPackets)
           /\ Cache!Count \in Nat /\ Len(Cache!Contents) = Cache!Count
BY SizesOK, ContentsType

LEMMA RingSame ==
    ASSUME UNCHANGED cacheVars
    PROVE  /\ Cache!Contents' = Cache!Contents /\ Cache!Count' = Cache!Count
           /\ RingInv => RingInv'
BY DEF cacheVars, Cache!Contents, Cache!Count, RingInv

(* hci_buf_in: the packet is put behind the others, refused, or the end of *)
(* the program.                                                            *)
LEMMA RingIn ==
    ASSUME RingInv, NEW p \in AllPackets, H4Recv(p)
    PROVE  /\ RingInv'
           /\ main' \in {main, "aborted"}
           /\ \/ Cache!Contents' = Append(Cache!Contents, p)
              \/ /\ Cache!Contents' = Cache!Contents
                 /\ main' = "aborted" \/ p.kind = "advert"
<1>1. CASE main' = "aborted" /\ UNCHANGED cacheVars
  BY <1>1, RingSame
<1>2. CASE Cache!BufIn(p) /\ UNCHANGED main
  <2>1. CASE Cache!Refused(p)
    <3>1. p.kind = "advert"
      BY <2>1 DEF Cache!Refused, IsAdvert
    <3>2. UNCHANGED cacheVars
      BY <1>2, <2>1 DEF Cache!BufIn, Cache!cacheVars, cacheVars
    <3> QED
      BY <1>2, <3>1, <3>2, RingSame
  <2>2. CASE ~Cache!Refused(p)
    <3>1. ~Cache!IsFull /\ Cache!Store(p)
      BY <1>2, <2>2 DEF Cache!BufIn
    <3>2. RingInv' /\ Cache!Contents' = Append(Cache!Contents, p)
      BY <3>1, SizesOK, StoreRing
    <3> QED
      BY <1>2, <3>2
  <2> QED
    BY <2>1, <2>2
<1> QED
  BY <1>1, <1>2 DEF H4Recv

-----------------------------------------------------------------------------
(* What the invariant says of the packets on the way to the host.          *)
Way(t) == taken \o (Cache!Contents \o Held(t))

LEMMA Packets ==
    ASSUME NEW p \in AllPackets
    PROVE  /\ p.session \in Int /\ p.n \in Int /\ p # Timeout /\ p # Eio
           /\ p.kind \in {"advert", "other", "error"}
BY DEF AllPackets, Timeout, Eio

LEMMA MaxPacketOK ==
    /\ MaxPacket \in Nat
    /\ \A t \in Endpoint : MaxReads[t] <= MaxPacket
<1>1. /\ MaxReads["evt"] \in Nat /\ MaxReads["acl"] \in Nat
      /\ {MaxReads[t] : t \in Endpoint} = {MaxReads["evt"], MaxReads["acl"]}
  BY BtUsbAssumption DEF Endpoint
<1>2. \E m \in {MaxReads[t] : t \in Endpoint} : \A t \in Endpoint : MaxReads[t] <= m
  <2>1. CASE MaxReads["evt"] <= MaxReads["acl"]
    BY <1>1, <2>1 DEF Endpoint
  <2>2. CASE MaxReads["acl"] <= MaxReads["evt"]
    BY <1>1, <2>2 DEF Endpoint
  <2> QED
    BY <1>1, <2>1, <2>2
<1>3. /\ MaxPacket \in {MaxReads[t] : t \in Endpoint}
      /\ \A t \in Endpoint : MaxReads[t] <= MaxPacket
  BY <1>2 DEF MaxPacket
<1> QED
  BY <1>1, <1>3

LEMMA HeldOK ==
    ASSUME ReaderInv, NEW t \in Endpoint
    PROVE  /\ Held(t) \in Seq(AllPackets)
           /\ Holds(t) => buf[t] \in AllPackets /\ Held(t) = <<buf[t]>>
           /\ ~Holds(t) => Held(t) = <<>>
<1>1. CASE Holds(t)
  <2>1. buf[t] \in AllPackets
    BY <1>1 DEF ReaderInv, Holds
  <2>2. Held(t) = <<buf[t]>>
    BY <1>1 DEF Holds, Holding, Held
  <2> QED
    BY <1>1, <2>1, <2>2
<1>2. CASE ~Holds(t)
  BY <1>2 DEF Holds, Holding, Held
<1> QED
  BY <1>1, <1>2

(* The ring changes in one of three ways, and what it holds stays in the   *)
(* order of the sessions.                                                  *)
Ordered(c) ==
    /\ \A i \in 1 .. Len(c) : c[i].session <= session
    /\ \A i, j \in 1 .. Len(c) : i < j => c[i].session <= c[j].session

LEMMA OrderedContents ==
    ASSUME RingInv
    PROVE  Ordered(Cache!Contents) <=> NoneFromLater /\ SessionsOrdered
<1>1. /\ DOMAIN Cache!Contents = 1 .. Cache!Count
      /\ Len(Cache!Contents) = Cache!Count
  BY ContentsOK, LenProperties
<1> QED
  BY <1>1 DEF Ordered, NoneFromLater, SessionsOrdered

LEMMA OrderedAppend ==
    ASSUME NEW c \in Seq(AllPackets), NEW p \in AllPackets, Ordered(c),
           p.session = session
    PROVE  Ordered(Append(c, p))
<1> DEFINE d == Append(c, p)
<1>1. /\ Len(c) \in Nat /\ Len(d) = Len(c) + 1 /\ d[Len(c) + 1] = p
      /\ \A i \in 1 .. Len(c) : d[i] = c[i]
      /\ p.session \in Int
  BY AppendProperties, LenProperties, Packets
<1> HIDE DEF d
<1>2. ASSUME NEW i \in 1 .. Len(d) PROVE d[i].session <= session
  BY <1>1, <1>2 DEF Ordered
<1>3. ASSUME NEW i \in 1 .. Len(d), NEW j \in 1 .. Len(d), i < j
      PROVE  d[i].session <= d[j].session
  <2>1. i \in 1 .. Len(c) /\ d[i] = c[i]
    BY <1>1, <1>3
  <2>2. CASE j = Len(c) + 1
    BY <1>1, <2>1, <2>2 DEF Ordered
  <2>3. CASE j \in 1 .. Len(c)
    BY <1>1, <1>3, <2>1, <2>3 DEF Ordered
  <2> QED
    BY <1>1, <2>2, <2>3
<1> QED
  BY <1>2, <1>3 DEF Ordered, d

LEMMA OrderedTail ==
    ASSUME NEW c \in Seq(AllPackets), c # <<>>, Ordered(c)
    PROVE  Ordered(Tail(c))
<1>1. /\ Len(c) \in Nat /\ Len(Tail(c)) = Len(c) - 1
      /\ \A i \in 1 .. Len(c) - 1 : Tail(c)[i] = c[i + 1] /\ i + 1 \in 1 .. Len(c)
  BY HeadTailProperties, LenProperties
<1> QED
  BY <1>1 DEF Ordered

(* Taking the first packet out of the ring leaves the way as it is.        *)
LEMMA WayTake ==
    ASSUME NEW S, NEW a \in Seq(S), NEW c \in Seq(S), c # <<>>, NEW h \in Seq(S)
    PROVE  Append(a, Head(c)) \o (Tail(c) \o h) = a \o (c \o h)
<1>1. /\ Head(c) \in S /\ Tail(c) \in Seq(S) /\ <<Head(c)>> \in Seq(S)
      /\ c = <<Head(c)>> \o Tail(c)
  <2>1. Head(c) \in S /\ Tail(c) \in Seq(S) /\ <<Head(c)>> \in Seq(S)
    BY HeadTailProperties
  <2>2. /\ Len(c) \in Nat \ {0} /\ Len(Tail(c)) = Len(c) - 1
        /\ \A i \in 1 .. Len(c) - 1 : Tail(c)[i] = c[i + 1]
        /\ Head(c) = c[1]
    BY HeadTailProperties, EmptySeq
  <2> DEFINE d == <<Head(c)>> \o Tail(c)
  <2>3. /\ d \in Seq(S) /\ Len(d) = 1 + Len(Tail(c))
        /\ \A i \in 1 .. 1 + Len(Tail(c)) :
              d[i] = IF i <= 1 THEN <<Head(c)>>[i] ELSE Tail(c)[i - 1]
    BY <2>1, ConcatProperties
  <2>4. ASSUME NEW i \in 1 .. Len(c) PROVE c[i] = d[i]
    <3>1. CASE i = 1
      BY <2>2, <2>3, <3>1
    <3>2. CASE i # 1
      <4>1. i - 1 \in 1 .. Len(c) - 1 /\ (i - 1) + 1 = i
        BY <2>2, <3>2
      <4>2. d[i] = Tail(c)[i - 1]
        BY <2>2, <2>3, <3>2
      <4> QED
        BY <2>2, <4>1, <4>2
    <3> QED
      BY <3>1, <3>2
  <2>5. c = d
    <3>1. Len(c) = Len(d)
      BY <2>2, <2>3
    <3> HIDE DEF d
    <3> QED
      BY <2>3, <2>4, <3>1, SeqEqual
  <2> QED
    BY <2>1, <2>5
<1>2. Append(a, Head(c)) = a \o <<Head(c)>>
  BY <1>1, AppendIsConcat
<1>3. (<<Head(c)>> \o Tail(c)) \o h = <<Head(c)>> \o (Tail(c) \o h)
  BY <1>1, ConcatAssociative
<1>4. Tail(c) \o h \in Seq(S)
  BY <1>1, ConcatProperties
<1>5. (a \o <<Head(c)>>) \o (Tail(c) \o h) = a \o (<<Head(c)>> \o (Tail(c) \o h))
  BY <1>1, <1>4, ConcatAssociative, SMTT(20)
<1> QED
  BY <1>1, <1>2, <1>3, <1>5

-----------------------------------------------------------------------------
LEMMA InitBInv == ASSUME Init PROVE BInv
<1>1. RingInv /\ Cache!Contents = <<>>
  BY SizesOK, InitRing DEF Init
<1>2. Cache!Count = 0
  BY <1>1, ContentsOK
<1>3. \A t \in Endpoint : reader[t] = "read" /\ ~Holds(t)
  BY DEF Init, Holds, Holding
<1>4. ReaderInv
  BY <1>3 DEF Init, ReaderInv, Points
<1>5. HistoryInv
  BY BtUsbAssumption, EmptySeq DEF Init, HistoryInv
<1>6. NoneFromLater
  BY <1>2 DEF NoneFromLater
<1>7. SessionsOrdered
  BY <1>1 DEF SessionsOrdered
<1>8. NothingLost
  <2>1. \A t \in Endpoint : taken \o (Cache!Contents \o Held(t)) = <<>>
    BY <1>1, <1>3, <1>4, HeldOK DEF Init
  <2>2. \A t \in Endpoint : reads[t] = <<>>
    BY DEF Init
  <2> QED
    BY <2>1, <2>2 DEF NothingLost, Delivers
<1> QED
  BY <1>1, <1>4, <1>5, <1>6, <1>7, <1>8 DEF BInv

(* The ring and the session stay as they are.                              *)
LEMMA RingKept ==
    ASSUME BInv, UNCHANGED <<cacheVars, session>>
    PROVE  /\ RingInv' /\ Cache!Contents' = Cache!Contents
           /\ NoneFromLater' /\ SessionsOrdered'
<1>1. Cache!Contents' = Cache!Contents /\ Cache!Count' = Cache!Count /\ RingInv'
  BY RingSame DEF BInv
<1> QED
  BY <1>1 DEF BInv, NoneFromLater, SessionsOrdered

LEMMA WayOK ==
    ASSUME BInv, NEW t \in Endpoint
    PROVE  /\ Cache!Contents \in Seq(AllPackets) /\ Held(t) \in Seq(AllPackets)
           /\ taken \in Seq(AllPackets)
           /\ Cache!Contents \o Held(t) \in Seq(AllPackets)
           /\ Way(t) \in Seq(AllPackets)
<1>1. /\ Cache!Contents \in Seq(AllPackets) /\ Held(t) \in Seq(AllPackets)
      /\ taken \in Seq(AllPackets)
  BY ContentsOK, HeldOK DEF BInv, HistoryInv
<1>2. Cache!Contents \o Held(t) \in Seq(AllPackets)
  BY <1>1, ConcatProperties
<1> QED
  BY <1>1, <1>2, ConcatProperties DEF Way

LEMMA ReadStep == ASSUME BInv, NEW t \in Endpoint, Read(t) PROVE BInv'
<1>1. /\ main # "aborted" /\ reader[t] = "read"
      /\ reader' = [reader EXCEPT ![t] = "check"]
      /\ UNCHANGED <<cacheVars, exit_flag, main, session, taken>>
  BY DEF Read, Running
<1>2. /\ RingInv' /\ Cache!Contents' = Cache!Contents
      /\ NoneFromLater' /\ SessionsOrdered'
  BY <1>1, RingKept
<1>3. ~Holds(t) /\ Held(t) = <<>>
  BY <1>1, HeldOK DEF Holds, Holding, BInv
<1>4. main # "init"
  BY <1>1 DEF BInv, ReaderInv
<1>5. ASSUME NEW v, buf' = [buf EXCEPT ![t] = v],
             \/ v \in {Timeout, Eio}
             \/ v \in AllPackets /\ v.session = session /\ v.ep = t
      PROVE  /\ ReaderInv'
             /\ \A u \in Endpoint \ {t} : Held(u)' = Held(u)
             /\ v \in {Timeout, Eio} => Held(t)' = <<>>
             /\ v \in AllPackets => Held(t)' = <<v>>
  <2>1. /\ reader' \in [Endpoint -> Points] /\ reader'[t] = "check"
        /\ buf' \in [Endpoint -> AllPackets \cup {Timeout, Eio}] /\ buf'[t] = v
        /\ \A u \in Endpoint \ {t} : reader'[u] = reader[u] /\ buf'[u] = buf[u]
    BY <1>1, <1>5 DEF BInv, ReaderInv, Points
  <2>2. v \in AllPackets => v \notin {Timeout, Eio}
    BY Packets
  <2>3. ReaderInv'
    <3>1. ASSUME NEW u \in Endpoint, Holds(u)'
          PROVE  buf'[u].session = session /\ buf'[u].ep = u
      <4>1. CASE u = t
        BY <1>5, <2>1, <3>1, <4>1 DEF Holds
      <4>2. CASE u # t
        BY <2>1, <3>1, <4>2 DEF Holds, BInv, ReaderInv
      <4> QED
        BY <4>1, <4>2
    <3>2. ASSUME NEW u \in Endpoint, reader'[u] \in {"lock", "callback"}
          PROVE  buf'[u] # Timeout
      BY <2>1, <3>2 DEF BInv, ReaderInv
    <3>3. session' = session /\ main' # "init"
      BY <1>1, <1>4
    <3> QED
      BY <2>1, <3>1, <3>2, <3>3 DEF ReaderInv
  <2>4. /\ \A u \in Endpoint \ {t} : Held(u)' = Held(u)
        /\ v \in {Timeout, Eio} => Held(t)' = <<>>
        /\ v \in AllPackets => Held(t)' = <<v>>
    BY <2>1, <2>2 DEF Held
  <2> QED
    BY <2>3, <2>4
<1>6. CASE ReadPacket(t)
  <2>1. PICK k \in {"advert", "other"} :
          LET p == [session |-> session, ep |-> t, n |-> Len(reads[t]) + 1,
                    kind |-> k]
          IN  /\ buf' = [buf EXCEPT ![t] = p]
              /\ reads' = [reads EXCEPT ![t] = Append(@, p)]
    BY <1>6 DEF ReadPacket
  <2> DEFINE p == [session |-> session, ep |-> t, n |-> Len(reads[t]) + 1,
                   kind |-> k]
  <2>2. /\ reads[t] \in Seq(AllPackets) /\ Len(reads[t]) \in Nat
        /\ Len(reads[t]) < MaxReads[t] /\ MaxReads[t] <= MaxPacket
        /\ MaxPacket \in Nat /\ MaxReads[t] \in Nat
    BY <1>6, MaxPacketOK, LenProperties, BtUsbAssumption
       DEF BInv, HistoryInv, ReadPacket
  <2>3. /\ p \in AllPackets /\ p.session = session /\ p.ep = t
        /\ p.n = Len(reads[t]) + 1
    BY <2>2 DEF AllPackets, BInv, HistoryInv
  <2>4. /\ buf' = [buf EXCEPT ![t] = p]
        /\ reads' = [reads EXCEPT ![t] = Append(reads[t], p)]
    BY <2>1
  <2> HIDE DEF p
  <2>5. /\ ReaderInv' /\ \A u \in Endpoint \ {t} : Held(u)' = Held(u)
        /\ Held(t)' = <<p>>
    BY <1>5, <2>3, <2>4
  <2>6. /\ reads' \in [Endpoint -> Seq(AllPackets)]
        /\ reads'[t] = Append(reads[t], p)
        /\ \A u \in Endpoint \ {t} : reads'[u] = reads[u]
    BY <2>2, <2>3, <2>4, AppendProperties DEF BInv, HistoryInv
  <2>7. HistoryInv'
    <3>1. ASSUME NEW u \in Endpoint, NEW i \in 1 .. Len(reads'[u])
          PROVE  reads'[u][i].n = i
      <4>1. CASE u # t
        BY <2>6, <3>1, <4>1 DEF BInv, HistoryInv
      <4>2. CASE u = t
        <5>1. /\ i = Len(reads[t]) + 1 \/ i \in 1 .. Len(reads[t])
              /\ reads'[t][Len(reads[t]) + 1] = p
              /\ \A j \in 1 .. Len(reads[t]) : reads'[t][j] = reads[t][j]
          BY <2>2, <2>3, <2>6, <3>1, <4>2, AppendProperties
        <5> QED
          BY <2>3, <4>2, <5>1 DEF BInv, HistoryInv
      <4> QED
        BY <4>1, <4>2
    <3> QED
      BY <1>1, <2>6, <3>1 DEF BInv, HistoryInv
  <2>8. NothingLost'
    <3> SUFFICES ASSUME main = "run", ~exit_flag, NEW u \in Endpoint
                 PROVE  Delivers(reads'[u], Way(u)', session, u)
      BY <1>1 DEF NothingLost, Way
    <3>1. Delivers(reads[u], Way(u), session, u)
      BY DEF BInv, NothingLost, Way
    <3>2. CASE u # t
      <4>1. Way(u)' = Way(u) /\ reads'[u] = reads[u]
        BY <1>1, <1>2, <2>5, <2>6, <3>2 DEF Way
      <4> QED
        BY <3>1, <4>1
    <3>3. CASE u = t
      <4>1. /\ Cache!Contents \in Seq(AllPackets) /\ taken \in Seq(AllPackets)
            /\ Way(t) \in Seq(AllPackets) /\ <<p>> \in Seq(AllPackets)
        BY <2>3, WayOK
      <4>2. Way(t) = taken \o Cache!Contents
        BY <1>3, <4>1, ConcatEmptySeq DEF Way
      <4>3. Way(t)' = taken \o (Cache!Contents \o <<p>>)
        BY <1>1, <1>2, <2>5 DEF Way
      <4>4. Way(t)' = Append(Way(t), p)
        BY <2>3, <4>1, <4>2, <4>3, ConcatAssociative, AppendIsConcat
      <4>5. \A i \in 1 .. Len(reads[t]) : reads[t][i].n < p.n
        BY <2>2, <2>3 DEF BInv, HistoryInv
      <4>6. Delivers(Append(reads[t], p), Append(Way(t), p), session, t)
        BY <2>2, <2>3, <3>1, <3>3, <4>1, <4>5, DeliversRead
      <4> QED
        BY <2>6, <3>3, <4>4, <4>6
    <3> QED
      BY <3>2, <3>3
  <2> QED
    BY <1>2, <2>5, <2>7, <2>8 DEF BInv
<1>7. CASE ReadNothing(t)
  <2>1. /\ ReaderInv' /\ \A u \in Endpoint : Held(u)' = Held(u)
    BY <1>3, <1>5, <1>7 DEF ReadNothing
  <2>2. HistoryInv'
    BY <1>1, <1>7 DEF ReadNothing, BInv, HistoryInv
  <2>3. NothingLost'
    BY <1>1, <1>2, <1>7, <2>1 DEF ReadNothing, BInv, NothingLost
  <2> QED
    BY <1>2, <2>1, <2>2, <2>3 DEF BInv
<1> QED
  BY <1>6, <1>7 DEF Read

(* Where a reader goes after a read, it holds what it held.                *)
LEMMA CheckStep == ASSUME BInv, NEW t \in Endpoint, Check(t) PROVE BInv'
<1>1. /\ reader[t] = "check" /\ reader' = [reader EXCEPT ![t] = AfterRead(t)]
      /\ UNCHANGED <<cacheVars, buf, exit_flag, main, histVars, session, taken, reads>>
  BY DEF Check, histVars
<1>2. /\ RingInv' /\ Cache!Contents' = Cache!Contents
      /\ NoneFromLater' /\ SessionsOrdered'
  BY <1>1, RingKept
<1>3. /\ AfterRead(t) \in {"done", "read", "lock"}
      /\ AfterRead(t) = "lock" => buf[t] # Timeout
      /\ AfterRead(t) = "read" => buf[t] = Timeout
      /\ AfterRead(t) = "done" <=> exit_flag
  BY DEF AfterRead
<1>4. /\ reader' \in [Endpoint -> Points] /\ reader'[t] = AfterRead(t)
      /\ \A u \in Endpoint \ {t} : reader'[u] = reader[u]
  BY <1>1, <1>3 DEF BInv, ReaderInv, Points
<1>5. main # "init"
  BY <1>1 DEF BInv, ReaderInv
<1>6. ReaderInv'
  <2>1. ASSUME NEW u \in Endpoint, Holds(u)' PROVE Holds(u)
    BY <1>1, <1>4, <2>1 DEF Holds, Holding
  <2>2. ASSUME NEW u \in Endpoint, reader'[u] \in {"lock", "callback"}
        PROVE  buf'[u] # Timeout
    BY <1>1, <1>3, <1>4, <2>2 DEF BInv, ReaderInv
  <2> QED
    BY <1>1, <1>4, <1>5, <2>1, <2>2 DEF BInv, ReaderInv
<1>7. HistoryInv'
  BY <1>1 DEF BInv, HistoryInv
<1>8. NothingLost'
  <2> SUFFICES ASSUME main = "run", ~exit_flag, NEW u \in Endpoint
               PROVE  Delivers(reads[u], Way(u)', session, u)
    BY <1>1 DEF NothingLost, Way
  <2>1. Delivers(reads[u], Way(u), session, u)
    BY DEF BInv, NothingLost, Way
  <2>2. Held(u)' = Held(u)
    BY <1>1, <1>3, <1>4 DEF Held
  <2> QED
    BY <1>1, <1>2, <2>1, <2>2 DEF Way
<1> QED
  BY <1>2, <1>6, <1>7, <1>8 DEF BInv

LEMMA LockStep == ASSUME BInv, NEW t \in Endpoint, Lock(t) PROVE BInv'
<1>1. /\ reader[t] = "lock" /\ reader' = [reader EXCEPT ![t] = "callback"]
      /\ UNCHANGED <<cacheVars, buf, exit_flag, main, histVars, session, taken, reads>>
  BY DEF Lock, histVars
<1>2. /\ RingInv' /\ Cache!Contents' = Cache!Contents
      /\ NoneFromLater' /\ SessionsOrdered'
  BY <1>1, RingKept
<1>3. /\ reader' \in [Endpoint -> Points] /\ reader'[t] = "callback"
      /\ \A u \in Endpoint \ {t} : reader'[u] = reader[u]
  BY <1>1 DEF BInv, ReaderInv, Points
<1>4. ReaderInv'
  <2>1. ASSUME NEW u \in Endpoint PROVE Holds(u)' = Holds(u)
    BY <1>1, <1>3 DEF Holds, Holding
  <2>2. ASSUME NEW u \in Endpoint, reader'[u] \in {"lock", "callback"}
        PROVE  buf'[u] # Timeout
    BY <1>1, <1>3, <2>2 DEF BInv, ReaderInv
  <2>3. main # "init"
    BY <1>1 DEF BInv, ReaderInv
  <2> QED
    BY <1>1, <1>3, <2>1, <2>2, <2>3 DEF BInv, ReaderInv
<1>5. \A u \in Endpoint : Held(u)' = Held(u)
  BY <1>1, <1>3 DEF Held
<1>6. HistoryInv' /\ NothingLost'
  BY <1>1, <1>2, <1>5 DEF BInv, HistoryInv, NothingLost
<1> QED
  BY <1>2, <1>4, <1>6 DEF BInv

(* What a packet of this session does to the order in the ring.            *)
LEMMA OrderKept ==
    ASSUME BInv, NEW p \in AllPackets, p.session = session, H4Recv(p),
           session' = session
    PROVE  RingInv' /\ NoneFromLater' /\ SessionsOrdered'
<1>1. /\ RingInv' /\ RingInv
      /\ Cache!Contents' \in {Cache!Contents, Append(Cache!Contents, p)}
      /\ Cache!Contents \in Seq(AllPackets) /\ Ordered(Cache!Contents)
  BY RingIn, ContentsOK, OrderedContents DEF BInv
<1>2. Ordered(Cache!Contents')
  BY <1>1, OrderedAppend
<1>3. (Ordered(Cache!Contents))'
  BY <1>2 DEF Ordered
<1>4. DOMAIN Cache!Contents' = 1 .. Cache!Count' /\ Len(Cache!Contents') = Cache!Count'
  <2>1. /\ Cache!Contents' \in Seq(AllPackets)
    BY <1>1, AppendProperties
  <2>2. DOMAIN Cache!Contents' = 1 .. Cache!Count'
    BY DEF Cache!Contents
  <2>3. DOMAIN Cache!Contents' = 1 .. Len(Cache!Contents')
    BY <2>1, LenProperties
  <2>4. Cache!Count' \in Nat
    BY <1>1, SizesOK, CountOf DEF RingInv, Cache!Count
  <2> QED
    BY <2>1, <2>2, <2>3, <2>4, LenProperties
<1> QED
  BY <1>1, <1>3, <1>4 DEF Ordered, NoneFromLater, SessionsOrdered

LEMMA DeliverStep == ASSUME BInv, NEW t \in Endpoint, Deliver(t) PROVE BInv'
<1> DEFINE p == buf[t]
<1>1. /\ reader[t] = "callback" /\ p # Eio /\ H4Recv(p)
      /\ reader' = [reader EXCEPT ![t] = "read"]
      /\ UNCHANGED <<buf, exit_flag, histVars, session, taken, reads>>
  BY DEF Deliver, histVars
<1>2. Holds(t)
  BY <1>1 DEF BInv, ReaderInv, Holds, Holding
<1>3. p \in AllPackets /\ p.session = session /\ p.ep = t
  BY <1>2, HeldOK DEF BInv, ReaderInv
<1>4. /\ main' \in {main, "aborted"}
      /\ \/ Cache!Contents' = Append(Cache!Contents, p)
         \/ /\ Cache!Contents' = Cache!Contents
            /\ main' = "aborted" \/ p.kind = "advert"
  BY <1>1, <1>3, RingIn DEF BInv
<1>5. RingInv' /\ NoneFromLater' /\ SessionsOrdered'
  BY <1>1, <1>3, OrderKept
<1>6. /\ reader' \in [Endpoint -> Points] /\ reader'[t] = "read"
      /\ \A u \in Endpoint \ {t} : reader'[u] = reader[u]
  BY <1>1 DEF BInv, ReaderInv, Points
<1>7. ReaderInv'
  <2>1. ASSUME NEW u \in Endpoint, Holds(u)' PROVE Holds(u)
    BY <1>1, <1>6, <2>1 DEF Holds, Holding
  <2>2. ASSUME NEW u \in Endpoint, reader'[u] \in {"lock", "callback"}
        PROVE  buf'[u] # Timeout
    BY <1>1, <1>6, <2>2 DEF BInv, ReaderInv
  <2>3. main' # "init"
    BY <1>1, <1>4 DEF BInv, ReaderInv
  <2> QED
    BY <1>1, <1>6, <2>1, <2>2, <2>3 DEF BInv, ReaderInv
<1>8. HistoryInv'
  BY <1>1, <1>4 DEF BInv, HistoryInv
<1>9. NothingLost'
  <2> SUFFICES ASSUME main' = "run", ~exit_flag, NEW u \in Endpoint
               PROVE  Delivers(reads[u], Way(u)', session, u)
    BY <1>1 DEF NothingLost, Way
  <2>1. Delivers(reads[u], Way(u), session, u)
    BY <1>4 DEF BInv, NothingLost, Way
  <2>2. /\ Cache!Contents \in Seq(AllPackets) /\ Held(u) \in Seq(AllPackets)
        /\ taken \in Seq(AllPackets) /\ <<p>> \in Seq(AllPackets)
        /\ taken \o Cache!Contents \in Seq(AllPackets)
        /\ <<p>> \o Held(u) \in Seq(AllPackets)
        /\ Held(t) = <<p>>
    BY <1>2, <1>3, WayOK, HeldOK, ConcatProperties DEF BInv
  <2> DEFINE a == taken \o Cache!Contents
  <2>3. Way(u) = a \o Held(u)
    BY <2>2, ConcatAssociative DEF Way
  <2>4. CASE u = t
    <3>1. Held(t)' = <<>>
      BY <1>6 DEF Held
    <3>2. CASE Cache!Contents' = Append(Cache!Contents, p)
      <4>1. Cache!Contents' = Cache!Contents \o <<p>>
        BY <1>3, <2>2, <3>2, AppendIsConcat
      <4>2. Cache!Contents' \in Seq(AllPackets)
        BY <1>3, <2>2, <3>2, AppendProperties
      <4>3. Cache!Contents' \o Held(t)' = Cache!Contents \o <<p>>
        BY <3>1, <4>1, <4>2, ConcatEmptySeq
      <4>4. Way(t)' = Way(t)
        BY <1>1, <2>2, <4>3 DEF Way
      <4> QED
        BY <2>1, <2>4, <4>4
    <3>3. CASE Cache!Contents' = Cache!Contents /\ p.kind = "advert"
      <4>1. Way(t)' = a \o <<>>
        <5>1. Way(t)' = taken \o (Cache!Contents \o <<>>)
          BY <1>1, <3>1, <3>3 DEF Way
        <5> QED
          BY <2>2, <5>1, ConcatEmptySeq
      <4>2. Way(t) = a \o (<<p>> \o <<>>)
        BY <2>2, <2>3, <2>4, ConcatEmptySeq
      <4>3. ~Kept(p, session, t)
        BY <3>3 DEF Kept
      <4>4. a \in Seq(AllPackets) /\ <<>> \in Seq(AllPackets)
        BY <2>2
      <4> HIDE DEF a, p
      <4>5. Delivers(reads[t], a \o <<>>, session, t)
              <=> Delivers(reads[t], a \o (<<p>> \o <<>>), session, t)
        BY <1>3, <4>3, <4>4, DeliversSkip
      <4> QED
        BY <2>1, <2>4, <4>1, <4>2, <4>5
    <3> QED
      BY <1>4, <3>2, <3>3
  <2>5. CASE u # t
    <3>1. Held(u)' = Held(u)
      BY <1>1, <1>6, <2>5 DEF Held
    <3>2. CASE Cache!Contents' = Append(Cache!Contents, p)
      <4>1. Cache!Contents' \o Held(u)' = Cache!Contents \o (<<p>> \o Held(u))
        BY <1>3, <2>2, <3>1, <3>2, AppendIsConcat, ConcatAssociative
      <4>2. Way(u)' = a \o (<<p>> \o Held(u))
        BY <1>1, <2>2, <4>1, ConcatAssociative, SMTT(20) DEF Way
      <4>3. ~Kept(p, session, u)
        BY <1>3, <2>5 DEF Kept
      <4>4. a \in Seq(AllPackets) /\ Held(u) \in Seq(AllPackets)
        BY <2>2
      <4> HIDE DEF a, p
      <4>5. Delivers(reads[u], a \o Held(u), session, u)
              <=> Delivers(reads[u], a \o (<<p>> \o Held(u)), session, u)
        BY <1>3, <4>3, <4>4, DeliversSkip
      <4> QED
        BY <2>1, <2>3, <4>2, <4>5
    <3>3. CASE Cache!Contents' = Cache!Contents
      BY <1>1, <2>1, <3>1, <3>3 DEF Way
    <3> QED
      BY <1>4, <3>2, <3>3
  <2> QED
    BY <2>4, <2>5
<1> QED
  BY <1>5, <1>7, <1>8, <1>9 DEF BInv

LEMMA DeviceErrorStep ==
    ASSUME BInv, NEW t \in Endpoint, DeviceError(t) PROVE BInv'
<1> DEFINE p == HardwareError(t)
<1>1. /\ reader[t] = "callback" /\ exit_flag'
      /\ reader' = [reader EXCEPT ![t] = "done"]
      /\ UNCHANGED <<buf, session, reads, taken>>
      /\ (UNCHANGED <<cacheVars, main>>) \/ H4Recv(p)
  BY DEF DeviceError, Report
<1>2. p \in AllPackets /\ p.session = session
  BY MaxPacketOK DEF HardwareError, AllPackets, BInv, HistoryInv
<1> HIDE DEF p
<1>3. main' \in {main, "aborted"} /\ RingInv' /\ NoneFromLater' /\ SessionsOrdered'
  <2>1. CASE UNCHANGED <<cacheVars, main>>
    BY <1>1, <2>1, RingKept
  <2>2. CASE H4Recv(p)
    BY <1>1, <1>2, <2>2, RingIn, OrderKept DEF BInv
  <2> QED
    BY <1>1, <2>1, <2>2
<1>4. /\ reader' \in [Endpoint -> Points] /\ reader'[t] = "done"
      /\ \A u \in Endpoint \ {t} : reader'[u] = reader[u]
  BY <1>1 DEF BInv, ReaderInv, Points
<1>5. ReaderInv'
  <2>1. ASSUME NEW u \in Endpoint, Holds(u)' PROVE Holds(u)
    BY <1>1, <1>4, <2>1 DEF Holds, Holding
  <2>2. ASSUME NEW u \in Endpoint, reader'[u] \in {"lock", "callback"}
        PROVE  buf'[u] # Timeout
    BY <1>1, <1>4, <2>2 DEF BInv, ReaderInv
  <2>3. main' # "init"
    BY <1>1, <1>3 DEF BInv, ReaderInv
  <2> QED
    BY <1>1, <1>4, <2>1, <2>2, <2>3 DEF BInv, ReaderInv
<1>6. HistoryInv' /\ NothingLost'
  BY <1>1, <1>3 DEF BInv, HistoryInv, NothingLost
<1> QED
  BY <1>3, <1>5, <1>6 DEF BInv

(* The readers are not disturbed.                                          *)
LEMMA ReadersKept ==
    ASSUME ReaderInv, UNCHANGED <<reader, buf, session>>,
           main' = "init" => \A t \in Endpoint : reader[t] = "done"
    PROVE  ReaderInv' /\ \A t \in Endpoint : Held(t)' = Held(t)
<1>1. \A t \in Endpoint : Holds(t)' = Holds(t) /\ Held(t)' = Held(t)
  BY DEF Holds, Held
<1> QED
  BY <1>1 DEF ReaderInv

LEMMA ScheduleStep == ASSUME BInv, Schedule PROVE BInv'
<1>1. /\ main = "run" /\ Cache!BufGet /\ taken' = Append(taken, Cache!Oldest)
      /\ UNCHANGED <<reader, buf, exit_flag, main, session, reads>>
  BY DEF Schedule, threadVars
<1>2. /\ RingInv' /\ RingInv /\ Cache!Contents # <<>>
      /\ Cache!Contents' = Tail(Cache!Contents)
      /\ Cache!Oldest = Head(Cache!Contents) /\ Cache!Oldest \in AllPackets
      /\ Cache!Contents \in Seq(AllPackets)
  BY <1>1, SizesOK, GetRing, ContentsOK DEF BInv
<1>3. NoneFromLater' /\ SessionsOrdered'
  <2>1. Ordered(Tail(Cache!Contents))
    BY <1>2, OrderedContents, OrderedTail DEF BInv
  <2>2. (Ordered(Cache!Contents))'
    BY <1>1, <1>2, <2>1 DEF Ordered
  <2>3. /\ DOMAIN Cache!Contents' = 1 .. Cache!Count'
        /\ DOMAIN Cache!Contents' = 1 .. Len(Cache!Contents')
    <3>1. Cache!Contents' \in Seq(AllPackets)
      BY <1>2, HeadTailProperties
    <3> QED
      BY <3>1, LenProperties DEF Cache!Contents
  <2>4. \A i \in 1 .. Cache!Count' : i \in 1 .. Len(Cache!Contents')
    BY <2>3
  <2> QED
    BY <2>2, <2>3, <2>4 DEF Ordered, NoneFromLater, SessionsOrdered
<1>4. ReaderInv' /\ \A t \in Endpoint : Held(t)' = Held(t)
  BY <1>1, ReadersKept DEF BInv
<1>5. HistoryInv'
  BY <1>1, <1>2, AppendProperties DEF BInv, HistoryInv
<1>6. NothingLost'
  <2> SUFFICES ASSUME ~exit_flag, NEW u \in Endpoint
               PROVE  Delivers(reads[u], Way(u)', session, u)
    BY <1>1 DEF NothingLost, Way
  <2>1. Delivers(reads[u], Way(u), session, u)
    BY <1>1 DEF BInv, NothingLost, Way
  <2>2. Way(u)' = Append(taken, Head(Cache!Contents)) \o (Tail(Cache!Contents) \o Held(u))
    BY <1>1, <1>2, <1>4 DEF Way
  <2>3. /\ taken \in Seq(AllPackets) /\ Cache!Contents \in Seq(AllPackets)
        /\ Held(u) \in Seq(AllPackets) /\ Cache!Contents # <<>>
    BY <1>2, WayOK
  <2>4. Append(taken, Head(Cache!Contents)) \o (Tail(Cache!Contents) \o Held(u))
            = taken \o (Cache!Contents \o Held(u))
    BY <2>3, WayTake, SMTT(20)
  <2>5. Way(u)' = Way(u)
    BY <2>2, <2>4 DEF Way
  <2> QED
    BY <2>1, <2>5
<1> QED
  BY <1>2, <1>3, <1>4, <1>5, <1>6 DEF BInv

LEMMA EbInitStep == ASSUME BInv, EbInit PROVE BInv'
<1>1. /\ session < MaxSessions /\ main' = "deinit" /\ Cache!BufClear
      /\ UNCHANGED <<reader, buf, exit_flag, session, reads, taken>>
  BY DEF EbInit, threadVars, histVars
<1>2. RingInv' /\ Cache!Contents' = <<>>
  BY <1>1, SizesOK, ClearRing DEF BInv
<1>3. NoneFromLater' /\ SessionsOrdered'
  <2>1. DOMAIN Cache!Contents' = {} /\ DOMAIN Cache!Contents' = 1 .. Cache!Count'
    BY <1>2 DEF Cache!Contents
  <2> QED
    BY <2>1 DEF NoneFromLater, SessionsOrdered
<1>4. ReaderInv'
  BY <1>1, ReadersKept DEF BInv
<1>5. HistoryInv' /\ NothingLost'
  BY <1>1 DEF BInv, HistoryInv, NothingLost
<1> QED
  BY <1>2, <1>3, <1>4, <1>5 DEF BInv

LEMMA RestStep ==
    ASSUME BInv, UsbDeinit \/ Join \/ Unplug \/ UNCHANGED vars PROVE BInv'
<1>1. /\ UNCHANGED <<cacheVars, reader, buf, session, reads, taken>>
      /\ \/ main' \in {"join", "init"} /\ main \in {"deinit", "join"}
         \/ UNCHANGED <<main, exit_flag>>
      /\ main' = "init" => \A t \in Endpoint : reader[t] = "done"
  BY DEF UsbDeinit, Join, Joined, Unplug, vars, threadVars, histVars, cacheVars,
         BInv, ReaderInv
<1>2. /\ RingInv' /\ Cache!Contents' = Cache!Contents
      /\ NoneFromLater' /\ SessionsOrdered'
  BY <1>1, RingKept
<1>3. ReaderInv' /\ \A t \in Endpoint : Held(t)' = Held(t)
  BY <1>1, ReadersKept DEF BInv
<1>4. HistoryInv'
  BY <1>1 DEF BInv, HistoryInv
<1>5. NothingLost'
  BY <1>1, <1>2, <1>3 DEF BInv, NothingLost
<1> QED
  BY <1>2, <1>3, <1>4, <1>5 DEF BInv

(* Only packets of sessions that are over are in the ring, and no reader   *)
(* holds one.                                                              *)
LEMMA UsbInitStep == ASSUME BInv, UsbInit PROVE BInv'
<1>1. /\ main = "init" /\ main' = "run" /\ session' = session + 1
      /\ reader' = [t \in Endpoint |-> IF reader[t] = "done" THEN "read" ELSE reader[t]]
      /\ reads' = [t \in Endpoint |-> <<>>] /\ taken' = <<>>
      /\ UNCHANGED cacheVars /\ UNCHANGED buf
  BY DEF UsbInit
<1>2. /\ RingInv' /\ Cache!Contents' = Cache!Contents
      /\ Cache!Count' = Cache!Count /\ RingInv
  BY <1>1, RingSame DEF BInv
<1>3. session \in Nat /\ session < MaxSessions /\ MaxSessions \in Nat
  BY <1>1, BtUsbAssumption DEF BInv, HistoryInv
<1>4. /\ \A t \in Endpoint : reader'[t] = "read" /\ ~Holds(t)'
      /\ reader' \in [Endpoint -> Points]
  BY <1>1 DEF BInv, ReaderInv, Holds, Holding, Points
<1>5. ReaderInv'
  BY <1>1, <1>4 DEF BInv, ReaderInv
<1>6. HistoryInv'
  BY <1>1, <1>3, EmptySeq DEF BInv, HistoryInv
<1>7. /\ Cache!Contents \in Seq(AllPackets)
      /\ \A i \in DOMAIN Cache!Contents :
            /\ Cache!Contents[i] \in AllPackets
            /\ Cache!Contents[i].session <= session
            /\ Cache!Contents[i].session \in Int
  <2>1. /\ Cache!Contents \in Seq(AllPackets)
        /\ DOMAIN Cache!Contents = 1 .. Len(Cache!Contents)
        /\ DOMAIN Cache!Contents = 1 .. Cache!Count
    BY <1>2, ContentsOK, LenProperties
  <2>2. \A i \in DOMAIN Cache!Contents : Cache!Contents[i] \in AllPackets
    BY <2>1, ElementOfSeq
  <2> QED
    BY <2>1, <2>2, Packets DEF BInv, NoneFromLater
<1>8. NoneFromLater' /\ SessionsOrdered'
  <2>1. SessionsOrdered'
    BY <1>2 DEF BInv, SessionsOrdered
  <2>2. DOMAIN Cache!Contents = 1 .. Cache!Count
    BY DEF Cache!Contents
  <2>3. NoneFromLater'
    BY <1>1, <1>2, <1>3, <1>7, <2>2 DEF NoneFromLater
  <2> QED
    BY <2>1, <2>3
<1>9. NothingLost'
  <2> SUFFICES ASSUME NEW t \in Endpoint
               PROVE  Delivers(<<>>, Cache!Contents, session + 1, t)
    <3>1. ASSUME NEW t \in Endpoint
          PROVE  /\ reads'[t] = <<>>
                 /\ taken' \o (Cache!Contents' \o Held(t)') = Cache!Contents
      <4>1. Held(t)' = <<>>
        BY <1>4 DEF Held
      <4>2. Cache!Contents \o <<>> = Cache!Contents
            /\ <<>> \o Cache!Contents = Cache!Contents
        BY <1>7, ConcatEmptySeq
      <4> QED
        BY <1>1, <1>2, <4>1, <4>2
    <3> QED
      BY <1>1, <3>1 DEF NothingLost
  <2>1. \A i \in DOMAIN Cache!Contents : ~Kept(Cache!Contents[i], session + 1, t)
    BY <1>3, <1>7 DEF Kept
  <2> QED
    BY <2>1 DEF Delivers
<1> QED
  BY <1>2, <1>5, <1>6, <1>8, <1>9 DEF BInv

-----------------------------------------------------------------------------
LEMMA StepBInv == BInv /\ [Next]_vars => BInv'
BY ReadStep, CheckStep, LockStep, DeliverStep, DeviceErrorStep, ScheduleStep,
   EbInitStep, UsbInitStep, RestStep
   DEF Next, Reader, Restart

THEOREM InvariantBInv == Spec => []BInv
BY InitBInv, StepBInv, PTL DEF Spec

(* No packet of an earlier session is found behind one of a later session: *)
(* what leaks past hci_buf_clear is only ever in front (easyBle.c:33-36,   *)
(* bt_usb.c:225-262).                                                      *)
THEOREM SessionsInOrder == Spec => []SessionsOrdered
<1>1. BInv => SessionsOrdered
  BY DEF BInv
<1> QED
  BY <1>1, InvariantBInv, PTL

(* While a session runs every packet but advertising reports reaches       *)
(* eb_schedule, once, and in the order of its endpoint                     *)
(* (bt_usb.c:43-61, hci_cache.c:13-50).                                    *)
THEOREM PacketsDelivered == Spec => []NothingLost
<1>1. BInv => NothingLost
  BY DEF BInv
<1> QED
  BY <1>1, InvariantBInv, PTL

(* Every step of the program is one on the ring, or none.                  *)
LEMMA RingStep ==
    ASSUME BInv, [Next]_vars PROVE [Cache!CacheNext]_(Cache!cacheVars)
<1> DEFINE Put == \E p \in AllPackets : H4Recv(p)
<1>1. ASSUME NEW t \in Endpoint, Deliver(t) PROVE Put
  <2>1. Holds(t) /\ H4Recv(buf[t])
    BY <1>1 DEF Deliver, BInv, ReaderInv, Holds, Holding
  <2> QED
    BY <2>1, HeldOK DEF BInv
<1>2. ASSUME NEW t \in Endpoint, DeviceError(t)
      PROVE  Put \/ UNCHANGED cacheVars
  <2>1. HardwareError(t) \in AllPackets
    BY MaxPacketOK DEF HardwareError, AllPackets, BInv, HistoryInv
  <2> QED
    BY <1>2, <2>1 DEF DeviceError, Report
<1>3. Put => [Cache!CacheNext]_(Cache!cacheVars)
  BY DEF H4Recv, Cache!CacheNext, cacheVars, Cache!cacheVars
<1>4. Put \/ Cache!BufGet \/ Cache!BufClear \/ UNCHANGED cacheVars
  BY <1>1, <1>2 DEF Next, Reader, Restart, Read, Check, Lock, Schedule, EbInit,
     UsbDeinit, Join, UsbInit, Unplug, vars
<1> QED
  BY <1>3, <1>4 DEF Cache!CacheNext, cacheVars, Cache!cacheVars

(* The receive buffer is a bounded queue whatever the three threads do     *)
(* (hci_cache.c:13-64).                                                    *)
THEOREM BufferIsQueue == Spec => RingIsQueue
<1>1. Init => Cache!Queue!Init
  BY SizesOK, InitRing DEF Init, Cache!Queue!Init
<1>2. BInv /\ [Next]_vars => [Cache!Queue!Next]_(Cache!Contents)
  <2> SUFFICES ASSUME BInv, [Next]_vars
               PROVE  [Cache!Queue!Next]_(Cache!Contents)
    OBVIOUS
  <2>1. [Cache!CacheNext]_(Cache!cacheVars)
    BY RingStep
  <2> QED
    BY <2>1, SizesOK, CacheStep DEF BInv
<1> QED
  BY <1>1, <1>2, InvariantBInv, PTL
     DEF Spec, RingIsQueue, Cache!QueueSpec, Cache!Queue!Spec

=============================================================================
