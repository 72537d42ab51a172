------------------------------ MODULE SdpProofs ------------------------------
(***************************************************************************)
(* Proofs about Sdp, for all tables of a peer, all ways it may cut its     *)
(* answers, any number of handles and of connections: the browser finds    *)
(* what the peer has, of which it is only ever told parts, and nothing     *)
(* else; the answers that this host's server cuts are ones that the        *)
(* protocol allows; and what is printed as a value was read from that      *)
(* handle, and is all of it when the browser comes to its end by itself.   *)
(***************************************************************************)
EXTENDS Sdp, SequenceTheorems, FiniteSetTheorems, WellFoundedInduction, TLAPS

Kinds == {"serv", "decl", "value", "desc"}

Entry ==
    [type : Kinds \cup {"none"}, read : BOOLEAN, write : BOOLEAN, perm : BOOLEAN,
     len : 0 .. ByteMax - 1, from : SUBSET Nat]

RequestSet ==
    [op : {"group", "type", "info", "read", "write"}, from : Nat, to : Nat]

TypeInv ==
    /\ table \in Tables
    /\ last \in {Len(table), MaxHdl}
    /\ own \in BOOLEAN
    /\ own => last = Len(table) /\ Servable(table)
    /\ link \in {"down", "up", "closing"}
    /\ reqs \in Seq(RequestSet)
    /\ auth \in BOOLEAN /\ encrypted \in BOOLEAN
    /\ db \in [Hdl -> Entry]
    /\ p_hdl1 \in Nat /\ p_hdl2 \in 0 .. MaxHdl /\ p_hdl3 \in Nat
    /\ conns \in 0 .. MaxConns
    /\ searched \in BOOLEAN /\ finished \in BOOLEAN /\ early \in BOOLEAN

(* One request at a time on a plain link, and a place for what is read.    *)
Asked ==
    /\ ~encrypted => Len(reqs) <= 1
    /\ link = "up" /\ (\E i \in DOMAIN reqs : reqs[i].op = "read") => p_hdl1 \in Hdl

-----------------------------------------------------------------------------
(* The search.  Each of its three stages leaves behind it no handle that   *)
(* the next one could take for something else: the gaps that are asked for *)
(* last hold descriptors only.                                             *)
Known(h) == db[h].type # "none"

Untouched == \A h \in Hdl : ~db[h].perm /\ db[h].len = 0 /\ db[h].from = {}

(* The services and the declarations, with their values, before n.         *)
ServsBelow(n) == \A h \in DOMAIN table : table[h].kind = "serv" /\ h < n => Known(h)
DeclsBelow(n) ==
    \A h \in DOMAIN table :
        table[h].kind = "decl" /\ h < n => Known(h) /\ Known(h + 1)

(* What is left out before n.                                              *)
Settled(n) ==
    \A h \in DOMAIN table : h < n /\ ~Known(h) =>
        table[h].kind = "desc" /\ table[h - 1].kind = "desc" /\ ~own

GroupStage(r) ==
    /\ r.op = "group" /\ r.from = p_hdl2 + 1
    /\ ServsBelow(r.from)
    /\ p_hdl2 = 0 \/ p_hdl2 >= Len(table) \/ table[p_hdl2 + 1].kind = "serv"

TypeStage(r) ==
    /\ r.op = "type" /\ r.from >= 1
    /\ p_hdl2 >= Len(table)
    /\ ServsBelow(MaxHdl) /\ DeclsBelow(r.from)

InfoStage(r) ==
    /\ r.op = "info" /\ r.to = p_hdl3
    /\ 1 <= r.from /\ r.from <= r.to /\ r.to <= p_hdl2
    /\ p_hdl2 >= Len(table)
    /\ ServsBelow(MaxHdl) /\ DeclsBelow(MaxHdl)
    /\ \A h \in r.from .. r.to : ~Known(h)
    /\ Settled(r.from)

Searching ==
    /\ Untouched
    /\ ~auth /\ ~encrypted /\ ~finished /\ ~early
    /\ \E r \in RequestSet : reqs = <<r>> /\ (GroupStage(r) \/ TypeStage(r) \/ InfoStage(r))

SearchInv ==
    /\ FoundIsReal
    /\ link = "up" /\ ~searched => Searching
    /\ searched =>
        /\ p_hdl2 >= Len(table) /\ Settled(MaxHdl)
        /\ \A i \in DOMAIN reqs : reqs[i].op \in {"read", "write"}
    /\ finished => link # "up"

-----------------------------------------------------------------------------
(* The reading, on a link that the peer does not encrypt of its own        *)
(* accord: one request at a time, first of every attribute, then of those  *)
(* that were refused.  d is what is known of the handles.                  *)
Want(d, h) == (d[h].type = "value" /\ d[h].read) \/ d[h].type = "desc"

Whole(d, h) == table[h].read /\ table[h].len < ByteMax => d[h].len = table[h].len

Fresh(d, h) == d[h].perm \/ ~Want(d, h) => d[h].len = 0

Own(d) == \A h \in Hdl : d[h].from \subseteq {h} /\ (d[h].perm => h \in DOMAIN table)

(* Every attribute below n was read, or refused, and none from n on.       *)
Tried(d, n) == \A h \in Hdl :
    /\ Fresh(d, h)
    /\ h < n => (Want(d, h) => d[h].perm \/ Whole(d, h))

UntriedFrom(d, n) == \A h \in Hdl : h >= n => ~d[h].perm /\ d[h].len = 0

(* Every attribute below n is there, and the others unless refused.        *)
WholeBelow(d, n) == \A h \in Hdl : h < n => (Want(d, h) => Whole(d, h))

RefusedFrom(d, n) == \A h \in Hdl : h >= n =>
    /\ d[h].perm => d[h].len = 0
    /\ Want(d, h) => d[h].perm \/ Whole(d, h)

(* p is being read, behind what is there of it.                            *)
ReadsAt(d, p, q) ==
    /\ p \in DOMAIN table
    /\ q = <<Request("read", p, d[p].len)>>
    /\ table[p].len < ByteMax => d[p].len <= table[p].len

PlainAt(d, p) ==
    Want(d, p) /\ ~d[p].perm /\ Tried(d, p) /\ UntriedFrom(d, p + 1)

RefusedAt(d, p) == d[p].perm /\ WholeBelow(d, p) /\ RefusedFrom(d, p + 1)

ReadsPlain == ReadsAt(db, p_hdl1, reqs) /\ ~auth /\ ~encrypted /\ PlainAt(db, p_hdl1)

Writes ==
    /\ ~auth /\ ~encrypted /\ Tried(db, MaxHdl)
    /\ \E r \in RequestSet : reqs = <<r>> /\ r.op = "write"

Pairs == reqs = <<>> /\ auth /\ ~encrypted /\ Tried(db, MaxHdl)

ReadsRefused == ReadsAt(db, p_hdl1, reqs) /\ ~auth /\ encrypted /\ RefusedAt(db, p_hdl1)

Stalled == reqs = <<>> /\ ~auth

ValuesInv ==
    ~WideDesc /\ ~early =>
        /\ Own(db)
        /\ finished => WholeBelow(db, MaxHdl)
        /\ link = "up" /\ searched =>
            ReadsPlain \/ Writes \/ Pairs \/ ReadsRefused \/ Stalled

-----------------------------------------------------------------------------
(* The least and the greatest of a set of numbers.                         *)
LEMMA MinOf ==
    ASSUME NEW S, S \subseteq Nat, S # {}
    PROVE  Min(S) \in S /\ \A x \in S : Min(S) <= x
<1>1. PICK m \in S : \A x \in S : ~(<<x, m>> \in OpToRel(<, Nat))
  BY NatLessThanWellFounded, WFMin
<1>2. ASSUME NEW x \in S PROVE m <= x
  <2>1. x \in Nat /\ m \in Nat
    OBVIOUS
  <2>2. ~(x < m)
    BY <1>1, <2>1 DEF OpToRel
  <2> QED
    BY <2>1, <2>2
<1> QED
  BY <1>2 DEF Min

LEMMA MaxOf ==
    ASSUME NEW n \in Nat, NEW S, S \subseteq 0 .. n, S # {}
    PROVE  Max(S) \in S /\ \A x \in S : x <= Max(S)
<1>1. PICK T : T = {n - x : x \in S}
  OBVIOUS
<1>2. T \subseteq Nat
  <2> SUFFICES ASSUME NEW x \in S PROVE n - x \in Nat
    BY <1>1
  <2>1. x \in 0 .. n
    OBVIOUS
  <2> QED
    BY <2>1
<1>3. T # {}
  BY <1>1
<1>4. PICK m : m \in T /\ \A y \in T : m <= y
  BY <1>2, <1>3, MinOf
<1>5. PICK g \in S : m = n - g
  BY <1>1, <1>4
<1>6. ASSUME NEW x \in S PROVE g >= x
  <2>1. n - x \in T /\ x \in 0 .. n /\ g \in 0 .. n
    BY <1>1
  <2>2. m <= n - x
    BY <1>4, <2>1
  <2> QED
    BY <1>5, <2>1, <2>2
<1>7. \E y \in S : \A x \in S : y >= x
  BY <1>6
<1>8. PICK y : y = Max(S)
  OBVIOUS
<1>9. y \in S /\ \A x \in S : y >= x
  BY <1>7, <1>8 DEF Max
<1>10. \A x \in S : x <= y
  <2> SUFFICES ASSUME NEW x \in S PROVE x <= y
    OBVIOUS
  <2>1. x \in 0 .. n /\ y \in 0 .. n /\ y >= x
    BY <1>9
  <2> QED
    BY <2>1
<1> QED
  BY <1>8, <1>9, <1>10

(* Every element of a finite set of numbers has its place in order.        *)
LEMMA Ranked ==
    ASSUME NEW S, S \subseteq Int, IsFiniteSet(S)
    PROVE  /\ \A h \in S : Place(S, h) \in 1 .. Cardinality(S)
           /\ \A g, h \in S : g < h => Place(S, g) < Place(S, h)
           /\ \A k \in 1 .. Cardinality(S) : \E h \in S : Place(S, h) = k
<1> DEFINE upto(h) == {g \in S : g <= h}
           n == Cardinality(S)
<1>1. \A h \in S : /\ IsFiniteSet(upto(h)) /\ Cardinality(upto(h)) \in 0 .. n
                   /\ Place(S, h) = Cardinality(upto(h))
  BY FS_Subset, FS_CardinalityType DEF Place
<1>2. \A h \in S : Cardinality(upto(h)) # 0
  <2> SUFFICES ASSUME NEW h \in S PROVE Cardinality(upto(h)) # 0
    OBVIOUS
  <2>1. h \in upto(h)
    OBVIOUS
  <2> QED
    BY <1>1, <2>1, FS_EmptySet
<1>3. n \in Nat
  BY FS_CardinalityType
<1>4. \A h \in S : Place(S, h) \in 1 .. n
  <2> SUFFICES ASSUME NEW h \in S PROVE Place(S, h) \in 1 .. n
    OBVIOUS
  <2> HIDE DEF upto, n
  <2> QED
    BY <1>1, <1>2, <1>3
<1>5. ASSUME NEW g \in S, NEW h \in S, g < h PROVE Place(S, g) < Place(S, h)
  <2>1. h \in upto(h) /\ h \notin upto(g) /\ \A x \in upto(g) : x \in upto(h)
    <3>1. g \in Int /\ h \in Int /\ \A x \in S : x \in Int
      OBVIOUS
    <3> QED
      BY <1>5, <3>1
  <2>2. upto(g) \subseteq upto(h) /\ upto(g) # upto(h)
    BY <2>1
  <2>3. Cardinality(upto(g)) <= Cardinality(upto(h))
        /\ Cardinality(upto(g)) # Cardinality(upto(h))
    BY <1>1, <2>2, FS_Subset
  <2> QED
    BY <1>1, <2>3
<1>6. PICK place : place = [h \in S |-> Place(S, h)]
  OBVIOUS
<1>7. place \in Injection(S, 1 .. n)
  <2>1. place \in [S -> 1 .. n]
    BY <1>4, <1>6
  <2>2. \A g, h \in S : g # h => place[g] # place[h]
    <3> SUFFICES ASSUME NEW g \in S, NEW h \in S, g # h PROVE place[g] # place[h]
      OBVIOUS
    <3>1. g < h \/ h < g
      OBVIOUS
    <3> QED
      BY <1>4, <1>5, <1>6, <3>1
  <2> QED
    BY <2>1, <2>2 DEF Injection, IsInjective
<1>8. IsFiniteSet(1 .. n) /\ Cardinality(1 .. n) = n
  BY <1>3, FS_Interval
<1>9. place \in Surjection(S, 1 .. n)
  BY <1>7, <1>8, FS_Injection
<1> QED
  BY <1>4, <1>5, <1>6, <1>9 DEF Surjection

FoundSet(t, sh, eh, kinds) == {h \in DOMAIN t \cap (sh .. eh) : t[h].kind \in kinds}

(* A search finds the handles it is for, in order.                         *)
LEMMA FoundSorted ==
    ASSUME NEW t \in Tables, NEW sh \in Int, NEW eh \in Int, NEW kinds,
           NEW s, s = Found(t, sh, eh, kinds)
    PROVE  /\ s \in Seq(Nat) /\ Len(s) = Cardinality(FoundSet(t, sh, eh, kinds))
           /\ DOMAIN s = 1 .. Len(s)
           /\ \A k \in 1 .. Len(s) : s[k] \in FoundSet(t, sh, eh, kinds)
           /\ \A h \in FoundSet(t, sh, eh, kinds) : \E k \in 1 .. Len(s) : s[k] = h
           /\ \A i, j \in 1 .. Len(s) : i < j => s[i] < s[j]
<1>1. t \in Seq(Attribute) /\ Len(t) \in Nat /\ DOMAIN t = 1 .. Len(t)
  BY SdpAssumption
<1>2. PICK S : S = FoundSet(t, sh, eh, kinds)
  OBVIOUS
<1>3. S \subseteq 1 .. Len(t) /\ S \subseteq Int /\ S \subseteq Nat
  BY <1>1, <1>2 DEF FoundSet
<1>4. PICK n : n = Cardinality(S)
  OBVIOUS
<1>5. IsFiniteSet(S) /\ n \in Nat
  <2>1. IsFiniteSet(1 .. Len(t))
    BY <1>1, FS_Interval
  <2> QED
    BY <1>3, <1>4, <2>1, FS_Subset, FS_CardinalityType
<1>7. /\ \A h \in S : Place(S, h) \in 1 .. n
      /\ \A g, h \in S : g < h => Place(S, g) < Place(S, h)
      /\ \A k \in 1 .. n : \E h \in S : Place(S, h) = k
  BY <1>3, <1>4, <1>5, Ranked
<1>8. s = [k \in 1 .. n |-> CHOOSE h \in S : Place(S, h) = k]
  BY <1>2, <1>4 DEF Found, FoundSet
<1>9. \A k \in 1 .. n : s[k] \in S /\ Place(S, s[k]) = k
  BY <1>7, <1>8
<1>10. /\ s \in Seq(Nat) /\ Len(s) = n /\ DOMAIN s = 1 .. n
  <2>1. s \in [1 .. n -> Nat]
    BY <1>3, <1>8, <1>9
  <2> QED
    BY <1>5, <2>1
<1>11. ASSUME NEW h \in S PROVE \E k \in 1 .. n : s[k] = h
  <2>1. PICK k \in 1 .. n : Place(S, h) = k
    BY <1>7
  <2>2. PICK g \in S : g = s[k] /\ Place(S, g) = k
    BY <1>9
  <2>3. ~(g < h) /\ ~(h < g)
    <3>1. k \in Nat
      BY <1>5
    <3> QED
      BY <1>7, <2>1, <2>2, <3>1
  <2>4. g \in Nat /\ h \in Nat
    BY <1>3
  <2> QED
    BY <2>2, <2>3, <2>4
<1>12. ASSUME NEW i \in 1 .. n, NEW j \in 1 .. n, i < j PROVE s[i] < s[j]
  <2>1. PICK g \in S, h \in S : g = s[i] /\ h = s[j] /\ Place(S, g) = i /\ Place(S, h) = j
    BY <1>9
  <2>2. g # h /\ ~(h < g)
    <3>1. ~(j < i) /\ i # j
      BY <1>5, <1>12
    <3> QED
      BY <1>7, <2>1, <3>1
  <2>3. g \in Nat /\ h \in Nat
    BY <1>3
  <2> QED
    BY <2>1, <2>2, <2>3
<1> QED
  BY <1>2, <1>4, <1>9, <1>10, <1>11, <1>12

-----------------------------------------------------------------------------
(* What the searches of the server yield.                                  *)
LEMMA TableFacts ==
    ASSUME NEW t \in Tables
    PROVE  /\ t \in Seq(Attribute) /\ Len(t) \in Nat /\ Len(t) < MaxHdl
           /\ DOMAIN t = 1 .. Len(t)
           /\ MaxHdl \in Nat
           /\ \A h \in DOMAIN t : t[h] \in Attribute /\ h \in Hdl
           /\ 1 \in DOMAIN t => t[1].kind = "serv"
           /\ \A h \in DOMAIN t :
                t[h].kind = "decl" => h + 1 \in DOMAIN t /\ t[h + 1].kind = "value"
           /\ \A h \in DOMAIN t :
                t[h].kind = "value" => h - 1 \in DOMAIN t /\ t[h - 1].kind = "decl"
<1>1. /\ t \in Seq(Attribute) /\ Len(t) \in Nat /\ Len(t) < MaxHdl
      /\ DOMAIN t = 1 .. Len(t) /\ MaxHdl \in Nat
  BY SdpAssumption
<1>2. \A h \in DOMAIN t : t[h] \in Attribute /\ h \in Hdl
  BY <1>1 DEF Hdl
<1>3. 1 \in DOMAIN t => t[1].kind = "serv"
  BY <1>1, SdpAssumption
<1>4. ASSUME NEW h \in DOMAIN t, t[h].kind = "decl"
      PROVE  h + 1 \in DOMAIN t /\ t[h + 1].kind = "value"
  BY <1>1, <1>4, SdpAssumption
<1>5. ASSUME NEW h \in DOMAIN t, t[h].kind = "value"
      PROVE  h - 1 \in DOMAIN t /\ t[h - 1].kind = "decl"
  <2>1. h # 1
    BY <1>3, <1>5
  <2> QED
    BY <1>1, <1>5, <2>1, SdpAssumption
<1> QED
  BY <1>1, <1>2, <1>3, <1>4, <1>5

IsFound(t, sh, eh, kinds, s, n) ==
    /\ s \in Seq(Nat) /\ n \in Nat /\ DOMAIN s = 1 .. n
    /\ \A k \in 1 .. n : /\ s[k] \in Nat /\ s[k] \in DOMAIN t
                         /\ sh <= s[k] /\ s[k] <= eh
                         /\ t[s[k]].kind \in kinds
    /\ \A h \in DOMAIN t : sh <= h /\ h <= eh /\ t[h].kind \in kinds
         => \E k \in 1 .. n : s[k] = h
    /\ \A i, j \in 1 .. n : i < j => s[i] < s[j]

LEMMA FoundFacts ==
    ASSUME NEW t \in Tables, NEW sh \in Nat, NEW eh \in Nat, NEW kinds,
           NEW s, s = Found(t, sh, eh, kinds), NEW n, n = Len(s)
    PROVE  IsFound(t, sh, eh, kinds, s, n)
<1>1. DOMAIN t = 1 .. Len(t) /\ Len(t) \in Nat
  BY TableFacts
<1>2. /\ s \in Seq(Nat) /\ DOMAIN s = 1 .. n
      /\ \A k \in 1 .. n : s[k] \in FoundSet(t, sh, eh, kinds)
      /\ \A h \in FoundSet(t, sh, eh, kinds) : \E k \in 1 .. n : s[k] = h
      /\ \A i, j \in 1 .. n : i < j => s[i] < s[j]
  <2>1. sh \in Int /\ eh \in Int
    OBVIOUS
  <2> QED
    BY <2>1, FoundSorted
<1>3. n \in Nat
  BY <1>2
<1>4. \A h : h \in FoundSet(t, sh, eh, kinds) <=>
          h \in DOMAIN t /\ sh <= h /\ h <= eh /\ t[h].kind \in kinds
  BY <1>1 DEF FoundSet
<1>5. \A k \in 1 .. n : /\ s[k] \in Nat /\ s[k] \in DOMAIN t
                        /\ sh <= s[k] /\ s[k] <= eh /\ t[s[k]].kind \in kinds
  BY <1>1, <1>2, <1>4
<1>6. \A h \in DOMAIN t : sh <= h /\ h <= eh /\ t[h].kind \in kinds
        => \E k \in 1 .. n : s[k] = h
  BY <1>2, <1>4
<1> QED
  BY <1>2, <1>3, <1>5, <1>6 DEF IsFound

ServiceRow == [hdl : Nat, end : Nat, wide : BOOLEAN, size : {6}]
CharRow ==
    [hdl : Nat, val : Nat, read : BOOLEAN, write : BOOLEAN, wide : BOOLEAN, size : {7}]
InfoRow == [hdl : Nat, wide : BOOLEAN, size : {4}]

ServiceFacts(t, f, eh, l, rows, n) ==
    /\ rows \in Seq(ServiceRow) /\ n \in Nat /\ DOMAIN rows = 1 .. n
    /\ \A k \in 1 .. n :
         /\ rows[k].hdl \in DOMAIN t /\ f <= rows[k].hdl
         /\ t[rows[k].hdl].kind = "serv"
         /\ rows[k].wide = t[rows[k].hdl].wide
         /\ rows[k].hdl <= rows[k].end
         /\ rows[k].end <= eh /\ rows[k].end <= l
    /\ \A k \in 1 .. n : \A h \in DOMAIN t :
         f <= h /\ h <= rows[k].end /\ t[h].kind = "serv"
         => \E j \in 1 .. k : rows[j].hdl = h
    /\ \A k \in 1 .. n :
         IF k < n
         THEN /\ rows[k].end + 1 \in DOMAIN t
              /\ t[rows[k].end + 1].kind = "serv"
         ELSE rows[k].end >= Len(t)
    /\ \A h \in DOMAIN t : f <= h /\ t[h].kind = "serv" => rows # <<>>
    /\ \A h \in DOMAIN t : f <= h /\ t[h].kind = "serv" =>
         \E j \in 1 .. n : rows[j].hdl = h

LEMMA ServiceRowsFacts ==
    ASSUME NEW t \in Tables, NEW f \in Nat, NEW eh \in Nat, eh >= Len(t),
           NEW l \in Nat, l >= Len(t),
           NEW rows, rows = ServiceRows(t, f, eh, l)
    PROVE  ServiceFacts(t, f, eh, l, rows, Len(rows))
<1>1. PICK s : s = Found(t, f, eh, {"serv"})
  OBVIOUS
<1>2. PICK n : n = Len(s)
  OBVIOUS
<1>3. /\ Len(t) \in Nat /\ DOMAIN t = 1 .. Len(t)
      /\ \A h \in DOMAIN t : t[h] \in Attribute
  BY TableFacts
<1>4. /\ s \in Seq(Nat) /\ n \in Nat /\ DOMAIN s = 1 .. n
      /\ \A k \in 1 .. n : s[k] \in DOMAIN t /\ f <= s[k] /\ s[k] \in Nat
                           /\ s[k] <= eh /\ t[s[k]].kind = "serv"
      /\ \A h \in DOMAIN t : f <= h /\ t[h].kind = "serv" => \E k \in 1 .. n : s[k] = h
      /\ \A i, j \in 1 .. n : i < j => s[i] < s[j]
  <2>1. \A h \in DOMAIN t : h <= eh
    BY <1>3
  <2>2. IsFound(t, f, eh, {"serv"}, s, n)
    BY <1>1, <1>2, <1>3, FoundFacts
  <2> QED
    BY <1>3, <2>1, <2>2 DEF IsFound
<1>5. PICK m : m = Min({eh, l})
  OBVIOUS
<1>6. m \in {eh, l} /\ m <= eh /\ m <= l /\ m \in Nat /\ m >= Len(t)
  <2>1. {eh, l} \subseteq Nat /\ {eh, l} # {}
    OBVIOUS
  <2> QED
    BY <1>3, <1>5, <2>1, MinOf
<1>7. /\ rows = [k \in 1 .. n |->
                    [ hdl |-> s[k], end |-> IF k < n THEN s[k + 1] - 1 ELSE m,
                      wide |-> t[s[k]].wide, size |-> 6 ]]
  BY <1>1, <1>2, <1>4, <1>5 DEF ServiceRows
<1>8. \A k \in 1 .. n :
        /\ rows[k].hdl = s[k] /\ rows[k].wide = t[s[k]].wide /\ rows[k].size = 6
        /\ rows[k].end = IF k < n THEN s[k + 1] - 1 ELSE m
        /\ rows[k] = [hdl |-> s[k], end |-> rows[k].end, wide |-> t[s[k]].wide, size |-> 6]
  BY <1>7
<1>9. ASSUME NEW k \in 1 .. n
      PROVE  /\ rows[k].hdl <= rows[k].end /\ rows[k].end \in Nat
             /\ rows[k].end <= eh /\ rows[k].end <= l
             /\ k < n => /\ rows[k].end + 1 \in DOMAIN t
                         /\ t[rows[k].end + 1].kind = "serv"
             /\ k = n => rows[k].end >= Len(t)
  <2>1. CASE k < n
    <3>1. k + 1 \in 1 .. n /\ k < k + 1
      BY <1>4, <2>1
    <3>2. s[k] < s[k + 1] /\ s[k] \in Nat /\ s[k + 1] \in Nat /\ s[k + 1] \in DOMAIN t
          /\ s[k + 1] <= eh /\ t[s[k + 1]].kind = "serv"
      BY <1>4, <3>1
    <3>3. rows[k].end = s[k + 1] - 1 /\ rows[k].hdl = s[k]
      BY <1>8, <2>1
    <3>4. rows[k].end + 1 = s[k + 1] /\ rows[k].end \in Nat
          /\ rows[k].end <= eh /\ s[k] <= rows[k].end
      BY <3>2, <3>3
    <3>5. rows[k].end <= l
      BY <1>3, <3>2, <3>4
    <3>6. rows[k].end + 1 \in DOMAIN t /\ t[rows[k].end + 1].kind = "serv"
      BY <3>2, <3>4
    <3>7. k # n
      BY <1>4, <2>1
    <3>8. rows[k].hdl <= rows[k].end
      BY <3>3, <3>4
    <3> QED
      BY <3>4, <3>5, <3>6, <3>7, <3>8
  <2>2. CASE k = n
    <3>1. ~(k < n)
      BY <1>4, <2>2
    <3>2. rows[k].end = m /\ rows[k].hdl = s[k]
      BY <1>8, <3>1
    <3>3. s[k] \in Nat /\ s[k] <= Len(t)
      BY <1>3, <1>4
    <3> QED
      BY <1>3, <1>6, <3>1, <3>2, <3>3
  <2> QED
    BY <1>4, <2>1, <2>2
<1>10. ASSUME NEW k \in 1 .. n, NEW h \in DOMAIN t, f <= h, h <= rows[k].end,
              t[h].kind = "serv"
       PROVE  \E j \in 1 .. k : rows[j].hdl = h
  <2>1. PICK j \in 1 .. n : s[j] = h
    BY <1>4, <1>10
  <2>2. ASSUME k < j PROVE FALSE
    <3>1. k + 1 \in 1 .. n /\ k < n /\ (k + 1 = j \/ k + 1 < j)
      BY <1>4, <2>2
    <3>2. s[k + 1] <= s[j] /\ s[j] \in Nat /\ s[k + 1] \in Nat
      <4>1. PICK i \in 1 .. n : i = k + 1
        BY <3>1
      <4>2. s[i] \in Nat /\ s[j] \in Nat
        BY <1>4
      <4>3. i < j => s[i] < s[j]
        BY <1>4
      <4>4. i = j \/ i < j
        BY <3>1, <4>1
      <4> QED
        BY <4>1, <4>2, <4>3, <4>4
    <3>3. rows[k].end = s[k + 1] - 1
      BY <1>8, <3>1
    <3> QED
      BY <1>10, <2>1, <3>2, <3>3
  <2>3. j \in 1 .. k
    BY <1>4, <2>2
  <2> QED
    BY <1>8, <2>1, <2>3
<1>11. rows \in Seq(ServiceRow) /\ Len(rows) = n /\ DOMAIN rows = 1 .. n
  <2>1. \A k \in 1 .. n : rows[k] \in ServiceRow
    <3> SUFFICES ASSUME NEW k \in 1 .. n PROVE rows[k] \in ServiceRow
      OBVIOUS
    <3>1. s[k] \in Nat /\ t[s[k]] \in Attribute
      BY <1>3, <1>4
    <3>2. t[s[k]].wide \in BOOLEAN
      BY <3>1 DEF Attribute
    <3>3. PICK e \in Nat : e = rows[k].end
      BY <1>9
    <3>4. rows[k] = [hdl |-> s[k], end |-> e, wide |-> t[s[k]].wide, size |-> 6]
      BY <1>8, <3>3
    <3> QED
      BY <3>1, <3>2, <3>3, <3>4 DEF ServiceRow
  <2>2. rows \in [1 .. n -> ServiceRow]
    BY <1>7, <2>1
  <2> QED
    BY <1>4, <2>2
<1>12. ASSUME NEW h \in DOMAIN t, f <= h, t[h].kind = "serv"
       PROVE  rows # <<>> /\ \E j \in 1 .. n : rows[j].hdl = h
  <2>1. PICK j \in 1 .. n : s[j] = h
    BY <1>4, <1>12
  <2> QED
    BY <1>8, <1>11, <2>1
<1>13. ServiceFacts(t, f, eh, l, rows, n)
  <2>1. \A k \in 1 .. n :
          /\ rows[k].hdl \in DOMAIN t /\ f <= rows[k].hdl
          /\ t[rows[k].hdl].kind = "serv"
          /\ rows[k].wide = t[rows[k].hdl].wide
    <3> SUFFICES ASSUME NEW k \in 1 .. n
                 PROVE  /\ rows[k].hdl \in DOMAIN t /\ f <= rows[k].hdl
                        /\ t[rows[k].hdl].kind = "serv"
                        /\ rows[k].wide = t[rows[k].hdl].wide
      OBVIOUS
    <3>1. PICK h : h = s[k] /\ h \in DOMAIN t /\ f <= h /\ t[h].kind = "serv"
      BY <1>4
    <3>2. rows[k].hdl = h /\ rows[k].wide = t[h].wide
      BY <1>8, <3>1
    <3> QED
      BY <3>1, <3>2
  <2>2. \A k \in 1 .. n : /\ rows[k].hdl <= rows[k].end
                          /\ rows[k].end <= eh /\ rows[k].end <= l
    BY <1>9
  <2>3. ASSUME NEW k \in 1 .. n
        PROVE  IF k < n
               THEN /\ rows[k].end + 1 \in DOMAIN t
                    /\ t[rows[k].end + 1].kind = "serv"
               ELSE rows[k].end >= Len(t)
    <3>1. k < n \/ k = n
      BY <1>4
    <3> QED
      BY <1>9, <3>1
  <2>4. \A h \in DOMAIN t : f <= h /\ t[h].kind = "serv" =>
            rows # <<>> /\ \E j \in 1 .. n : rows[j].hdl = h
    BY <1>12
  <2>5. \A k \in 1 .. n : \A h \in DOMAIN t :
            f <= h /\ h <= rows[k].end /\ t[h].kind = "serv"
            => \E j \in 1 .. k : rows[j].hdl = h
    BY <1>10
  <2> QED
    BY <1>4, <1>11, <2>1, <2>2, <2>3, <2>4, <2>5 DEF ServiceFacts
<1> QED
  BY <1>11, <1>13

CharFacts(t, f, rows, n) ==
    /\ rows \in Seq(CharRow) /\ n \in Nat /\ DOMAIN rows = 1 .. n
    /\ \A k \in 1 .. n :
         /\ rows[k].hdl \in DOMAIN t /\ f <= rows[k].hdl
         /\ t[rows[k].hdl].kind = "decl"
         /\ rows[k].val = rows[k].hdl + 1
         /\ rows[k].read = t[rows[k].val].read
         /\ rows[k].write = t[rows[k].val].write
    /\ \A k \in 1 .. n : \A h \in DOMAIN t :
         f <= h /\ h <= rows[k].hdl /\ t[h].kind = "decl"
         => \E j \in 1 .. k : rows[j].hdl = h
    /\ \A h \in DOMAIN t : f <= h /\ t[h].kind = "decl" => rows # <<>>

LEMMA CharRowsFacts ==
    ASSUME NEW t \in Tables, NEW f \in Nat, NEW rows, rows = CharRows(t, f, MaxHdl)
    PROVE  CharFacts(t, f, rows, Len(rows))
<1>1. PICK s : s = Found(t, f, MaxHdl, {"decl"})
  OBVIOUS
<1>2. PICK n : n = Len(s)
  OBVIOUS
<1>3. /\ Len(t) \in Nat /\ DOMAIN t = 1 .. Len(t) /\ Len(t) < MaxHdl /\ MaxHdl \in Nat
      /\ \A h \in DOMAIN t : t[h] \in Attribute
      /\ \A h \in DOMAIN t : t[h].kind = "decl" => h + 1 \in DOMAIN t
  BY TableFacts
<1>4. /\ s \in Seq(Nat) /\ n \in Nat /\ DOMAIN s = 1 .. n
      /\ \A k \in 1 .. n : s[k] \in DOMAIN t /\ f <= s[k] /\ s[k] \in Nat
                           /\ t[s[k]].kind = "decl"
      /\ \A h \in DOMAIN t : f <= h /\ t[h].kind = "decl" => \E k \in 1 .. n : s[k] = h
      /\ \A i, j \in 1 .. n : i < j => s[i] < s[j]
  <2>1. \A h \in DOMAIN t : h <= MaxHdl
    BY <1>3
  <2>2. IsFound(t, f, MaxHdl, {"decl"}, s, n)
    BY <1>1, <1>2, <1>3, FoundFacts
  <2> QED
    BY <1>3, <2>1, <2>2 DEF IsFound
<1>5. rows = [k \in 1 .. n |->
                [ hdl |-> s[k], val |-> s[k] + 1, read |-> t[s[k] + 1].read,
                  write |-> t[s[k] + 1].write, wide |-> t[s[k] + 1].wide, size |-> 7 ]]
  BY <1>1, <1>2, <1>4 DEF CharRows
<1>6. \A k \in 1 .. n :
        /\ rows[k].hdl = s[k] /\ rows[k].val = s[k] + 1
        /\ rows[k].read = t[s[k] + 1].read /\ rows[k].write = t[s[k] + 1].write
  BY <1>5
<1>7. rows \in Seq(CharRow) /\ Len(rows) = n /\ DOMAIN rows = 1 .. n
  <2>1. \A k \in 1 .. n : rows[k] \in CharRow
    <3> SUFFICES ASSUME NEW k \in 1 .. n PROVE rows[k] \in CharRow
      OBVIOUS
    <3>1. s[k] \in Nat /\ s[k] + 1 \in Nat /\ t[s[k] + 1] \in Attribute
      BY <1>3, <1>4
    <3> QED
      BY <1>5, <3>1 DEF CharRow, Attribute
  <2>2. rows \in [1 .. n -> CharRow]
    BY <1>5, <2>1
  <2> QED
    BY <1>4, <2>2
<1>8. ASSUME NEW k \in 1 .. n, NEW h \in DOMAIN t, f <= h, h <= rows[k].hdl,
             t[h].kind = "decl"
      PROVE  \E j \in 1 .. k : rows[j].hdl = h
  <2>1. PICK j \in 1 .. n : s[j] = h
    BY <1>4, <1>8
  <2>2. ASSUME k < j PROVE FALSE
    <3>1. s[k] < s[j] /\ s[k] \in Nat /\ s[j] \in Nat
      BY <1>4, <2>2
    <3>2. s[k] = rows[k].hdl
      BY <1>6
    <3>3. s[j] <= s[k]
      BY <1>8, <2>1, <3>2
    <3> QED
      BY <3>1, <3>3
  <2>3. j \in 1 .. k
    BY <1>4, <2>2
  <2> QED
    BY <1>6, <2>1, <2>3
<1>9. ASSUME NEW h \in DOMAIN t, f <= h, t[h].kind = "decl" PROVE rows # <<>>
  <2>1. PICK j \in 1 .. n : s[j] = h
    BY <1>4, <1>9
  <2> QED
    BY <1>7, <2>1
<1>10. CharFacts(t, f, rows, n)
  <2>1. \A k \in 1 .. n :
          /\ rows[k].hdl \in DOMAIN t /\ f <= rows[k].hdl
          /\ t[rows[k].hdl].kind = "decl"
          /\ rows[k].val = rows[k].hdl + 1
          /\ rows[k].read = t[rows[k].val].read
          /\ rows[k].write = t[rows[k].val].write
    <3> SUFFICES ASSUME NEW k \in 1 .. n
                 PROVE  /\ rows[k].hdl \in DOMAIN t /\ f <= rows[k].hdl
                        /\ t[rows[k].hdl].kind = "decl"
                        /\ rows[k].val = rows[k].hdl + 1
                        /\ rows[k].read = t[rows[k].val].read
                        /\ rows[k].write = t[rows[k].val].write
      OBVIOUS
    <3>1. s[k] \in DOMAIN t /\ f <= s[k] /\ t[s[k]].kind = "decl"
      BY <1>4
    <3>2. /\ rows[k].hdl = s[k] /\ rows[k].val = s[k] + 1
          /\ rows[k].read = t[s[k] + 1].read /\ rows[k].write = t[s[k] + 1].write
      BY <1>6
    <3> QED
      BY <3>1, <3>2
  <2>2. \A k \in 1 .. n : \A h \in DOMAIN t :
            f <= h /\ h <= rows[k].hdl /\ t[h].kind = "decl"
            => \E j \in 1 .. k : rows[j].hdl = h
    BY <1>8
  <2> QED
    BY <1>4, <1>7, <1>9, <2>1, <2>2 DEF CharFacts
<1> QED
  BY <1>7, <1>10

InfoFacts(t, f, eh, rows, n) ==
    /\ rows \in Seq(InfoRow) /\ n \in Nat /\ DOMAIN rows = 1 .. n
    /\ \A k \in 1 .. n :
         /\ rows[k].hdl \in DOMAIN t /\ f <= rows[k].hdl /\ rows[k].hdl <= eh
         /\ rows[k].wide = t[rows[k].hdl].wide
    /\ \A h \in DOMAIN t : f <= h /\ h <= eh =>
         \E k \in 1 .. n : rows[k].hdl = h
    /\ f \in DOMAIN t => rows # <<>> /\ rows[1].hdl = f

LEMMA InfoRowsFacts ==
    ASSUME NEW t \in Tables, NEW f \in Nat, NEW eh \in Nat, f >= 1, f <= eh,
           NEW rows, rows = InfoRows(t, f, eh)
    PROVE  InfoFacts(t, f, eh, rows, Len(rows))
<1>1. PICK s : s = Found(t, f, eh, {"serv", "decl", "value", "desc"})
  OBVIOUS
<1>2. PICK n : n = Len(s)
  OBVIOUS
<1>3. /\ Len(t) \in Nat /\ DOMAIN t = 1 .. Len(t)
      /\ \A h \in DOMAIN t : t[h] \in Attribute
  BY TableFacts
<1>4. /\ s \in Seq(Nat) /\ n \in Nat /\ DOMAIN s = 1 .. n
      /\ \A k \in 1 .. n : s[k] \in DOMAIN t /\ f <= s[k] /\ s[k] <= eh /\ s[k] \in Nat
      /\ \A h \in DOMAIN t : f <= h /\ h <= eh => \E k \in 1 .. n : s[k] = h
      /\ \A i, j \in 1 .. n : i < j => s[i] < s[j]
  <2>1. \A h \in DOMAIN t : t[h].kind \in {"serv", "decl", "value", "desc"}
    BY <1>3 DEF Attribute
  <2>2. IsFound(t, f, eh, {"serv", "decl", "value", "desc"}, s, n)
    BY <1>1, <1>2, <1>3, FoundFacts
  <2> QED
    BY <1>3, <2>1, <2>2 DEF IsFound
<1>5. rows = [k \in 1 .. n |-> [ hdl |-> s[k], wide |-> t[s[k]].wide, size |-> 4 ]]
  BY <1>1, <1>2, <1>4 DEF InfoRows
<1>6. \A k \in 1 .. n : rows[k].hdl = s[k] /\ rows[k].wide = t[s[k]].wide
  BY <1>5
<1>7. rows \in Seq(InfoRow) /\ Len(rows) = n /\ DOMAIN rows = 1 .. n
  <2>1. \A k \in 1 .. n : rows[k] \in InfoRow
    BY <1>3, <1>4, <1>5 DEF InfoRow, Attribute
  <2>2. rows \in [1 .. n -> InfoRow]
    BY <1>5, <2>1
  <2> QED
    BY <1>4, <2>2
<1>8. ASSUME f \in DOMAIN t PROVE rows # <<>> /\ rows[1].hdl = f
  <2>1. PICK k \in 1 .. n : s[k] = f
    <3>1. f <= f
      OBVIOUS
    <3> QED
      BY <1>4, <1>8, <3>1
  <2>2. 1 \in 1 .. n
    BY <1>4
  <2>3. k = 1
    <3>1. ~(1 < k)
      BY <1>4, <2>1, <2>2
    <3> QED
      BY <1>4, <3>1
  <2> QED
    BY <1>6, <1>7, <2>1, <2>2, <2>3
<1>9. InfoFacts(t, f, eh, rows, n)
  <2>1. ASSUME NEW k \in 1 .. n
        PROVE  /\ rows[k].hdl \in DOMAIN t /\ f <= rows[k].hdl /\ rows[k].hdl <= eh
               /\ rows[k].wide = t[rows[k].hdl].wide
    <3>1. s[k] \in DOMAIN t /\ f <= s[k] /\ s[k] <= eh
      BY <1>4
    <3>2. rows[k].hdl = s[k] /\ rows[k].wide = t[s[k]].wide
      BY <1>6
    <3> QED
      BY <3>1, <3>2
  <2>2. ASSUME NEW h \in DOMAIN t, f <= h, h <= eh
        PROVE  \E k \in 1 .. n : rows[k].hdl = h
    <3>1. PICK k \in 1 .. n : s[k] = h
      BY <1>4, <2>2
    <3> QED
      BY <1>6, <3>1
  <2>3. rows \in Seq(InfoRow) /\ n \in Nat /\ DOMAIN rows = 1 .. n
    BY <1>4, <1>7
  <2> QED
    BY <1>8, <2>1, <2>2, <2>3 DEF InfoFacts
<1> QED
  BY <1>7, <1>9

-----------------------------------------------------------------------------
LEMMA Min2 ==
    ASSUME NEW a \in Int, NEW b \in Int
    PROVE  Min({a, b}) \in {a, b} /\ Min({a, b}) <= a /\ Min({a, b}) <= b
<1>1. PICK S : S = {a, b}
  OBVIOUS
<1>2. \E x \in S : \A y \in S : x <= y
  <2>1. a <= b \/ b <= a
    OBVIOUS
  <2> QED
    BY <1>1, <2>1
<1>3. PICK x : x = Min(S)
  OBVIOUS
<1>4. x \in S /\ \A y \in S : x <= y
  BY <1>2, <1>3 DEF Min
<1> QED
  BY <1>1, <1>3, <1>4

LEMMA Max2 ==
    ASSUME NEW a \in Int, NEW b \in Int
    PROVE  Max({a, b}) \in {a, b} /\ a <= Max({a, b}) /\ b <= Max({a, b})
<1>1. PICK S : S = {a, b}
  OBVIOUS
<1>2. \E x \in S : \A y \in S : x >= y
  <2>1. a >= b \/ b >= a
    OBVIOUS
  <2> QED
    BY <1>1, <2>1
<1>3. PICK x : x = Max(S)
  OBVIOUS
<1>4. x \in S /\ \A y \in S : x >= y
  BY <1>2, <1>3 DEF Max
<1>5. x >= a /\ x >= b /\ x \in {a, b}
  BY <1>1, <1>4
<1> QED
  BY <1>1, <1>3, <1>5

(* What the client does next.                                              *)
Wanted(d, enc, h) ==
    IF enc THEN d[h].perm
    ELSE (d[h].type = "value" /\ d[h].read) \/ d[h].type = "desc"

LEMMA DbWriteCases ==
    ASSUME NEW d, NEW p, NEW st \in Nat, p_hdl2 \in Nat
    PROVE  \/ \E h \in st .. p_hdl2 :
                DbWrite(d, p, st) = Step(h, <<Request("write", h, d[h].len)>>)
           \/ DbWrite(d, p, st) = [Step(p, <<>>) EXCEPT !.pair = TRUE]
<1>1. PICK W : W = {h \in st .. p_hdl2 : \/ d[h].type = "value" /\ d[h].write
                                         \/ d[h].type = "desc"}
  OBVIOUS
<1>2. W \subseteq st .. p_hdl2 /\ W \subseteq Nat
  BY <1>1
<1>3. DbWrite(d, p, st) =
        IF W # {} THEN Step(Min(W), <<Request("write", Min(W), d[Min(W)].len)>>)
        ELSE [Step(p, <<>>) EXCEPT !.pair = TRUE]
  BY <1>1 DEF DbWrite
<1>4. CASE W # {}
  <2>1. PICK m : m = Min(W) /\ m \in W
    BY <1>2, <1>4, MinOf
  <2> QED
    BY <1>2, <1>3, <1>4, <2>1
<1>5. CASE W = {}
  BY <1>3, <1>5
<1> QED
  BY <1>4, <1>5

ReadsFrom(d, enc, st, h) ==
    /\ h \in st .. p_hdl2 /\ Wanted(d, enc, h)
    /\ \A g \in st .. p_hdl2 : Wanted(d, enc, g) => h <= g

NoneFrom(d, enc, st) == \A g \in st .. p_hdl2 : ~Wanted(d, enc, g)

ReadCases(d, enc, p, st, offset, s) ==
    \/ \E h \in Nat :
         /\ ReadsFrom(d, enc, st, h)
         /\ s = Step(h, <<Request("read", h, offset)>>)
    \/ /\ NoneFrom(d, enc, st) /\ enc
       /\ s = [Step(p, <<>>) EXCEPT !.close = TRUE]
    \/ /\ NoneFrom(d, enc, st) /\ ~enc
       /\ s = DbWrite(d, p, 1)

LEMMA DbReadCases ==
    ASSUME NEW d, NEW enc \in BOOLEAN, NEW p, NEW st \in Nat, NEW offset, p_hdl2 \in Nat,
           NEW s, s = DbRead(d, enc, p, st, offset)
    PROVE  ReadCases(d, enc, p, st, offset, s)
<1>1. PICK R : R = {h \in st .. p_hdl2 : Wanted(d, enc, h)}
  OBVIOUS
<1>2. R \subseteq st .. p_hdl2 /\ R \subseteq Nat
  BY <1>1
<1>3. R = {h \in st .. p_hdl2 :
            IF enc THEN d[h].perm
            ELSE \/ d[h].type = "value" /\ d[h].read
                 \/ d[h].type = "desc"}
  BY <1>1 DEF Wanted
<1>4. s =
        IF R # {} THEN Step(Min(R), <<Request("read", Min(R), offset)>>)
        ELSE IF enc THEN [Step(p, <<>>) EXCEPT !.close = TRUE]
        ELSE DbWrite(d, p, 1)
  BY <1>3 DEF DbRead
<1>5. CASE R # {}
  <2>1. PICK m : m = Min(R) /\ m \in R /\ \A x \in R : m <= x
    BY <1>2, <1>5, MinOf
  <2>2. m \in Nat /\ ReadsFrom(d, enc, st, m)
    BY <1>1, <1>2, <2>1 DEF ReadsFrom
  <2> QED
    BY <1>4, <1>5, <2>1, <2>2 DEF ReadCases
<1>6. CASE R = {}
  <2>1. NoneFrom(d, enc, st)
    BY <1>1, <1>6 DEF NoneFrom
  <2> QED
    BY <1>4, <1>6, <2>1 DEF ReadCases
<1> QED
  BY <1>5, <1>6

(* A gap is asked for from its start to its end, or there is none.         *)
AsksGap(d, rest, st, en) ==
    /\ st <= en /\ en <= p_hdl2
    /\ \A g \in st .. en : d[g].type = "none"
    /\ p_hdl3' = en /\ searched' = searched
    /\ Do(rest, Step(st, <<Request("info", st, en)>>), auth)

EndsSearch(d, rest, st) ==
    /\ st > p_hdl2
    /\ p_hdl3' \in Nat /\ searched' = TRUE
    /\ Do(rest, DbRead(d, encrypted, st, 1, 0), auth)

KnownUpTo(d, hdl3, st) ==
    /\ hdl3 < st
    /\ \A g \in hdl3 + 1 .. st - 1 : g <= p_hdl2 => d[g].type # "none"

LEMMA SearchInfoCases ==
    ASSUME NEW d, NEW rest, NEW hdl3 \in Nat, SearchInfo(d, rest, hdl3),
           p_hdl2 \in Nat, searched \in BOOLEAN
    PROVE  \E st \in Nat :
             /\ KnownUpTo(d, hdl3, st)
             /\ EndsSearch(d, rest, st) \/ \E en \in Nat : AsksGap(d, rest, st, en)
<1>1. PICK st : st = FirstGap(d, hdl3)
  OBVIOUS
<1>2. PICK G : G = {h \in hdl3 + 1 .. p_hdl2 : d[h].type = "none"}
  OBVIOUS
<1>3. G \subseteq Nat /\ G \subseteq hdl3 + 1 .. p_hdl2
  BY <1>2
<1>4. st = IF G # {} THEN Min(G) ELSE Max({hdl3, p_hdl2}) + 1
  BY <1>1, <1>2 DEF FirstGap
<1>5. PICK K : K = {h \in st .. p_hdl2 : d[h].type # "none"}
  OBVIOUS
<1>6. PICK en : en = IF K # {} THEN Min(K) - 1 ELSE Max({p_hdl2, st - 1})
  OBVIOUS
<1>7. /\ p_hdl3' = en
      /\ searched' = (searched \/ st > p_hdl2)
      /\ Do(rest, IF st > p_hdl2 THEN DbRead(d, encrypted, st, 1, 0)
                  ELSE Step(st, <<Request("info", st, en)>>), auth)
  BY <1>1, <1>5, <1>6 DEF SearchInfo
<1>8. CASE G # {}
  <2>1. st \in G /\ \A x \in G : st <= x
    BY <1>3, <1>4, <1>8, MinOf
  <2>2. st \in Nat /\ hdl3 < st /\ st <= p_hdl2 /\ d[st].type = "none"
    BY <1>2, <2>1
  <2>3. KnownUpTo(d, hdl3, st)
    <3>1. ASSUME NEW g \in hdl3 + 1 .. st - 1, g <= p_hdl2 PROVE d[g].type # "none"
      <4>1. g \in hdl3 + 1 .. p_hdl2 /\ ~(st <= g)
        BY <2>2, <3>1
      <4> QED
        BY <1>2, <2>1, <4>1
    <3> QED
      BY <2>2, <3>1 DEF KnownUpTo
  <2>4. en \in Nat /\ st <= en /\ en <= p_hdl2 /\ \A g \in st .. en : d[g].type = "none"
    <3>1. CASE K # {}
      <4>1. K \subseteq Nat
        BY <1>5, <2>2
      <4>2. PICK m : m = Min(K) /\ m \in K /\ \A x \in K : m <= x
        BY <3>1, <4>1, MinOf
      <4>3. m \in st .. p_hdl2 /\ m # st
        BY <1>5, <2>2, <4>2
      <4>4. en = m - 1
        BY <1>6, <3>1, <4>2
      <4>5. ASSUME NEW g \in st .. en PROVE d[g].type = "none"
        <5>1. g \in st .. p_hdl2 /\ ~(m <= g)
          BY <2>2, <4>3, <4>4
        <5> QED
          BY <1>5, <4>2, <5>1
      <4> QED
        BY <2>2, <4>3, <4>4, <4>5
    <3>2. CASE K = {}
      <4>1. p_hdl2 \in Int /\ st - 1 \in Int
        BY <2>2
      <4>2. Max({p_hdl2, st - 1}) \in {p_hdl2, st - 1} /\ p_hdl2 <= Max({p_hdl2, st - 1})
        BY <4>1, Max2
      <4>3. en = p_hdl2
        BY <1>6, <2>2, <3>2, <4>2
      <4> QED
        BY <1>5, <2>2, <3>2, <4>3
    <3> QED
      BY <3>1, <3>2
  <2>5. AsksGap(d, rest, st, en)
    <3>1. ~(st > p_hdl2)
      BY <2>2
    <3>2. searched' = searched
      BY <1>7, <3>1
    <3> QED
      BY <1>7, <2>4, <3>1, <3>2 DEF AsksGap
  <2> QED
    BY <2>2, <2>3, <2>4, <2>5
<1>9. CASE G = {}
  <2>1. PICK m : m = Max({hdl3, p_hdl2}) /\ m \in {hdl3, p_hdl2} /\ hdl3 <= m /\ p_hdl2 <= m
    BY Max2
  <2>2. st = m + 1
    BY <1>4, <1>9, <2>1
  <2>3. st \in Nat /\ hdl3 < st /\ st > p_hdl2 /\ m \in Nat
    BY <2>1, <2>2
  <2>4. KnownUpTo(d, hdl3, st)
    <3>1. ASSUME NEW g \in hdl3 + 1 .. st - 1, g <= p_hdl2 PROVE d[g].type # "none"
      <4>1. g \in hdl3 + 1 .. p_hdl2
        BY <2>3, <3>1
      <4> QED
        BY <1>2, <1>9, <4>1
    <3> QED
      BY <2>3, <3>1 DEF KnownUpTo
  <2>5. K = {}
    BY <1>5, <2>3
  <2>6. en \in Nat
    <3>1. st - 1 = m
      BY <2>2, <2>3
    <3>2. en = Max({p_hdl2, m})
      BY <1>6, <2>5, <3>1
    <3>3. p_hdl2 \in Int /\ m \in Int
      BY <2>3
    <3>4. Max({p_hdl2, m}) \in {p_hdl2, m}
      BY <3>3, Max2
    <3> QED
      BY <2>3, <3>2, <3>4
  <2>7. EndsSearch(d, rest, st)
    <3>1. searched' = TRUE
      BY <1>7, <2>3
    <3> QED
      BY <1>7, <2>3, <2>6, <3>1 DEF EndsSearch
  <2> QED
    BY <2>3, <2>4, <2>7
<1> QED
  BY <1>8, <1>9

-----------------------------------------------------------------------------
(* What is asked for.                                                      *)
LEMMA HeadRequest ==
    ASSUME reqs \in Seq(RequestSet), reqs # <<>>
    PROVE  /\ Head(reqs) \in RequestSet /\ Head(reqs) = reqs[1] /\ 1 \in DOMAIN reqs
           /\ Head(reqs).from \in Nat /\ Head(reqs).to \in Nat
           /\ Rest \in Seq(RequestSet) /\ Len(Rest) = Len(reqs) - 1
           /\ \A i \in DOMAIN Rest : i + 1 \in DOMAIN reqs /\ Rest[i] = reqs[i + 1]
<1>1. Len(reqs) \in Nat /\ Len(reqs) >= 1 /\ DOMAIN reqs = 1 .. Len(reqs)
  BY EmptySeq
<1>2. reqs[1] \in RequestSet /\ Head(reqs) = reqs[1]
  BY <1>1
<1>3. Rest \in Seq(RequestSet) /\ Len(Rest) = Len(reqs) - 1
  BY <1>1 DEF Rest
<1>4. \A i \in DOMAIN Rest : i + 1 \in DOMAIN reqs /\ Rest[i] = reqs[i + 1]
  <2> SUFFICES ASSUME NEW i \in DOMAIN Rest PROVE i + 1 \in DOMAIN reqs /\ Rest[i] = reqs[i + 1]
    OBVIOUS
  <2>1. i \in 1 .. Len(reqs) - 1
    BY <1>3
  <2> QED
    BY <1>1, <2>1 DEF Rest
<1>5. reqs[1].from \in Nat /\ reqs[1].to \in Nat
  BY <1>2 DEF RequestSet
<1> QED
  BY <1>1, <1>2, <1>3, <1>4, <1>5

LEMMA RequestType ==
    ASSUME NEW op \in {"group", "type", "info", "read", "write"}, NEW a \in Nat, NEW b \in Nat
    PROVE  /\ Request(op, a, b) \in RequestSet /\ Request(op, a, b).op = op
           /\ Request(op, a, b).from = a /\ Request(op, a, b).to = b
  BY DEF Request, RequestSet

(* One row or more answers a search that finds any.                        *)
LEMMA CutBefore ==
    ASSUME NEW n \in Nat, n >= 1, NEW S, S \subseteq 1 .. n, n \in S
    PROVE  Min(S) \in 1 .. n
<1>1. S \subseteq Nat /\ S # {}
  OBVIOUS
<1>2. PICK m : m = Min(S) /\ m \in S
  BY <1>1, MinOf
<1> QED
  BY <1>2

OneFits(rows) == Bytes(rows, 1) <= Mtu

LEMMA OneRowFits ==
    ASSUME NEW rows, rows[1].size \in 4 .. 7
    PROVE  OneFits(rows)
<1>1. PICK S : S = {j \in 1 .. 1 : rows[j].wide}
  OBVIOUS
<1>2. S \subseteq {1}
  BY <1>1
<1>3. Cardinality(S) \in 0 .. 1
  <2>1. IsFiniteSet({1}) /\ Cardinality({1}) = 1
    BY FS_Singleton
  <2>2. IsFiniteSet(S) /\ Cardinality(S) <= 1
    BY <1>2, <2>1, FS_Subset
  <2> QED
    BY <2>2, FS_CardinalityType
<1>4. PICK c \in 0 .. 1 : c = Cardinality(S)
  BY <1>3
<1>5. PICK z \in 4 .. 7 : z = rows[1].size
  OBVIOUS
<1>6. Bytes(rows, 1) = 2 + 1 * z + 14 * c
  BY <1>1, <1>4, <1>5 DEF Bytes
<1>7. 2 + 1 * z + 14 * c <= 23
  BY <1>4, <1>5
<1> QED
  BY <1>6, <1>7, AttServerAssumption DEF OneFits

LEMMA CountsInDomain ==
    ASSUME NEW Row, NEW rows \in Seq(Row), rows # <<>>, rows[1].size \in 4 .. 7
    PROVE  /\ Counts(rows, GroupRows(rows)) \subseteq 1 .. Len(rows)
           /\ Counts(rows, TypeRows(rows)) \subseteq 1 .. Len(rows)
           /\ Counts(rows, FindInfoRows(rows)) \subseteq 1 .. Len(rows)
<1>1. PICK n \in Nat : n = Len(rows) /\ n >= 1 /\ DOMAIN rows = 1 .. n
  BY EmptySeq
<1>2. GroupRows(rows) \in 1 .. n
  <2>1. PICK S : S = {k \in DOMAIN rows : \/ k = Len(rows)
                                          \/ ~SameWidth(rows, k + 1)
                                          \/ Bytes(rows, k) >= Mtu}
    OBVIOUS
  <2>2. S \subseteq 1 .. n /\ n \in S
    BY <1>1, <2>1
  <2>3. Min(S) \in 1 .. n
    BY <1>1, <2>2, CutBefore
  <2> QED
    BY <2>1, <2>3 DEF GroupRows
<1>3. FindInfoRows(rows) \in 1 .. n
  <2>1. PICK S : S = {k \in DOMAIN rows : k = Len(rows) \/ ~SameWidth(rows, k)}
    OBVIOUS
  <2>2. S \subseteq 1 .. n /\ n \in S
    BY <1>1, <2>1
  <2>3. Min(S) \in 1 .. n
    BY <1>1, <2>2, CutBefore
  <2> QED
    BY <2>1, <2>3 DEF FindInfoRows
<1>4. TypeRows(rows) \in 1 .. n
  <2>1. PICK S : S = {k \in DOMAIN rows : /\ Bytes(rows, k) <= Mtu
                                          /\ k > 1 => SameWidth(rows, k - 1)}
    OBVIOUS
  <2>2. Bytes(rows, 1) <= Mtu
    BY OneRowFits DEF OneFits
  <2>3. 1 \in S
    BY <1>1, <2>1, <2>2
  <2>4. S \subseteq 1 .. n /\ S \subseteq 0 .. n /\ S # {}
    BY <1>1, <2>1, <2>3
  <2>5. PICK m : m = Max(S) /\ m \in S
    BY <1>1, <2>4, MaxOf
  <2> QED
    BY <2>1, <2>4, <2>5 DEF TypeRows
<1>5. AllowedRows(rows) \subseteq 1 .. n
  BY <1>1 DEF AllowedRows
<1> QED
  BY <1>1, <1>2, <1>3, <1>4, <1>5 DEF Counts

(* The searches, of the peer's table.                                      *)
LEMMA GroupSearchFacts ==
    ASSUME TypeInv, reqs # <<>>
    PROVE  /\ ServiceFacts(table, Head(reqs).from, MaxHdl, last, GroupSearch, Len(GroupSearch))
           /\ GroupSearch # <<>> =>
                Counts(GroupSearch, GroupRows(GroupSearch)) \subseteq 1 .. Len(GroupSearch)
<1>1. table \in Tables /\ Head(reqs).from \in Nat /\ last \in Nat /\ last >= Len(table)
      /\ MaxHdl \in Nat /\ MaxHdl >= Len(table)
  <2>1. table \in Tables /\ last \in {Len(table), MaxHdl} /\ reqs \in Seq(RequestSet)
    BY DEF TypeInv
  <2>2. Len(table) \in Nat /\ MaxHdl \in Nat /\ Len(table) < MaxHdl
    BY <2>1, TableFacts
  <2>3. Head(reqs).from \in Nat
    BY <2>1, HeadRequest
  <2> QED
    BY <2>1, <2>2, <2>3
<1>2. PICK rows : rows = GroupSearch
  OBVIOUS
<1>3. ServiceFacts(table, Head(reqs).from, MaxHdl, last, rows, Len(rows))
  BY <1>1, <1>2, ServiceRowsFacts DEF GroupSearch
<1>4. ASSUME rows # <<>> PROVE Counts(rows, GroupRows(rows)) \subseteq 1 .. Len(rows)
  <2>1. rows \in Seq(ServiceRow)
    BY <1>3 DEF ServiceFacts
  <2>2. rows[1] \in ServiceRow
    BY <1>4, <2>1, EmptySeq
  <2>3. rows[1].size \in 4 .. 7
    BY <2>2 DEF ServiceRow
  <2> QED
    BY <1>4, <2>1, <2>3, CountsInDomain
<1> QED
  BY <1>2, <1>3, <1>4

LEMMA TypeSearchFacts ==
    ASSUME TypeInv, reqs # <<>>
    PROVE  /\ CharFacts(table, Head(reqs).from, TypeSearch, Len(TypeSearch))
           /\ TypeSearch # <<>> =>
                Counts(TypeSearch, TypeRows(TypeSearch)) \subseteq 1 .. Len(TypeSearch)
<1>1. table \in Tables /\ Head(reqs).from \in Nat
  <2>1. table \in Tables /\ reqs \in Seq(RequestSet)
    BY DEF TypeInv
  <2> QED
    BY <2>1, HeadRequest
<1>2. PICK rows : rows = TypeSearch
  OBVIOUS
<1>3. CharFacts(table, Head(reqs).from, rows, Len(rows))
  BY <1>1, <1>2, CharRowsFacts DEF TypeSearch
<1>4. ASSUME rows # <<>> PROVE Counts(rows, TypeRows(rows)) \subseteq 1 .. Len(rows)
  <2>1. rows \in Seq(CharRow)
    BY <1>3 DEF CharFacts
  <2>2. rows[1] \in CharRow
    BY <1>4, <2>1, EmptySeq
  <2>3. rows[1].size \in 4 .. 7
    BY <2>2 DEF CharRow
  <2> QED
    BY <1>4, <2>1, <2>3, CountsInDomain
<1> QED
  BY <1>2, <1>3, <1>4

LEMMA InfoSearchFacts ==
    ASSUME TypeInv, reqs # <<>>, 1 <= Head(reqs).from, Head(reqs).from <= Head(reqs).to
    PROVE  /\ InfoFacts(table, Head(reqs).from, Head(reqs).to, InfoSearch, Len(InfoSearch))
           /\ InfoSearch # <<>> =>
                Counts(InfoSearch, FindInfoRows(InfoSearch)) \subseteq 1 .. Len(InfoSearch)
<1>1. table \in Tables /\ Head(reqs).from \in Nat /\ Head(reqs).to \in Nat
  <2>1. table \in Tables /\ reqs \in Seq(RequestSet)
    BY DEF TypeInv
  <2> QED
    BY <2>1, HeadRequest
<1>2. PICK rows : rows = InfoSearch
  OBVIOUS
<1>3. InfoFacts(table, Head(reqs).from, Head(reqs).to, rows, Len(rows))
  <2>1. Head(reqs).from >= 1
    BY <1>1
  <2> QED
    BY <1>1, <1>2, <2>1, InfoRowsFacts DEF InfoSearch
<1>4. ASSUME rows # <<>> PROVE Counts(rows, FindInfoRows(rows)) \subseteq 1 .. Len(rows)
  <2>1. rows \in Seq(InfoRow)
    BY <1>3 DEF InfoFacts
  <2>2. rows[1] \in InfoRow
    BY <1>4, <2>1, EmptySeq
  <2>3. rows[1].size \in 4 .. 7
    BY <2>2 DEF InfoRow
  <2> QED
    BY <1>4, <2>1, <2>3, CountsInDomain
<1> QED
  BY <1>2, <1>3, <1>4

-----------------------------------------------------------------------------
(* Types.                                                                  *)
StepSet == [hdl : Nat, req : Seq(RequestSet), pair : BOOLEAN, close : BOOLEAN]

(* What a step of sdp.c may be: it goes to a handle, closes the link, or,  *)
(* on a link with nothing else under way, pairs.                           *)
Sound(s, enc) ==
    /\ s \in StepSet /\ Len(s.req) <= 1
    /\ s.hdl \in Hdl \/ s.close \/ (~enc /\ s.req = <<>>)

LEMMA StepOne ==
    ASSUME NEW h \in Hdl, NEW r \in RequestSet, NEW s, s = Step(h, <<r>>)
    PROVE  /\ s \in StepSet /\ Len(s.req) = 1
           /\ s.req = <<r>> /\ s.hdl = h /\ ~s.pair /\ ~s.close
<1>1. h \in Nat
  BY SdpAssumption DEF Hdl
<1>2. s.req = <<r>> /\ s.hdl = h /\ s.pair = FALSE /\ s.close = FALSE
  BY DEF Step
<1>3. <<r>> \in Seq(RequestSet) /\ Len(<<r>>) = 1
  OBVIOUS
<1>4. s \in StepSet
  BY <1>1, <1>3 DEF Step, StepSet
<1>5. Len(s.req) = 1
  BY <1>2, <1>3
<1> QED
  BY <1>2, <1>4, <1>5

LEMMA DbWriteSound ==
    ASSUME NEW d \in [Hdl -> Entry], NEW p \in Nat, NEW st \in Nat, st >= 1,
           p_hdl2 \in 0 .. MaxHdl, NEW s, s = DbWrite(d, p, st)
    PROVE  /\ s \in StepSet /\ Len(s.req) <= 1 /\ ~s.close
           /\ s.hdl \in Hdl \/ (s.hdl = p /\ s.req = <<>>)
           /\ \A i \in DOMAIN s.req : s.req[i].op = "write"
           /\ \/ s.req = <<>> /\ s.pair
              \/ ~s.pair /\ \E r \in RequestSet : r.op = "write" /\ s.req = <<r>>
<1>1. MaxHdl \in Nat /\ p_hdl2 \in Nat /\ ByteMax \in Nat
  BY SdpAssumption
<1>2. CASE \E h \in st .. p_hdl2 : s = Step(h, <<Request("write", h, d[h].len)>>)
  <2>1. PICK h \in st .. p_hdl2 : s = Step(h, <<Request("write", h, d[h].len)>>)
    BY <1>2
  <2>2. h \in Hdl /\ h \in Nat
    BY <1>1 DEF Hdl
  <2>3. d[h].len \in Nat
    BY <1>1, <2>2 DEF Entry
  <2>4. PICK r \in RequestSet : r = Request("write", h, d[h].len) /\ r.op = "write"
    BY <2>2, <2>3, RequestType
  <2>5. /\ s \in StepSet /\ Len(s.req) = 1
        /\ s.req = <<r>> /\ s.hdl = h /\ ~s.pair /\ ~s.close
    BY <2>1, <2>2, <2>4, StepOne
  <2>6. \A i \in DOMAIN s.req : s.req[i] = r
    BY <2>5
  <2>7. Len(s.req) <= 1
    BY <2>5
  <2> QED
    BY <2>2, <2>4, <2>5, <2>6, <2>7
<1>3. CASE s = [Step(p, <<>>) EXCEPT !.pair = TRUE]
  <2>1. s = [hdl |-> p, req |-> <<>>, pair |-> TRUE, close |-> FALSE]
    BY <1>3 DEF Step
  <2>2. s \in StepSet
    BY <2>1 DEF StepSet
  <2>3. s.req = <<>> /\ s.hdl = p /\ s.pair /\ ~s.close
    BY <2>1
  <2>4. Len(s.req) <= 1 /\ DOMAIN s.req = {}
    BY <2>3
  <2> QED
    BY <2>2, <2>3, <2>4
<1> QED
  BY <1>1, <1>2, <1>3, DbWriteCases

LEMMA DbReadSound ==
    ASSUME NEW d \in [Hdl -> Entry], NEW enc \in BOOLEAN, NEW p \in Nat,
           NEW st \in Nat, st >= 1, NEW offset \in Nat,
           p_hdl2 \in 0 .. MaxHdl, NEW s, s = DbRead(d, enc, p, st, offset)
    PROVE  /\ Sound(s, enc)
           /\ \A i \in DOMAIN s.req : s.req[i].op \in {"read", "write"}
           /\ NoneFrom(d, enc, st) /\ enc => s.close
           /\ s.close => enc /\ NoneFrom(d, enc, st) /\ s.req = <<>> /\ ~s.pair
<1>1. MaxHdl \in Nat /\ p_hdl2 \in Nat
  BY SdpAssumption
<1>2. CASE \E h \in Nat : /\ ReadsFrom(d, enc, st, h)
                          /\ s = Step(h, <<Request("read", h, offset)>>)
  <2>1. PICK h \in Nat : ReadsFrom(d, enc, st, h) /\ s = Step(h, <<Request("read", h, offset)>>)
    BY <1>2
  <2>2. h \in Hdl /\ h \in st .. p_hdl2 /\ ~NoneFrom(d, enc, st)
    BY <1>1, <2>1 DEF Hdl, ReadsFrom, NoneFrom
  <2>3. PICK r \in RequestSet : r = Request("read", h, offset) /\ r.op = "read"
    BY RequestType
  <2>4. /\ s \in StepSet /\ Len(s.req) = 1
        /\ s.req = <<r>> /\ s.hdl = h /\ ~s.close
    BY <2>1, <2>2, <2>3, StepOne
  <2>5. \A i \in DOMAIN s.req : s.req[i] = r
    BY <2>4
  <2>6. Sound(s, enc)
    BY <2>2, <2>4 DEF Sound
  <2> QED
    BY <2>2, <2>3, <2>4, <2>5, <2>6
<1>3. CASE NoneFrom(d, enc, st) /\ enc /\ s = [Step(p, <<>>) EXCEPT !.close = TRUE]
  <2>1. s = [hdl |-> p, req |-> <<>>, pair |-> FALSE, close |-> TRUE]
    BY <1>3 DEF Step
  <2>2. s \in StepSet
    BY <2>1 DEF StepSet
  <2>3. s.req = <<>> /\ s.close /\ ~s.pair
    BY <2>1
  <2>4. Len(s.req) <= 1 /\ DOMAIN s.req = {}
    BY <2>3
  <2>5. Sound(s, enc)
    BY <2>2, <2>3, <2>4 DEF Sound
  <2> QED
    BY <1>3, <2>3, <2>4, <2>5
<1>4. CASE NoneFrom(d, enc, st) /\ ~enc /\ s = DbWrite(d, p, 1)
  <2>1. 1 \in Nat /\ 1 >= 1
    OBVIOUS
  <2>2. PICK one \in Nat : one = 1 /\ one >= 1
    BY <2>1
  <2>3. s = DbWrite(d, p, one)
    BY <1>4, <2>2
  <2>4. /\ s \in StepSet /\ Len(s.req) <= 1 /\ ~s.close
        /\ s.hdl \in Hdl \/ s.req = <<>>
        /\ \A i \in DOMAIN s.req : s.req[i].op = "write"
    BY <2>2, <2>3, DbWriteSound
  <2>5. Sound(s, enc)
    BY <1>4, <2>4 DEF Sound
  <2> QED
    BY <1>4, <2>4, <2>5
<1>5. \/ \E h \in Nat : /\ ReadsFrom(d, enc, st, h)
                         /\ s = Step(h, <<Request("read", h, offset)>>)
      \/ NoneFrom(d, enc, st) /\ enc /\ s = [Step(p, <<>>) EXCEPT !.close = TRUE]
      \/ NoneFrom(d, enc, st) /\ ~enc /\ s = DbWrite(d, p, 1)
  <2>1. ReadCases(d, enc, p, st, offset, s)
    BY <1>1, DbReadCases
  <2> QED
    BY <2>1 DEF ReadCases
<1> QED
  BY <1>2, <1>3, <1>4, <1>5

ReadFacts(d, enc, st, s) ==
    /\ Sound(s, enc) /\ \A i \in DOMAIN s.req : s.req[i].op \in {"read", "write"}
    /\ NoneFrom(d, enc, st) /\ enc => s.close

LEMMA DbReadFacts ==
    ASSUME NEW d \in [Hdl -> Entry], NEW enc \in BOOLEAN, NEW p \in Nat,
           NEW st \in Nat, st >= 1, NEW offset \in Nat, p_hdl2 \in 0 .. MaxHdl
    PROVE  ReadFacts(d, enc, st, DbRead(d, enc, p, st, offset))
<1>1. PICK s : s = DbRead(d, enc, p, st, offset)
  OBVIOUS
<1>2. ReadFacts(d, enc, st, s)
  BY <1>1, DbReadSound DEF ReadFacts
<1> QED
  BY <1>1, <1>2

(* A step keeps types.                                                     *)
StepTypes ==
    /\ reqs' \in Seq(RequestSet)
    /\ auth' \in BOOLEAN /\ link' \in {"down", "up", "closing"}
    /\ finished' \in BOOLEAN /\ p_hdl1' \in Nat

LEMMA DoTypes ==
    ASSUME NEW rest \in Seq(RequestSet), NEW s \in StepSet, NEW pairing \in BOOLEAN,
           link \in {"down", "up", "closing"}, finished \in BOOLEAN,
           Do(rest, s, pairing)
    PROVE  /\ StepTypes
           /\ Len(reqs') = Len(rest) + Len(s.req)
           /\ s.close => link' # "up"
<1>1. s.hdl \in Nat /\ s.req \in Seq(RequestSet) /\ s.pair \in BOOLEAN /\ s.close \in BOOLEAN
  BY DEF StepSet
<1>2. /\ p_hdl1' = s.hdl /\ reqs' = rest \o s.req /\ auth' = (pairing \/ s.pair)
      /\ link' = (IF s.close THEN "closing" ELSE link)
      /\ finished' = (finished \/ s.close)
  BY DEF Do
<1>3. reqs' \in Seq(RequestSet) /\ Len(reqs') = Len(rest) + Len(s.req)
  BY <1>1, <1>2
<1>4. auth' \in BOOLEAN /\ finished' \in BOOLEAN
  BY <1>1, <1>2
<1>5. link' \in {"down", "up", "closing"} /\ p_hdl1' \in Nat /\ (s.close => link' # "up")
  BY <1>1, <1>2
<1> QED
  BY <1>3, <1>4, <1>5 DEF StepTypes

(* One request answered, one step made.                                    *)
LEMMA DoAsked ==
    ASSUME TypeInv, Asked, link = "up", reqs # <<>>, NEW s, Sound(s, encrypted),
           NEW pairing \in BOOLEAN, Do(Rest, s, pairing), encrypted' = encrypted
    PROVE  StepTypes /\ Asked'
<1>1. /\ reqs \in Seq(RequestSet) /\ link \in {"down", "up", "closing"}
      /\ finished \in BOOLEAN /\ encrypted \in BOOLEAN
  BY DEF TypeInv
<1>2. /\ s \in StepSet /\ Len(s.req) <= 1
      /\ s.hdl \in Hdl \/ s.close \/ (~encrypted /\ s.req = <<>>)
  BY DEF Sound
<1>3. Rest \in Seq(RequestSet) /\ Len(Rest) = Len(reqs) - 1 /\ Len(reqs) \in Nat
  BY <1>1, HeadRequest
<1>4. StepTypes /\ Len(reqs') = Len(Rest) + Len(s.req) /\ (s.close => link' # "up")
  BY <1>1, <1>2, <1>3, DoTypes
<1>5. s.req \in Seq(RequestSet) /\ Len(s.req) \in Nat
  BY <1>2 DEF StepSet
<1>6. Len(reqs') <= Len(reqs)
  BY <1>2, <1>3, <1>4, <1>5
<1>7. ~encrypted' => Len(reqs') <= 1
  <2>1. Len(reqs') \in Nat
    BY <1>3, <1>4, <1>5
  <2> QED
    BY <1>3, <1>6, <2>1 DEF Asked
<1>8. link' = "up" /\ (\E i \in DOMAIN reqs' : reqs'[i].op = "read") => p_hdl1' \in Hdl
  <2>1. p_hdl1' = s.hdl
    BY DEF Do
  <2>2. CASE ~encrypted /\ s.req = <<>>
    <3>1. Len(reqs) <= 1
      BY <2>2 DEF Asked
    <3>2. Len(reqs') = 0 /\ reqs' \in Seq(RequestSet)
      BY <1>3, <1>4, <1>6, <2>2, <3>1 DEF StepTypes
    <3>3. DOMAIN reqs' = {}
      BY <3>2
    <3> QED
      BY <3>3
  <2> QED
    BY <1>2, <1>4, <2>1, <2>2
<1> QED
  BY <1>4, <1>7, <1>8 DEF Asked, Hdl

-----------------------------------------------------------------------------
LEMMA SearchInfoTypes ==
    ASSUME TypeInv, Asked, link = "up", reqs # <<>>, encrypted' = encrypted,
           NEW d \in [Hdl -> Entry], NEW hdl3 \in Nat, SearchInfo(d, Rest, hdl3)
    PROVE  StepTypes /\ Asked' /\ p_hdl3' \in Nat /\ searched' \in BOOLEAN
<1>1. /\ p_hdl2 \in 0 .. MaxHdl /\ searched \in BOOLEAN /\ auth \in BOOLEAN
      /\ encrypted \in BOOLEAN
  BY DEF TypeInv
<1>2. MaxHdl \in Nat /\ p_hdl2 \in Nat
  BY <1>1, SdpAssumption
<1>3. PICK st \in Nat :
        /\ KnownUpTo(d, hdl3, st)
        /\ EndsSearch(d, Rest, st) \/ \E en \in Nat : AsksGap(d, Rest, st, en)
  BY <1>1, <1>2, SearchInfoCases
<1>4. st >= 1
  BY <1>3 DEF KnownUpTo
<1>5. CASE EndsSearch(d, Rest, st)
  <2>1. PICK one \in Nat, zero \in Nat : one = 1 /\ zero = 0 /\ one >= 1
    OBVIOUS
  <2>2. PICK s : s = DbRead(d, encrypted, st, one, zero)
    OBVIOUS
  <2>3. Sound(s, encrypted)
    <3>1. ReadFacts(d, encrypted, one, s)
      BY <1>1, <2>1, <2>2, DbReadFacts
    <3> QED
      BY <3>1 DEF ReadFacts
  <2>4. Do(Rest, s, auth) /\ p_hdl3' \in Nat /\ searched' = TRUE
    BY <1>5, <2>1, <2>2 DEF EndsSearch
  <2>5. StepTypes /\ Asked'
    BY <1>1, <2>3, <2>4, DoAsked
  <2> QED
    BY <2>4, <2>5
<1>6. CASE \E en \in Nat : AsksGap(d, Rest, st, en)
  <2>1. PICK en \in Nat : AsksGap(d, Rest, st, en)
    BY <1>6
  <2>2. st \in Hdl
    <3>1. st <= en /\ en <= p_hdl2
      BY <2>1 DEF AsksGap
    <3> QED
      BY <1>1, <1>2, <1>4, <3>1 DEF Hdl
  <2>3. PICK r \in RequestSet : r = Request("info", st, en)
    BY RequestType
  <2>4. PICK s : s = Step(st, <<r>>)
    OBVIOUS
  <2>5. s \in StepSet /\ Len(s.req) = 1 /\ s.hdl = st
    BY <2>2, <2>3, <2>4, StepOne
  <2>6. Sound(s, encrypted)
    BY <2>2, <2>5 DEF Sound
  <2>7. Do(Rest, s, auth) /\ p_hdl3' = en /\ searched' = searched
    BY <2>1, <2>3, <2>4 DEF AsksGap
  <2>8. StepTypes /\ Asked'
    BY <1>1, <2>6, <2>7, DoAsked
  <2> QED
    BY <1>1, <2>7, <2>8
<1> QED
  BY <1>3, <1>5, <1>6

(* The search goes on.                                                     *)
LEMMA AskTypes ==
    ASSUME TypeInv, Asked, link = "up", reqs # <<>>, NEW r \in RequestSet, Ask(r),
           r.op # "read", UNCHANGED <<encrypted, p_hdl1>>
    PROVE  /\ reqs' \in Seq(RequestSet) /\ auth' \in BOOLEAN
           /\ link' \in {"down", "up", "closing"} /\ Asked'
<1>1. reqs \in Seq(RequestSet) /\ auth \in BOOLEAN /\ link \in {"down", "up", "closing"}
  BY DEF TypeInv
<1>2. /\ Rest \in Seq(RequestSet) /\ Len(Rest) = Len(reqs) - 1 /\ Len(reqs) \in Nat
      /\ \A i \in DOMAIN Rest : i + 1 \in DOMAIN reqs /\ Rest[i] = reqs[i + 1]
  BY <1>1, HeadRequest
<1>3. reqs' = Append(Rest, r) /\ auth' = auth /\ link' = link
  BY DEF Ask
<1>4. /\ reqs' \in Seq(RequestSet) /\ Len(reqs') = Len(reqs)
      /\ \A i \in DOMAIN reqs' : (i \in DOMAIN Rest /\ reqs'[i] = Rest[i]) \/ reqs'[i] = r
  BY <1>2, <1>3
<1>5. ASSUME NEW i \in DOMAIN reqs', reqs'[i].op = "read"
      PROVE  \E j \in DOMAIN reqs : reqs[j].op = "read"
  <2>1. i \in DOMAIN Rest /\ reqs'[i] = Rest[i]
    BY <1>4, <1>5
  <2> QED
    BY <1>2, <1>5, <2>1
<1>6. Asked'
  <2>1. ~encrypted' => Len(reqs') <= 1
    BY <1>4 DEF Asked
  <2>2. link' = "up" /\ (\E i \in DOMAIN reqs' : reqs'[i].op = "read") => p_hdl1' \in Hdl
    BY <1>5 DEF Asked
  <2> QED
    BY <2>1, <2>2 DEF Asked, Hdl
<1> QED
  BY <1>1, <1>3, <1>4, <1>6

(* What remains of the types, once db and what Do or Ask changes are known.*)
LEMMA TypesRest ==
    ASSUME TypeInv, UNCHANGED <<peerVars, conns>>, early' \in BOOLEAN,
           encrypted' \in BOOLEAN,
           db' \in [Hdl -> Entry], p_hdl2' \in 0 .. MaxHdl, p_hdl3' \in Nat,
           searched' \in BOOLEAN,
           reqs' \in Seq(RequestSet), auth' \in BOOLEAN,
           link' \in {"down", "up", "closing"}, finished' \in BOOLEAN, p_hdl1' \in Nat
    PROVE  TypeInv'
<1>1. table' = table /\ last' = last /\ own' = own /\ conns' = conns
  BY DEF peerVars
<1>2. /\ table \in Tables /\ last \in {Len(table), MaxHdl} /\ own \in BOOLEAN
      /\ own => last = Len(table) /\ Servable(table)
      /\ conns \in 0 .. MaxConns
  BY DEF TypeInv
<1>3. /\ table' \in Tables /\ last' \in {Len(table'), MaxHdl} /\ own' \in BOOLEAN
      /\ conns' \in 0 .. MaxConns
  BY <1>1, <1>2
<1>4. (own => last = Len(table) /\ Servable(table))'
  BY <1>1, <1>2 DEF Servable, Hdl
<1>5. db' \in [Hdl' -> Entry']
  BY DEF Hdl, Entry, Kinds
<1> QED
  BY <1>3, <1>4, <1>5 DEF TypeInv, RequestSet

LEMMA ReadGroupRspTypes ==
    ASSUME TypeInv, Asked, ReadGroupRsp
    PROVE  TypeInv' /\ Asked'
<1>1. link = "up" /\ reqs # <<>> /\ GroupSearch # <<>>
  BY DEF ReadGroupRsp, Answered
<1>2. PICK N : N = Len(GroupSearch)
  OBVIOUS
<1>3. /\ ServiceFacts(table, Head(reqs).from, MaxHdl, last, GroupSearch, N)
      /\ Counts(GroupSearch, GroupRows(GroupSearch)) \subseteq 1 .. N
  BY <1>1, <1>2, GroupSearchFacts
<1>4. PICK n \in 1 .. N :
        LET rows == SubSeq(GroupSearch, 1, n)
            end == rows[n].end
        IN  /\ db' = [h \in Hdl |->
                        IF \E k \in 1..n : rows[k].hdl = h
                        THEN [db[h] EXCEPT !.type = "serv", !.read = TRUE]
                        ELSE db[h]]
            /\ p_hdl2' = Max({end, p_hdl2})
            /\ Ask(IF end = MaxHdl THEN Request("type", 1, MaxHdl)
                   ELSE Request("group", end + 1, MaxHdl))
  BY <1>3 DEF ReadGroupRsp
<1>5. PICK end : end = SubSeq(GroupSearch, 1, n)[n].end
  OBVIOUS
<1>6. /\ GroupSearch \in Seq(ServiceRow) /\ N \in Nat
      /\ \A k \in 1 .. N : GroupSearch[k].end <= MaxHdl
  BY <1>3 DEF ServiceFacts
<1>7. end \in Nat /\ end <= MaxHdl /\ MaxHdl \in Nat
  <2>1. SubSeq(GroupSearch, 1, n)[n] = GroupSearch[n] /\ GroupSearch[n] \in ServiceRow
    BY <1>2, <1>6
  <2>2. GroupSearch[n].end \in Nat
    BY <2>1 DEF ServiceRow
  <2> QED
    BY <1>5, <1>6, <2>1, <2>2, SdpAssumption
<1>8. db \in [Hdl -> Entry] /\ p_hdl2 \in 0 .. MaxHdl
  BY DEF TypeInv
<1>9. db' \in [Hdl -> Entry]
  <2>1. PICK H : H = {h \in Hdl : \E k \in 1..n : SubSeq(GroupSearch, 1, n)[k].hdl = h}
    OBVIOUS
  <2>2. db' = [h \in Hdl |-> IF h \in H
                             THEN [db[h] EXCEPT !.type = "serv", !.read = TRUE] ELSE db[h]]
    BY <1>4, <2>1
  <2>3. ASSUME NEW h \in Hdl
        PROVE  (IF h \in H THEN [db[h] EXCEPT !.type = "serv", !.read = TRUE] ELSE db[h])
                \in Entry
    <3>1. db[h] \in Entry /\ "serv" \in Kinds /\ TRUE \in BOOLEAN
      BY <1>8 DEF Kinds
    <3>2. [db[h] EXCEPT !.type = "serv", !.read = TRUE] \in Entry
      BY <3>1 DEF Entry
    <3> QED
      BY <3>1, <3>2
  <2> QED
    BY <2>2, <2>3
<1>10. p_hdl2' \in 0 .. MaxHdl
  <2>1. p_hdl2' = Max({end, p_hdl2})
    BY <1>4, <1>5
  <2>2. end \in Int /\ p_hdl2 \in Int
    BY <1>7, <1>8
  <2>3. Max({end, p_hdl2}) \in {end, p_hdl2}
    BY <2>2, Max2
  <2> QED
    BY <1>7, <1>8, <2>1, <2>3
<1>11. PICK r : r = IF end = MaxHdl THEN Request("type", 1, MaxHdl)
                    ELSE Request("group", end + 1, MaxHdl)
  OBVIOUS
<1>12. r \in RequestSet /\ r.op # "read"
  <2>1. end + 1 \in Nat
    BY <1>7
  <2>2. Request("type", 1, MaxHdl) \in RequestSet /\ Request("type", 1, MaxHdl).op # "read"
    BY <1>7, RequestType DEF Request, RequestSet
  <2>3. Request("group", end + 1, MaxHdl) \in RequestSet
        /\ Request("group", end + 1, MaxHdl).op # "read"
    BY <1>7, <2>1, RequestType DEF Request, RequestSet
  <2> QED
    BY <1>11, <2>2, <2>3
<1>13. Ask(r)
  BY <1>4, <1>5, <1>11
<1>14. UNCHANGED <<peerVars, encrypted, p_hdl1, p_hdl3, conns, searched, finished, early>>
  BY DEF ReadGroupRsp, histVars
<1>15. /\ reqs' \in Seq(RequestSet) /\ auth' \in BOOLEAN
       /\ link' \in {"down", "up", "closing"} /\ Asked'
  BY <1>1, <1>12, <1>13, <1>14, AskTypes
<1>16. /\ encrypted' \in BOOLEAN /\ searched' \in BOOLEAN /\ finished' \in BOOLEAN
       /\ p_hdl1' \in Nat /\ p_hdl3' \in Nat /\ early' \in BOOLEAN
       /\ UNCHANGED <<peerVars, conns>>
  BY <1>14 DEF TypeInv
<1>17. TypeInv'
  BY <1>9, <1>10, <1>15, <1>16, TypesRest
<1> QED
  BY <1>15, <1>17


LEMMA ReadGroupEndTypes ==
    ASSUME TypeInv, Asked, ReadGroupEnd
    PROVE  TypeInv' /\ Asked'
<1>1. link = "up" /\ reqs # <<>>
  BY DEF ReadGroupEnd, Answered
<1>2. PICK r : r = Request("type", 1, MaxHdl)
  OBVIOUS
<1>3. r \in RequestSet /\ r.op # "read"
  BY <1>2, SdpAssumption DEF Request, RequestSet
<1>4. /\ Ask(r)
      /\ UNCHANGED <<peerVars, encrypted, db, p_hdl1, p_hdl2, p_hdl3>>
      /\ UNCHANGED <<conns, searched, finished, early>>
  BY <1>2 DEF ReadGroupEnd, hdlVars, histVars
<1>5. /\ reqs' \in Seq(RequestSet) /\ auth' \in BOOLEAN
      /\ link' \in {"down", "up", "closing"} /\ Asked'
  BY <1>1, <1>3, <1>4, AskTypes
<1>6. /\ encrypted' \in BOOLEAN /\ searched' \in BOOLEAN /\ finished' \in BOOLEAN
      /\ db' \in [Hdl -> Entry] /\ p_hdl2' \in 0 .. MaxHdl
      /\ p_hdl1' \in Nat /\ p_hdl3' \in Nat /\ early' \in BOOLEAN
      /\ UNCHANGED <<peerVars, conns>>
  BY <1>4 DEF TypeInv
<1> QED
  BY <1>5, <1>6, TypesRest

(* What a response to the search for characteristics brings.               *)
LEMMA StoreCharsTypes ==
    ASSUME db \in [Hdl -> Entry], NEW rows \in SUBSET CharRow
    PROVE  StoreChars(rows) \in [Hdl -> Entry]
<1>1. ASSUME NEW h \in Hdl
      PROVE  (IF \E r \in rows : h \in {r.hdl, r.val}
              THEN LET r == CHOOSE r \in rows : h \in {r.hdl, r.val}
                   IN  [db[h] EXCEPT !.type = CharType(r, h), !.read = r.read,
                                     !.write = r.write]
              ELSE db[h]) \in Entry
  <2>1. db[h] \in Entry
    OBVIOUS
  <2>2. CASE \E r \in rows : h \in {r.hdl, r.val}
    <3>1. PICK r : r = CHOOSE q \in rows : h \in {q.hdl, q.val}
      OBVIOUS
    <3>2. r \in rows
      BY <2>2, <3>1
    <3>3. r.read \in BOOLEAN /\ r.write \in BOOLEAN
      BY <3>2 DEF CharRow
    <3>4. PICK ty : ty = CharType(r, h) /\ ty \in Kinds
      BY DEF CharType, Kinds
    <3>5. [db[h] EXCEPT !.type = ty, !.read = r.read, !.write = r.write] \in Entry
      BY <2>1, <3>3, <3>4 DEF Entry
    <3> QED
      BY <2>2, <3>1, <3>4, <3>5
  <2>3. CASE ~\E r \in rows : h \in {r.hdl, r.val}
    BY <2>1, <2>3
  <2> QED
    BY <2>2, <2>3
<1> QED
  BY <1>1 DEF StoreChars

LEMMA ReadByTypeRspTypes ==
    ASSUME TypeInv, Asked, ReadByTypeRsp
    PROVE  TypeInv' /\ Asked'
<1>1. link = "up" /\ reqs # <<>> /\ TypeSearch # <<>>
  BY DEF ReadByTypeRsp, Answered
<1>2. PICK N : N = Len(TypeSearch)
  OBVIOUS
<1>3. /\ CharFacts(table, Head(reqs).from, TypeSearch, N)
      /\ Counts(TypeSearch, TypeRows(TypeSearch)) \subseteq 1 .. N
  BY <1>1, <1>2, TypeSearchFacts
<1>4. PICK n \in 1 .. N :
        /\ db' = StoreChars(ToSet(SubSeq(TypeSearch, 1, n)))
        /\ Ask(Request("type", AfterChar(TypeSearch[n]), MaxHdl))
  BY <1>3 DEF ReadByTypeRsp
<1>5. TypeSearch \in Seq(CharRow) /\ N \in Nat
  BY <1>3 DEF CharFacts
<1>6. PICK rows : rows = ToSet(SubSeq(TypeSearch, 1, n))
  OBVIOUS
<1>7. rows \in SUBSET CharRow
  <2>1. SubSeq(TypeSearch, 1, n) \in Seq(CharRow)
    BY <1>2, <1>5
  <2> QED
    BY <1>6, <2>1 DEF ToSet
<1>8. db \in [Hdl -> Entry]
  BY DEF TypeInv
<1>9. db' \in [Hdl -> Entry]
  BY <1>4, <1>6, <1>7, <1>8, StoreCharsTypes
<1>10. PICK r : r = Request("type", AfterChar(TypeSearch[n]), MaxHdl)
  OBVIOUS
<1>11. r \in RequestSet /\ r.op # "read"
  <2>1. TypeSearch[n] \in CharRow
    BY <1>2, <1>5
  <2>2. AfterChar(TypeSearch[n]) \in Nat
    BY <2>1 DEF CharRow, AfterChar
  <2> QED
    BY <1>10, <2>2, SdpAssumption DEF Request, RequestSet
<1>12. Ask(r)
  BY <1>4, <1>10
<1>13. /\ UNCHANGED <<peerVars, encrypted, p_hdl1, p_hdl2, p_hdl3>>
       /\ UNCHANGED <<conns, searched, finished, early>>
  BY DEF ReadByTypeRsp, hdlVars, histVars
<1>14. /\ reqs' \in Seq(RequestSet) /\ auth' \in BOOLEAN
       /\ link' \in {"down", "up", "closing"} /\ Asked'
  BY <1>1, <1>11, <1>12, <1>13, AskTypes
<1>15. /\ encrypted' \in BOOLEAN /\ searched' \in BOOLEAN /\ finished' \in BOOLEAN
       /\ p_hdl2' \in 0 .. MaxHdl
       /\ p_hdl1' \in Nat /\ p_hdl3' \in Nat /\ early' \in BOOLEAN
       /\ UNCHANGED <<peerVars, conns>>
  BY <1>13 DEF TypeInv
<1>16. TypeInv'
  BY <1>9, <1>14, <1>15, TypesRest
<1> QED
  BY <1>14, <1>16

(* The steps that go on to the next gap.                                   *)
LEMMA GapTypes ==
    ASSUME TypeInv, Asked, link = "up", reqs # <<>>,
           NEW d \in [Hdl -> Entry], NEW hdl3 \in Nat, SearchInfo(d, Rest, hdl3), db' = d,
           UNCHANGED <<peerVars, encrypted, p_hdl2, conns, early>>
    PROVE  TypeInv' /\ Asked'
<1>1. encrypted' = encrypted
  OBVIOUS
<1>2. StepTypes /\ Asked' /\ p_hdl3' \in Nat /\ searched' \in BOOLEAN
  BY <1>1, SearchInfoTypes
<1>3. /\ encrypted' \in BOOLEAN /\ p_hdl2' \in 0 .. MaxHdl /\ early' \in BOOLEAN
      /\ UNCHANGED <<peerVars, conns>> /\ db' \in [Hdl -> Entry]
  BY DEF TypeInv
<1>4. TypeInv'
  BY <1>2, <1>3, TypesRest DEF StepTypes
<1> QED
  BY <1>2, <1>4

LEMMA ReadByTypeEndTypes ==
    ASSUME TypeInv, Asked, ReadByTypeEnd
    PROVE  TypeInv' /\ Asked'
<1>1. link = "up" /\ reqs # <<>>
  BY DEF ReadByTypeEnd, Answered
<1>2. PICK zero \in Nat : zero = 0
  OBVIOUS
<1>3. SearchInfo(db, Rest, zero) /\ db' = db
      /\ UNCHANGED <<peerVars, encrypted, p_hdl2, conns, early>>
  BY <1>2 DEF ReadByTypeEnd
<1>4. db \in [Hdl -> Entry]
  BY DEF TypeInv
<1> QED
  BY <1>1, <1>3, <1>4, GapTypes

LEMMA FindInfoEndTypes ==
    ASSUME TypeInv, Asked, FindInfoEnd
    PROVE  TypeInv' /\ Asked'
<1>1. link = "up" /\ reqs # <<>>
  BY DEF FindInfoEnd, Answered
<1>2. p_hdl3 \in Nat /\ db \in [Hdl -> Entry]
  BY DEF TypeInv
<1>3. SearchInfo(db, Rest, p_hdl3) /\ db' = db
      /\ UNCHANGED <<peerVars, encrypted, p_hdl2, conns, early>>
  BY DEF FindInfoEnd
<1> QED
  BY <1>1, <1>2, <1>3, GapTypes

Marked(known) ==
    [h \in Hdl |-> IF h \in known
                   THEN [db[h] EXCEPT !.type = "desc", !.read = TRUE, !.write = TRUE]
                   ELSE db[h]]

LEMMA MarkedTypes ==
    ASSUME db \in [Hdl -> Entry], NEW known
    PROVE  Marked(known) \in [Hdl -> Entry]
<1>1. ASSUME NEW h \in Hdl
      PROVE  (IF h \in known
              THEN [db[h] EXCEPT !.type = "desc", !.read = TRUE, !.write = TRUE]
              ELSE db[h]) \in Entry
  BY DEF Entry, Kinds
<1> QED
  BY <1>1 DEF Marked

LEMMA FindInfoRspTypes ==
    ASSUME TypeInv, Asked, FindInfoRsp
    PROVE  TypeInv' /\ Asked'
<1>1. link = "up" /\ reqs # <<>>
  BY DEF FindInfoRsp, Answered
<1>2. p_hdl3 \in Nat /\ db \in [Hdl -> Entry]
  BY DEF TypeInv
<1>3. PICK known : db' = Marked(known)
  BY DEF FindInfoRsp, Marked
<1>4. PICK d : d = db'
  OBVIOUS
<1>5. d \in [Hdl -> Entry] /\ db' = d
  BY <1>2, <1>3, <1>4, MarkedTypes
<1>6. SearchInfo(d, Rest, p_hdl3)
      /\ UNCHANGED <<peerVars, encrypted, p_hdl2, conns, early>>
  BY <1>4 DEF FindInfoRsp
<1> QED
  BY <1>1, <1>2, <1>5, <1>6, GapTypes

-----------------------------------------------------------------------------
(* How much of a value a response holds.                                   *)
Part(h, off) == Min({Mtu - 1, Max({0, ValueLen(h) - off})})

LEMMA PartOf ==
    ASSUME TypeInv, NEW h \in DOMAIN table, NEW off \in Nat
    PROVE  /\ ValueLen(h) \in Nat /\ Part(h, off) \in Nat /\ Part(h, off) <= Mtu - 1
           /\ off <= ValueLen(h) => off + Part(h, off) <= ValueLen(h)
           /\ Part(h, off) < Mtu - 1 /\ off <= ValueLen(h)
                => off + Part(h, off) = ValueLen(h)
           /\ ~(off <= ValueLen(h)) => Part(h, off) = 0
<1>1. table \in Tables
  BY DEF TypeInv
<1>2. table[h] \in Attribute
  BY <1>1, TableFacts
<1>3. ValueLen(h) \in Nat
  BY <1>2 DEF ValueLen, Attribute
<1>4. Mtu \in Nat /\ Mtu - 1 \in Nat
  BY AttServerAssumption
<1>5. PICK v \in Nat : v = ValueLen(h)
  BY <1>3
<1>6. PICK m : m = Max({0, v - off})
  OBVIOUS
<1>7. m \in {0, v - off} /\ 0 <= m /\ v - off <= m
  <2>1. 0 \in Int /\ v - off \in Int
    OBVIOUS
  <2>2. PICK a \in Int, b \in Int : a = 0 /\ b = v - off
    BY <2>1
  <2>3. Max({a, b}) \in {a, b} /\ a <= Max({a, b}) /\ b <= Max({a, b})
    BY Max2
  <2> QED
    BY <1>6, <2>2, <2>3
<1>8. m \in Nat /\ (off <= v => m = v - off) /\ (~(off <= v) => m = 0)
  BY <1>7
<1>9. PICK l : l = Min({Mtu - 1, m})
  OBVIOUS
<1>10. l \in {Mtu - 1, m} /\ l <= Mtu - 1 /\ l <= m
  <2>1. PICK a \in Int : a = Mtu - 1
    BY <1>4
  <2>2. m \in Int
    BY <1>8
  <2>3. Min({a, m}) \in {a, m} /\ Min({a, m}) <= a /\ Min({a, m}) <= m
    BY <2>2, Min2
  <2> QED
    BY <1>9, <2>1, <2>3
<1>11. l = Part(h, off) /\ l \in Nat
  BY <1>4, <1>5, <1>6, <1>8, <1>9, <1>10 DEF Part
<1>12. off <= v => off + l <= v
  BY <1>8, <1>10, <1>11
<1>13. l < Mtu - 1 /\ off <= v => off + l = v
  BY <1>4, <1>8, <1>10, <1>11
<1>14. ~(off <= v) => l = 0
  BY <1>4, <1>8, <1>10, <1>11
<1> QED
  BY <1>3, <1>5, <1>10, <1>11, <1>12, <1>13, <1>14

(* The read that is answered, and what is stored of it.                    *)
LEMMA Reading ==
    ASSUME TypeInv, Asked, Answered("read")
    PROVE  /\ p_hdl1 \in Hdl /\ p_hdl1 \in Nat /\ p_hdl1 >= 1
           /\ Head(reqs).from \in Nat /\ Head(reqs).to \in Nat
           /\ link = "up" /\ reqs # <<>>
<1>1. link = "up" /\ reqs # <<>> /\ Head(reqs).op = "read"
  BY DEF Answered
<1>2. reqs \in Seq(RequestSet)
  BY DEF TypeInv
<1>3. /\ Head(reqs) = reqs[1] /\ 1 \in DOMAIN reqs
      /\ Head(reqs).from \in Nat /\ Head(reqs).to \in Nat
  BY <1>1, <1>2, HeadRequest
<1>4. p_hdl1 \in Hdl
  BY <1>1, <1>3 DEF Asked
<1> QED
  BY <1>1, <1>3, <1>4, SdpAssumption DEF Hdl

StoreRead(p, h, n) ==
    [db EXCEPT ![p].len = (@ + n) % ByteMax, ![p].from = @ \cup {h}]

LEMMA StoreReadTypes ==
    ASSUME db \in [Hdl -> Entry], NEW p \in Hdl, NEW h \in Nat, NEW n \in Nat
    PROVE  /\ StoreRead(p, h, n) \in [Hdl -> Entry]
           /\ \A k \in Hdl : k # p => StoreRead(p, h, n)[k] = db[k]
           /\ StoreRead(p, h, n)[p].len = (db[p].len + n) % ByteMax
           /\ StoreRead(p, h, n)[p].from = db[p].from \cup {h}
           /\ StoreRead(p, h, n)[p].type = db[p].type
           /\ StoreRead(p, h, n)[p].read = db[p].read
           /\ StoreRead(p, h, n)[p].write = db[p].write
           /\ StoreRead(p, h, n)[p].perm = db[p].perm
<1>1. PICK e \in Entry : e = db[p]
  OBVIOUS
<1>2. ByteMax \in Nat \ {0}
  BY SdpAssumption
<1>3. PICK l : l = (e.len + n) % ByteMax
  OBVIOUS
<1>4. l \in 0 .. ByteMax - 1
  <2>1. e.len \in Nat
    BY <1>2 DEF Entry
  <2> QED
    BY <1>2, <1>3, <2>1
<1>5. PICK f : f = e.from \cup {h}
  OBVIOUS
<1>6. f \in SUBSET Nat
  BY <1>5 DEF Entry
<1>7. [e EXCEPT !.len = l, !.from = f] \in Entry
  BY <1>4, <1>6 DEF Entry
<1>8. PICK g : g = [e EXCEPT !.len = l, !.from = f]
  OBVIOUS
<1>9. StoreRead(p, h, n) = [db EXCEPT ![p] = g]
  BY <1>1, <1>3, <1>5, <1>8 DEF StoreRead, Entry
<1>10. /\ g.len = l /\ g.from = f /\ g.type = e.type /\ g.read = e.read
       /\ g.write = e.write /\ g.perm = e.perm
  BY <1>8 DEF Entry
<1> QED
  BY <1>1, <1>3, <1>5, <1>7, <1>8, <1>9, <1>10

(* Reading on, or reading the next.                                        *)
NextRead(d, n) ==
    IF Full(n) THEN DbRead(d, encrypted, p_hdl1, p_hdl1, NextOffset(d[p_hdl1].len, n))
    ELSE DbRead(d, encrypted, p_hdl1, p_hdl1 + 1, 0)

LEMMA NextReadSound ==
    ASSUME TypeInv, p_hdl1 \in Hdl, NEW d \in [Hdl -> Entry], NEW n
    PROVE  Sound(NextRead(d, n), encrypted)
<1>1. encrypted \in BOOLEAN /\ p_hdl2 \in 0 .. MaxHdl
  BY DEF TypeInv
<1>2. p_hdl1 \in Nat /\ p_hdl1 >= 1 /\ ByteMax \in Nat
  BY SdpAssumption DEF Hdl
<1>3. PICK off : off = NextOffset(d[p_hdl1].len, n)
  OBVIOUS
<1>4. off \in Nat
  <2>1. d[p_hdl1] \in Entry
    OBVIOUS
  <2> QED
    BY <1>2, <1>3, <2>1 DEF NextOffset, Entry
<1>5. PICK st \in Nat, zero \in Nat : st = p_hdl1 + 1 /\ zero = 0 /\ st >= 1
  BY <1>2
<1>6. Sound(DbRead(d, encrypted, p_hdl1, p_hdl1, off), encrypted)
  BY <1>1, <1>2, <1>4, DbReadSound
<1>7. Sound(DbRead(d, encrypted, p_hdl1, st, zero), encrypted)
  BY <1>1, <1>2, <1>5, DbReadSound
<1> QED
  BY <1>3, <1>5, <1>6, <1>7 DEF NextRead

(* The steps that store, mark and go on.                                   *)
LEMMA ReadTypes ==
    ASSUME TypeInv, Asked, link = "up", reqs # <<>>, NEW s, Sound(s, encrypted),
           Do(Rest, s, auth), db' \in [Hdl -> Entry],
           UNCHANGED <<peerVars, encrypted, p_hdl2, p_hdl3, conns, searched, early>>
    PROVE  TypeInv' /\ Asked'
<1>1. auth \in BOOLEAN /\ encrypted' = encrypted
  BY DEF TypeInv
<1>2. StepTypes /\ Asked'
  BY <1>1, DoAsked
<1>3. /\ encrypted' \in BOOLEAN /\ searched' \in BOOLEAN
      /\ p_hdl2' \in 0 .. MaxHdl /\ p_hdl3' \in Nat /\ early' \in BOOLEAN
      /\ UNCHANGED <<peerVars, conns>>
  BY DEF TypeInv
<1>4. TypeInv'
  BY <1>2, <1>3, TypesRest DEF StepTypes
<1> QED
  BY <1>2, <1>4

LEMMA ReadRspSays ==
    ASSUME TypeInv, Asked, ReadRsp
    PROVE  \E h \in DOMAIN table, off \in Nat, n \in Nat :
             /\ h = Head(reqs).from /\ off = Head(reqs).to /\ n = Part(h, off)
             /\ (own /\ off > 0) \/ (table[h].read /\ off <= ValueLen(h) /\ (off = 0 => ~Locked(h)))
             /\ db' = StoreRead(p_hdl1, h, n)
             /\ Do(Rest, NextRead(db', n), auth)
<1>1. PICK h, off : h = Head(reqs).from /\ off = Head(reqs).to
  OBVIOUS
<1>2. /\ Answered("read") /\ Exists(h)
      /\ IF own /\ off > 0 THEN TRUE
         ELSE table[h].read /\ off <= ValueLen(h) /\ (off = 0 => ~Locked(h))
      /\ db' = [db EXCEPT ![p_hdl1].len = (@ + Part(h, off)) % ByteMax,
                          ![p_hdl1].from = @ \cup {h}]
      /\ Do(Rest, IF Full(Part(h, off))
                  THEN DbRead(db', encrypted, p_hdl1, p_hdl1,
                              NextOffset(db'[p_hdl1].len, Part(h, off)))
                  ELSE DbRead(db', encrypted, p_hdl1, p_hdl1 + 1, 0), auth)
  BY <1>1 DEF ReadRsp, Part
<1>3. h \in DOMAIN table /\ off \in Nat
  BY <1>1, <1>2, Reading DEF Exists
<1>4. PICK n \in Nat : n = Part(h, off)
  BY <1>3, PartOf
<1>5. db' = StoreRead(p_hdl1, h, n) /\ Do(Rest, NextRead(db', n), auth)
  BY <1>2, <1>4 DEF StoreRead, NextRead
<1>6. (own /\ off > 0) \/ (table[h].read /\ off <= ValueLen(h) /\ (off = 0 => ~Locked(h)))
  BY <1>2
<1> QED
  BY <1>1, <1>3, <1>4, <1>5, <1>6

LEMMA ReadRspTypes ==
    ASSUME TypeInv, Asked, ReadRsp
    PROVE  TypeInv' /\ Asked'
<1>1. PICK h \in DOMAIN table, off \in Nat, n \in Nat :
         db' = StoreRead(p_hdl1, h, n) /\ Do(Rest, NextRead(db', n), auth)
  BY ReadRspSays
<1>2. Answered("read")
      /\ UNCHANGED <<peerVars, encrypted, p_hdl2, p_hdl3, conns, searched, early>>
  BY DEF ReadRsp
<1>3. p_hdl1 \in Hdl /\ link = "up" /\ reqs # <<>>
  BY <1>2, Reading
<1>4. db \in [Hdl -> Entry] /\ h \in Nat
  BY SdpAssumption DEF TypeInv
<1>5. PICK d : d = db'
  OBVIOUS
<1>6. d \in [Hdl -> Entry]
  BY <1>1, <1>3, <1>4, <1>5, StoreReadTypes
<1>7. PICK s : s = NextRead(d, n)
  OBVIOUS
<1>8. Sound(s, encrypted)
  BY <1>3, <1>6, <1>7, NextReadSound
<1> QED
  BY <1>1, <1>2, <1>3, <1>5, <1>6, <1>7, <1>8, ReadTypes


(* A refused read marks the handle, and a declaration before its value.    *)
Refuse(S) == [k \in Hdl |-> IF k \in S THEN [db[k] EXCEPT !.perm = TRUE] ELSE db[k]]

LEMMA RefuseTypes ==
    ASSUME db \in [Hdl -> Entry], NEW S
    PROVE  Refuse(S) \in [Hdl -> Entry]
<1>1. ASSUME NEW k \in Hdl
      PROVE  (IF k \in S THEN [db[k] EXCEPT !.perm = TRUE] ELSE db[k]) \in Entry
  BY DEF Entry
<1> QED
  BY <1>1 DEF Refuse

RefusedSet(h) ==
    {k \in Hdl : /\ Exists(h) /\ table[h].read /\ Locked(h)
                 /\ k = p_hdl1 \/ (db[p_hdl1].type = "value" /\ k = p_hdl1 - 1)}

LEMMA ReadErrorSays ==
    ASSUME TypeInv, Asked, ReadError
    PROVE  /\ Answered("read") /\ Head(reqs).to = 0
           /\ Exists(Head(reqs).from) /\ table[Head(reqs).from].read => Locked(Head(reqs).from)
           /\ db' = Refuse(RefusedSet(Head(reqs).from))
           /\ Do(Rest, DbRead(db', encrypted, p_hdl1, p_hdl1 + 1, 0), auth)
<1>1. PICK h : h = Head(reqs).from
  OBVIOUS
<1>2. PICK locked \in BOOLEAN : locked <=> Exists(h) /\ table[h].read /\ Locked(h)
  OBVIOUS
<1>3. /\ Exists(h) /\ table[h].read => locked
      /\ db' = [k \in Hdl |->
                  IF locked /\ (\/ k = p_hdl1
                                \/ db[p_hdl1].type = "value" /\ k = p_hdl1 - 1)
                  THEN [db[k] EXCEPT !.perm = TRUE]
                  ELSE db[k]]
  BY <1>1, <1>2 DEF ReadError
<1>4. \A k \in Hdl : k \in RefusedSet(h) <=>
                        locked /\ (\/ k = p_hdl1
                                   \/ db[p_hdl1].type = "value" /\ k = p_hdl1 - 1)
  BY <1>2 DEF RefusedSet
<1>5. db' = Refuse(RefusedSet(h))
  BY <1>3, <1>4 DEF Refuse
<1>6. /\ Answered("read") /\ Head(reqs).to = 0
      /\ Do(Rest, DbRead(db', encrypted, p_hdl1, p_hdl1 + 1, 0), auth)
  BY DEF ReadError
<1> QED
  BY <1>1, <1>2, <1>3, <1>5, <1>6

LEMMA ReadErrorTypes ==
    ASSUME TypeInv, Asked, ReadError
    PROVE  TypeInv' /\ Asked'
<1>1. /\ Answered("read")
      /\ db' = Refuse(RefusedSet(Head(reqs).from))
      /\ Do(Rest, DbRead(db', encrypted, p_hdl1, p_hdl1 + 1, 0), auth)
  BY ReadErrorSays
<1>2. p_hdl1 \in Nat /\ link = "up" /\ reqs # <<>>
  BY <1>1, Reading
<1>3. db \in [Hdl -> Entry] /\ encrypted \in BOOLEAN /\ p_hdl2 \in 0 .. MaxHdl
  BY DEF TypeInv
<1>4. PICK d : d = db'
  OBVIOUS
<1>5. d \in [Hdl -> Entry]
  BY <1>1, <1>3, <1>4, RefuseTypes
<1>6. PICK st \in Nat, zero \in Nat : st = p_hdl1 + 1 /\ zero = 0 /\ st >= 1
  BY <1>2
<1>7. PICK s : s = DbRead(d, encrypted, p_hdl1, st, zero)
  OBVIOUS
<1>8. Sound(s, encrypted)
  BY <1>2, <1>3, <1>5, <1>6, <1>7, DbReadSound
<1>9. Do(Rest, s, auth)
  BY <1>1, <1>4, <1>6, <1>7
<1>10. UNCHANGED <<peerVars, encrypted, p_hdl2, p_hdl3, conns, searched, early>>
  BY DEF ReadError
<1> QED
  BY <1>2, <1>4, <1>5, <1>8, <1>9, <1>10, ReadTypes

LEMMA BlobErrorTypes ==
    ASSUME TypeInv, Asked, BlobError
    PROVE  TypeInv' /\ Asked'
<1>1. /\ link = "up" /\ reqs # <<>> /\ reqs' = Rest
      /\ UNCHANGED <<peerVars, link, auth, encrypted, db, p_hdl1, p_hdl2, p_hdl3>>
      /\ UNCHANGED <<conns, searched, finished, early>>
  BY DEF BlobError, Answered, hdlVars, histVars
<1>2. reqs \in Seq(RequestSet)
  BY DEF TypeInv
<1>3. /\ Rest \in Seq(RequestSet) /\ Len(Rest) = Len(reqs) - 1 /\ Len(reqs) \in Nat
      /\ \A i \in DOMAIN Rest : i + 1 \in DOMAIN reqs /\ Rest[i] = reqs[i + 1]
  BY <1>1, <1>2, HeadRequest
<1>4. Asked'
  <2>1. ~encrypted' => Len(reqs') <= 1
    BY <1>1, <1>3 DEF Asked
  <2>2. ASSUME NEW i \in DOMAIN reqs', reqs'[i].op = "read"
        PROVE  \E j \in DOMAIN reqs : reqs[j].op = "read"
    BY <1>1, <1>3, <2>2
  <2>3. link' = "up" /\ (\E i \in DOMAIN reqs' : reqs'[i].op = "read") => p_hdl1' \in Hdl
    BY <1>1, <2>2 DEF Asked
  <2> QED
    BY <2>1, <2>3 DEF Asked, Hdl
<1>5. /\ reqs' \in Seq(RequestSet) /\ auth' \in BOOLEAN
      /\ link' \in {"down", "up", "closing"} /\ encrypted' \in BOOLEAN
      /\ searched' \in BOOLEAN /\ finished' \in BOOLEAN /\ early' \in BOOLEAN
      /\ db' \in [Hdl -> Entry] /\ p_hdl2' \in 0 .. MaxHdl
      /\ p_hdl1' \in Nat /\ p_hdl3' \in Nat
      /\ UNCHANGED <<peerVars, conns>>
  BY <1>1, <1>3 DEF TypeInv
<1>6. TypeInv'
  BY <1>5, TypesRest
<1> QED
  BY <1>4, <1>6

LEMMA WriteRspTypes ==
    ASSUME TypeInv, Asked, WriteRsp
    PROVE  TypeInv' /\ Asked'
<1>1. /\ link = "up" /\ reqs # <<>>
      /\ Do(Rest, DbWrite(db, p_hdl1, p_hdl1 + 1), auth)
      /\ UNCHANGED <<peerVars, encrypted, db, p_hdl2, p_hdl3, conns, searched, early>>
  BY DEF WriteRsp, Answered
<1>2. /\ db \in [Hdl -> Entry] /\ encrypted \in BOOLEAN /\ p_hdl2 \in 0 .. MaxHdl
      /\ p_hdl1 \in Nat /\ reqs \in Seq(RequestSet) /\ auth \in BOOLEAN
      /\ link \in {"down", "up", "closing"} /\ finished \in BOOLEAN
      /\ p_hdl3 \in Nat /\ searched \in BOOLEAN /\ early \in BOOLEAN
  BY DEF TypeInv
<1>3. PICK st \in Nat : st = p_hdl1 + 1 /\ st >= 1
  BY <1>2
<1>4. PICK s : s = DbWrite(db, p_hdl1, st)
  OBVIOUS
<1>5. /\ s \in StepSet /\ Len(s.req) <= 1
      /\ s.hdl \in Hdl \/ (s.hdl = p_hdl1 /\ s.req = <<>>)
  BY <1>2, <1>3, <1>4, DbWriteSound
<1>6. /\ Rest \in Seq(RequestSet) /\ Len(Rest) = Len(reqs) - 1 /\ Len(reqs) \in Nat
      /\ \A i \in DOMAIN Rest : i + 1 \in DOMAIN reqs /\ Rest[i] = reqs[i + 1]
  BY <1>1, <1>2, HeadRequest
<1>7. Do(Rest, s, auth)
  BY <1>1, <1>3, <1>4
<1>8. StepTypes /\ Len(reqs') = Len(Rest) + Len(s.req)
  BY <1>2, <1>5, <1>6, <1>7, DoTypes
<1>9. Asked'
  <2>1. s.req \in Seq(RequestSet) /\ Len(s.req) \in Nat
    BY <1>5 DEF StepSet
  <2>2. Len(reqs') <= Len(reqs) /\ Len(reqs') \in Nat
    BY <1>5, <1>6, <1>8, <2>1
  <2>3. ~encrypted' => Len(reqs') <= 1
    BY <1>1, <1>6, <2>2 DEF Asked
  <2>4. p_hdl1' = s.hdl /\ reqs' = Rest \o s.req
    BY <1>7 DEF Do
  <2>5. ASSUME link' = "up", NEW i \in DOMAIN reqs', reqs'[i].op = "read"
        PROVE  p_hdl1' \in Hdl
    <3>1. CASE s.hdl = p_hdl1 /\ s.req = <<>>
      <4>1. reqs' = Rest
        BY <1>6, <2>4, <3>1
      <4>2. i + 1 \in DOMAIN reqs /\ reqs[i + 1].op = "read"
        BY <1>6, <2>5, <4>1
      <4> QED
        BY <1>1, <2>4, <3>1, <4>2 DEF Asked
    <3> QED
      BY <1>5, <2>4, <3>1
  <2>6. link' = "up" /\ (\E i \in DOMAIN reqs' : reqs'[i].op = "read") => p_hdl1' \in Hdl
    BY <2>5
  <2> QED
    BY <2>3, <2>6 DEF Asked, Hdl
<1>10. /\ encrypted' \in BOOLEAN /\ searched' \in BOOLEAN /\ early' \in BOOLEAN
       /\ db' \in [Hdl -> Entry] /\ p_hdl2' \in 0 .. MaxHdl /\ p_hdl3' \in Nat
       /\ UNCHANGED <<peerVars, conns>>
  BY <1>1, <1>2
<1>11. TypeInv'
  BY <1>8, <1>10, TypesRest DEF StepTypes
<1> QED
  BY <1>9, <1>11

LEMMA ConnectedTypes ==
    ASSUME TypeInv, Asked, Connected
    PROVE  TypeInv' /\ Asked'
<1>1. /\ link' = "up" /\ encrypted' = FALSE
      /\ db' = [h \in Hdl |-> Unknown]
      /\ reqs' = <<Request("group", 1, MaxHdl)>>
      /\ p_hdl1' = 1 /\ p_hdl2' = 0 /\ conns < MaxConns /\ conns' = conns + 1
      /\ searched' = FALSE /\ finished' = FALSE /\ early' = FALSE /\ auth' = FALSE
      /\ table' = table /\ last' = last /\ own' = own /\ p_hdl3' = p_hdl3
  BY DEF Connected, peerVars
<1>2. MaxHdl \in Nat /\ ByteMax \in Nat \ {0} /\ MaxConns \in Nat
  BY SdpAssumption
<1>3. Unknown \in Entry
  BY <1>2 DEF Unknown, Entry
<1>4. db' \in [Hdl -> Entry]
  BY <1>1, <1>3
<1>5. reqs' \in Seq(RequestSet) /\ Len(reqs') = 1 /\ DOMAIN reqs' = {1}
      /\ reqs'[1].op = "group"
  <2>1. PICK r \in RequestSet : r = Request("group", 1, MaxHdl) /\ r.op = "group"
    <3>1. PICK one \in Nat : one = 1
      OBVIOUS
    <3>2. /\ Request("group", one, MaxHdl) \in RequestSet
          /\ Request("group", one, MaxHdl).op = "group"
      BY <1>2, RequestType
    <3> QED
      BY <3>1, <3>2
  <2> QED
    BY <1>1, <2>1
<1>6. /\ table' \in Tables /\ last' \in {Len(table'), MaxHdl} /\ own' \in BOOLEAN
  BY <1>1 DEF TypeInv
<1>7. (own => last = Len(table) /\ Servable(table))'
  BY <1>1 DEF TypeInv, Servable, Hdl
<1>8. conns' \in 0 .. MaxConns /\ p_hdl2' \in 0 .. MaxHdl /\ p_hdl3' \in Nat
  BY <1>1, <1>2 DEF TypeInv
<1>9. db' \in [Hdl' -> Entry']
  BY <1>4 DEF Hdl, Entry, Kinds
<1>10. TypeInv'
  BY <1>1, <1>5, <1>6, <1>7, <1>8, <1>9 DEF TypeInv, RequestSet
<1>11. Asked'
  <2>1. ~encrypted' => Len(reqs') <= 1
    BY <1>5
  <2>2. ~\E i \in DOMAIN reqs' : reqs'[i].op = "read"
    BY <1>5
  <2> QED
    BY <2>1, <2>2 DEF Asked
<1> QED
  BY <1>10, <1>11

LEMMA EncryptedTypes ==
    ASSUME TypeInv, Asked, Encrypted
    PROVE  TypeInv' /\ Asked'
<1>1. /\ link = "up" /\ encrypted' = TRUE /\ early' = (early \/ ~auth)
      /\ Do(reqs, DbRead(db, TRUE, p_hdl1, 1, 0), FALSE)
      /\ UNCHANGED <<peerVars, db, p_hdl2, p_hdl3, conns, searched>>
  BY DEF Encrypted
<1>2. /\ db \in [Hdl -> Entry] /\ p_hdl2 \in 0 .. MaxHdl
      /\ p_hdl1 \in Nat /\ reqs \in Seq(RequestSet) /\ auth \in BOOLEAN
      /\ link \in {"down", "up", "closing"} /\ finished \in BOOLEAN
      /\ p_hdl3 \in Nat /\ searched \in BOOLEAN /\ early \in BOOLEAN
  BY DEF TypeInv
<1>3. PICK one \in Nat, zero \in Nat, enc \in BOOLEAN, no \in BOOLEAN :
        one = 1 /\ zero = 0 /\ enc = TRUE /\ no = FALSE /\ one >= 1
  <2>1. PICK one \in Nat, zero \in Nat : one = 1 /\ zero = 0 /\ one >= 1
    OBVIOUS
  <2>2. TRUE \in BOOLEAN /\ FALSE \in BOOLEAN
    OBVIOUS
  <2> QED
    BY ONLY <2>1, <2>2, Zenon
<1>4. PICK s : s = DbRead(db, enc, p_hdl1, one, zero)
  OBVIOUS
<1>5. Sound(s, enc)
  BY <1>2, <1>3, <1>4, DbReadSound
<1>6. s \in StepSet /\ (s.hdl \in Hdl \/ s.close)
  BY <1>3, <1>5 DEF Sound
<1>7. Do(reqs, s, no)
  BY <1>1, <1>3, <1>4
<1>8. StepTypes /\ (s.close => link' # "up")
  BY <1>2, <1>6, <1>7, DoTypes
<1>9. Asked'
  <2>1. p_hdl1' = s.hdl
    BY <1>7 DEF Do
  <2>2. link' = "up" => p_hdl1' \in Hdl
    BY <1>6, <1>8, <2>1
  <2> QED
    BY <1>1, <2>2 DEF Asked, Hdl
<1>10. /\ encrypted' \in BOOLEAN /\ searched' \in BOOLEAN /\ early' \in BOOLEAN
       /\ db' \in [Hdl -> Entry] /\ p_hdl2' \in 0 .. MaxHdl /\ p_hdl3' \in Nat
       /\ UNCHANGED <<peerVars, conns>>
  BY <1>1, <1>2
<1>11. TypeInv'
  BY <1>8, <1>10, TypesRest DEF StepTypes
<1> QED
  BY <1>9, <1>11

LEMMA DisconnectedTypes ==
    ASSUME TypeInv, Asked, Disconnected
    PROVE  TypeInv' /\ Asked'
<1>1. /\ link' = "down" /\ reqs' = <<>> /\ auth' = FALSE
      /\ UNCHANGED <<peerVars, encrypted, db, p_hdl1, p_hdl2, p_hdl3>>
      /\ UNCHANGED <<conns, searched, finished, early>>
  BY DEF Disconnected, hdlVars, histVars
<1>2. reqs' \in Seq(RequestSet) /\ Len(reqs') <= 1
  BY <1>1
<1>3. /\ auth' \in BOOLEAN
      /\ link' \in {"down", "up", "closing"} /\ encrypted' \in BOOLEAN
      /\ searched' \in BOOLEAN /\ finished' \in BOOLEAN /\ early' \in BOOLEAN
      /\ db' \in [Hdl -> Entry] /\ p_hdl2' \in 0 .. MaxHdl
      /\ p_hdl1' \in Nat /\ p_hdl3' \in Nat
      /\ UNCHANGED <<peerVars, conns>>
  BY <1>1 DEF TypeInv
<1>4. TypeInv'
  BY <1>2, <1>3, TypesRest
<1> QED
  BY <1>1, <1>2, <1>4 DEF Asked

(* Every step keeps types.                                                 *)
LEMMA TypesKept ==
    ASSUME TypeInv, Asked, Next
    PROVE  TypeInv' /\ Asked'
  BY ReadGroupRspTypes, ReadGroupEndTypes, ReadByTypeRspTypes, ReadByTypeEndTypes,
     FindInfoRspTypes, FindInfoEndTypes, ReadRspTypes, ReadErrorTypes, BlobErrorTypes,
     WriteRspTypes, ConnectedTypes, EncryptedTypes, DisconnectedTypes DEF Next, Client

-----------------------------------------------------------------------------
(* The search.  What is known once stays known.                            *)
Learns == \A h \in Hdl : Known(h) => Known(h)'

LEMMA StaysSettled ==
    ASSUME TypeInv, Learns, UNCHANGED <<table, own>>, NEW n
    PROVE  /\ ServsBelow(n) => ServsBelow(n)'
           /\ DeclsBelow(n) => DeclsBelow(n)'
           /\ Settled(n) => Settled(n)'
<1>1. table \in Tables /\ table' = table /\ own' = own
  BY DEF TypeInv
<1>2. /\ \A h \in DOMAIN table : h \in Hdl
      /\ \A h \in DOMAIN table : table[h].kind = "decl" => h + 1 \in DOMAIN table
  BY <1>1, TableFacts
<1>3. ServsBelow(n) => ServsBelow(n)'
  BY <1>1, <1>2 DEF ServsBelow, Learns
<1>4. ASSUME DeclsBelow(n) PROVE DeclsBelow(n)'
  BY <1>1, <1>2, <1>4 DEF DeclsBelow, Learns
<1>5. Settled(n) => Settled(n)'
  BY <1>1, <1>2 DEF Settled, Learns
<1> QED
  BY <1>3, <1>4, <1>5

LEMMA OneRequest ==
    ASSUME NEW r \in RequestSet, reqs = <<r>>
    PROVE  reqs # <<>> /\ Head(reqs) = r /\ Rest = <<>>
  BY DEF Rest

(* While the search is on, there is one request, of its stage.             *)
LEMMA Asking ==
    ASSUME TypeInv, SearchInv, link = "up", reqs # <<>>,
           Head(reqs).op \in {"group", "type", "info"}
    PROVE  /\ ~searched /\ Searching
           /\ Head(reqs) \in RequestSet /\ reqs = <<Head(reqs)>> /\ Rest = <<>>
           /\ Head(reqs).op = "group" => GroupStage(Head(reqs))
           /\ Head(reqs).op = "type" => TypeStage(Head(reqs))
           /\ Head(reqs).op = "info" => InfoStage(Head(reqs))
<1>1. reqs \in Seq(RequestSet) /\ searched \in BOOLEAN
  BY DEF TypeInv
<1>2. Head(reqs) = reqs[1] /\ 1 \in DOMAIN reqs
  BY <1>1, HeadRequest
<1>3. ~searched
  BY <1>2 DEF SearchInv
<1>4. Searching
  BY <1>3 DEF SearchInv
<1>5. PICK r \in RequestSet : reqs = <<r>> /\ (GroupStage(r) \/ TypeStage(r) \/ InfoStage(r))
  BY <1>4 DEF Searching
<1>6. Head(reqs) = r /\ Rest = <<>>
  BY <1>5, OneRequest
<1>7. /\ r.op = "group" => GroupStage(r)
      /\ r.op = "type" => TypeStage(r)
      /\ r.op = "info" => InfoStage(r)
  BY <1>5 DEF GroupStage, TypeStage, InfoStage
<1> QED
  BY <1>3, <1>4, <1>5, <1>6, <1>7

(* And then there are only reads and writes.                               *)
LEMMA AfterSearch ==
    ASSUME TypeInv, SearchInv, link = "up", reqs # <<>>, Head(reqs).op \in {"read", "write"}
    PROVE  searched
<1>1. ASSUME ~searched PROVE FALSE
  <2>1. Searching
    BY <1>1 DEF SearchInv
  <2>2. PICK r \in RequestSet : reqs = <<r>> /\ (GroupStage(r) \/ TypeStage(r) \/ InfoStage(r))
    BY <2>1 DEF Searching
  <2>3. Head(reqs) = r
    BY <2>2, OneRequest
  <2> QED
    BY <2>2, <2>3 DEF GroupStage, TypeStage, InfoStage
<1> QED
  BY <1>1

(* The next request of the search.                                         *)
LEMMA AskSearches ==
    ASSUME TypeInv', SearchInv, Searching, Rest = <<>>, NEW r \in RequestSet, Ask(r),
           link = "up", ~searched,
           GroupStage(r)' \/ TypeStage(r)' \/ InfoStage(r)',
           Untouched', FoundIsReal', UNCHANGED <<encrypted, searched, finished, early>>
    PROVE  SearchInv'
<1>1. reqs' = <<r>> /\ link' = "up" /\ auth' = auth
  BY DEF Ask
<1>2. ~auth' /\ ~encrypted' /\ ~finished' /\ ~early' /\ ~searched'
  BY <1>1 DEF Searching
<1>3. Searching'
  <2>1. r \in RequestSet'
    BY DEF RequestSet
  <2>2. \E q \in RequestSet' :
            reqs' = <<q>> /\ (GroupStage(q)' \/ TypeStage(q)' \/ InfoStage(q)')
    BY <1>1, <2>1
  <2> QED
    BY <1>2, <2>2 DEF Searching
<1> QED
  BY <1>2, <1>3 DEF SearchInv

LEMMA ReadGroupRspSearch ==
    ASSUME TypeInv, TypeInv', SearchInv, ReadGroupRsp
    PROVE  SearchInv'
<1>1. link = "up" /\ reqs # <<>> /\ GroupSearch # <<>> /\ Head(reqs).op = "group"
  BY DEF ReadGroupRsp, Answered
<1>2. PICK N : N = Len(GroupSearch)
  OBVIOUS
<1>3. PICK f : f = Head(reqs).from
  OBVIOUS
<1>4. /\ ServiceFacts(table, f, MaxHdl, last, GroupSearch, N)
      /\ Counts(GroupSearch, GroupRows(GroupSearch)) \subseteq 1 .. N
  BY <1>1, <1>2, <1>3, GroupSearchFacts
<1>5. PICK n \in 1 .. N :
        LET rows == SubSeq(GroupSearch, 1, n)
            end == rows[n].end
        IN  /\ db' = [h \in Hdl |->
                        IF \E k \in 1..n : rows[k].hdl = h
                        THEN [db[h] EXCEPT !.type = "serv", !.read = TRUE]
                        ELSE db[h]]
            /\ p_hdl2' = Max({end, p_hdl2})
            /\ Ask(IF end = MaxHdl THEN Request("type", 1, MaxHdl)
                   ELSE Request("group", end + 1, MaxHdl))
  BY <1>4 DEF ReadGroupRsp
<1>6. PICK rows : rows = GroupSearch
  OBVIOUS
<1>7. /\ rows \in Seq(ServiceRow) /\ N \in Nat /\ N = Len(rows)
      /\ \A k \in 1 .. N :
           /\ rows[k].hdl \in DOMAIN table /\ f <= rows[k].hdl
           /\ table[rows[k].hdl].kind = "serv"
           /\ rows[k].hdl <= rows[k].end
      /\ \A h \in DOMAIN table :
           f <= h /\ h <= rows[n].end /\ table[h].kind = "serv" => \E j \in 1 .. n : rows[j].hdl = h
      /\ IF n < N THEN /\ rows[n].end + 1 \in DOMAIN table
                       /\ table[rows[n].end + 1].kind = "serv"
         ELSE rows[n].end >= Len(table)
  <2>1. ServiceFacts(table, f, MaxHdl, last, rows, N)
    BY <1>4, <1>6
  <2>2. rows \in Seq(ServiceRow) /\ N \in Nat /\ N = Len(rows)
    BY <1>2, <1>6, <2>1 DEF ServiceFacts
  <2>3. \A k \in 1 .. N :
           /\ rows[k].hdl \in DOMAIN table /\ f <= rows[k].hdl
           /\ table[rows[k].hdl].kind = "serv"
           /\ rows[k].hdl <= rows[k].end
    BY <2>1 DEF ServiceFacts
  <2>4. \A h \in DOMAIN table :
           f <= h /\ h <= rows[n].end /\ table[h].kind = "serv" => \E j \in 1 .. n : rows[j].hdl = h
    BY <2>1 DEF ServiceFacts
  <2>5. IF n < N THEN /\ rows[n].end + 1 \in DOMAIN table
                      /\ table[rows[n].end + 1].kind = "serv"
        ELSE rows[n].end >= Len(table)
    BY <2>1 DEF ServiceFacts
  <2> QED
    BY ONLY <2>2, <2>3, <2>4, <2>5, Zenon
<1>8. \A k \in 1 .. n : k \in 1 .. N /\ SubSeq(rows, 1, n)[k] = rows[k]
  BY <1>7
<1>9. PICK end : end = rows[n].end
  OBVIOUS
<1>10. end \in Nat /\ n \in 1 .. n
  <2>1. rows[n] \in ServiceRow
    BY <1>7
  <2>2. rows[n].end \in Nat
    BY <2>1 DEF ServiceRow
  <2>3. n \in 1 .. n
    BY <1>7
  <2> QED
    BY <1>9, <2>2, <2>3
<1>11. /\ db' = [h \in Hdl |-> IF \E k \in 1..n : rows[k].hdl = h
                               THEN [db[h] EXCEPT !.type = "serv", !.read = TRUE]
                               ELSE db[h]]
       /\ p_hdl2' = Max({end, p_hdl2})
       /\ Ask(IF end = MaxHdl THEN Request("type", 1, MaxHdl)
              ELSE Request("group", end + 1, MaxHdl))
  BY <1>5, <1>6, <1>8, <1>9, <1>10
<1>12. /\ table \in Tables /\ db \in [Hdl -> Entry] /\ p_hdl2 \in 0 .. MaxHdl
       /\ MaxHdl \in Nat /\ reqs \in Seq(RequestSet)
  BY SdpAssumption DEF TypeInv
<1>13. /\ ~searched /\ Searching /\ Rest = <<>> /\ GroupStage(Head(reqs))
  BY <1>1, Asking
<1>14. f = p_hdl2 + 1 /\ ServsBelow(f)
  BY <1>3, <1>13 DEF GroupStage
<1>15. p_hdl2' = end
  <2>1. f <= rows[n].hdl /\ rows[n].hdl <= end /\ rows[n].hdl \in Nat
    BY <1>7, <1>9, <1>12, TableFacts
  <2>2. p_hdl2 < end
    BY <1>10, <1>12, <1>14, <2>1
  <2>3. end \in Int /\ p_hdl2 \in Int
    BY <1>10, <1>12
  <2>4. Max({end, p_hdl2}) \in {end, p_hdl2} /\ end <= Max({end, p_hdl2})
    BY <2>3, Max2
  <2>5. PICK m : m = Max({end, p_hdl2})
    OBVIOUS
  <2>6. m \in {end, p_hdl2} /\ end <= m
    BY <2>4, <2>5
  <2>7. m = end
    BY <2>2, <2>3, <2>6
  <2> QED
    BY <1>11, <2>5, <2>7
<1>16. \A h \in Hdl :
         /\ db'[h] = IF \E k \in 1..n : rows[k].hdl = h
                     THEN [db[h] EXCEPT !.type = "serv", !.read = TRUE] ELSE db[h]
         /\ db[h] \in Entry
  BY <1>11, <1>12
<1>17. \A h \in Hdl :
         /\ (\E k \in 1..n : rows[k].hdl = h) => db'[h].type = "serv"
         /\ ~(\E k \in 1..n : rows[k].hdl = h) => db'[h] = db[h]
         /\ db'[h].perm = db[h].perm /\ db'[h].len = db[h].len /\ db'[h].from = db[h].from
  <2> SUFFICES ASSUME NEW h \in Hdl
               PROVE  /\ (\E k \in 1..n : rows[k].hdl = h) => db'[h].type = "serv"
                      /\ ~(\E k \in 1..n : rows[k].hdl = h) => db'[h] = db[h]
                      /\ db'[h].perm = db[h].perm /\ db'[h].len = db[h].len
                      /\ db'[h].from = db[h].from
    BY Zenon
  <2>1. PICK e \in Entry : e = db[h]
    BY <1>16
  <2>2. CASE \E k \in 1..n : rows[k].hdl = h
    <3>1. db'[h] = [e EXCEPT !.type = "serv", !.read = TRUE]
      BY <1>16, <2>1, <2>2
    <3>2. PICK g : g = [e EXCEPT !.type = "serv", !.read = TRUE]
      OBVIOUS
    <3>3. g.type = "serv" /\ g.perm = e.perm /\ g.len = e.len /\ g.from = e.from
      BY <3>2 DEF Entry
    <3> QED
      BY <2>1, <2>2, <3>1, <3>2, <3>3
  <2>3. CASE ~\E k \in 1..n : rows[k].hdl = h
    <3>1. db'[h] = db[h]
      BY <1>16, <2>3
    <3> QED
      BY <2>3, <3>1
  <2> QED
    BY <2>2, <2>3
<1>18. UNCHANGED <<table, own, encrypted, searched, finished, early>>
  BY DEF ReadGroupRsp, peerVars, histVars
<1>19. Learns
  BY <1>17 DEF Learns, Known
<1>20. Untouched'
  BY <1>13, <1>17 DEF Searching, Untouched, Hdl
<1>21. FoundIsReal'
  <2>1. CASE WideDesc
    BY <1>18, <2>1 DEF FoundIsReal, WideDesc
  <2>2. CASE ~WideDesc
    <3> SUFFICES ASSUME NEW h \in Hdl, db'[h].type # "none"
                 PROVE  /\ h \in DOMAIN table
                        /\ db'[h].type = table[h].kind
                        /\ db'[h].type = "value" => /\ db'[h].read = table[h].read
                                                    /\ db'[h].write = table[h].write
      BY <1>18 DEF FoundIsReal, WideDesc, Hdl
    <3>1. CASE \E k \in 1..n : rows[k].hdl = h
      <4>1. h \in DOMAIN table /\ table[h].kind = "serv"
        BY <1>7, <1>8, <3>1
      <4>2. db'[h].type = "serv"
        BY <1>17, <3>1
      <4> QED
        BY <4>1, <4>2
    <3>2. CASE ~\E k \in 1..n : rows[k].hdl = h
      <4>1. db'[h] = db[h]
        BY <1>17, <3>2
      <4> QED
        BY <2>2, <4>1 DEF SearchInv, FoundIsReal
    <3> QED
      BY <3>1, <3>2
  <2> QED
    BY <2>1, <2>2
<1>22. ServsBelow(f)'
  BY <1>14, <1>18, <1>19, StaysSettled
<1>23. ASSUME NEW h \in DOMAIN table, table[h].kind = "serv", h <= end PROVE Known(h)'
  <2>1. h \in Hdl /\ h \in Nat
    BY <1>12, TableFacts DEF Hdl
  <2>2. CASE h < f
    BY <1>18, <1>22, <1>23, <2>2 DEF ServsBelow
  <2>3. CASE f <= h
    <3>1. \E j \in 1 .. n : rows[j].hdl = h
      BY <1>7, <1>9, <1>23, <2>3
    <3> QED
      BY <1>17, <2>1, <3>1 DEF Known
  <2> QED
    BY <1>12, <1>14, <2>1, <2>2, <2>3
<1>24. PICK r : r = IF end = MaxHdl THEN Request("type", 1, MaxHdl)
                    ELSE Request("group", end + 1, MaxHdl)
  OBVIOUS
<1>25. r \in RequestSet /\ (GroupStage(r)' \/ TypeStage(r)')
  <2>1. Len(table) \in Nat /\ DOMAIN table = 1 .. Len(table) /\ Len(table) < MaxHdl
    BY <1>12, TableFacts
  <2>2. CASE end = MaxHdl
    <3>1. PICK one \in Nat : one = 1
      OBVIOUS
    <3>2. /\ r \in RequestSet /\ r.op = "type" /\ r.from = 1
      <4>1. r = Request("type", one, MaxHdl)
        BY <1>24, <2>2, <3>1
      <4> QED
        BY <1>12, <3>1, <4>1, RequestType
    <3>3. ServsBelow(MaxHdl)'
      <4>1. \A h \in DOMAIN table : h <= end
        BY <1>12, <2>1, <2>2
      <4> QED
        BY <1>18, <1>23, <4>1 DEF ServsBelow
    <3>4. DeclsBelow(1)'
      BY <1>18, <2>1 DEF DeclsBelow
    <3>5. p_hdl2' >= Len(table')
      <4>1. end >= Len(table)
        BY <1>12, <2>1, <2>2
      <4> QED
        BY <1>15, <1>18, <4>1
    <3> QED
      BY <3>2, <3>3, <3>4, <3>5 DEF TypeStage
  <2>3. CASE end # MaxHdl
    <3>1. PICK g \in Nat : g = end + 1
      BY <1>10
    <3>2. r \in RequestSet /\ r.op = "group" /\ r.from = g
      <4>1. r = Request("group", g, MaxHdl)
        BY <1>24, <2>3, <3>1
      <4> QED
        BY <1>12, <3>1, <4>1, RequestType
    <3>3. ServsBelow(g)'
      <4>1. \A h \in DOMAIN table : h < g => h <= end
        BY <1>10, <2>1, <3>1
      <4> QED
        BY <1>18, <1>23, <4>1 DEF ServsBelow
    <3>4. p_hdl2' >= Len(table') \/ table'[p_hdl2' + 1].kind = "serv"
      BY <1>7, <1>9, <1>15, <1>18
    <3>5. r.from = p_hdl2' + 1
      BY <1>15, <3>1, <3>2
    <3> QED
      BY <3>2, <3>3, <3>4, <3>5 DEF GroupStage
  <2> QED
    BY <2>2, <2>3
<1>26. Ask(r)
  BY <1>11, <1>24
<1> QED
  BY <1>1, <1>13, <1>18, <1>20, <1>21, <1>25, <1>26, AskSearches


LEMMA ReadGroupEndSearch ==
    ASSUME TypeInv, TypeInv', SearchInv, ReadGroupEnd
    PROVE  SearchInv'
<1>1. link = "up" /\ reqs # <<>> /\ GroupSearch = <<>> /\ Head(reqs).op = "group"
  BY DEF ReadGroupEnd, Answered
<1>2. PICK f : f = Head(reqs).from
  OBVIOUS
<1>3. ServiceFacts(table, f, MaxHdl, last, GroupSearch, Len(GroupSearch))
  BY <1>1, <1>2, GroupSearchFacts
<1>4. \A h \in DOMAIN table : ~(f <= h /\ table[h].kind = "serv")
  BY <1>1, <1>3 DEF ServiceFacts
<1>5. ~searched /\ Searching /\ Rest = <<>> /\ GroupStage(Head(reqs))
  BY <1>1, Asking
<1>6. /\ f = p_hdl2 + 1 /\ ServsBelow(f)
      /\ p_hdl2 = 0 \/ p_hdl2 >= Len(table) \/ table[p_hdl2 + 1].kind = "serv"
  BY <1>2, <1>5 DEF GroupStage
<1>7. /\ table \in Tables /\ p_hdl2 \in Nat /\ Len(table) \in Nat /\ MaxHdl \in Nat
      /\ DOMAIN table = 1 .. Len(table) /\ (1 \in DOMAIN table => table[1].kind = "serv")
  BY TableFacts DEF TypeInv
<1>8. p_hdl2 >= Len(table)
  <2>1. ASSUME ~(p_hdl2 >= Len(table)) PROVE FALSE
    <3>1. f \in DOMAIN table /\ f <= f
      BY <1>6, <1>7, <2>1
    <3>2. table[f].kind = "serv"
      BY <1>6, <1>7, <2>1, <3>1
    <3> QED
      BY <1>4, <3>1, <3>2
  <2> QED
    BY <2>1
<1>9. ServsBelow(MaxHdl)
  <2> SUFFICES ASSUME NEW h \in DOMAIN table, table[h].kind = "serv" PROVE Known(h)
    BY DEF ServsBelow
  <2>1. h < f
    BY <1>4, <1>6, <1>7
  <2> QED
    BY <1>6, <2>1 DEF ServsBelow
<1>10. DeclsBelow(1)
  BY <1>7 DEF DeclsBelow
<1>11. PICK one \in Nat : one = 1
  OBVIOUS
<1>12. PICK r : r = Request("type", one, MaxHdl)
  OBVIOUS
<1>13. r \in RequestSet /\ r.op = "type" /\ r.from = 1
  BY <1>7, <1>11, <1>12, RequestType
<1>14. /\ Ask(r)
       /\ UNCHANGED <<table, own, encrypted, db, p_hdl2, searched, finished, early>>
  BY <1>11, <1>12 DEF ReadGroupEnd, peerVars, hdlVars, histVars
<1>15. TypeStage(r)'
  <2>1. TypeStage(r)
    BY <1>8, <1>9, <1>10, <1>13 DEF TypeStage
  <2> QED
    BY <1>14, <2>1 DEF TypeStage, ServsBelow, DeclsBelow, Known
<1>16. Untouched' /\ FoundIsReal'
  <2>1. Untouched /\ FoundIsReal
    BY <1>5 DEF Searching, SearchInv
  <2> QED
    BY <1>14, <2>1 DEF Untouched, FoundIsReal, WideDesc, Hdl
<1> QED
  BY <1>1, <1>5, <1>13, <1>14, <1>15, <1>16, AskSearches

(* What is stored of a declaration, and of the value behind it.            *)
LEMMA StoreCharsSays ==
    ASSUME db \in [Hdl -> Entry], NEW rows \in SUBSET CharRow, NEW h \in Hdl
    PROVE  /\ (\E r \in rows : h \in {r.hdl, r.val}) =>
                \E r \in rows :
                    /\ h \in {r.hdl, r.val}
                    /\ StoreChars(rows)[h].type = CharType(r, h)
                    /\ StoreChars(rows)[h].read = r.read
                    /\ StoreChars(rows)[h].write = r.write
           /\ ~(\E r \in rows : h \in {r.hdl, r.val}) => StoreChars(rows)[h] = db[h]
           /\ StoreChars(rows)[h].perm = db[h].perm
           /\ StoreChars(rows)[h].len = db[h].len
           /\ StoreChars(rows)[h].from = db[h].from
<1>1. PICK e \in Entry : e = db[h]
  OBVIOUS
<1>2. CASE \E r \in rows : h \in {r.hdl, r.val}
  <2>1. PICK r : r = CHOOSE q \in rows : h \in {q.hdl, q.val}
    OBVIOUS
  <2>2. r \in rows /\ h \in {r.hdl, r.val}
    BY <1>2, <2>1
  <2>3. PICK ty, rd, wr : ty = CharType(r, h) /\ rd = r.read /\ wr = r.write
    OBVIOUS
  <2>4. PICK g : g = [e EXCEPT !.type = ty, !.read = rd, !.write = wr]
    OBVIOUS
  <2>5. StoreChars(rows)[h] = g
    BY <1>1, <1>2, <2>1, <2>3, <2>4 DEF StoreChars
  <2>6. /\ g.type = ty /\ g.read = rd /\ g.write = wr
        /\ g.perm = e.perm /\ g.len = e.len /\ g.from = e.from
    BY <2>4 DEF Entry
  <2> QED
    BY <1>1, <1>2, <2>2, <2>3, <2>5, <2>6
<1>3. CASE ~\E r \in rows : h \in {r.hdl, r.val}
  <2>1. StoreChars(rows)[h] = db[h]
    BY <1>3 DEF StoreChars
  <2> QED
    BY <1>3, <2>1
<1> QED
  BY <1>2, <1>3

LEMMA ReadByTypeRspSearch ==
    ASSUME TypeInv, TypeInv', SearchInv, ReadByTypeRsp
    PROVE  SearchInv'
<1>1. link = "up" /\ reqs # <<>> /\ TypeSearch # <<>> /\ Head(reqs).op = "type"
  BY DEF ReadByTypeRsp, Answered
<1>2. PICK N : N = Len(TypeSearch)
  OBVIOUS
<1>3. PICK f : f = Head(reqs).from
  OBVIOUS
<1>4. /\ CharFacts(table, f, TypeSearch, N)
      /\ Counts(TypeSearch, TypeRows(TypeSearch)) \subseteq 1 .. N
  BY <1>1, <1>2, <1>3, TypeSearchFacts
<1>5. PICK n \in 1 .. N :
        /\ db' = StoreChars(ToSet(SubSeq(TypeSearch, 1, n)))
        /\ Ask(Request("type", AfterChar(TypeSearch[n]), MaxHdl))
  BY <1>4 DEF ReadByTypeRsp
<1>6. PICK seq : seq = TypeSearch
  OBVIOUS
<1>7. CharFacts(table, f, seq, N)
  BY <1>4, <1>6
<1>8. seq \in Seq(CharRow) /\ N \in Nat /\ N = Len(seq)
  BY <1>2, <1>6, <1>7 DEF CharFacts
<1>9. \A k \in 1 .. N :
         /\ seq[k].hdl \in DOMAIN table /\ f <= seq[k].hdl
         /\ table[seq[k].hdl].kind = "decl"
         /\ seq[k].val = seq[k].hdl + 1
         /\ seq[k].read = table[seq[k].val].read
         /\ seq[k].write = table[seq[k].val].write
  BY <1>7 DEF CharFacts
<1>10. \A h \in DOMAIN table :
         f <= h /\ h <= seq[n].hdl /\ table[h].kind = "decl" => \E j \in 1 .. n : seq[j].hdl = h
  BY <1>7 DEF CharFacts
<1>11. PICK rows : rows = ToSet(SubSeq(seq, 1, n))
  OBVIOUS
<1>12. /\ rows \in SUBSET CharRow
       /\ \A j \in 1 .. n : seq[j] \in rows
       /\ \A r \in rows : \E j \in 1 .. N : r = seq[j]
  <2>1. /\ SubSeq(seq, 1, n) \in Seq(CharRow) /\ DOMAIN SubSeq(seq, 1, n) = 1 .. n
        /\ \A j \in 1 .. n : j \in 1 .. N /\ SubSeq(seq, 1, n)[j] = seq[j]
    BY <1>8
  <2>2. rows = {SubSeq(seq, 1, n)[j] : j \in 1 .. n}
    BY <1>11, <2>1 DEF ToSet
  <2> QED
    BY <1>8, <2>1, <2>2
<1>13. /\ table \in Tables /\ db \in [Hdl -> Entry] /\ MaxHdl \in Nat
       /\ Len(table) \in Nat /\ DOMAIN table = 1 .. Len(table)
       /\ \A h \in DOMAIN table : h \in Hdl /\ h \in Nat
       /\ \A h \in DOMAIN table :
            table[h].kind = "decl" => h + 1 \in DOMAIN table /\ table[h + 1].kind = "value"
  <2>1. table \in Tables /\ db \in [Hdl -> Entry] /\ MaxHdl \in Nat
    BY SdpAssumption DEF TypeInv
  <2>2. /\ Len(table) \in Nat /\ DOMAIN table = 1 .. Len(table) /\ Len(table) < MaxHdl
        /\ \A h \in DOMAIN table :
             table[h].kind = "decl"
             => h + 1 \in DOMAIN table /\ table[h + 1].kind = "value"
    BY <2>1, TableFacts
  <2>3. \A h \in DOMAIN table : h \in Hdl /\ h \in Nat
    BY <2>1, <2>2 DEF Hdl
  <2> QED
    BY <2>1, <2>2, <2>3
<1>14. ~searched /\ Searching /\ Rest = <<>> /\ TypeStage(Head(reqs))
  BY <1>1, Asking
<1>15. f >= 1 /\ p_hdl2 >= Len(table) /\ ServsBelow(MaxHdl) /\ DeclsBelow(f)
  BY <1>3, <1>14 DEF TypeStage
<1>16. db' = StoreChars(rows) /\ Ask(Request("type", AfterChar(seq[n]), MaxHdl))
  BY <1>5, <1>6, <1>11
<1>17. UNCHANGED <<table, own, encrypted, p_hdl2, searched, finished, early>>
  BY DEF ReadByTypeRsp, peerVars, hdlVars, histVars
<1>18. ASSUME NEW h \in Hdl, \E r \in rows : h \in {r.hdl, r.val}
       PROVE  /\ h \in DOMAIN table /\ db'[h].type = table[h].kind
              /\ db'[h].type = "value" => /\ db'[h].read = table[h].read
                                          /\ db'[h].write = table[h].write
              /\ Known(h)'
  <2>1. PICK r \in rows : /\ h \in {r.hdl, r.val}
                          /\ db'[h].type = CharType(r, h)
                          /\ db'[h].read = r.read /\ db'[h].write = r.write
    BY <1>12, <1>13, <1>16, <1>18, StoreCharsSays
  <2>2. /\ r.hdl \in DOMAIN table /\ table[r.hdl].kind = "decl" /\ r.val = r.hdl + 1
        /\ r.read = table[r.val].read /\ r.write = table[r.val].write
    BY <1>9, <1>12, <2>1
  <2>3. r.val \in DOMAIN table /\ table[r.val].kind = "value" /\ r.val # r.hdl
    BY <1>13, <2>2
  <2>4. CASE h = r.hdl
    <3>1. db'[h].type = "decl"
      BY <2>1, <2>4 DEF CharType
    <3> QED
      BY <2>2, <2>4, <3>1 DEF Known
  <2>5. CASE h = r.val
    <3>1. db'[h].type = "value"
      BY <2>1, <2>3, <2>5 DEF CharType
    <3> QED
      BY <2>1, <2>2, <2>3, <2>5, <3>1 DEF Known
  <2> QED
    BY <2>1, <2>4, <2>5
<1>19. \A h \in Hdl : ~(\E r \in rows : h \in {r.hdl, r.val}) => db'[h] = db[h]
  BY <1>12, <1>13, <1>16, StoreCharsSays
<1>20. Learns
  BY <1>18, <1>19 DEF Learns, Known
<1>21. Untouched'
  <2>1. \A h \in Hdl : db'[h].perm = db[h].perm /\ db'[h].len = db[h].len
                        /\ db'[h].from = db[h].from
    BY <1>12, <1>13, <1>16, StoreCharsSays
  <2> QED
    BY <1>14, <2>1 DEF Searching, Untouched, Hdl
<1>22. FoundIsReal'
  <2>1. CASE WideDesc
    BY <1>17, <2>1 DEF FoundIsReal, WideDesc
  <2>2. CASE ~WideDesc
    <3> SUFFICES ASSUME NEW h \in Hdl, db'[h].type # "none"
                 PROVE  /\ h \in DOMAIN table
                        /\ db'[h].type = table[h].kind
                        /\ db'[h].type = "value" => /\ db'[h].read = table[h].read
                                                    /\ db'[h].write = table[h].write
      BY <1>17 DEF FoundIsReal, WideDesc, Hdl
    <3>1. CASE \E r \in rows : h \in {r.hdl, r.val}
      BY <1>18, <3>1
    <3>2. CASE ~\E r \in rows : h \in {r.hdl, r.val}
      <4>1. db'[h] = db[h]
        BY <1>19, <3>2
      <4> QED
        BY <2>2, <4>1 DEF SearchInv, FoundIsReal
    <3> QED
      BY <3>1, <3>2
  <2> QED
    BY <2>1, <2>2
<1>23. ServsBelow(MaxHdl)' /\ DeclsBelow(f)'
  BY <1>15, <1>17, <1>20, StaysSettled
<1>24. PICK g \in DOMAIN table : g = seq[n].hdl /\ f <= g /\ table[g].kind = "decl"
  BY <1>9
<1>25. PICK p \in Nat : p = g + 2 /\ p = AfterChar(seq[n])
  <2>1. seq[n].val = g + 1
    BY <1>9, <1>24
  <2>2. g + 1 + 1 = g + 2 /\ g + 2 \in Nat
    BY <1>13
  <2>3. AfterChar(seq[n]) = g + 2
    BY <2>1, <2>2 DEF AfterChar
  <2> QED
    BY <2>2, <2>3
<1>26. DeclsBelow(p)'
  <2> SUFFICES ASSUME NEW h \in DOMAIN table, table[h].kind = "decl", h < p
               PROVE  Known(h)' /\ Known(h + 1)'
    BY <1>17 DEF DeclsBelow
  <2>1. h + 1 \in DOMAIN table /\ h \in Hdl /\ h + 1 \in Hdl
    BY <1>13
  <2>2. CASE h < f
    BY <1>17, <1>23, <2>2 DEF DeclsBelow
  <2>3. CASE ~(h < f)
    <3>1. h # g + 1
      BY <1>13, <1>24
    <3>2. f <= h /\ h <= seq[n].hdl
      <4>1. f \in Nat
        BY <1>1, <1>3, HeadRequest DEF TypeInv
      <4> QED
        BY <1>13, <1>24, <1>25, <2>3, <3>1, <4>1
    <3>3. PICK j \in 1 .. n : seq[j].hdl = h
      BY <1>10, <3>2
    <3>4. seq[j] \in rows /\ seq[j].val = h + 1
      BY <1>8, <1>9, <1>12, <3>3
    <3> QED
      BY <1>18, <2>1, <3>3, <3>4
  <2> QED
    BY <2>2, <2>3
<1>27. PICK r : r = Request("type", p, MaxHdl)
  OBVIOUS
<1>28. r \in RequestSet /\ r.op = "type" /\ r.from = p
  BY <1>13, <1>27, RequestType
<1>29. TypeStage(r)'
  <2>1. p >= 1
    BY <1>13, <1>25
  <2>2. p_hdl2' >= Len(table')
    BY <1>15, <1>17
  <2> QED
    BY <1>23, <1>26, <1>28, <2>1, <2>2 DEF TypeStage
<1>30. Ask(r)
  BY <1>16, <1>25, <1>27
<1> QED
  BY <1>1, <1>14, <1>17, <1>21, <1>22, <1>28, <1>29, <1>30, AskSearches


(* The search goes on to a gap, or is over, when all before it is settled. *)
LEMMA GapSearch ==
    ASSUME TypeInv, TypeInv', SearchInv, link = "up", ~searched, Searching, Rest = <<>>,
           NEW d, db' = d, NEW hdl3 \in Nat, SearchInfo(d, Rest, hdl3),
           Untouched', FoundIsReal',
           p_hdl2 >= Len(table), ServsBelow(MaxHdl)', DeclsBelow(MaxHdl)', Settled(hdl3 + 1)',
           UNCHANGED <<peerVars, encrypted, p_hdl2, conns, early>>
    PROVE  SearchInv'
<1>1. /\ table \in Tables /\ p_hdl2 \in 0 .. MaxHdl /\ p_hdl2 \in Nat /\ searched \in BOOLEAN
      /\ MaxHdl \in Nat
      /\ Len(table) \in Nat /\ DOMAIN table = 1 .. Len(table) /\ d \in [Hdl -> Entry]
      /\ auth \in BOOLEAN /\ finished \in BOOLEAN
  <2>1. d \in [Hdl' -> Entry']
    BY DEF TypeInv
  <2>2. d \in [Hdl -> Entry]
    BY <2>1 DEF Hdl, Entry, Kinds
  <2> QED
    BY <2>2, TableFacts, SdpAssumption DEF TypeInv
<1>2. PICK st \in Nat :
        /\ KnownUpTo(d, hdl3, st)
        /\ EndsSearch(d, Rest, st) \/ \E en \in Nat : AsksGap(d, Rest, st, en)
  BY <1>1, SearchInfoCases
<1>3. st >= 1 /\ hdl3 < st /\ \A g \in hdl3 + 1 .. st - 1 : g <= p_hdl2 => d[g].type # "none"
  BY <1>2 DEF KnownUpTo
<1>4. ~auth /\ ~encrypted /\ ~finished /\ ~early
  BY DEF Searching
<1>5. table' = table /\ own' = own /\ encrypted' = encrypted /\ early' = early
      /\ p_hdl2' = p_hdl2
  BY DEF peerVars
<1>6. ASSUME NEW h \in DOMAIN table, h < st, ~Known(h)'
      PROVE  table[h].kind = "desc" /\ table[h - 1].kind = "desc" /\ ~own
  <2>1. h <= hdl3
    <3>1. h \in Nat /\ h <= p_hdl2
      BY <1>1
    <3>2. d[h].type = "none"
      BY <1>6 DEF Known
    <3>3. ~(h \in hdl3 + 1 .. st - 1)
      BY <1>3, <3>1, <3>2
    <3> QED
      BY <1>6, <3>1, <3>3
  <2>2. h < hdl3 + 1
    BY <1>1, <2>1
  <2>3. h \in DOMAIN table'
    BY <1>5
  <2> QED
    BY <1>5, <1>6, <2>2, <2>3 DEF Settled
<1>7. CASE EndsSearch(d, Rest, st)
  <2>1. PICK one \in Nat, zero \in Nat : one = 1 /\ zero = 0 /\ one >= 1
    OBVIOUS
  <2>2. PICK s : s = DbRead(d, encrypted, st, one, zero)
    OBVIOUS
  <2>3. encrypted \in BOOLEAN
    BY DEF TypeInv
  <2>4. /\ Sound(s, encrypted) /\ ~s.close
        /\ \A i \in DOMAIN s.req : s.req[i].op \in {"read", "write"}
    BY <1>1, <1>4, <2>1, <2>2, <2>3, DbReadSound
  <2>5. Do(Rest, s, auth) /\ searched' = TRUE /\ st > p_hdl2
    BY <1>7, <2>1, <2>2 DEF EndsSearch
  <2>6. s.req \in Seq(RequestSet)
    BY <2>4 DEF Sound, StepSet
  <2>7. reqs' = s.req /\ link' = "up" /\ ~finished'
    <3>1. /\ reqs' = Rest \o s.req /\ link' = (IF s.close THEN "closing" ELSE link)
          /\ finished' = (finished \/ s.close)
      BY <2>5 DEF Do
    <3>2. <<>> \o s.req = s.req
      BY <2>6
    <3>3. link' = "up" /\ ~finished'
      BY <1>4, <2>4, <3>1
    <3> QED
      BY <3>1, <3>2, <3>3
  <2>8. \A i \in DOMAIN reqs' : reqs'[i].op \in {"read", "write"}
    BY <2>4, <2>7
  <2>9. Settled(MaxHdl)'
    <3>1. \A h \in DOMAIN table : h < st
      BY <1>1, <2>5
    <3> QED
      BY <1>5, <1>6, <3>1 DEF Settled
  <2>10. p_hdl2' >= Len(table')
    BY <1>5
  <2> QED
    BY <2>5, <2>7, <2>8, <2>9, <2>10 DEF SearchInv
<1>8. CASE \E en \in Nat : AsksGap(d, Rest, st, en)
  <2>1. PICK en \in Nat : AsksGap(d, Rest, st, en)
    BY <1>8
  <2>2. /\ st <= en /\ en <= p_hdl2 /\ \A g \in st .. en : d[g].type = "none"
        /\ p_hdl3' = en /\ searched' = searched
    BY <2>1 DEF AsksGap
  <2>3. PICK r \in RequestSet : /\ r = Request("info", st, en)
                                /\ r.op = "info" /\ r.from = st /\ r.to = en
    BY RequestType
  <2>4. st \in Hdl
    BY <1>1, <1>3, <2>2 DEF Hdl
  <2>5. PICK s : s = Step(st, <<r>>)
    OBVIOUS
  <2>6. s.req = <<r>> /\ ~s.pair /\ ~s.close
    BY <2>3, <2>4, <2>5, StepOne
  <2>7. Do(Rest, s, auth)
    BY <2>1, <2>3, <2>5 DEF AsksGap
  <2>8. reqs' = <<r>> /\ link' = "up" /\ ~finished' /\ ~auth'
    <3>1. /\ reqs' = Rest \o <<r>> /\ link' = (IF s.close THEN "closing" ELSE link)
          /\ finished' = (finished \/ s.close) /\ auth' = (auth \/ s.pair)
      BY <2>6, <2>7 DEF Do
    <3>2. <<>> \o <<r>> = <<r>>
      OBVIOUS
    <3>3. link' = "up" /\ ~finished' /\ ~auth'
      BY <1>4, <2>6, <3>1
    <3> QED
      BY <3>1, <3>2, <3>3
  <2>9. Settled(st)'
    BY <1>5, <1>6 DEF Settled
  <2>10. InfoStage(r)'
    <3>1. \A h \in st .. en : ~Known(h)'
      BY <2>2 DEF Known
    <3>2. p_hdl2' >= Len(table') /\ en <= p_hdl2' /\ 1 <= st
      BY <1>3, <1>5, <2>2
    <3> QED
      BY <2>2, <2>3, <2>9, <3>1, <3>2 DEF InfoStage
  <2>11. Searching'
    <3>1. r \in RequestSet'
      BY <2>3 DEF RequestSet
    <3>2. \E q \in RequestSet' :
            reqs' = <<q>> /\ (GroupStage(q)' \/ TypeStage(q)' \/ InfoStage(q)')
      BY <2>8, <2>10, <3>1
    <3> QED
      BY <1>4, <1>5, <2>8, <3>2 DEF Searching
  <2> QED
    BY <2>2, <2>8, <2>11 DEF SearchInv
<1> QED
  BY <1>2, <1>7, <1>8

LEMMA ReadByTypeEndSearch ==
    ASSUME TypeInv, TypeInv', SearchInv, ReadByTypeEnd
    PROVE  SearchInv'
<1>1. link = "up" /\ reqs # <<>> /\ TypeSearch = <<>> /\ Head(reqs).op = "type"
  BY DEF ReadByTypeEnd, Answered
<1>2. PICK f : f = Head(reqs).from
  OBVIOUS
<1>3. CharFacts(table, f, TypeSearch, Len(TypeSearch))
  BY <1>1, <1>2, TypeSearchFacts
<1>4. \A h \in DOMAIN table : ~(f <= h /\ table[h].kind = "decl")
  BY <1>1, <1>3 DEF CharFacts
<1>5. ~searched /\ Searching /\ Rest = <<>> /\ TypeStage(Head(reqs))
  BY <1>1, Asking
<1>6. p_hdl2 >= Len(table) /\ ServsBelow(MaxHdl) /\ DeclsBelow(f)
  BY <1>2, <1>5 DEF TypeStage
<1>7. /\ table \in Tables /\ Len(table) \in Nat
      /\ DOMAIN table = 1 .. Len(table) /\ f \in Nat
  BY <1>1, <1>2, HeadRequest, TableFacts DEF TypeInv
<1>8. DeclsBelow(MaxHdl)
  <2> SUFFICES ASSUME NEW h \in DOMAIN table, table[h].kind = "decl"
               PROVE  Known(h) /\ Known(h + 1)
    BY DEF DeclsBelow
  <2>1. h < f
    BY <1>4, <1>7
  <2> QED
    BY <1>6, <2>1 DEF DeclsBelow
<1>9. Settled(1)
  BY <1>7 DEF Settled
<1>10. PICK zero \in Nat : zero = 0 /\ zero + 1 = 1
  OBVIOUS
<1>11. /\ SearchInfo(db, Rest, zero) /\ db' = db
       /\ UNCHANGED <<peerVars, encrypted, p_hdl2, conns, early>>
  BY <1>10 DEF ReadByTypeEnd
<1>12. table' = table /\ own' = own
  BY <1>11 DEF peerVars
<1>13. ServsBelow(MaxHdl)' /\ DeclsBelow(MaxHdl)' /\ Settled(zero + 1)'
  BY <1>6, <1>8, <1>9, <1>10, <1>11, <1>12 DEF ServsBelow, DeclsBelow, Settled, Known
<1>14. Untouched' /\ FoundIsReal'
  <2>1. Untouched /\ FoundIsReal
    BY <1>5 DEF Searching, SearchInv
  <2> QED
    BY <1>11, <1>12, <2>1 DEF Untouched, FoundIsReal, WideDesc, Hdl
<1>15. PICK d : d = db /\ db' = d /\ SearchInfo(d, Rest, zero)
  BY <1>11
<1> QED
  BY <1>1, <1>5, <1>6, <1>11, <1>13, <1>14, <1>15, GapSearch

LEMMA FindInfoEndSearch ==
    ASSUME TypeInv, TypeInv', SearchInv, FindInfoEnd
    PROVE  SearchInv'
<1>1. link = "up" /\ reqs # <<>> /\ InfoSearch = <<>> /\ Head(reqs).op = "info"
  BY DEF FindInfoEnd, Answered
<1>2. ~searched /\ Searching /\ Rest = <<>> /\ InfoStage(Head(reqs))
  BY <1>1, Asking
<1>3. PICK f, to : f = Head(reqs).from /\ to = Head(reqs).to
  OBVIOUS
<1>4. /\ to = p_hdl3 /\ 1 <= f /\ f <= to /\ p_hdl2 >= Len(table)
      /\ ServsBelow(MaxHdl) /\ DeclsBelow(MaxHdl) /\ Settled(f)
  BY <1>2, <1>3 DEF InfoStage
<1>5. InfoFacts(table, f, to, InfoSearch, Len(InfoSearch))
  BY <1>1, <1>3, <1>4, InfoSearchFacts
<1>6. \A h \in DOMAIN table : ~(f <= h /\ h <= to)
  <2>1. Len(InfoSearch) = 0
    BY <1>1
  <2> QED
    BY <1>5, <2>1 DEF InfoFacts
<1>7. /\ f \in Nat /\ to \in Nat /\ p_hdl3 \in Nat /\ db \in [Hdl -> Entry]
      /\ table \in Tables /\ Len(table) \in Nat /\ DOMAIN table = 1 .. Len(table)
  BY <1>1, <1>3, HeadRequest, TableFacts DEF TypeInv
<1>8. Settled(p_hdl3 + 1)
  <2>1. \A h \in DOMAIN table : h < p_hdl3 + 1 => h < f
    BY <1>4, <1>6, <1>7
  <2> QED
    BY <1>4, <2>1 DEF Settled
<1>9. /\ SearchInfo(db, Rest, p_hdl3) /\ db' = db
      /\ UNCHANGED <<peerVars, encrypted, p_hdl2, conns, early>>
  BY DEF FindInfoEnd
<1>10. table' = table /\ own' = own
  BY <1>9 DEF peerVars
<1>11. PICK hdl3 \in Nat : hdl3 = p_hdl3
  BY <1>7
<1>12. ServsBelow(MaxHdl)' /\ DeclsBelow(MaxHdl)' /\ Settled(hdl3 + 1)'
  BY <1>4, <1>8, <1>9, <1>10, <1>11 DEF ServsBelow, DeclsBelow, Settled, Known
<1>13. Untouched' /\ FoundIsReal'
  <2>1. Untouched /\ FoundIsReal
    BY <1>2 DEF Searching, SearchInv
  <2> QED
    BY <1>9, <1>10, <2>1 DEF Untouched, FoundIsReal, WideDesc, Hdl
<1>14. PICK d : d = db /\ db' = d /\ SearchInfo(d, Rest, hdl3)
  BY <1>9, <1>11
<1> QED
  BY <1>1, <1>2, <1>4, <1>9, <1>12, <1>13, <1>14, GapSearch

(* In a gap that the search asks for are descriptors only.                 *)
LEMMA GapIsDesc ==
    ASSUME TypeInv, NEW r, InfoStage(r), NEW h \in DOMAIN table, r.from <= h, h <= r.to,
           r.from \in Nat, r.to \in Nat
    PROVE  table[h].kind = "desc"
<1>1. /\ DOMAIN table = 1 .. Len(table) /\ Len(table) \in Nat /\ Len(table) < MaxHdl
      /\ table[h] \in Attribute /\ MaxHdl \in Nat
      /\ table[h].kind = "value" => h - 1 \in DOMAIN table /\ table[h - 1].kind = "decl"
  BY TableFacts DEF TypeInv
<1>2. h \in Nat /\ h < MaxHdl /\ h - 1 < MaxHdl
  BY <1>1
<1>3. ~Known(h)
  <2>1. h \in r.from .. r.to
    BY <1>2
  <2> QED
    BY <2>1 DEF InfoStage
<1>4. table[h].kind # "serv"
  BY <1>2, <1>3 DEF InfoStage, ServsBelow
<1>5. table[h].kind # "decl"
  BY <1>2, <1>3 DEF InfoStage, DeclsBelow
<1>6. table[h].kind # "value"
  <2>1. ASSUME table[h].kind = "value" PROVE FALSE
    <3>1. PICK g \in DOMAIN table : g = h - 1
      BY <1>1, <2>1
    <3>2. table[g].kind = "decl" /\ g < MaxHdl
      BY <1>1, <1>2, <2>1, <3>1
    <3>3. Known(g + 1)
      BY <3>1, <3>2 DEF InfoStage, DeclsBelow
    <3>4. g + 1 = h
      BY <1>2, <3>1
    <3> QED
      BY <1>3, <3>3, <3>4
  <2> QED
    BY <2>1
<1> QED
  BY <1>1, <1>4, <1>5, <1>6 DEF Attribute

(* This host answers with all descriptors of a gap.                        *)
LEMMA OwnAnswersAll ==
    ASSUME NEW rows \in Seq(InfoRow), rows # <<>>,
           \A k \in 1 .. Len(rows) : rows[k].wide = FALSE
    PROVE  FindInfoRows(rows) = Len(rows)
<1>1. PICK n \in Nat : n = Len(rows) /\ n >= 1 /\ DOMAIN rows = 1 .. n
  BY EmptySeq
<1>2. \A k \in 1 .. n : SameWidth(rows, k)
  <2> SUFFICES ASSUME NEW k \in 1 .. n, NEW j \in 1 .. k PROVE rows[j].wide = rows[1].wide
    BY DEF SameWidth
  <2>1. j \in 1 .. n /\ 1 \in 1 .. n
    BY <1>1
  <2>2. rows[j].wide = FALSE /\ rows[1].wide = FALSE
    BY <1>1, <2>1
  <2> QED
    BY <2>2
<1>3. PICK S : S = {k \in DOMAIN rows : k = Len(rows) \/ ~SameWidth(rows, k)}
  OBVIOUS
<1>4. S = {n}
  BY <1>1, <1>2, <1>3
<1>5. S \subseteq Nat /\ S # {}
  BY <1>4
<1>6. Min(S) \in S
  BY <1>5, MinOf
<1> QED
  BY <1>1, <1>3, <1>4, <1>6 DEF FindInfoRows

LEMMA FindInfoRspSearch ==
    ASSUME TypeInv, TypeInv', SearchInv, FindInfoRsp
    PROVE  SearchInv'
<1>1. link = "up" /\ reqs # <<>> /\ InfoSearch # <<>> /\ Head(reqs).op = "info"
  BY DEF FindInfoRsp, Answered
<1>2. ~searched /\ Searching /\ Rest = <<>> /\ InfoStage(Head(reqs))
  BY <1>1, Asking
<1>3. PICK f, to : f = Head(reqs).from /\ to = Head(reqs).to
  OBVIOUS
<1>4. /\ to = p_hdl3 /\ 1 <= f /\ f <= to /\ to <= p_hdl2 /\ p_hdl2 >= Len(table)
      /\ ServsBelow(MaxHdl) /\ DeclsBelow(MaxHdl) /\ Settled(f)
      /\ \A h \in f .. to : ~Known(h)
  BY <1>2, <1>3 DEF InfoStage
<1>5. PICK rows, N : rows = InfoSearch /\ N = Len(InfoSearch)
  OBVIOUS
<1>6. /\ InfoFacts(table, f, to, rows, N)
      /\ Counts(rows, FindInfoRows(rows)) \subseteq 1 .. N
  BY <1>1, <1>3, <1>4, <1>5, InfoSearchFacts
<1>7. /\ rows \in Seq(InfoRow) /\ N \in Nat /\ N = Len(rows) /\ rows # <<>>
      /\ \A k \in 1 .. N :
            /\ rows[k].hdl \in DOMAIN table /\ f <= rows[k].hdl /\ rows[k].hdl <= to
            /\ rows[k].wide = table[rows[k].hdl].wide
      /\ \A h \in DOMAIN table : f <= h /\ h <= to => \E k \in 1 .. N : rows[k].hdl = h
      /\ f \in DOMAIN table => rows[1].hdl = f
  BY <1>1, <1>5, <1>6 DEF InfoFacts
<1>8. /\ f \in Nat /\ to \in Nat /\ p_hdl3 \in Nat /\ db \in [Hdl -> Entry]
      /\ table \in Tables /\ Len(table) \in Nat /\ DOMAIN table = 1 .. Len(table)
      /\ own \in BOOLEAN /\ MaxHdl \in Nat /\ p_hdl2 <= MaxHdl /\ Len(table) < MaxHdl
      /\ own => Servable(table)
  BY <1>1, <1>3, HeadRequest, TableFacts, SdpAssumption DEF TypeInv
<1>9. /\ \A h \in DOMAIN table : table[h] \in Attribute /\ h \in Hdl /\ h < MaxHdl
      /\ \A h \in DOMAIN table :
            table[h].kind = "value" => h - 1 \in DOMAIN table /\ table[h - 1].kind = "decl"
  BY <1>8, TableFacts
<1>10. ASSUME NEW h \in DOMAIN table, f <= h, h <= to
       PROVE  table[h].kind = "desc"
  BY <1>2, <1>3, <1>8, <1>10, GapIsDesc
<1>11. PICK n \in Counts(rows, FindInfoRows(rows)),
            wrong \in IF InfoSearch[1].wide THEN {S \in SUBSET Hdl : Cardinality(S) <= 3}
                      ELSE {{}} :
          db' = Marked({InfoSearch[k].hdl : k \in 1..n} \cup wrong)
  BY <1>5 DEF FindInfoRsp, Marked
<1>12. n \in 1 .. N /\ n \in Nat
  BY <1>6, <1>7, <1>11
<1>13. PICK known : /\ \A h : h \in known <=> h \in wrong \/ \E k \in 1 .. n : rows[k].hdl = h
                    /\ db' = Marked(known)
  BY <1>5, <1>11
<1>14. \A h \in Hdl :
         /\ h \in known => Known(h)' /\ db'[h].type = "desc"
         /\ h \notin known => db'[h] = db[h]
         /\ db'[h].perm = db[h].perm /\ db'[h].len = db[h].len /\ db'[h].from = db[h].from
  <2> SUFFICES ASSUME NEW h \in Hdl
               PROVE  /\ h \in known => db'[h].type = "desc"
                      /\ h \notin known => db'[h] = db[h]
                      /\ db'[h].perm = db[h].perm /\ db'[h].len = db[h].len
                      /\ db'[h].from = db[h].from
    BY DEF Known
  <2>1. PICK e \in Entry : e = db[h]
    BY <1>8
  <2>2. CASE h \in known
    <3>1. PICK g : g = [e EXCEPT !.type = "desc", !.read = TRUE, !.write = TRUE]
      OBVIOUS
    <3>2. db'[h] = g
      BY <1>13, <2>1, <2>2, <3>1 DEF Marked
    <3>3. g.type = "desc" /\ g.perm = e.perm /\ g.len = e.len /\ g.from = e.from
      BY <3>1 DEF Entry
    <3> QED
      BY <2>1, <2>2, <3>2, <3>3
  <2>3. CASE h \notin known
    <3>1. db'[h] = db[h]
      BY <1>13, <2>3 DEF Marked
    <3> QED
      BY <2>3, <3>1
  <2> QED
    BY <2>2, <2>3
<1>15. /\ SearchInfo(db', Rest, p_hdl3)
       /\ UNCHANGED <<peerVars, encrypted, p_hdl2, conns, early>>
  BY DEF FindInfoRsp
<1>16. table' = table /\ own' = own
  BY <1>15 DEF peerVars
<1>17. Learns
  BY <1>14 DEF Learns, Known
<1>18. ServsBelow(MaxHdl)' /\ DeclsBelow(MaxHdl)' /\ Settled(f)'
  BY <1>4, <1>16, <1>17, StaysSettled
<1>19. Untouched'
  BY <1>2, <1>14 DEF Searching, Untouched, Hdl
<1>20. FoundIsReal'
  <2>1. CASE WideDesc
    BY <1>16, <2>1 DEF FoundIsReal, WideDesc
  <2>2. CASE ~WideDesc
    <3>1. wrong = {}
      <4>1. 1 \in 1 .. N
        BY <1>7, <1>12
      <4>2. rows[1].wide = table[rows[1].hdl].wide /\ table[rows[1].hdl].kind = "desc"
            /\ rows[1].hdl \in DOMAIN table
        BY <1>7, <1>10, <4>1
      <4>3. ~rows[1].wide
        BY <2>2, <4>2 DEF WideDesc
      <4> QED
        BY <1>5, <1>11, <4>3
    <3> SUFFICES ASSUME NEW h \in Hdl, db'[h].type # "none"
                 PROVE  /\ h \in DOMAIN table
                        /\ db'[h].type = table[h].kind
                        /\ db'[h].type = "value" => /\ db'[h].read = table[h].read
                                                    /\ db'[h].write = table[h].write
      BY <1>16 DEF FoundIsReal, WideDesc, Hdl
    <3>2. CASE h \in known
      <4>1. PICK k \in 1 .. N : rows[k].hdl = h
        <5>1. PICK k \in 1 .. n : rows[k].hdl = h
          BY <1>13, <3>1, <3>2
        <5>2. k \in 1 .. N
          BY <1>7, <1>12
        <5> QED
          BY <5>1, <5>2
      <4>2. h \in DOMAIN table /\ table[h].kind = "desc"
        BY <1>7, <1>10, <4>1
      <4>3. db'[h].type = "desc"
        BY <1>14, <3>2
      <4> QED
        BY <4>2, <4>3
    <3>3. CASE h \notin known
      <4>1. db'[h] = db[h]
        BY <1>14, <3>3
      <4> QED
        BY <2>2, <4>1 DEF SearchInv, FoundIsReal
    <3> QED
      BY <3>2, <3>3
  <2> QED
    BY <2>1, <2>2
<1>21. PICK hdl3 \in Nat : hdl3 = p_hdl3
  BY <1>8
<1>22. ASSUME own PROVE n = N
  <2>1. \A k \in 1 .. Len(rows) : rows[k].wide = FALSE
    <3> SUFFICES ASSUME NEW k \in 1 .. N PROVE rows[k].wide = FALSE
      BY <1>7
    <3>1. PICK h \in DOMAIN table : h = rows[k].hdl /\ f <= h /\ h <= to
                                    /\ rows[k].wide = table[h].wide
      BY <1>7
    <3>2. table[h].kind = "desc" /\ table[h].wide \in BOOLEAN
      BY <1>9, <1>10, <3>1 DEF Attribute
    <3>3. ~table[h].wide
      BY <1>8, <1>22, <3>2 DEF Servable
    <3> QED
      BY <3>1, <3>2, <3>3
  <2>2. FindInfoRows(rows) = Len(rows)
    BY <1>7, <2>1, OwnAnswersAll
  <2> QED
    BY <1>7, <1>11, <1>22, <2>2 DEF Counts
<1>23. Settled(hdl3 + 1)'
  <2> SUFFICES ASSUME NEW h \in DOMAIN table, h < hdl3 + 1, ~Known(h)'
               PROVE  table[h].kind = "desc" /\ table[h - 1].kind = "desc" /\ ~own
    BY <1>16 DEF Settled
  <2>1. CASE h < f
    BY <1>16, <1>18, <2>1 DEF Settled
  <2>2. CASE ~(h < f)
    <3>1. f <= h /\ h <= to /\ h \in Nat
      BY <1>4, <1>8, <1>21, <2>2
    <3>2. \A k \in 1 .. n : rows[k].hdl # h
      BY <1>9, <1>13, <1>14
    <3>3. h # f
      <4>1. ASSUME h = f PROVE FALSE
        <5>1. rows[1].hdl = h /\ 1 \in 1 .. n
          BY <1>7, <1>12, <4>1
        <5> QED
          BY <3>2, <5>1
      <4> QED
        BY <4>1
    <3>4. h - 1 \in DOMAIN table /\ f <= h - 1 /\ h - 1 <= to
      BY <1>4, <1>8, <3>1, <3>3
    <3>5. ~own
      BY <1>7, <1>22, <3>1, <3>2
    <3> QED
      BY <1>10, <3>1, <3>4, <3>5
  <2> QED
    BY <2>1, <2>2
<1>24. PICK d : d = db' /\ SearchInfo(d, Rest, hdl3)
  BY <1>15, <1>21
<1> QED
  BY <1>1, <1>2, <1>4, <1>15, <1>18, <1>19, <1>20, <1>23, <1>24, GapSearch

-----------------------------------------------------------------------------
(* After the search, what is known of the handles stays as it is.          *)
SameKnown ==
    \A h \in Hdl : /\ db'[h].type = db[h].type /\ db'[h].read = db[h].read
                   /\ db'[h].write = db[h].write

OnlyReads(q) == \A i \in DOMAIN q : q[i].op \in {"read", "write"}

LEMMA ReadsJoin ==
    ASSUME NEW p \in Seq(RequestSet), NEW q \in Seq(RequestSet), OnlyReads(p), OnlyReads(q)
    PROVE  OnlyReads(p \o q)
<1> SUFFICES ASSUME NEW i \in DOMAIN (p \o q) PROVE (p \o q)[i].op \in {"read", "write"}
  BY DEF OnlyReads
<1>1. Len(p) \in Nat /\ Len(q) \in Nat /\ i \in 1 .. Len(p) + Len(q)
  OBVIOUS
<1>2. CASE i <= Len(p)
  <2>1. (p \o q)[i] = p[i] /\ i \in DOMAIN p
    BY <1>1, <1>2
  <2> QED
    BY <2>1 DEF OnlyReads
<1>3. CASE ~(i <= Len(p))
  <2>1. (p \o q)[i] = q[i - Len(p)] /\ i - Len(p) \in DOMAIN q
    BY <1>1, <1>3
  <2> QED
    BY <2>1 DEF OnlyReads
<1> QED
  BY <1>2, <1>3

LEMMA KeepsSearch ==
    ASSUME TypeInv, SearchInv, searched, SameKnown,
           UNCHANGED <<table, own, p_hdl2, searched>>,
           finished' => link' # "up", OnlyReads(reqs')
    PROVE  SearchInv'
<1>1. /\ FoundIsReal /\ p_hdl2 >= Len(table) /\ Settled(MaxHdl)
  BY DEF SearchInv
<1>2. table \in Tables
  BY DEF TypeInv
<1>3. \A h \in DOMAIN table : h \in Hdl
  BY <1>2, TableFacts
<1>4. FoundIsReal'
  BY <1>1 DEF FoundIsReal, WideDesc, Hdl, SameKnown
<1>5. Settled(MaxHdl)'
  BY <1>1, <1>3 DEF Settled, Known, SameKnown
<1>6. p_hdl2' >= Len(table')
  BY <1>1
<1>7. searched'
  OBVIOUS
<1> QED
  BY <1>4, <1>5, <1>6, <1>7 DEF SearchInv, OnlyReads

(* A step of the reading or the writing.                                   *)
LEMMA DoKeepsSearch ==
    ASSUME TypeInv, SearchInv, link = "up", reqs # <<>>, searched, SameKnown,
           NEW s, s \in StepSet, OnlyReads(s.req), NEW rest \in {Rest, reqs},
           NEW pairing, Do(rest, s, pairing),
           UNCHANGED <<table, own, p_hdl2, searched>>
    PROVE  SearchInv'
<1>1. reqs \in Seq(RequestSet) /\ s.req \in Seq(RequestSet) /\ finished \in BOOLEAN
      /\ s.close \in BOOLEAN
  BY DEF TypeInv, StepSet
<1>2. OnlyReads(reqs) /\ ~finished
  BY DEF SearchInv, OnlyReads
<1>3. rest \in Seq(RequestSet) /\ OnlyReads(rest)
  <2>1. /\ Rest \in Seq(RequestSet)
        /\ \A i \in DOMAIN Rest : i + 1 \in DOMAIN reqs /\ Rest[i] = reqs[i + 1]
    BY <1>1, HeadRequest
  <2>2. OnlyReads(Rest)
    BY <1>2, <2>1 DEF OnlyReads
  <2> QED
    BY <1>1, <1>2, <2>1, <2>2
<1>4. /\ reqs' = rest \o s.req /\ link' = (IF s.close THEN "closing" ELSE link)
      /\ finished' = (finished \/ s.close)
  BY DEF Do
<1>5. OnlyReads(reqs')
  BY <1>1, <1>3, <1>4, ReadsJoin
<1>6. finished' => link' # "up"
  BY <1>1, <1>2, <1>4
<1> QED
  BY <1>5, <1>6, KeepsSearch

LEMMA NextReadOnly ==
    ASSUME TypeInv, p_hdl1 \in Hdl, NEW d \in [Hdl -> Entry], NEW n
    PROVE  NextRead(d, n) \in StepSet /\ OnlyReads(NextRead(d, n).req)
<1>1. encrypted \in BOOLEAN /\ p_hdl2 \in 0 .. MaxHdl
  BY DEF TypeInv
<1>2. p_hdl1 \in Nat /\ p_hdl1 >= 1 /\ ByteMax \in Nat
  BY SdpAssumption DEF Hdl
<1>3. PICK off \in Nat : off = NextOffset(d[p_hdl1].len, n)
  <2>1. d[p_hdl1] \in Entry
    OBVIOUS
  <2> QED
    BY <1>2, <2>1 DEF NextOffset, Entry
<1>4. PICK st \in Nat, zero \in Nat : st = p_hdl1 + 1 /\ zero = 0 /\ st >= 1
  BY <1>2
<1>5. PICK s : s = NextRead(d, n)
  OBVIOUS
<1>6. CASE Full(n)
  <2>1. s = DbRead(d, encrypted, p_hdl1, p_hdl1, off)
    BY <1>3, <1>5, <1>6 DEF NextRead
  <2>2. Sound(s, encrypted) /\ \A i \in DOMAIN s.req : s.req[i].op \in {"read", "write"}
    BY <1>1, <1>2, <2>1, DbReadSound
  <2> QED
    BY <1>5, <2>2 DEF Sound, OnlyReads
<1>7. CASE ~Full(n)
  <2>1. s = DbRead(d, encrypted, p_hdl1, st, zero)
    BY <1>4, <1>5, <1>7 DEF NextRead
  <2>2. Sound(s, encrypted) /\ \A i \in DOMAIN s.req : s.req[i].op \in {"read", "write"}
    BY <1>1, <1>2, <1>4, <2>1, DbReadSound
  <2> QED
    BY <1>5, <2>2 DEF Sound, OnlyReads
<1> QED
  BY <1>6, <1>7

LEMMA ReadRspSearch ==
    ASSUME TypeInv, Asked, SearchInv, ReadRsp
    PROVE  SearchInv'
<1>1. PICK h \in DOMAIN table, off \in Nat, n \in Nat :
         db' = StoreRead(p_hdl1, h, n) /\ Do(Rest, NextRead(db', n), auth)
  BY ReadRspSays
<1>2. Answered("read") /\ UNCHANGED <<peerVars, p_hdl2, searched>>
  BY DEF ReadRsp
<1>3. p_hdl1 \in Hdl /\ link = "up" /\ reqs # <<>> /\ Head(reqs).op = "read"
  BY <1>2, Reading DEF Answered
<1>4. searched
  BY <1>3, AfterSearch
<1>5. db \in [Hdl -> Entry] /\ h \in Nat
  BY SdpAssumption DEF TypeInv
<1>6. /\ db' \in [Hdl -> Entry]
      /\ \A k \in Hdl : k # p_hdl1 => db'[k] = db[k]
      /\ db'[p_hdl1].type = db[p_hdl1].type /\ db'[p_hdl1].read = db[p_hdl1].read
      /\ db'[p_hdl1].write = db[p_hdl1].write
  BY <1>1, <1>3, <1>5, StoreReadTypes
<1>7. SameKnown
  BY <1>6 DEF SameKnown
<1>8. PICK d \in [Hdl -> Entry] : d = db'
  BY <1>6
<1>9. PICK s : s = NextRead(d, n)
  OBVIOUS
<1>10. s \in StepSet /\ OnlyReads(s.req)
  BY <1>3, <1>9, NextReadOnly
<1>11. PICK rest \in {Rest, reqs} : rest = Rest
  OBVIOUS
<1>12. Do(rest, s, auth) /\ UNCHANGED <<table, own, p_hdl2, searched>>
  BY <1>1, <1>2, <1>8, <1>9, <1>11 DEF peerVars
<1> QED
  BY <1>3, <1>4, <1>7, <1>10, <1>12, DoKeepsSearch

LEMMA RefuseKeeps ==
    ASSUME db \in [Hdl -> Entry], NEW S, NEW h \in Hdl
    PROVE  /\ Refuse(S)[h].type = db[h].type /\ Refuse(S)[h].read = db[h].read
           /\ Refuse(S)[h].write = db[h].write
           /\ Refuse(S)[h].len = db[h].len /\ Refuse(S)[h].from = db[h].from
           /\ Refuse(S)[h].perm = (db[h].perm \/ h \in S)
<1>1. PICK e \in Entry : e = db[h]
  OBVIOUS
<1>2. PICK g : g = [e EXCEPT !.perm = TRUE]
  OBVIOUS
<1>3. /\ g.type = e.type /\ g.read = e.read /\ g.write = e.write /\ g.len = e.len
      /\ g.from = e.from /\ g.perm = TRUE /\ e.perm \in BOOLEAN
  BY <1>2 DEF Entry
<1>4. CASE h \in S
  <2>1. Refuse(S)[h] = g
    BY <1>1, <1>2, <1>4 DEF Refuse
  <2>2. (db[h].perm \/ h \in S) = TRUE
    BY <1>4
  <2> QED
    BY <1>1, <1>3, <2>1, <2>2
<1>5. CASE h \notin S
  <2>1. Refuse(S)[h] = db[h]
    BY <1>5 DEF Refuse
  <2>2. (db[h].perm \/ h \in S) = db[h].perm
    BY <1>1, <1>3, <1>5
  <2> QED
    BY <2>1, <2>2
<1> QED
  BY <1>4, <1>5

LEMMA ReadErrorSearch ==
    ASSUME TypeInv, Asked, SearchInv, ReadError
    PROVE  SearchInv'
<1>1. /\ Answered("read")
      /\ db' = Refuse(RefusedSet(Head(reqs).from))
      /\ Do(Rest, DbRead(db', encrypted, p_hdl1, p_hdl1 + 1, 0), auth)
  BY ReadErrorSays
<1>2. p_hdl1 \in Nat /\ link = "up" /\ reqs # <<>> /\ Head(reqs).op = "read"
  BY <1>1, Reading DEF Answered
<1>3. searched
  BY <1>2, AfterSearch
<1>4. db \in [Hdl -> Entry] /\ encrypted \in BOOLEAN /\ p_hdl2 \in 0 .. MaxHdl
  BY DEF TypeInv
<1>5. PICK d \in [Hdl -> Entry] : d = db'
  BY <1>1, <1>4, RefuseTypes
<1>6. SameKnown
  BY <1>1, <1>4, RefuseKeeps DEF SameKnown
<1>7. PICK st \in Nat, zero \in Nat : st = p_hdl1 + 1 /\ zero = 0 /\ st >= 1
  BY <1>2
<1>8. PICK s : s = DbRead(d, encrypted, p_hdl1, st, zero)
  OBVIOUS
<1>9. s \in StepSet /\ OnlyReads(s.req)
  <2>1. Sound(s, encrypted) /\ \A i \in DOMAIN s.req : s.req[i].op \in {"read", "write"}
    BY <1>2, <1>4, <1>5, <1>7, <1>8, DbReadSound
  <2> QED
    BY <2>1 DEF Sound, OnlyReads
<1>10. PICK rest \in {Rest, reqs} : rest = Rest
  OBVIOUS
<1>11. Do(rest, s, auth) /\ UNCHANGED <<table, own, p_hdl2, searched>>
  BY <1>1, <1>5, <1>7, <1>8, <1>10 DEF ReadError, peerVars
<1> QED
  BY <1>2, <1>3, <1>6, <1>9, <1>11, DoKeepsSearch

LEMMA BlobErrorSearch ==
    ASSUME TypeInv, SearchInv, BlobError
    PROVE  SearchInv'
<1>1. /\ link = "up" /\ reqs # <<>> /\ Head(reqs).op = "read" /\ reqs' = Rest
      /\ UNCHANGED <<table, own, link, db, p_hdl2, searched, finished>>
  BY DEF BlobError, Answered, hdlVars, histVars, peerVars
<1>2. searched
  BY <1>1, AfterSearch
<1>3. \A i \in DOMAIN Rest : i + 1 \in DOMAIN reqs /\ Rest[i] = reqs[i + 1]
  BY <1>1, HeadRequest DEF TypeInv
<1>4. OnlyReads(reqs')
  BY <1>1, <1>2, <1>3 DEF SearchInv, OnlyReads
<1>5. SameKnown
  BY <1>1 DEF SameKnown
<1>6. finished' => link' # "up"
  BY <1>1 DEF SearchInv
<1> QED
  BY <1>1, <1>2, <1>4, <1>5, <1>6, KeepsSearch

LEMMA WriteRspSearch ==
    ASSUME TypeInv, SearchInv, WriteRsp
    PROVE  SearchInv'
<1>1. /\ link = "up" /\ reqs # <<>> /\ Head(reqs).op = "write"
      /\ Do(Rest, DbWrite(db, p_hdl1, p_hdl1 + 1), auth)
      /\ UNCHANGED <<table, own, db, p_hdl2, searched>>
  BY DEF WriteRsp, Answered, peerVars
<1>2. searched
  BY <1>1, AfterSearch
<1>3. p_hdl1 \in Nat /\ db \in [Hdl -> Entry] /\ p_hdl2 \in 0 .. MaxHdl
  BY DEF TypeInv
<1>4. PICK st \in Nat : st = p_hdl1 + 1 /\ st >= 1
  BY <1>3
<1>5. PICK s : s = DbWrite(db, p_hdl1, st)
  OBVIOUS
<1>6. s \in StepSet /\ OnlyReads(s.req)
  <2>1. s \in StepSet /\ \A i \in DOMAIN s.req : s.req[i].op = "write"
    BY <1>3, <1>4, <1>5, DbWriteSound
  <2> QED
    BY <2>1 DEF OnlyReads
<1>7. SameKnown
  BY <1>1 DEF SameKnown
<1>8. PICK rest \in {Rest, reqs} : rest = Rest
  OBVIOUS
<1>9. Do(rest, s, auth)
  BY <1>1, <1>4, <1>5, <1>8
<1> QED
  BY <1>1, <1>2, <1>6, <1>7, <1>9, DoKeepsSearch

(* An encryption while the search is on finds nothing to read, and ends.   *)
LEMMA EncryptedSearch ==
    ASSUME TypeInv, SearchInv, Encrypted
    PROVE  SearchInv'
<1>1. /\ link = "up" /\ Do(reqs, DbRead(db, TRUE, p_hdl1, 1, 0), FALSE)
      /\ UNCHANGED <<table, own, db, p_hdl2, searched>>
  BY DEF Encrypted, peerVars
<1>2. /\ db \in [Hdl -> Entry] /\ p_hdl2 \in 0 .. MaxHdl /\ MaxHdl \in Nat
      /\ p_hdl1 \in Nat /\ searched \in BOOLEAN /\ reqs \in Seq(RequestSet)
      /\ finished \in BOOLEAN
  BY SdpAssumption DEF TypeInv
<1>3. PICK one \in Nat, zero \in Nat, enc \in BOOLEAN, no \in BOOLEAN :
        one = 1 /\ zero = 0 /\ enc = TRUE /\ no = FALSE /\ one >= 1
  <2>1. PICK one \in Nat, zero \in Nat : one = 1 /\ zero = 0 /\ one >= 1
    OBVIOUS
  <2>2. TRUE \in BOOLEAN /\ FALSE \in BOOLEAN
    OBVIOUS
  <2> QED
    BY ONLY <2>1, <2>2, Zenon
<1>4. PICK s : s = DbRead(db, enc, p_hdl1, one, zero)
  OBVIOUS
<1>5. /\ Sound(s, enc) /\ \A i \in DOMAIN s.req : s.req[i].op \in {"read", "write"}
      /\ NoneFrom(db, enc, one) /\ enc => s.close
  <2>1. ReadFacts(db, enc, one, s)
    BY <1>2, <1>3, <1>4, DbReadFacts
  <2> QED
    BY <2>1 DEF ReadFacts
<1>6. s \in StepSet /\ OnlyReads(s.req)
  BY <1>5 DEF Sound, OnlyReads
<1>7. Do(reqs, s, no)
  BY <1>1, <1>3, <1>4
<1>8. /\ link' = (IF s.close THEN "closing" ELSE link)
      /\ finished' = (finished \/ s.close) /\ reqs' = reqs \o s.req
  BY <1>7 DEF Do
<1>9. SameKnown
  BY <1>1 DEF SameKnown
<1>10. CASE searched
  <2>1. OnlyReads(reqs) /\ ~finished
    BY <1>1, <1>10 DEF SearchInv, OnlyReads
  <2>2. OnlyReads(reqs')
    BY <1>2, <1>6, <1>8, <2>1, ReadsJoin DEF StepSet
  <2>3. finished' => link' # "up"
    BY <1>6, <1>8, <2>1 DEF StepSet
  <2> QED
    BY <1>1, <1>9, <1>10, <2>2, <2>3, KeepsSearch
<1>11. CASE ~searched
  <2>1. Untouched
    BY <1>1, <1>11 DEF SearchInv, Searching
  <2>2. NoneFrom(db, enc, one)
    <3> SUFFICES ASSUME NEW g \in one .. p_hdl2 PROVE ~Wanted(db, enc, g)
      BY DEF NoneFrom
    <3>1. g \in Hdl
      BY <1>2, <1>3 DEF Hdl
    <3> QED
      BY <1>3, <2>1, <3>1 DEF Wanted, Untouched
  <2>3. link' = "closing"
    BY <1>3, <1>5, <1>8, <2>2
  <2>4. FoundIsReal'
    BY <1>1 DEF SearchInv, FoundIsReal, WideDesc, Hdl
  <2>5. ~searched'
    BY <1>1, <1>11
  <2> QED
    BY <2>3, <2>4, <2>5 DEF SearchInv
<1> QED
  BY <1>10, <1>11

LEMMA ConnectedSearch ==
    ASSUME TypeInv, SearchInv, Connected
    PROVE  SearchInv'
<1>1. /\ link' = "up" /\ encrypted' = FALSE
      /\ db' = [h \in Hdl |-> Unknown]
      /\ reqs' = <<Request("group", 1, MaxHdl)>>
      /\ p_hdl1' = 1 /\ p_hdl2' = 0
      /\ searched' = FALSE /\ finished' = FALSE /\ early' = FALSE /\ auth' = FALSE
      /\ table' = table
  BY DEF Connected, peerVars
<1>2. \A h \in Hdl : /\ db'[h].type = "none" /\ db'[h].perm = FALSE
                     /\ db'[h].len = 0 /\ db'[h].from = {}
  BY <1>1 DEF Unknown
<1>3. Untouched' /\ FoundIsReal'
  BY <1>2 DEF Untouched, FoundIsReal, Hdl
<1>4. PICK one \in Nat : one = 1
  OBVIOUS
<1>5. PICK r \in RequestSet : /\ r = Request("group", one, MaxHdl)
                              /\ r.op = "group" /\ r.from = one
  BY SdpAssumption, RequestType
<1>6. reqs' = <<r>>
  BY <1>1, <1>4, <1>5
<1>7. GroupStage(r)'
  <2>1. ServsBelow(one)'
    <3>1. table \in Tables
      BY DEF TypeInv
    <3>2. \A h \in DOMAIN table : ~(h < one)
      BY <1>4, <3>1, TableFacts
    <3> QED
      BY <1>1, <3>2 DEF ServsBelow
  <2> QED
    BY <1>1, <1>4, <1>5, <2>1 DEF GroupStage
<1>8. Searching'
  <2>1. r \in RequestSet'
    BY <1>5 DEF RequestSet
  <2>2. \E q \in RequestSet' :
            reqs' = <<q>> /\ (GroupStage(q)' \/ TypeStage(q)' \/ InfoStage(q)')
    BY <1>6, <1>7, <2>1
  <2> QED
    BY <1>1, <1>3, <2>2 DEF Searching
<1> QED
  BY <1>1, <1>3, <1>8 DEF SearchInv

LEMMA DisconnectedSearch ==
    ASSUME TypeInv, SearchInv, Disconnected
    PROVE  SearchInv'
<1>1. /\ link' = "down" /\ reqs' = <<>>
      /\ UNCHANGED <<table, own, db, p_hdl2, searched, finished>>
  BY DEF Disconnected, hdlVars, histVars, peerVars
<1>2. CASE searched
  <2>1. OnlyReads(reqs') /\ SameKnown
    BY <1>1 DEF OnlyReads, SameKnown
  <2> QED
    BY <1>1, <1>2, <2>1, KeepsSearch
<1>3. CASE ~searched
  <2>1. FoundIsReal'
    BY <1>1 DEF SearchInv, FoundIsReal, WideDesc, Hdl
  <2> QED
    BY <1>1, <1>3, <2>1 DEF SearchInv
<1> QED
  BY <1>2, <1>3

LEMMA SearchKept ==
    ASSUME TypeInv, Asked, SearchInv, Next
    PROVE  SearchInv'
<1>1. TypeInv'
  BY TypesKept
<1> QED
  BY <1>1, ReadGroupRspSearch, ReadGroupEndSearch, ReadByTypeRspSearch, ReadByTypeEndSearch,
     FindInfoRspSearch, FindInfoEndSearch, ReadRspSearch, ReadErrorSearch, BlobErrorSearch,
     WriteRspSearch, ConnectedSearch, EncryptedSearch, DisconnectedSearch DEF Next, Client

-----------------------------------------------------------------------------
(* The theorems about the search.                                          *)
LEMMA InitTypes ==
    ASSUME Init
    PROVE  TypeInv /\ Asked /\ SearchInv
<1>1. /\ table \in Tables /\ own \in (IF Servable(table) THEN BOOLEAN ELSE {FALSE})
      /\ last \in (IF own THEN {Len(table)} ELSE {Len(table), MaxHdl})
      /\ link = "down" /\ reqs = <<>> /\ auth = FALSE /\ encrypted = FALSE
      /\ db = [h \in Hdl |-> Unknown]
      /\ p_hdl1 = 0 /\ p_hdl2 = 0 /\ p_hdl3 = 0 /\ conns = 0
      /\ searched = FALSE /\ finished = FALSE /\ early = FALSE
  BY DEF Init
<1>2. MaxHdl \in Nat /\ ByteMax \in Nat \ {0} /\ MaxConns \in Nat
  BY SdpAssumption
<1>3. Unknown \in Entry
  BY <1>2 DEF Unknown, Entry
<1>4. db \in [Hdl -> Entry]
  BY <1>1, <1>3
<1>5. own \in BOOLEAN /\ (own => last = Len(table) /\ Servable(table))
      /\ last \in {Len(table), MaxHdl}
  BY <1>1
<1>6. reqs \in Seq(RequestSet) /\ Len(reqs) <= 1
  BY <1>1
<1>7. TypeInv
  <2>1. 0 \in 0 .. MaxHdl /\ 0 \in 0 .. MaxConns
    BY <1>2
  <2>2. p_hdl1 \in Nat /\ p_hdl2 \in 0 .. MaxHdl /\ p_hdl3 \in Nat /\ conns \in 0 .. MaxConns
    BY <1>1, <2>1
  <2>3. /\ link \in {"down", "up", "closing"} /\ auth \in BOOLEAN /\ encrypted \in BOOLEAN
        /\ searched \in BOOLEAN /\ finished \in BOOLEAN /\ early \in BOOLEAN
    BY <1>1
  <2>4. table \in Tables
    BY <1>1
  <2> QED
    BY <1>4, <1>5, <1>6, <2>2, <2>3, <2>4 DEF TypeInv
<1>8. Asked
  BY <1>1, <1>6 DEF Asked
<1>9. \A h \in Hdl : db[h].type = "none"
  BY <1>1 DEF Unknown
<1>10. SearchInv
  BY <1>1, <1>9 DEF SearchInv, FoundIsReal
<1> QED
  BY <1>7, <1>8, <1>10

LEMMA NothingHappens ==
    ASSUME TypeInv, Asked, SearchInv, UNCHANGED vars
    PROVE  TypeInv' /\ Asked' /\ SearchInv'
<1>1. UNCHANGED <<table, last, own, link, reqs, auth, encrypted, db,
                  p_hdl1, p_hdl2, p_hdl3, conns, searched, finished, early>>
  BY DEF vars, peerVars, hdlVars, histVars
<1>2. TypeInv'
  <2>1. (own => last = Len(table) /\ Servable(table))'
    BY <1>1 DEF TypeInv, Servable, Hdl
  <2> QED
    BY <1>1, <2>1 DEF TypeInv, Entry, RequestSet, Hdl, Kinds
<1>3. Asked'
  BY <1>1 DEF Asked, Hdl
<1>4. CASE searched
  <2>1. SameKnown
    BY <1>1 DEF SameKnown
  <2>2. OnlyReads(reqs') /\ (finished' => link' # "up")
    BY <1>1, <1>4 DEF OnlyReads, SearchInv
  <2> QED
    BY <1>1, <1>2, <1>3, <1>4, <2>1, <2>2, KeepsSearch
<1>5. CASE ~searched
  <2>1. FoundIsReal'
    BY <1>1 DEF SearchInv, FoundIsReal, WideDesc, Hdl
  <2>2. ASSUME link = "up" PROVE Searching'
    <3>1. Searching
      BY <1>5, <2>2 DEF SearchInv
    <3>2. Untouched'
      BY <1>1, <3>1 DEF Searching, Untouched, Hdl
    <3>3. PICK r \in RequestSet : reqs = <<r>> /\ (GroupStage(r) \/ TypeStage(r) \/ InfoStage(r))
      BY <3>1 DEF Searching
    <3>4. \A n : (ServsBelow(n) => ServsBelow(n)') /\ (DeclsBelow(n) => DeclsBelow(n)')
                 /\ (Settled(n) => Settled(n)')
      BY <1>1 DEF ServsBelow, DeclsBelow, Settled, Known
    <3>5. GroupStage(r) => GroupStage(r)'
      BY <1>1, <3>4 DEF GroupStage
    <3>6. TypeStage(r) => TypeStage(r)'
      BY <1>1, <3>4 DEF TypeStage
    <3>7. InfoStage(r) => InfoStage(r)'
      BY <1>1, <3>4 DEF InfoStage, Known
    <3>8. \E q \in RequestSet' :
            reqs' = <<q>> /\ (GroupStage(q)' \/ TypeStage(q)' \/ InfoStage(q)')
      <4>1. r \in RequestSet'
        BY <3>3 DEF RequestSet
      <4>2. reqs' = <<r>>
        BY <1>1, <3>3
      <4> QED
        BY <3>3, <3>5, <3>6, <3>7, <4>1, <4>2
    <3> QED
      BY <1>1, <3>1, <3>2, <3>8 DEF Searching
  <2>3. finished' => link' # "up"
    BY <1>1 DEF SearchInv
  <2>4. link' = link /\ ~searched'
    BY <1>1, <1>5
  <2>5. SearchInv'
    BY <2>1, <2>2, <2>3, <2>4 DEF SearchInv
  <2> QED
    BY <1>2, <1>3, <2>5
<1> QED
  BY <1>2, <1>3, <1>4, <1>5

(* Every state is of its type, one request at a time is asked for on a     *)
(* plain link, and the stages of the search leave nothing behind them      *)
(* (sdp.c:179-282).                                                        *)
THEOREM SearchKeepsOrder == Spec => [](TypeInv /\ Asked /\ SearchInv)
<1>1. Init => TypeInv /\ Asked /\ SearchInv
  BY InitTypes
<1>2. TypeInv /\ Asked /\ SearchInv /\ [Next]_vars => (TypeInv /\ Asked /\ SearchInv)'
  BY TypesKept, SearchKept, NothingHappens
<1> QED
  BY <1>1, <1>2, PTL DEF Spec

(* Whatever the peer answers, and however its answers are cut, what the    *)
(* browser prints of a handle is true (sdp.c:221-282, eb_gattc.c:25-89).   *)
THEOREM FoundTrue == Spec => []FoundIsReal
<1>1. TypeInv /\ Asked /\ SearchInv => FoundIsReal
  BY DEF SearchInv
<1> QED
  BY <1>1, SearchKeepsOrder, PTL

(* When the search is over every service, declaration and value has been   *)
(* found, and of a run of descriptors the first at least; all of them, if  *)
(* the peer is this host (sdp.c:179-198, 221-282, eb_att.c:176-204).       *)
THEOREM FoundAll == Spec => []FoundComplete
<1>1. TypeInv /\ Asked /\ SearchInv => FoundComplete
  <2> SUFFICES ASSUME TypeInv, SearchInv, searched, NEW h \in DOMAIN table,
                      db[h].type = "none"
               PROVE  table[h].kind = "desc" /\ table[h - 1].kind = "desc" /\ ~own
    BY DEF FoundComplete
  <2>1. table \in Tables
    BY DEF TypeInv
  <2>2. h < MaxHdl
    BY <2>1, TableFacts
  <2> QED
    BY <2>2 DEF SearchInv, Settled, Known
<1> QED
  BY <1>1, SearchKeepsOrder, PTL

-----------------------------------------------------------------------------
(* The answers of this host's server.                                      *)
LEMMA FoundIndex ==
    ASSUME NEW t \in Tables, NEW sh \in Nat, NEW eh \in Nat, NEW kinds,
           NEW s, s = Found(t, sh, eh, kinds), NEW S, S = FoundSet(t, sh, eh, kinds)
    PROVE  /\ IsFiniteSet(S) /\ S \subseteq Nat /\ S \subseteq Int
           /\ Len(s) = Cardinality(S) /\ Len(s) \in Nat /\ DOMAIN s = 1 .. Len(s)
           /\ \A k \in 1 .. Len(s) : s[k] \in S /\ Place(S, s[k]) = k
           /\ \A h \in S : Place(S, h) \in 1 .. Len(s) /\ s[Place(S, h)] = h
<1>1. Len(t) \in Nat /\ DOMAIN t = 1 .. Len(t)
  BY TableFacts
<1>2. S \subseteq 1 .. Len(t) /\ S \subseteq Nat /\ S \subseteq Int
  BY <1>1 DEF FoundSet
<1>3. PICK n : n = Cardinality(S)
  OBVIOUS
<1>4. IsFiniteSet(S) /\ n \in Nat
  <2>1. IsFiniteSet(1 .. Len(t))
    BY <1>1, FS_Interval
  <2> QED
    BY <1>2, <1>3, <2>1, FS_Subset, FS_CardinalityType
<1>5. /\ \A h \in S : Place(S, h) \in 1 .. n
      /\ \A g, h \in S : g < h => Place(S, g) < Place(S, h)
      /\ \A k \in 1 .. n : \E h \in S : Place(S, h) = k
  BY <1>2, <1>3, <1>4, Ranked
<1>6. s = [k \in 1 .. n |-> CHOOSE h \in S : Place(S, h) = k]
  BY <1>3 DEF Found, FoundSet
<1>7. \A k \in 1 .. n : s[k] \in S /\ Place(S, s[k]) = k
  BY <1>5, <1>6
<1>8. Len(s) = n /\ DOMAIN s = 1 .. n
  <2>1. s \in [1 .. n -> Nat]
    BY <1>2, <1>6, <1>7
  <2> QED
    BY <1>4, <2>1
<1>9. ASSUME NEW h \in S PROVE s[Place(S, h)] = h
  <2>1. PICK k \in 1 .. n : k = Place(S, h)
    BY <1>5
  <2>2. PICK g \in S : g = s[k] /\ Place(S, g) = k
    BY <1>7
  <2>3. ~(g < h) /\ ~(h < g)
    <3>1. k \in Nat
      BY <1>4
    <3> QED
      BY <1>5, <2>1, <2>2, <3>1
  <2>4. g \in Nat /\ h \in Nat
    BY <1>2
  <2> QED
    BY <2>1, <2>2, <2>3, <2>4
<1> QED
  BY <1>2, <1>3, <1>4, <1>5, <1>7, <1>8, <1>9

(* A search that begins later finds a tail of what an earlier one finds.   *)
IsTail(u, s) ==
    \E c \in Nat : /\ Len(s) = c + Len(u)
                  /\ \A j \in 1 .. Len(u) : u[j] = s[c + j]

LEMMA FoundTail ==
    ASSUME NEW t \in Tables, NEW f \in Nat, f >= 1, NEW kinds,
           NEW one \in Nat, one = 1, NEW l \in Nat, l = Len(t),
           NEW s, s = Found(t, one, l, kinds),
           NEW u, u = Found(t, f, MaxHdl, kinds)
    PROVE  IsTail(u, s)
<1>1. /\ Len(t) \in Nat /\ DOMAIN t = 1 .. Len(t) /\ MaxHdl \in Nat /\ Len(t) < MaxHdl
  BY TableFacts
<1>3. PICK S, U : S = FoundSet(t, one, l, kinds) /\ U = FoundSet(t, f, MaxHdl, kinds)
  OBVIOUS
<1>5. /\ IsFiniteSet(S) /\ S \subseteq Nat
      /\ Len(s) = Cardinality(S) /\ Len(s) \in Nat
      /\ \A h \in S : s[Place(S, h)] = h
  BY <1>3, FoundIndex
<1>6. /\ IsFiniteSet(U) /\ U \subseteq Nat
      /\ Len(u) = Cardinality(U) /\ Len(u) \in Nat
      /\ \A k \in 1 .. Len(u) : u[k] \in U /\ Place(U, u[k]) = k
  BY <1>1, <1>3, FoundIndex
<1>7. /\ \A h : h \in S <=> h \in DOMAIN t /\ t[h].kind \in kinds
      /\ \A h : h \in U <=> h \in DOMAIN t /\ f <= h /\ t[h].kind \in kinds
  BY <1>1, <1>3 DEF FoundSet
<1>8. PICK B : B = {h \in S : h < f}
  OBVIOUS
<1>9. IsFiniteSet(B) /\ Cardinality(B) \in Nat
  BY <1>5, <1>8, FS_Subset, FS_CardinalityType
<1>10. PICK c \in Nat : c = Cardinality(B)
  BY <1>9
<1>11. ASSUME NEW V, V \subseteq U PROVE Cardinality(B \cup V) = c + Cardinality(V)
  <2>1. IsFiniteSet(V) /\ Cardinality(V) \in Nat
    BY <1>6, <1>11, FS_Subset, FS_CardinalityType
  <2>2. B \cap V = {}
    <3>1. ASSUME NEW h \in B \cap V PROVE FALSE
      <4>1. h < f /\ f <= h /\ h \in Nat
        BY <1>5, <1>7, <1>8, <1>11, <3>1
      <4> QED
        BY <4>1
    <3> QED
      BY <3>1
  <2>3. PICK y, z, w : /\ y = Cardinality(V) /\ z = Cardinality(B \cup V)
                       /\ w = Cardinality(B \cap V)
    OBVIOUS
  <2>4. w = 0
    BY <2>2, <2>3, FS_EmptySet
  <2>5. y \in Nat
    BY <2>1, <2>3
  <2>6. z = c + y - w
    BY ONLY <1>9, <1>10, <2>1, <2>3, FS_Union
  <2>7. z = c + y
    BY <2>4, <2>5, <2>6
  <2> QED
    BY <2>3, <2>7
<1>12. S = B \cup U
  <2>1. \A h \in S : h \in Nat
    BY <1>5
  <2> QED
    BY <1>7, <1>8, <2>1
<1>13. Len(s) = c + Len(u)
  BY <1>5, <1>6, <1>11, <1>12
<1>14. ASSUME NEW j \in 1 .. Len(u) PROVE u[j] = s[c + j]
  <2>1. PICK h \in U : h = u[j] /\ Place(U, h) = j
    BY <1>6
  <2>2. h \in S /\ f <= h /\ h \in Nat
    BY <1>6, <1>7, <2>1
  <2>3. PICK V : V = {g \in U : g <= h}
    OBVIOUS
  <2>4. {g \in S : g <= h} = B \cup V
    <3>1. \A g \in B : g <= h
      <4> SUFFICES ASSUME NEW g \in B PROVE g <= h
        OBVIOUS
      <4>1. g \in Nat /\ g < f
        BY <1>5, <1>8
      <4> QED
        BY <2>2, <4>1
    <3> QED
      BY <1>8, <1>12, <2>3, <3>1
  <2>5. Place(S, h) = c + j
    <3>1. Cardinality(B \cup V) = c + Cardinality(V)
      BY <1>11, <2>3
    <3>2. Place(S, h) = Cardinality(B \cup V) /\ Place(U, h) = Cardinality(V)
      BY <2>3, <2>4 DEF Place
    <3> QED
      BY <2>1, <3>1, <3>2
  <2> QED
    BY <1>5, <2>1, <2>2, <2>5
<1>15. c \in Nat
  BY <1>10
<1> QED
  BY <1>13, <1>14, <1>15 DEF IsTail

(* Rows of the same widths and size make responses of the same length.     *)
LEMMA SameBytes ==
    ASSUME NEW p, NEW q, NEW k \in Nat, k >= 1,
           \A j \in 1 .. k : p[j].wide = q[j].wide, p[1].size = q[1].size
    PROVE  Bytes(p, k) = Bytes(q, k) /\ (SameWidth(p, k) <=> SameWidth(q, k))
<1>1. {j \in 1 .. k : p[j].wide} = {j \in 1 .. k : q[j].wide}
  OBVIOUS
<1>2. Bytes(p, k) = Bytes(q, k)
  BY <1>1 DEF Bytes
<1>3. 1 \in 1 .. k
  OBVIOUS
<1>4. SameWidth(p, k) <=> SameWidth(q, k)
  BY <1>3 DEF SameWidth
<1> QED
  BY <1>2, <1>4

LEMMA GroupAllowed ==
    ASSUME TypeInv, own, reqs # <<>>, Head(reqs).from >= 1, GroupSearch # <<>>
    PROVE  GroupRows(GroupSearch) \in AllowedRows(GroupSearch)
<1>1. PICK f \in Nat : f = Head(reqs).from /\ f >= 1
  BY HeadRequest DEF TypeInv
<1>2. PICK rows : rows = GroupSearch
  OBVIOUS
<1>3. PICK t \in Tables : t = table
  BY DEF TypeInv
<1>4. /\ Len(t) \in Nat /\ last = Len(t) /\ Servable(t) /\ MaxHdl \in Nat /\ Len(t) < MaxHdl
      /\ DOMAIN t = 1 .. Len(t)
  BY <1>3, TableFacts DEF TypeInv
<1>5. PICK u : u = Found(t, f, MaxHdl, {"serv"})
  OBVIOUS
<1>6. PICK s : s = Found(t, 1, Len(t), {"serv"})
  OBVIOUS
<1>7. PICK services : services = ServiceRows(t, 1, Len(t), Len(t))
  OBVIOUS
<1>8. PICK c \in Nat : /\ Len(s) = c + Len(u)
                       /\ \A j \in 1 .. Len(u) : u[j] = s[c + j]
  <2>1. PICK K : K = {"serv"}
    OBVIOUS
  <2>2. PICK one \in Nat, l \in Nat : one = 1 /\ l = Len(t)
    BY <1>4
  <2>3. u = Found(t, f, MaxHdl, K) /\ s = Found(t, one, l, K)
    BY <1>5, <1>6, <2>1, <2>2
  <2>4. IsTail(u, s)
    BY <1>1, <2>2, <2>3, FoundTail
  <2> QED
    BY <2>4 DEF IsTail
<1>9. PICK n \in Nat : n = Len(u) /\ DOMAIN u = 1 .. n
  BY <1>1, <1>4, <1>5, FoundIndex
<1>10. PICK m \in Nat : m = Len(s) /\ DOMAIN s = 1 .. m
  <2>1. PICK one \in Nat : one = 1
    OBVIOUS
  <2>2. s = Found(t, one, Len(t), {"serv"})
    BY <1>6, <2>1
  <2> QED
    BY <1>4, <2>2, FoundIndex
<1>11. /\ Len(rows) = n /\ DOMAIN rows = 1 .. n /\ n >= 1
       /\ \A k \in 1 .. n : rows[k].wide = t[u[k]].wide /\ rows[k].size = 6
  <2>1. rows = [k \in 1 .. n |->
                  [ hdl |-> u[k], end |-> IF k < Len(u) THEN u[k + 1] - 1 ELSE Min({MaxHdl, last}),
                    wide |-> t[u[k]].wide, size |-> 6 ]]
    BY <1>1, <1>2, <1>3, <1>5, <1>9 DEF GroupSearch, ServiceRows
  <2>2. \A k \in 1 .. n : rows[k].wide = t[u[k]].wide /\ rows[k].size = 6
    BY <2>1
  <2>3. Len(rows) = n /\ DOMAIN rows = 1 .. n
    BY <1>9, <2>1
  <2>4. n >= 1
    <3>1. rows \in Seq(ServiceRow)
      BY <1>2, GroupSearchFacts DEF ServiceFacts
    <3> QED
      BY <1>2, <1>9, <2>3, <3>1, EmptySeq
  <2> QED
    BY <2>2, <2>3, <2>4
<1>12. /\ Len(services) = m /\ DOMAIN services = 1 .. m
       /\ \A k \in 1 .. m : services[k].wide = t[s[k]].wide /\ services[k].size = 6
  <2>1. services = [k \in 1 .. m |->
                  [ hdl |-> s[k], end |-> IF k < Len(s) THEN s[k + 1] - 1 ELSE Min({Len(t), Len(t)}),
                    wide |-> t[s[k]].wide, size |-> 6 ]]
    BY <1>6, <1>7, <1>10 DEF ServiceRows
  <2>2. \A k \in 1 .. m : services[k].wide = t[s[k]].wide /\ services[k].size = 6
    BY <2>1
  <2>3. Len(services) = m /\ DOMAIN services = 1 .. m
    BY <1>10, <2>1
  <2> QED
    BY <2>2, <2>3
<1>13. m = c + n
  BY <1>8, <1>9, <1>10
<1>14. PICK C : C = {k \in DOMAIN rows : \/ k = Len(rows)
                                         \/ ~SameWidth(rows, k + 1)
                                         \/ Bytes(rows, k) >= Mtu}
  OBVIOUS
<1>15. C \subseteq 1 .. n /\ n \in C /\ C \subseteq Nat /\ C # {}
  BY <1>11, <1>14
<1>16. PICK k : k = Min(C) /\ k \in C /\ \A x \in C : k <= x
  BY <1>15, MinOf
<1>17. k \in 1 .. n /\ k \in Nat /\ k >= 1 /\ k = GroupRows(rows)
  BY <1>14, <1>15, <1>16 DEF GroupRows
<1>18. SameWidth(rows, k)
  <2>1. CASE k = 1
    BY <2>1 DEF SameWidth
  <2>2. CASE k # 1
    <3>1. k - 1 \in 1 .. n /\ ~(k <= k - 1)
      BY <1>17, <2>2
    <3>2. k - 1 \notin C
      BY <1>16, <3>1
    <3>3. SameWidth(rows, (k - 1) + 1)
      BY <1>11, <1>14, <3>1, <3>2
    <3>4. (k - 1) + 1 = k
      BY <1>17
    <3> QED
      BY <3>3, <3>4
  <2> QED
    BY <2>1, <2>2
<1>19. PICK i, e : i = c + 1 /\ e = c + k
  OBVIOUS
<1>20. i \in 1 .. m /\ e \in i .. m /\ e - i + 1 = k /\ i \in Nat /\ e \in Nat
  BY <1>13, <1>17, <1>19
<1>21. PICK q : q = SubSeq(services, i, e)
  OBVIOUS
<1>22. \A j \in 1 .. k : q[j] = services[c + j]
  <2>0. services \in Seq({services[j] : j \in 1 .. m})
    <3>1. services = [j \in 1 .. m |-> services[j]]
      BY <1>7, <1>12, <1>10 DEF ServiceRows
    <3> QED
      BY <3>1
  <2>1. \A j \in 1 .. e - i + 1 : q[j] = services[i + j - 1]
    BY <1>12, <1>20, <1>21, <2>0
  <2> SUFFICES ASSUME NEW j \in 1 .. k PROVE q[j] = services[c + j]
    OBVIOUS
  <2>2. j \in 1 .. e - i + 1 /\ i + j - 1 = c + j
    BY <1>19, <1>20
  <2> QED
    BY <2>1, <2>2
<1>23. \A j \in 1 .. k : q[j].wide = rows[j].wide /\ q[j].size = rows[j].size
  <2> SUFFICES ASSUME NEW j \in 1 .. k PROVE q[j].wide = rows[j].wide /\ q[j].size = rows[j].size
    OBVIOUS
  <2>1. j \in 1 .. n /\ c + j \in 1 .. m
    BY <1>13, <1>17
  <2>2. u[j] = s[c + j]
    BY <1>8, <1>9, <2>1
  <2> QED
    BY <1>11, <1>12, <1>22, <2>1, <2>2
<1>24. Bytes(q, k) = Bytes(rows, k) /\ (SameWidth(q, k) <=> SameWidth(rows, k))
  <2>1. 1 \in 1 .. k
    BY <1>17
  <2> QED
    BY <1>17, <1>23, <2>1, SameBytes
<1>25. SameWidth(SubSeq(services, i, e), e - i + 1)
         => Bytes(SubSeq(services, i, e), e - i + 1) <= Mtu
  BY <1>4, <1>7, <1>12, <1>20 DEF Servable
<1>26. Bytes(rows, k) <= Mtu
  BY <1>18, <1>20, <1>21, <1>24, <1>25
<1> QED
  BY <1>2, <1>11, <1>17, <1>18, <1>26 DEF AllowedRows


(* Two characteristics of which one has a UUID of 128 bits do not fit.     *)
LEMMA TypeAllowed ==
    ASSUME NEW rows \in Seq(CharRow), rows # <<>>
    PROVE  TypeRows(rows) \in AllowedRows(rows)
<1>1. PICK n \in Nat : n = Len(rows) /\ n >= 1 /\ DOMAIN rows = 1 .. n
  BY EmptySeq
<1>2. rows[1].size = 7 /\ \A k \in 1 .. n : rows[k].wide \in BOOLEAN
  <2>1. \A k \in 1 .. n : rows[k] \in CharRow
    BY <1>1
  <2> QED
    BY <1>1, <2>1 DEF CharRow
<1>3. PICK S : S = {k \in DOMAIN rows : /\ Bytes(rows, k) <= Mtu
                                        /\ k > 1 => SameWidth(rows, k - 1)}
  OBVIOUS
<1>4. 1 \in S
  <2>1. Bytes(rows, 1) <= Mtu
    BY <1>2, OneRowFits DEF OneFits
  <2> QED
    BY <1>1, <1>3, <2>1
<1>5. S \subseteq 1 .. n /\ S \subseteq 0 .. n /\ S # {}
  BY <1>1, <1>3, <1>4
<1>6. PICK k : k = Max(S) /\ k \in S
  BY <1>1, <1>5, MaxOf
<1>7. k \in 1 .. n /\ k \in Nat /\ k >= 1 /\ Bytes(rows, k) <= Mtu /\ k = TypeRows(rows)
  BY <1>3, <1>5, <1>6 DEF TypeRows
<1>8. SameWidth(rows, k)
  <2>1. CASE k = 1
    BY <2>1 DEF SameWidth
  <2>2. CASE k >= 2
    <3>1. PICK W : W = {j \in 1 .. k : rows[j].wide}
      OBVIOUS
    <3>2. IsFiniteSet(W)
      <4>1. IsFiniteSet(1 .. k)
        BY <1>7, FS_Interval
      <4> QED
        BY <3>1, <4>1, FS_Subset
    <3>3. PICK w \in Nat : w = Cardinality(W)
      BY <3>2, FS_CardinalityType
    <3>4. Bytes(rows, k) = 2 + k * 7 + 14 * w
      BY <1>2, <3>1, <3>3 DEF Bytes
    <3>5. w = 0
      <4>1. 2 + k * 7 + 14 * w <= 29
        BY <1>7, <3>4, AttServerAssumption
      <4> QED
        BY <1>7, <2>2, <3>3, <4>1
    <3>6. W = {}
      BY <3>2, <3>3, <3>5, FS_EmptySet
    <3>7. \A j \in 1 .. k : rows[j].wide = FALSE
      <4> SUFFICES ASSUME NEW j \in 1 .. k PROVE rows[j].wide = FALSE
        OBVIOUS
      <4>1. j \in 1 .. n
        BY <1>7
      <4> QED
        BY <1>2, <3>1, <3>6, <4>1
    <3>8. rows[1].wide = FALSE
      BY <1>7, <3>7
    <3> QED
      BY <3>7, <3>8 DEF SameWidth
  <2> QED
    BY <1>7, <2>1, <2>2
<1> QED
  BY <1>1, <1>7, <1>8 DEF AllowedRows

InOrder(S) == [k \in 1 .. Cardinality(S) |-> CHOOSE h \in S : Place(S, h) = k]

LEMMA InfoAllowed ==
    ASSUME TypeInv, own, reqs # <<>>, InfoStage(Head(reqs)), InfoSearch # <<>>
    PROVE  FindInfoRows(InfoSearch) \in AllowedRows(InfoSearch)
<1>1. PICK f \in Nat, to \in Nat : f = Head(reqs).from /\ to = Head(reqs).to
  BY HeadRequest DEF TypeInv
<1>2. 1 <= f /\ f <= to
  BY <1>1 DEF InfoStage
<1>3. PICK t \in Tables : t = table
  BY DEF TypeInv
<1>4. Servable(t) /\ Len(t) \in Nat /\ DOMAIN t = 1 .. Len(t)
  BY <1>3, TableFacts DEF TypeInv
<1>5. PICK rows : rows = InfoSearch
  OBVIOUS
<1>6. InfoFacts(t, f, to, rows, Len(rows))
  BY <1>1, <1>2, <1>3, <1>5, InfoSearchFacts
<1>7. PICK n \in Nat : n = Len(rows) /\ n >= 1 /\ DOMAIN rows = 1 .. n
  <2>1. rows \in Seq(InfoRow)
    BY <1>6 DEF InfoFacts
  <2> QED
    BY <1>5, <2>1, EmptySeq
<1>8. \A h \in DOMAIN t : f <= h /\ h <= to => t[h].kind = "desc" /\ ~t[h].wide
  <2> SUFFICES ASSUME NEW h \in DOMAIN t, f <= h, h <= to
               PROVE  t[h].kind = "desc" /\ ~t[h].wide
    OBVIOUS
  <2>1. t[h].kind = "desc"
    BY <1>1, <1>3, GapIsDesc
  <2> QED
    BY <1>4, <2>1 DEF Servable
<1>9. rows \in Seq(InfoRow) /\ rows[1].size = 4 /\ \A k \in 1 .. n : rows[k].wide = FALSE
  <2>1. rows \in Seq(InfoRow)
    BY <1>6 DEF InfoFacts
  <2>2. \A k \in 1 .. n : rows[k] \in InfoRow
    BY <1>7, <2>1
  <2>3. \A k \in 1 .. n : ~rows[k].wide
    BY <1>6, <1>7, <1>8 DEF InfoFacts
  <2> QED
    BY <1>7, <2>1, <2>2, <2>3 DEF InfoRow
<1>10. FindInfoRows(rows) = n
  BY <1>5, <1>7, <1>9, OwnAnswersAll
<1>11. SameWidth(rows, n)
  <2>1. rows[1].wide = FALSE
    BY <1>7, <1>9
  <2> QED
    BY <1>9, <2>1 DEF SameWidth
<1>12. PICK m \in Nat : m = IF to <= Len(t) THEN to ELSE Len(t)
  BY <1>4
<1>13. f <= m /\ m <= to /\ m <= Len(t)
  <2>1. PICK h \in DOMAIN t : f <= h /\ h <= to
    BY <1>6, <1>7 DEF InfoFacts
  <2>2. h \in Nat /\ h <= Len(t)
    BY <1>4, <2>1
  <2>3. PICK l \in Nat : l = Len(t)
    BY <1>4
  <2>4. f <= l
    BY <2>1, <2>2, <2>3
  <2> QED
    BY <1>2, <1>12, <2>3, <2>4
<1>14. f \in DOMAIN t /\ m \in DOMAIN t
  BY <1>2, <1>4, <1>13
<1>15. PICK K : K = {"serv", "decl", "value", "desc"}
  OBVIOUS
<1>16. DOMAIN t \cap (f .. to) = DOMAIN t \cap (f .. m)
  <2>1. \A h \in DOMAIN t : h \in f .. to <=> h \in f .. m
    <3> SUFFICES ASSUME NEW h \in DOMAIN t PROVE h \in f .. to <=> h \in f .. m
      OBVIOUS
    <3>1. PICK l \in Nat : l = Len(t)
      BY <1>4
    <3>2. h \in Nat /\ h <= l
      BY <1>4, <3>1
    <3> QED
      BY <1>1, <1>12, <3>1, <3>2
  <2> QED
    BY <2>1
<1>17. Found(t, f, to, K) = Found(t, f, m, K)
  <2>1. PICK S : S = {h \in DOMAIN t \cap (f .. to) : t[h].kind \in K}
    OBVIOUS
  <2>2. S = {h \in DOMAIN t \cap (f .. m) : t[h].kind \in K}
    BY <1>16, <2>1
  <2>3. Found(t, f, to, K) = InOrder({h \in DOMAIN t \cap (f .. to) : t[h].kind \in K})
    BY DEF Found, InOrder
  <2>4. Found(t, f, m, K) = InOrder({h \in DOMAIN t \cap (f .. m) : t[h].kind \in K})
    BY DEF Found, InOrder
  <2> QED
    BY ONLY <2>1, <2>2, <2>3, <2>4
<1>18. rows = InfoRows(t, f, m)
  BY <1>1, <1>3, <1>5, <1>15, <1>17 DEF InfoSearch, InfoRows
<1>19. n = m - f + 1
  <2>1. PICK s, S : s = Found(t, f, to, K) /\ S = FoundSet(t, f, to, K)
    OBVIOUS
  <2>2. Len(s) = Cardinality(S) /\ DOMAIN s = 1 .. Len(s) /\ Len(s) \in Nat
    BY <2>1, FoundIndex
  <2>3. S = f .. m
    <3>1. \A h \in f .. m : h \in DOMAIN t \cap (f .. to) /\ t[h].kind = "desc"
      BY <1>2, <1>4, <1>8, <1>13
    <3>2. \A h \in S : h \in f .. m
      BY <1>16, <2>1 DEF FoundSet
    <3>3. \A h \in f .. m : h \in S
      BY <1>15, <2>1, <3>1 DEF FoundSet
    <3> QED
      BY <3>2, <3>3
  <2>4. Cardinality(S) = m - f + 1
    <3>1. PICK c : c = Cardinality(f .. m)
      OBVIOUS
    <3>2. c = IF f > m THEN 0 ELSE m - f + 1
      BY <3>1, FS_Interval
    <3> QED
      BY <1>13, <2>3, <3>1, <3>2
  <2>5. rows = [k \in DOMAIN s |-> [ hdl |-> s[k], wide |-> t[s[k]].wide, size |-> 4 ]]
    BY <1>1, <1>3, <1>5, <1>15, <2>1 DEF InfoSearch, InfoRows
  <2>6. DOMAIN rows = 1 .. Len(s)
    BY <2>2, <2>5
  <2>7. n = Len(s)
    BY <1>7, <2>2, <2>6
  <2> QED
    BY <2>2, <2>4, <2>7
<1>20. Bytes(InfoRows(t, f, m), m - f + 1) <= Mtu
  <2>1. \A j \in f .. m : t[j].kind = "desc"
    <3> SUFFICES ASSUME NEW j \in f .. m PROVE t[j].kind = "desc"
      OBVIOUS
    <3>1. j \in DOMAIN t /\ f <= j /\ j <= to
      BY <1>2, <1>4, <1>13
    <3> QED
      BY <1>8, <3>1
  <2> QED
    BY <1>4, <1>13, <1>14, <2>1 DEF Servable
<1>21. Bytes(rows, n) <= Mtu
  BY <1>18, <1>19, <1>20
<1> QED
  BY <1>5, <1>7, <1>10, <1>11, <1>21 DEF AllowedRows

(* The answers this host's server cuts are ones the protocol allows, for   *)
(* the tables it can serve (eb_att.c:43-120, 176-204).                     *)
THEOREM AnswersRight == Spec => []AnswersAllowed
<1>1. TypeInv /\ Asked /\ SearchInv => AnswersAllowed
  <2> SUFFICES ASSUME TypeInv, SearchInv, own, link = "up", reqs # <<>>
               PROVE  /\ Head(reqs).op = "group" /\ GroupSearch # <<>>
                         => GroupRows(GroupSearch) \in AllowedRows(GroupSearch)
                      /\ Head(reqs).op = "type" /\ TypeSearch # <<>>
                         => TypeRows(TypeSearch) \in AllowedRows(TypeSearch)
                      /\ Head(reqs).op = "info" /\ InfoSearch # <<>>
                         => FindInfoRows(InfoSearch) \in AllowedRows(InfoSearch)
    BY DEF AnswersAllowed
  <2>1. ASSUME Head(reqs).op = "group", GroupSearch # <<>>
        PROVE  GroupRows(GroupSearch) \in AllowedRows(GroupSearch)
    <3>1. GroupStage(Head(reqs)) /\ p_hdl2 \in 0 .. MaxHdl /\ MaxHdl \in Nat
      BY <2>1, Asking, TableFacts DEF TypeInv
    <3>2. Head(reqs).from >= 1
      BY <3>1 DEF GroupStage
    <3> QED
      BY <2>1, <3>2, GroupAllowed
  <2>2. ASSUME Head(reqs).op = "type", TypeSearch # <<>>
        PROVE  TypeRows(TypeSearch) \in AllowedRows(TypeSearch)
    <3>1. PICK rows : rows = TypeSearch
      OBVIOUS
    <3>2. rows \in Seq(CharRow)
      BY <3>1, TypeSearchFacts DEF CharFacts
    <3> QED
      BY <2>2, <3>1, <3>2, TypeAllowed
  <2>3. ASSUME Head(reqs).op = "info", InfoSearch # <<>>
        PROVE  FindInfoRows(InfoSearch) \in AllowedRows(InfoSearch)
    <3>1. InfoStage(Head(reqs))
      BY <2>3, Asking
    <3> QED
      BY <2>3, <3>1, InfoAllowed
  <2> QED
    BY <2>1, <2>2, <2>3
<1> QED
  BY <1>1, SearchKeepsOrder, PTL

-----------------------------------------------------------------------------
(* The values.  What is known of the handles is true of the table.         *)
Real(d) ==
    /\ d \in [Hdl -> Entry]
    /\ \A h \in Hdl : d[h].type # "none" =>
         /\ h \in DOMAIN table
         /\ d[h].type = table[h].kind

Ready == table \in Tables /\ p_hdl2 \in Nat /\ p_hdl2 >= Len(table)

LEMMA HdlFacts ==
    ASSUME table \in Tables
    PROVE  /\ Hdl \subseteq Nat /\ MaxHdl \in Nat /\ \A h \in Hdl : h \in Nat /\ h >= 1
           /\ Len(table) \in Nat
           /\ \A h \in DOMAIN table : /\ h \in Hdl /\ h \in Nat /\ h >= 1 /\ h <= Len(table)
                                      /\ h < MaxHdl
<1>1. Len(table) \in Nat /\ Len(table) < MaxHdl /\ MaxHdl \in Nat /\ DOMAIN table = 1 .. Len(table)
  BY TableFacts
<1> QED
  BY <1>1 DEF Hdl

(* What is read is an attribute.                                           *)
LEMMA WantIn ==
    ASSUME Ready, NEW d, Real(d), NEW h \in Hdl, Want(d, h)
    PROVE  /\ h \in DOMAIN table /\ table[h].kind \in {"value", "desc"}
           /\ ValueLen(h) = table[h].len
           /\ h \in Nat /\ h >= 1 /\ h <= p_hdl2 /\ h < MaxHdl
<1>1. d[h].type \in {"value", "desc"}
  BY DEF Want
<1>2. h \in DOMAIN table /\ table[h].kind = d[h].type
  BY <1>1 DEF Real
<1>3. h \in Nat /\ h >= 1 /\ h <= Len(table) /\ h < MaxHdl /\ Len(table) \in Nat
  BY <1>2, HdlFacts DEF Ready
<1> QED
  BY <1>1, <1>2, <1>3 DEF ValueLen, Ready

(* What comes next, on a plain link.                                       *)
PlainNext(d, p, s) ==
    \/ \E h \in DOMAIN table :
         /\ s = Step(h, <<Request("read", h, d[h].len)>>)
         /\ d[h].len = 0 /\ PlainAt(d, h)
    \/ /\ Tried(d, MaxHdl)
       /\ \/ \E h \in Nat : s = Step(h, <<Request("write", h, d[h].len)>>) /\ h \in Hdl
          \/ s = [Step(p, <<>>) EXCEPT !.pair = TRUE]

LEMMA WriteNext ==
    ASSUME Ready, NEW d, Tried(d, MaxHdl), NEW p, NEW st \in Nat, st >= 1, p_hdl2 <= MaxHdl,
           NEW s, s = DbWrite(d, p, st)
    PROVE  PlainNext(d, p, s)
<1>1. p_hdl2 \in Nat
  BY DEF Ready
<1>2. \/ \E h \in st .. p_hdl2 : s = Step(h, <<Request("write", h, d[h].len)>>)
      \/ s = [Step(p, <<>>) EXCEPT !.pair = TRUE]
  BY <1>1, DbWriteCases
<1>3. ASSUME NEW h \in st .. p_hdl2 PROVE h \in Nat /\ h \in Hdl
  BY <1>1, HdlFacts DEF Hdl, Ready
<1> QED
  BY <1>2, <1>3 DEF PlainNext

LEMMA NextPlain ==
    ASSUME Ready, p_hdl2 <= MaxHdl, NEW d, Real(d), NEW p, NEW st \in Nat, st >= 1,
           Tried(d, st), UntriedFrom(d, st),
           NEW no \in BOOLEAN, no = FALSE, NEW zero, zero = 0,
           NEW s, s = DbRead(d, no, p, st, zero)
    PROVE  PlainNext(d, p, s)
<1>1. p_hdl2 \in Nat /\ table \in Tables /\ Hdl \subseteq Nat
  BY HdlFacts DEF Ready
<1>2. ReadCases(d, no, p, st, zero, s)
  BY <1>1, DbReadCases
<1>3. \A h : Wanted(d, no, h) <=> Want(d, h)
  BY DEF Wanted, Want
<1>4. ASSUME NEW h \in Nat, ReadsFrom(d, no, st, h),
             s = Step(h, <<Request("read", h, zero)>>)
      PROVE  PlainNext(d, p, s)
  <2>1. h \in st .. p_hdl2 /\ Want(d, h) /\ \A g \in st .. p_hdl2 : Want(d, g) => h <= g
    BY <1>3, <1>4 DEF ReadsFrom
  <2>2. h \in Hdl
    BY <1>1, <2>1, HdlFacts DEF Hdl
  <2>3. h \in DOMAIN table
    BY <2>1, <2>2, WantIn
  <2>4. ~d[h].perm /\ d[h].len = 0
    BY <2>1, <2>2 DEF UntriedFrom
  <2>5. Tried(d, h)
    <3> SUFFICES ASSUME NEW g \in Hdl
                 PROVE  /\ Fresh(d, g)
                        /\ g < h => (Want(d, g) => d[g].perm \/ Whole(d, g))
      BY DEF Tried
    <3>1. ASSUME g < h, Want(d, g) PROVE d[g].perm \/ Whole(d, g)
      <4>1. g \in Nat /\ g <= p_hdl2
        BY <3>1, WantIn
      <4>2. ~(g >= st)
        BY <1>1, <2>1, <3>1, <4>1
      <4>3. g < st
        BY <4>1, <4>2
      <4> QED
        BY <3>1, <4>3 DEF Tried
    <3> QED
      BY <3>1 DEF Tried
  <2>6. UntriedFrom(d, h + 1)
    <3> SUFFICES ASSUME NEW g \in Hdl, g >= h + 1 PROVE ~d[g].perm /\ d[g].len = 0
      BY DEF UntriedFrom
    <3>1. g >= st
      BY <1>1, <2>1
    <3> QED
      BY <3>1 DEF UntriedFrom
  <2>7. PlainAt(d, h)
    BY <2>1, <2>4, <2>5, <2>6 DEF PlainAt
  <2> QED
    BY <1>4, <2>3, <2>4, <2>7 DEF PlainNext
<1>5. ASSUME NoneFrom(d, no, st), s = DbWrite(d, p, 1)
      PROVE  PlainNext(d, p, s)
  <2>1. Tried(d, MaxHdl)
    <3> SUFFICES ASSUME NEW g \in Hdl
                 PROVE  /\ Fresh(d, g)
                        /\ g < MaxHdl => (Want(d, g) => d[g].perm \/ Whole(d, g))
      BY DEF Tried
    <3>1. ASSUME Want(d, g) PROVE d[g].perm \/ Whole(d, g)
      <4>1. g \in Nat /\ g <= p_hdl2
        BY <3>1, WantIn
      <4>2. ~(g >= st)
        BY <1>1, <1>3, <1>5, <3>1, <4>1 DEF NoneFrom
      <4>3. g < st
        BY <4>1, <4>2
      <4> QED
        BY <3>1, <4>3 DEF Tried
    <3> QED
      BY <3>1 DEF Tried
  <2>2. PICK one \in Nat : one = 1 /\ one >= 1
    OBVIOUS
  <2> QED
    BY <1>5, <2>1, <2>2, WriteNext
<1> QED
  BY <1>2, <1>4, <1>5 DEF ReadCases

(* And on an encrypted one.                                                *)
RefusedNext(d, p, s) ==
    \/ \E h \in DOMAIN table :
         /\ s = Step(h, <<Request("read", h, d[h].len)>>)
         /\ d[h].len = 0 /\ RefusedAt(d, h)
    \/ WholeBelow(d, MaxHdl) /\ s = [Step(p, <<>>) EXCEPT !.close = TRUE]

LEMMA NextRefused ==
    ASSUME Ready, p_hdl2 <= MaxHdl, NEW d, Real(d), Own(d), NEW p, NEW st \in Nat, st >= 1,
           WholeBelow(d, st), RefusedFrom(d, st),
           NEW enc \in BOOLEAN, enc = TRUE, NEW zero, zero = 0,
           NEW s, s = DbRead(d, enc, p, st, zero)
    PROVE  RefusedNext(d, p, s)
<1>1. p_hdl2 \in Nat /\ table \in Tables /\ Hdl \subseteq Nat
  BY HdlFacts DEF Ready
<1>2. ReadCases(d, enc, p, st, zero, s)
  BY <1>1, DbReadCases
<1>3. \A h : Wanted(d, enc, h) = d[h].perm
  BY DEF Wanted
<1>4. ASSUME NEW h \in Nat, ReadsFrom(d, enc, st, h),
             s = Step(h, <<Request("read", h, zero)>>)
      PROVE  RefusedNext(d, p, s)
  <2>1. h \in st .. p_hdl2 /\ d[h].perm /\ \A g \in st .. p_hdl2 : d[g].perm => h <= g
    BY <1>3, <1>4 DEF ReadsFrom
  <2>2. h \in Hdl
    BY <1>1, <2>1, HdlFacts DEF Hdl
  <2>3. h \in DOMAIN table
    BY <2>1, <2>2 DEF Own
  <2>4. d[h].len = 0
    BY <2>1, <2>2 DEF RefusedFrom
  <2>5. WholeBelow(d, h)
    <3> SUFFICES ASSUME NEW g \in Hdl, g < h, Want(d, g) PROVE Whole(d, g)
      BY DEF WholeBelow
    <3>1. g \in Nat /\ g <= p_hdl2
      BY WantIn
    <3>2. CASE g < st
      BY <3>2 DEF WholeBelow
    <3>3. CASE g >= st
      <4>1. ~d[g].perm
        BY <1>1, <2>1, <3>1, <3>3
      <4> QED
        BY <3>3, <4>1 DEF RefusedFrom
    <3> QED
      BY <3>1, <3>2, <3>3
  <2>6. RefusedFrom(d, h + 1)
    <3> SUFFICES ASSUME NEW g \in Hdl, g >= h + 1
                 PROVE  /\ d[g].perm => d[g].len = 0
                        /\ Want(d, g) => d[g].perm \/ Whole(d, g)
      BY DEF RefusedFrom
    <3>1. g >= st
      BY <1>1, <2>1
    <3> QED
      BY <3>1 DEF RefusedFrom
  <2>7. RefusedAt(d, h)
    BY <2>1, <2>5, <2>6 DEF RefusedAt
  <2> QED
    BY <1>4, <2>3, <2>4, <2>7 DEF RefusedNext
<1>5. ASSUME NoneFrom(d, enc, st), s = [Step(p, <<>>) EXCEPT !.close = TRUE]
      PROVE  RefusedNext(d, p, s)
  <2>1. WholeBelow(d, MaxHdl)
    <3> SUFFICES ASSUME NEW g \in Hdl, Want(d, g) PROVE Whole(d, g)
      BY DEF WholeBelow
    <3>1. g \in Nat /\ g <= p_hdl2
      BY WantIn
    <3>2. CASE g < st
      BY <3>2 DEF WholeBelow
    <3>3. CASE g >= st
      <4>1. ~d[g].perm
        <5>1. g \in st .. p_hdl2
          BY <1>1, <3>1, <3>3
        <5>2. ~Wanted(d, enc, g)
          BY <1>5, <5>1 DEF NoneFrom
        <5> QED
          BY <1>3, <5>2
      <4> QED
        BY <3>3, <4>1 DEF RefusedFrom
    <3> QED
      BY <3>1, <3>2, <3>3
  <2> QED
    BY <1>5, <2>1 DEF RefusedNext
<1> QED
  BY <1>2, <1>4, <1>5 DEF ReadCases

(* A full response is read on.                                             *)
LEMMA ReadsOn ==
    ASSUME p_hdl2 \in Nat, NEW d, NEW enc \in BOOLEAN, NEW p \in Nat, p <= p_hdl2,
           Wanted(d, enc, p), NEW off, NEW s, s = DbRead(d, enc, p, p, off)
    PROVE  s = Step(p, <<Request("read", p, off)>>)
<1>1. ReadCases(d, enc, p, p, off, s)
  BY DbReadCases
<1>2. p \in p .. p_hdl2
  OBVIOUS
<1>3. ~NoneFrom(d, enc, p)
  BY <1>2 DEF NoneFrom
<1>4. PICK h \in Nat : ReadsFrom(d, enc, p, h) /\ s = Step(h, <<Request("read", h, off)>>)
  BY <1>1, <1>3 DEF ReadCases
<1>5. h = p
  <2>1. h \in p .. p_hdl2 /\ h <= p
    BY <1>2, <1>4 DEF ReadsFrom
  <2> QED
    BY <2>1
<1> QED
  BY <1>4, <1>5


(* The stage that a step leads to.                                         *)
LEMMA StagesPrimed ==
    ASSUME NEW d, db' = d, table' = table
    PROVE  /\ PlainAt(d, p_hdl1') => PlainAt(db, p_hdl1)'
           /\ RefusedAt(d, p_hdl1') => RefusedAt(db, p_hdl1)'
           /\ Tried(d, MaxHdl) => Tried(db, MaxHdl)'
           /\ WholeBelow(d, MaxHdl) => WholeBelow(db, MaxHdl)'
           /\ Own(d) => Own(db)'
           /\ ReadsAt(d, p_hdl1', reqs') => ReadsAt(db, p_hdl1, reqs)'
<1>1. \A n : Tried(d, n) => Tried(db, n)'
  BY DEF Tried, Fresh, Want, Whole, Hdl
<1>2. \A n : UntriedFrom(d, n) => UntriedFrom(db, n)'
  BY DEF UntriedFrom, Hdl
<1>3. \A n : WholeBelow(d, n) => WholeBelow(db, n)'
  BY DEF WholeBelow, Want, Whole, Hdl
<1>4. \A n : RefusedFrom(d, n) => RefusedFrom(db, n)'
  BY DEF RefusedFrom, Want, Whole, Hdl
<1>5. Own(d) => Own(db)'
  BY DEF Own, Hdl
<1>6. PlainAt(d, p_hdl1') => PlainAt(db, p_hdl1)'
  BY DEF PlainAt, Want, Tried, Fresh, Whole, UntriedFrom, Hdl
<1>7. RefusedAt(d, p_hdl1') => RefusedAt(db, p_hdl1)'
  BY DEF RefusedAt, WholeBelow, RefusedFrom, Want, Whole, Hdl
<1>8. ReadsAt(d, p_hdl1', reqs') => ReadsAt(db, p_hdl1, reqs)'
  BY DEF ReadsAt, Request
<1>9. Tried(d, MaxHdl) => Tried(db, MaxHdl)'
  BY <1>1
<1>10. WholeBelow(d, MaxHdl) => WholeBelow(db, MaxHdl)'
  BY <1>3
<1> QED
  BY <1>5, <1>6, <1>7, <1>8, <1>9, <1>10

Stage == ReadsPlain \/ Writes \/ Pairs \/ ReadsRefused \/ Stalled

LEMMA ToStage ==
    ASSUME NEW d, db' = d, table' = table, Own(d), ~finished', Stage'
    PROVE  ValuesInv'
  BY StagesPrimed DEF ValuesInv, Stage

LEMMA OneMore ==
    ASSUME NEW r \in RequestSet
    PROVE  <<>> \o <<r>> = <<r>>
  OBVIOUS

(* A read that follows, of h.                                              *)
LEMMA DoRead ==
    ASSUME table \in Tables, NEW d, NEW h \in DOMAIN table, d[h].len \in Nat,
           NEW s, s = Step(h, <<Request("read", h, d[h].len)>>),
           NEW no, no = FALSE, Do(<<>>, s, no), ~finished
    PROVE  /\ p_hdl1' = h /\ auth' = FALSE /\ finished' = FALSE /\ link' = link
           /\ reqs' = <<Request("read", h, d[h].len)>>
<1>1. PICK r : r = Request("read", h, d[h].len)
  OBVIOUS
<1>2. h \in Nat
  BY HdlFacts
<1>3. r \in RequestSet
  BY <1>1, <1>2 DEF Request, RequestSet
<1>4. s.hdl = h /\ s.req = <<r>> /\ s.pair = FALSE /\ s.close = FALSE
  <2>1. PICK q : q = <<r>>
    OBVIOUS
  <2>2. s = Step(h, q)
    BY <1>1, <2>1
  <2> QED
    BY <2>1, <2>2 DEF Step
<1>5. <<>> \o <<r>> = <<r>>
  BY <1>3, OneMore
<1>6. p_hdl1' = h /\ reqs' = <<>> \o <<r>> /\ auth' = (no \/ FALSE)
      /\ link' = link /\ finished' = (finished \/ FALSE)
  BY <1>4 DEF Do
<1> QED
  BY <1>1, <1>5, <1>6

LEMMA DoPlain ==
    ASSUME Ready, NEW d, Real(d), NEW p, NEW s, PlainNext(d, p, s), Own(d),
           NEW no, no = FALSE, Do(<<>>, s, no), ~finished,
           db' = d, table' = table, encrypted' = FALSE
    PROVE  ValuesInv'
<1>1. table \in Tables /\ d \in [Hdl -> Entry] /\ ByteMax \in Nat \ {0}
  BY SdpAssumption DEF Ready, Real
<1>2. \A h \in Hdl : d[h].len \in Nat
  BY <1>1 DEF Entry
<1>3. ASSUME NEW h \in DOMAIN table, s = Step(h, <<Request("read", h, d[h].len)>>),
             d[h].len = 0, PlainAt(d, h)
      PROVE  ValuesInv'
  <2>1. d[h].len \in Nat /\ table[h].len \in Nat
    BY <1>1, <1>2, HdlFacts, TableFacts DEF Attribute
  <2>2. /\ p_hdl1' = h /\ auth' = FALSE /\ finished' = FALSE
        /\ reqs' = <<Request("read", h, d[h].len)>>
    BY <1>1, <1>3, <2>1, DoRead
  <2>3. ReadsAt(d, p_hdl1', reqs')
    BY <1>3, <2>1, <2>2 DEF ReadsAt
  <2>4. ReadsPlain'
    BY <1>3, <2>2, <2>3, StagesPrimed DEF ReadsPlain
  <2> QED
    BY <2>2, <2>4, ToStage DEF Stage
<1>4. ASSUME Tried(d, MaxHdl), NEW h \in Nat, h \in Hdl,
             s = Step(h, <<Request("write", h, d[h].len)>>)
      PROVE  ValuesInv'
  <2>1. PICK r : r = Request("write", h, d[h].len)
    OBVIOUS
  <2>2. r \in RequestSet /\ r.op = "write"
    BY <1>2, <1>4, <2>1 DEF Request, RequestSet
  <2>3. s.req = <<r>> /\ s.pair = FALSE /\ s.close = FALSE
    <3>1. PICK q : q = <<r>>
      OBVIOUS
    <3>2. s = Step(h, q)
      BY <1>4, <2>1, <3>1
    <3> QED
      BY <3>1, <3>2 DEF Step
  <2>4. <<>> \o <<r>> = <<r>>
    BY <2>2, OneMore
  <2>5. reqs' = <<>> \o <<r>> /\ auth' = (no \/ FALSE) /\ finished' = (finished \/ FALSE)
    BY <2>3 DEF Do
  <2>6. Tried(db, MaxHdl)'
    BY <1>4, StagesPrimed
  <2>7. Writes'
    <3>1. \E q \in RequestSet' : reqs' = <<q>> /\ q.op = "write"
      BY <2>2, <2>4, <2>5 DEF RequestSet
    <3> QED
      BY <2>5, <2>6, <3>1 DEF Writes
  <2> QED
    BY <2>5, <2>7, ToStage DEF Stage
<1>5. ASSUME Tried(d, MaxHdl), s = [Step(p, <<>>) EXCEPT !.pair = TRUE]
      PROVE  ValuesInv'
  <2>1. s.req = <<>> /\ s.pair = TRUE /\ s.close = FALSE
    <3>1. PICK q : q = <<>>
      OBVIOUS
    <3>2. s = [Step(p, q) EXCEPT !.pair = TRUE]
      BY <1>5, <3>1
    <3> QED
      BY <3>1, <3>2 DEF Step
  <2>2. reqs' = <<>> /\ auth' /\ ~finished'
    <3>1. reqs' = <<>> \o <<>> /\ auth' = (no \/ TRUE) /\ finished' = (finished \/ FALSE)
      BY <2>1 DEF Do
    <3>2. <<>> \o <<>> = <<>>
      OBVIOUS
    <3>3. auth'
      BY <3>1, Zenon
    <3> QED
      BY <3>1, <3>2, <3>3
  <2>3. Tried(db, MaxHdl)'
    BY <1>5, StagesPrimed
  <2>4. Pairs'
    BY <2>2, <2>3 DEF Pairs
  <2> QED
    BY <2>2, <2>4, ToStage DEF Stage
<1> QED
  BY <1>3, <1>4, <1>5 DEF PlainNext

LEMMA DoRefused ==
    ASSUME Ready, NEW d, Real(d), NEW p, NEW s, RefusedNext(d, p, s), Own(d),
           NEW no, no = FALSE, Do(<<>>, s, no), ~finished,
           db' = d, table' = table, encrypted' = TRUE
    PROVE  ValuesInv'
<1>1. table \in Tables /\ d \in [Hdl -> Entry] /\ ByteMax \in Nat \ {0}
  BY SdpAssumption DEF Ready, Real
<1>2. \A h \in Hdl : d[h].len \in Nat
  BY <1>1 DEF Entry
<1>3. ASSUME NEW h \in DOMAIN table, s = Step(h, <<Request("read", h, d[h].len)>>),
             d[h].len = 0, RefusedAt(d, h)
      PROVE  ValuesInv'
  <2>1. d[h].len \in Nat /\ table[h].len \in Nat
    BY <1>1, <1>2, HdlFacts, TableFacts DEF Attribute
  <2>2. /\ p_hdl1' = h /\ auth' = FALSE /\ finished' = FALSE
        /\ reqs' = <<Request("read", h, d[h].len)>>
    BY <1>1, <1>3, <2>1, DoRead
  <2>3. ReadsAt(d, p_hdl1', reqs')
    BY <1>3, <2>1, <2>2 DEF ReadsAt
  <2>4. ReadsRefused'
    BY <1>3, <2>2, <2>3, StagesPrimed DEF ReadsRefused
  <2> QED
    BY <2>2, <2>4, ToStage DEF Stage
<1>4. ASSUME WholeBelow(d, MaxHdl), s = [Step(p, <<>>) EXCEPT !.close = TRUE]
      PROVE  ValuesInv'
  <2>1. s.close = TRUE
    <3>1. PICK q : q = <<>>
      OBVIOUS
    <3>2. s = [Step(p, q) EXCEPT !.close = TRUE]
      BY <1>4, <3>1
    <3> QED
      BY <3>1, <3>2 DEF Step
  <2>2. link' = "closing"
    BY <2>1 DEF Do
  <2>3. WholeBelow(db, MaxHdl)' /\ Own(db)'
    BY <1>4, StagesPrimed
  <2> QED
    BY <2>2, <2>3 DEF ValuesInv
<1> QED
  BY <1>3, <1>4 DEF RefusedNext


(* The steps of the search.                                                *)
LEMMA Context ==
    ASSUME TypeInv, SearchInv, searched, ~WideDesc
    PROVE  Ready /\ p_hdl2 <= MaxHdl /\ Real(db)
<1>1. /\ table \in Tables /\ db \in [Hdl -> Entry] /\ p_hdl2 \in 0 .. MaxHdl
      /\ MaxHdl \in Nat
  BY SdpAssumption DEF TypeInv
<1>2. p_hdl2 >= Len(table) /\ FoundIsReal
  BY DEF SearchInv
<1>3. Real(db)
  BY <1>1, <1>2 DEF Real, FoundIsReal
<1> QED
  BY <1>1, <1>2, <1>3 DEF Ready

LEMMA SearchStep ==
    ASSUME SearchInv', link' = "up", ~searched'
    PROVE  ValuesInv'
<1>1. Untouched' /\ ~finished'
  BY DEF SearchInv, Searching
<1>2. Own(db)'
  BY <1>1 DEF Own, Untouched
<1> QED
  BY <1>1, <1>2 DEF ValuesInv

LEMMA SearchEnds ==
    ASSUME TypeInv, TypeInv', SearchInv, SearchInv', link = "up", ~searched, Searching,
           Rest = <<>>, NEW d, db' = d, Untouched',
           NEW hdl3 \in Nat, SearchInfo(d, Rest, hdl3),
           UNCHANGED <<peerVars, encrypted, p_hdl2, conns, early>>
    PROVE  ValuesInv'
<1>1. /\ table \in Tables /\ p_hdl2 \in 0 .. MaxHdl /\ p_hdl2 \in Nat /\ searched \in BOOLEAN
      /\ MaxHdl \in Nat /\ Len(table) \in Nat /\ d \in [Hdl -> Entry]
      /\ auth \in BOOLEAN /\ encrypted \in BOOLEAN
  <2>1. d \in [Hdl' -> Entry']
    BY DEF TypeInv
  <2>2. d \in [Hdl -> Entry]
    BY <2>1 DEF Hdl, Entry, Kinds
  <2> QED
    BY <2>2, TableFacts, SdpAssumption DEF TypeInv
<1>2. ~auth /\ ~encrypted /\ ~finished
  BY DEF Searching
<1>3. table' = table /\ p_hdl2' = p_hdl2 /\ encrypted' = encrypted
  BY DEF peerVars
<1>4. PICK st \in Nat :
        EndsSearch(d, Rest, st) \/ \E en \in Nat : AsksGap(d, Rest, st, en)
  BY <1>1, SearchInfoCases
<1>5. ASSUME NEW en \in Nat, AsksGap(d, Rest, st, en) PROVE ValuesInv'
  <2>1. ~searched' /\ Do(Rest, Step(st, <<Request("info", st, en)>>), auth)
    BY <1>5 DEF AsksGap
  <2>2. link' = "up"
    BY <2>1 DEF Do, Step
  <2> QED
    BY <2>1, <2>2, SearchStep
<1>6. ASSUME EndsSearch(d, Rest, st), ~WideDesc' PROVE ValuesInv'
  <2>1. searched' /\ Do(<<>>, DbRead(d, encrypted, st, 1, 0), auth)
    BY <1>6 DEF EndsSearch
  <2>2. FoundIsReal' /\ p_hdl2 >= Len(table)
    BY <1>3, <2>1 DEF SearchInv
  <2>3. Real(d)
    BY <1>1, <1>3, <1>6, <2>2 DEF FoundIsReal, Real, Hdl
  <2>4. \A h \in Hdl : ~d[h].perm /\ d[h].len = 0 /\ d[h].from = {}
    BY DEF Untouched, Hdl
  <2>5. PICK one \in Nat, zero \in Nat, no \in BOOLEAN :
          one = 1 /\ one >= 1 /\ zero = 0 /\ no = FALSE
    <3>1. PICK one \in Nat, zero \in Nat : one = 1 /\ one >= 1 /\ zero = 0
      OBVIOUS
    <3>2. FALSE \in BOOLEAN
      OBVIOUS
    <3> QED
      BY ONLY <3>1, <3>2, Zenon
  <2>6. PICK s : s = DbRead(d, no, st, one, zero)
    OBVIOUS
  <2>7. Ready /\ p_hdl2 <= MaxHdl
    BY <1>1, <2>2 DEF Ready
  <2>8. Tried(d, one)
    <3>1. \A h \in Hdl : ~(h < one)
      BY <1>1, <2>5, HdlFacts
    <3> QED
      BY <2>4, <3>1 DEF Tried, Fresh
  <2>9. UntriedFrom(d, one) /\ Own(d)
    BY <2>4 DEF UntriedFrom, Own
  <2>10. PlainNext(d, st, s)
    BY <2>3, <2>5, <2>6, <2>7, <2>8, <2>9, NextPlain
  <2>11. Do(<<>>, s, no) /\ encrypted' = FALSE
    <3>1. encrypted = FALSE /\ auth = FALSE
      BY <1>1, <1>2
    <3> QED
      BY <1>3, <2>1, <2>5, <2>6, <3>1
  <2> QED
    BY <1>2, <1>3, <2>3, <2>5, <2>7, <2>9, <2>10, <2>11, DoPlain
<1>7. WideDesc' => ValuesInv'
  BY DEF ValuesInv
<1> QED
  BY <1>4, <1>5, <1>6, <1>7

LEMMA SearchValues ==
    ASSUME TypeInv, TypeInv', SearchInv, SearchInv',
           \/ ReadGroupRsp \/ ReadGroupEnd \/ ReadByTypeRsp \/ Connected
    PROVE  ValuesInv'
<1>1. ASSUME ReadGroupRsp \/ ReadGroupEnd \/ ReadByTypeRsp
      PROVE  link' = "up" /\ ~searched'
  <2>1. link = "up" /\ reqs # <<>> /\ Head(reqs).op \in {"group", "type"}
    BY <1>1 DEF ReadGroupRsp, ReadGroupEnd, ReadByTypeRsp, Answered
  <2>2. ~searched
    BY <2>1, Asking
  <2>3. link' = link /\ searched' = searched
    BY <1>1 DEF ReadGroupRsp, ReadGroupEnd, ReadByTypeRsp, Ask, histVars
  <2> QED
    BY <2>1, <2>2, <2>3
<1>2. ASSUME Connected PROVE link' = "up" /\ ~searched'
  BY <1>2 DEF Connected
<1> QED
  BY <1>1, <1>2, SearchStep

LEMMA ReadByTypeEndValues ==
    ASSUME TypeInv, TypeInv', SearchInv, SearchInv', ReadByTypeEnd
    PROVE  ValuesInv'
<1>1. link = "up" /\ reqs # <<>> /\ Head(reqs).op = "type"
  BY DEF ReadByTypeEnd, Answered
<1>2. ~searched /\ Searching /\ Rest = <<>>
  BY <1>1, Asking
<1>0. PICK d : d = db
  OBVIOUS
<1>3. PICK zero \in Nat : zero = 0 /\ d = db
  BY <1>0
<1>4. /\ SearchInfo(d, Rest, zero) /\ db' = d
      /\ UNCHANGED <<peerVars, encrypted, p_hdl2, conns, early>>
  BY <1>3 DEF ReadByTypeEnd
<1>5. Untouched'
  BY <1>2, <1>3, <1>4 DEF Searching, Untouched, Hdl
<1> QED
  BY <1>1, <1>2, <1>4, <1>5, SearchEnds

LEMMA FindInfoEndValues ==
    ASSUME TypeInv, TypeInv', SearchInv, SearchInv', FindInfoEnd
    PROVE  ValuesInv'
<1>1. link = "up" /\ reqs # <<>> /\ Head(reqs).op = "info"
  BY DEF FindInfoEnd, Answered
<1>2. ~searched /\ Searching /\ Rest = <<>>
  BY <1>1, Asking
<1>0. PICK d : d = db
  OBVIOUS
<1>3. PICK hdl3 \in Nat : hdl3 = p_hdl3 /\ d = db
  BY <1>0 DEF TypeInv
<1>4. /\ SearchInfo(d, Rest, hdl3) /\ db' = d
      /\ UNCHANGED <<peerVars, encrypted, p_hdl2, conns, early>>
  BY <1>3 DEF FindInfoEnd
<1>5. Untouched'
  BY <1>2, <1>3, <1>4 DEF Searching, Untouched, Hdl
<1> QED
  BY <1>1, <1>2, <1>4, <1>5, SearchEnds

LEMMA MarkedUntouched ==
    ASSUME db \in [Hdl -> Entry], Untouched, NEW known, db' = Marked(known)
    PROVE  Untouched'
<1> SUFFICES ASSUME NEW h \in Hdl
             PROVE  ~db'[h].perm /\ db'[h].len = 0 /\ db'[h].from = {}
  BY DEF Untouched, Hdl
<1>1. PICK e \in Entry : e = db[h]
  OBVIOUS
<1>2. db'[h] = IF h \in known THEN [e EXCEPT !.type = "desc", !.read = TRUE, !.write = TRUE]
               ELSE e
  BY <1>1 DEF Marked
<1>3. ~e.perm /\ e.len = 0 /\ e.from = {}
  BY <1>1 DEF Untouched
<1> QED
  BY <1>2, <1>3 DEF Entry

LEMMA FindInfoRspValues ==
    ASSUME TypeInv, TypeInv', SearchInv, SearchInv', FindInfoRsp
    PROVE  ValuesInv'
<1>1. link = "up" /\ reqs # <<>> /\ Head(reqs).op = "info"
  BY DEF FindInfoRsp, Answered
<1>2. ~searched /\ Searching /\ Rest = <<>>
  BY <1>1, Asking
<1>0. PICK d : d = db'
  OBVIOUS
<1>3. PICK hdl3 \in Nat : hdl3 = p_hdl3 /\ d = db'
  BY <1>0 DEF TypeInv
<1>4. /\ SearchInfo(d, Rest, hdl3) /\ db' = d
      /\ UNCHANGED <<peerVars, encrypted, p_hdl2, conns, early>>
  BY <1>3 DEF FindInfoRsp
<1>5. Untouched'
  <2>1. PICK known : db' = Marked(known)
    BY DEF FindInfoRsp, Marked
  <2>2. db \in [Hdl -> Entry] /\ Untouched
    BY <1>2 DEF TypeInv, Searching
  <2> QED
    BY <2>1, <2>2, MarkedUntouched
<1> QED
  BY <1>1, <1>2, <1>4, <1>5, SearchEnds


(* The reads.  The one that is answered is the one that the stage is at.   *)
ReadContext ==
    /\ searched /\ ~finished /\ ~auth /\ auth = FALSE
    /\ Ready /\ p_hdl2 <= MaxHdl /\ Real(db) /\ Own(db)
    /\ Rest = <<>> /\ Head(reqs).from = p_hdl1 /\ Head(reqs).to = db[p_hdl1].len
    /\ ReadsAt(db, p_hdl1, reqs)
    /\ p_hdl1 \in DOMAIN table /\ p_hdl1 \in Hdl /\ p_hdl1 \in Nat /\ p_hdl1 >= 1
    /\ p_hdl1 <= p_hdl2 /\ db[p_hdl1].len \in Nat
    /\ \/ encrypted = FALSE /\ PlainAt(db, p_hdl1)
       \/ encrypted = TRUE /\ RefusedAt(db, p_hdl1)

LEMMA ReadStage ==
    ASSUME TypeInv, Asked, SearchInv, ValuesInv, ~WideDesc, ~early, Answered("read")
    PROVE  ReadContext
<1>1. link = "up" /\ reqs # <<>> /\ Head(reqs).op = "read"
  BY DEF Answered
<1>2. searched /\ ~finished
  BY <1>1, AfterSearch DEF SearchInv
<1>3. Ready /\ p_hdl2 <= MaxHdl /\ Real(db) /\ Own(db)
  BY <1>2, Context DEF ValuesInv
<1>4. ~Writes
  <2>1. ASSUME NEW r \in RequestSet, reqs = <<r>>, r.op = "write" PROVE FALSE
    BY <1>1, <2>1, OneRequest
  <2> QED
    BY <2>1 DEF Writes
<1>5. ReadsPlain \/ ReadsRefused
  BY <1>1, <1>2, <1>4 DEF ValuesInv, Pairs, Stalled
<1>6. /\ ReadsAt(db, p_hdl1, reqs) /\ ~auth
      /\ \/ ~encrypted /\ PlainAt(db, p_hdl1)
         \/ encrypted /\ RefusedAt(db, p_hdl1)
  BY <1>5 DEF ReadsPlain, ReadsRefused
<1>7. PICK p : p = p_hdl1
  OBVIOUS
<1>8. p \in DOMAIN table /\ reqs = <<Request("read", p, db[p].len)>>
  BY <1>6, <1>7 DEF ReadsAt
<1>9. p \in Hdl /\ p \in Nat /\ p >= 1 /\ p <= p_hdl2
  BY <1>3, <1>8, HdlFacts DEF Ready
<1>10. db[p].len \in Nat
  <2>1. db[p] \in Entry
    BY <1>3, <1>9 DEF Real
  <2> QED
    BY <2>1, SdpAssumption DEF Entry
<1>11. PICK r : r = Request("read", p, db[p].len)
  OBVIOUS
<1>12. r \in RequestSet /\ r.from = p /\ r.to = db[p].len
  BY <1>9, <1>10, <1>11 DEF Request, RequestSet
<1>13. Head(reqs) = r /\ Rest = <<>>
  BY <1>8, <1>11, <1>12, OneRequest
<1>14. (~encrypted => encrypted = FALSE) /\ (encrypted => encrypted = TRUE) /\ auth = FALSE
  BY <1>6 DEF TypeInv
<1> QED
  BY <1>2, <1>3, <1>6, <1>7, <1>8, <1>9, <1>10, <1>12, <1>13, <1>14 DEF ReadContext

(* What is stored for p leaves the rest as it was.                         *)
LEMMA Elsewhere ==
    ASSUME Ready, NEW p \in Hdl, NEW d,
           \A k \in Hdl : k # p => d[k] = db[k],
           d[p].type = db[p].type, d[p].read = db[p].read, d[p].perm = db[p].perm
    PROVE  /\ Want(d, p) <=> Want(db, p)
           /\ PlainAt(db, p) => PlainAt(d, p)
           /\ RefusedAt(db, p) => RefusedAt(d, p)
<1>1. Hdl \subseteq Nat
  BY HdlFacts DEF Ready
<1>2. Want(d, p) <=> Want(db, p)
  BY DEF Want
<1>3. \A k \in Hdl : k # p => /\ Want(d, k) <=> Want(db, k)
                              /\ Whole(d, k) <=> Whole(db, k)
                              /\ Fresh(d, k) <=> Fresh(db, k)
  BY DEF Want, Whole, Fresh
<1>4. \A k \in Hdl : k < p \/ k >= p + 1 => k # p
  BY <1>1
<1>5. ASSUME PlainAt(db, p) PROVE PlainAt(d, p)
  <2>1. Fresh(d, p)
    BY <1>2, <1>5 DEF PlainAt, Fresh
  <2>2. Tried(d, p)
    BY <1>3, <1>4, <1>5, <2>1 DEF PlainAt, Tried
  <2>3. UntriedFrom(d, p + 1)
    BY <1>4, <1>5 DEF PlainAt, UntriedFrom
  <2> QED
    BY <1>2, <1>5, <2>2, <2>3 DEF PlainAt
<1>6. ASSUME RefusedAt(db, p) PROVE RefusedAt(d, p)
  <2>1. WholeBelow(d, p)
    BY <1>3, <1>4, <1>6 DEF RefusedAt, WholeBelow
  <2>2. RefusedFrom(d, p + 1)
    BY <1>3, <1>4, <1>6 DEF RefusedAt, RefusedFrom
  <2> QED
    BY <1>6, <2>1, <2>2 DEF RefusedAt
<1> QED
  BY <1>2, <1>5, <1>6

(* The next read, when that of p is over.                                  *)
LEMMA ReadsNext ==
    ASSUME TypeInv, ReadContext, NEW d, Real(d), Own(d),
           \/ encrypted = FALSE /\ Tried(d, p_hdl1 + 1) /\ UntriedFrom(d, p_hdl1 + 1)
           \/ encrypted = TRUE /\ WholeBelow(d, p_hdl1 + 1) /\ RefusedFrom(d, p_hdl1 + 1),
           Do(<<>>, DbRead(d, encrypted, p_hdl1, p_hdl1 + 1, 0), auth),
           db' = d, table' = table, encrypted' = encrypted
    PROVE  ValuesInv'
<1>1. /\ Ready /\ p_hdl2 <= MaxHdl /\ p_hdl1 \in Nat /\ auth = FALSE /\ ~finished
      /\ encrypted \in BOOLEAN
  BY DEF ReadContext, TypeInv
<1>2. PICK st \in Nat, zero \in Nat : st = p_hdl1 + 1 /\ st >= 1 /\ zero = 0
  BY <1>1
<1>3. PICK s : s = DbRead(d, encrypted, p_hdl1, st, zero)
  OBVIOUS
<1>4. Do(<<>>, s, auth)
  BY <1>2, <1>3
<1>5. CASE encrypted = FALSE /\ Tried(d, p_hdl1 + 1) /\ UntriedFrom(d, p_hdl1 + 1)
  <2>1. Tried(d, st) /\ UntriedFrom(d, st)
    BY <1>2, <1>5
  <2>2. PlainNext(d, p_hdl1, s)
    BY <1>1, <1>2, <1>3, <1>5, <2>1, NextPlain
  <2> QED
    BY <1>1, <1>4, <1>5, <2>2, DoPlain
<1>6. CASE encrypted = TRUE /\ WholeBelow(d, p_hdl1 + 1) /\ RefusedFrom(d, p_hdl1 + 1)
  <2>1. WholeBelow(d, st) /\ RefusedFrom(d, st)
    BY <1>2, <1>6
  <2>2. RefusedNext(d, p_hdl1, s)
    BY <1>1, <1>2, <1>3, <1>6, <2>1, NextRefused
  <2> QED
    BY <1>1, <1>4, <1>6, <2>2, DoRefused
<1> QED
  BY <1>5, <1>6

LEMMA Modulo ==
    ASSUME NEW m \in Nat, m # 0, NEW x \in Nat, x < m
    PROVE  x % m = x
  OBVIOUS

(* How much of p is there after the response.                              *)
LEMMA Stored ==
    ASSUME TypeInv, ReadContext, NEW off \in Nat, off = db[p_hdl1].len,
           NEW n \in Nat, n = Part(p_hdl1, off), NEW l, l = (off + n) % ByteMax,
           table[p_hdl1].len < ByteMax
    PROVE  /\ Full(n) => l <= table[p_hdl1].len
           /\ ~Full(n) /\ ValueLen(p_hdl1) = table[p_hdl1].len => l = table[p_hdl1].len
<1>1. PICK p \in DOMAIN table : p = p_hdl1
  BY DEF ReadContext
<1>2. off <= table[p].len
  BY <1>1 DEF ReadContext, ReadsAt
<1>3. /\ ValueLen(p) \in Nat
      /\ off <= ValueLen(p) => off + n <= ValueLen(p)
      /\ n < Mtu - 1 /\ off <= ValueLen(p) => off + n = ValueLen(p)
      /\ ~(off <= ValueLen(p)) => n = 0
  BY <1>1, PartOf
<1>4. ByteMax \in Nat /\ ByteMax # 0 /\ Mtu \in 23 .. 29
  BY SdpAssumption, AttServerAssumption
<1>5. table[p].len \in Nat
  <2>1. table \in Tables
    BY DEF TypeInv
  <2> QED
    BY <2>1, TableFacts DEF Attribute
<1>6. ASSUME off + n <= table[p].len PROVE l = off + n
  <2>1. off + n \in Nat /\ off + n < ByteMax
    BY <1>1, <1>4, <1>5, <1>6
  <2> QED
    BY <1>4, <2>1, Modulo
<1>7. ASSUME Full(n) PROVE l <= table[p].len
  <2>1. n >= 22
    BY <1>4, <1>7 DEF Full
  <2>2. off <= ValueLen(p) /\ off + n <= ValueLen(p)
    BY <1>3, <2>1
  <2>3. ValueLen(p) = table[p].len
    <3>1. ValueLen(p) # 2
      BY <1>3, <2>1, <2>2
    <3> QED
      BY <3>1 DEF ValueLen
  <2> QED
    BY <1>6, <2>2, <2>3
<1>8. ASSUME ~Full(n), ValueLen(p) = table[p].len PROVE l = table[p].len
  <2>1. off + n = table[p].len
    BY <1>2, <1>3, <1>4, <1>8 DEF Full
  <2> QED
    BY <1>5, <1>6, <2>1
<1> QED
  BY <1>1, <1>7, <1>8


LEMMA ReadRspValues ==
    ASSUME TypeInv, Asked, SearchInv, ValuesInv, ReadRsp
    PROVE  ValuesInv'
<1>1. PICK h \in DOMAIN table, off \in Nat, n \in Nat :
         /\ h = Head(reqs).from /\ off = Head(reqs).to /\ n = Part(h, off)
         /\ db' = StoreRead(p_hdl1, h, n) /\ Do(Rest, NextRead(db', n), auth)
  BY ReadRspSays
<1>2. /\ Answered("read") /\ table' = table /\ encrypted' = encrypted /\ early' = early
      /\ UNCHANGED <<peerVars, encrypted, p_hdl2, p_hdl3, conns, searched, early>>
  BY DEF ReadRsp, peerVars
<1>3. CASE WideDesc \/ early
  BY <1>2, <1>3 DEF ValuesInv, WideDesc
<1>4. CASE ~WideDesc /\ ~early
  <2>1. ReadContext
    BY <1>2, <1>4, ReadStage
  <2>2. PICK p \in DOMAIN table : p = p_hdl1
    BY <2>1 DEF ReadContext
  <2>3. /\ h = p /\ off = db[p].len /\ n = Part(p, off) /\ p \in Hdl /\ p \in Nat
        /\ p <= p_hdl2 /\ Ready /\ Real(db) /\ Own(db) /\ ~finished /\ auth = FALSE
        /\ table \in Tables
    BY <1>1, <2>1, <2>2 DEF ReadContext, Ready
  <2>4. PICK d : d = db'
    OBVIOUS
  <2>5. /\ d \in [Hdl -> Entry]
        /\ \A k \in Hdl : k # p => d[k] = db[k]
        /\ d[p].len = (off + n) % ByteMax /\ d[p].from = db[p].from \cup {p}
        /\ d[p].type = db[p].type /\ d[p].read = db[p].read /\ d[p].perm = db[p].perm
    <3>1. d = StoreRead(p, p, n) /\ db \in [Hdl -> Entry]
      BY <1>1, <2>2, <2>3, <2>4 DEF Real
    <3>2. /\ StoreRead(p, p, n) \in [Hdl -> Entry]
          /\ \A k \in Hdl : k # p => StoreRead(p, p, n)[k] = db[k]
          /\ StoreRead(p, p, n)[p].len = (db[p].len + n) % ByteMax
          /\ StoreRead(p, p, n)[p].from = db[p].from \cup {p}
          /\ StoreRead(p, p, n)[p].type = db[p].type
          /\ StoreRead(p, p, n)[p].read = db[p].read
          /\ StoreRead(p, p, n)[p].perm = db[p].perm
      BY <2>3, <3>1, StoreReadTypes
    <3> QED
      BY <2>3, <3>1, <3>2
  <2>6. Real(d)
    BY <2>3, <2>5 DEF Real
  <2>7. Own(d)
    <3> SUFFICES ASSUME NEW k \in Hdl
                 PROVE  d[k].from \subseteq {k} /\ (d[k].perm => k \in DOMAIN table)
      BY DEF Own
    <3>1. db[k].from \subseteq {k} /\ (db[k].perm => k \in DOMAIN table)
      BY <2>3 DEF Own
    <3>2. CASE k = p
      BY <2>5, <3>1, <3>2
    <3>3. CASE k # p
      BY <2>5, <3>1, <3>3
    <3> QED
      BY <3>2, <3>3
  <2>8. /\ Want(d, p) <=> Want(db, p)
        /\ PlainAt(db, p) => PlainAt(d, p)
        /\ RefusedAt(db, p) => RefusedAt(d, p)
    BY <2>3, <2>5, Elsewhere
  <2>9. \/ encrypted = FALSE /\ PlainAt(d, p)
        \/ encrypted = TRUE /\ RefusedAt(d, p)
    BY <2>1, <2>2, <2>8 DEF ReadContext
  <2>10. PICK l : l = d[p].len
    OBVIOUS
  <2>11. table[p].len < ByteMax =>
           /\ Full(n) => l <= table[p].len
           /\ ~Full(n) /\ ValueLen(p) = table[p].len => l = table[p].len
    BY <2>1, <2>2, <2>3, <2>5, <2>10, Stored
  <2>12. Do(<<>>, NextRead(d, n), auth) /\ db' = d
    BY <1>1, <2>1, <2>4 DEF ReadContext
  <2>13. CASE Full(n)
    <3>1. PICK s : s = DbRead(d, encrypted, p, p, l)
      OBVIOUS
    <3>2. Do(<<>>, s, auth)
      BY <2>2, <2>10, <2>12, <2>13, <3>1 DEF NextRead, NextOffset
    <3>3. Wanted(d, encrypted, p)
      BY <2>9 DEF PlainAt, RefusedAt, Wanted, Want
    <3>4. s = Step(p, <<Request("read", p, l)>>)
      <4>1. p_hdl2 \in Nat /\ encrypted \in BOOLEAN
        BY <2>3, <2>9 DEF Ready
      <4> QED
        BY <2>3, <3>1, <3>3, <4>1, ReadsOn
    <3>5. l \in Nat
      <4>1. d[p] \in Entry
        BY <2>3, <2>5
      <4> QED
        BY <2>10, <4>1, SdpAssumption DEF Entry
    <3>6. /\ p_hdl1' = p /\ auth' = FALSE /\ finished' = FALSE
          /\ reqs' = <<Request("read", p, d[p].len)>>
      BY <2>3, <2>10, <3>2, <3>4, <3>5, DoRead
    <3>7. ReadsAt(d, p_hdl1', reqs')
      BY <2>10, <2>11, <2>13, <3>6 DEF ReadsAt
    <3>8. \/ encrypted' = FALSE /\ PlainAt(d, p_hdl1')
          \/ encrypted' = TRUE /\ RefusedAt(d, p_hdl1')
      BY <1>2, <2>9, <3>6
    <3>9. ReadsPlain' \/ ReadsRefused'
      BY <1>2, <2>12, <3>6, <3>7, <3>8, StagesPrimed DEF ReadsPlain, ReadsRefused
    <3> QED
      BY <1>2, <2>7, <2>12, <3>6, <3>9, ToStage DEF Stage
  <2>14. CASE ~Full(n)
    <3>1. Do(<<>>, DbRead(d, encrypted, p_hdl1, p_hdl1 + 1, 0), auth)
      BY <2>12, <2>14 DEF NextRead
    <3>2. Want(d, p) => Whole(d, p)
      <4>1. ASSUME Want(d, p) PROVE ValueLen(p) = table[p].len
        BY <2>3, <2>6, <4>1, WantIn
      <4> QED
        BY <2>10, <2>11, <2>14, <4>1 DEF Whole
    <3>3. \A k \in Hdl : /\ k < p + 1 => k < p \/ k = p
                         /\ k \in Nat
      BY <2>3, HdlFacts
    <3>4. CASE encrypted = FALSE /\ PlainAt(d, p)
      <4>1. Tried(d, p + 1) /\ UntriedFrom(d, p + 1)
        BY <3>2, <3>3, <3>4 DEF PlainAt, Tried
      <4> QED
        BY <1>2, <2>1, <2>2, <2>6, <2>7, <2>12, <3>1, <3>4, <4>1, ReadsNext
    <3>5. CASE encrypted = TRUE /\ RefusedAt(d, p)
      <4>1. WholeBelow(d, p + 1) /\ RefusedFrom(d, p + 1)
        BY <3>2, <3>3, <3>5 DEF RefusedAt, WholeBelow
      <4> QED
        BY <1>2, <2>1, <2>2, <2>6, <2>7, <2>12, <3>1, <3>5, <4>1, ReadsNext
    <3> QED
      BY <2>9, <3>4, <3>5
  <2> QED
    BY <2>13, <2>14
<1> QED
  BY <1>3, <1>4

(* A read that is refused: not to be had on a plain link, or not at all.   *)
LEMMA ReadErrorValues ==
    ASSUME TypeInv, Asked, SearchInv, ValuesInv, ReadError
    PROVE  ValuesInv'
<1>1. PICK S : S = RefusedSet(Head(reqs).from)
  OBVIOUS
<1>2. /\ Answered("read") /\ Head(reqs).to = 0
      /\ Exists(Head(reqs).from) /\ table[Head(reqs).from].read => Locked(Head(reqs).from)
      /\ db' = Refuse(S)
      /\ Do(Rest, DbRead(db', encrypted, p_hdl1, p_hdl1 + 1, 0), auth)
  BY <1>1, ReadErrorSays
<1>3. table' = table /\ encrypted' = encrypted /\ early' = early
  BY DEF ReadError, peerVars
<1>4. CASE WideDesc \/ early
  BY <1>3, <1>4 DEF ValuesInv, WideDesc
<1>5. CASE ~WideDesc /\ ~early
  <2>1. ReadContext
    BY <1>2, <1>5, ReadStage
  <2>2. PICK p \in DOMAIN table : p = p_hdl1
    BY <2>1 DEF ReadContext
  <2>3. /\ Head(reqs).from = p /\ db[p].len = 0 /\ p \in Hdl /\ p \in Nat
        /\ Ready /\ Real(db) /\ Own(db) /\ table \in Tables /\ db \in [Hdl -> Entry]
    BY <1>2, <2>1, <2>2 DEF ReadContext, Ready, Real
  <2>4. PICK d : d = db' /\ d = Refuse(S)
    BY <1>2
  <2>5. \A k \in Hdl : /\ d[k].type = db[k].type /\ d[k].read = db[k].read
                       /\ d[k].len = db[k].len /\ d[k].from = db[k].from
                       /\ d[k].perm = (db[k].perm \/ k \in S)
    BY <2>3, <2>4, RefuseKeeps
  <2>6. d \in [Hdl -> Entry]
    BY <2>3, <2>4, RefuseTypes
  <2>7. Real(d)
    BY <2>3, <2>5, <2>6 DEF Real
  <2>8. \A k \in Hdl : (Want(d, k) <=> Want(db, k)) /\ (Whole(d, k) <=> Whole(db, k))
    BY <2>5 DEF Want, Whole
  <2>9. ASSUME NEW k \in S
        PROVE  /\ k \in Hdl /\ k \in DOMAIN table /\ k <= p
               /\ encrypted = FALSE /\ (k # p => ~Want(d, k))
    <3>1. k \in Hdl /\ Locked(p) /\ (k = p \/ (db[p].type = "value" /\ k = p - 1))
      BY <1>1, <2>2, <2>3, <2>9 DEF RefusedSet
    <3>2. encrypted = FALSE
      BY <3>1 DEF Locked, TypeInv
    <3>3. CASE k = p
      BY <2>2, <2>3, <3>1, <3>2, <3>3
    <3>4. CASE db[p].type = "value" /\ k = p - 1
      <4>1. table[p].kind = "value"
        BY <2>3, <3>4 DEF Real
      <4>2. k \in DOMAIN table /\ table[k].kind = "decl"
        BY <2>3, <3>4, <4>1, TableFacts
      <4>3. ~Want(d, k)
        BY <2>7, <3>1, <4>2 DEF Real, Want
      <4> QED
        BY <2>3, <3>1, <3>2, <3>4, <4>2, <4>3
    <3> QED
      BY <3>1, <3>3, <3>4
  <2>10. Own(d)
    BY <2>3, <2>5, <2>9 DEF Own
  <2>11. Do(<<>>, DbRead(d, encrypted, p_hdl1, p_hdl1 + 1, 0), auth) /\ db' = d
    BY <1>2, <2>1, <2>4 DEF ReadContext
  <2>12. d[p].perm \/ Whole(d, p)
    <3>1. CASE table[p].read
      <4>1. Locked(p)
        BY <1>2, <2>2, <2>3, <3>1 DEF Exists
      <4>2. p \in S
        BY <1>1, <2>2, <2>3, <3>1, <4>1 DEF RefusedSet, Exists
      <4> QED
        BY <2>3, <2>5, <4>2
    <3>2. CASE ~table[p].read
      BY <3>2 DEF Whole
    <3> QED
      BY <3>1, <3>2
  <2>13. \A k \in Hdl : /\ k < p + 1 => k < p \/ k = p
                        /\ k >= p + 1 => k # p /\ ~(k <= p)
                        /\ k \in Nat
    BY <2>3, HdlFacts
  <2>14. CASE encrypted = FALSE /\ PlainAt(db, p)
    <3>1. \A k \in Hdl : Fresh(d, k)
      <4> SUFFICES ASSUME NEW k \in Hdl PROVE Fresh(d, k)
        OBVIOUS
      <4>1. Fresh(db, k)
        BY <2>14 DEF PlainAt, Tried
      <4>2. CASE k \notin S
        BY <2>5, <2>8, <4>1, <4>2 DEF Fresh
      <4>3. CASE k \in S /\ k = p
        BY <2>3, <2>5, <4>3 DEF Fresh
      <4>4. CASE k \in S /\ k # p
        BY <2>5, <2>8, <2>9, <4>1, <4>4 DEF Fresh
      <4> QED
        BY <4>2, <4>3, <4>4
    <3>2. ASSUME NEW k \in Hdl, k < p + 1, Want(d, k) PROVE d[k].perm \/ Whole(d, k)
      <4>1. CASE k = p
        BY <2>12, <4>1
      <4>2. CASE k < p
        <5>1. db[k].perm \/ Whole(db, k)
          BY <2>8, <2>14, <3>2, <4>2 DEF PlainAt, Tried
        <5> QED
          BY <2>5, <2>8, <5>1
      <4> QED
        BY <2>13, <3>2, <4>1, <4>2
    <3>3. Tried(d, p + 1)
      BY <3>1, <3>2 DEF Tried
    <3>4. UntriedFrom(d, p + 1)
      <4> SUFFICES ASSUME NEW k \in Hdl, k >= p + 1 PROVE ~d[k].perm /\ d[k].len = 0
        BY DEF UntriedFrom
      <4>1. ~db[k].perm /\ db[k].len = 0
        BY <2>14 DEF PlainAt, UntriedFrom
      <4>2. k \notin S
        BY <2>9, <2>13
      <4> QED
        BY <2>5, <4>1, <4>2
    <3> QED
      BY <1>3, <2>1, <2>2, <2>7, <2>10, <2>11, <2>14, <3>3, <3>4, ReadsNext
  <2>15. CASE encrypted = TRUE /\ RefusedAt(db, p)
    <3>1. \A k : k \notin S
      BY <2>9, <2>15
    <3>2. ~table[p].read
      <4>1. ~Locked(p)
        BY <2>15 DEF Locked
      <4> QED
        BY <1>2, <2>2, <2>3, <4>1 DEF Exists
    <3>3. WholeBelow(d, p + 1)
      <4> SUFFICES ASSUME NEW k \in Hdl, k < p + 1, Want(d, k) PROVE Whole(d, k)
        BY DEF WholeBelow
      <4>1. CASE k = p
        BY <3>2, <4>1 DEF Whole
      <4>2. CASE k < p
        BY <2>8, <2>15, <4>2 DEF RefusedAt, WholeBelow
      <4> QED
        BY <2>13, <4>1, <4>2
    <3>4. RefusedFrom(d, p + 1)
      <4> SUFFICES ASSUME NEW k \in Hdl, k >= p + 1
                   PROVE  /\ d[k].perm => d[k].len = 0
                          /\ Want(d, k) => d[k].perm \/ Whole(d, k)
        BY DEF RefusedFrom
      <4>1. /\ db[k].perm => db[k].len = 0
            /\ Want(db, k) => db[k].perm \/ Whole(db, k)
        BY <2>15 DEF RefusedAt, RefusedFrom
      <4> QED
        BY <2>5, <2>8, <3>1, <4>1
    <3> QED
      BY <1>3, <2>1, <2>2, <2>7, <2>10, <2>11, <2>15, <3>3, <3>4, ReadsNext
  <2> QED
    BY <2>1, <2>2, <2>14, <2>15 DEF ReadContext
<1> QED
  BY <1>4, <1>5


(* The other steps.                                                        *)
LEMMA BlobErrorValues ==
    ASSUME TypeInv, Asked, SearchInv, ValuesInv, BlobError
    PROVE  ValuesInv'
<1>1. /\ Answered("read") /\ reqs' = Rest /\ table' = table /\ early' = early
      /\ auth' = auth /\ db' = db /\ finished' = finished
  BY DEF BlobError, peerVars, histVars
<1>2. CASE WideDesc \/ early
  BY <1>1, <1>2 DEF ValuesInv, WideDesc
<1>3. CASE ~WideDesc /\ ~early
  <2>1. ReadContext
    BY <1>1, <1>3, ReadStage
  <2>2. Stalled' /\ ~finished'
    BY <1>1, <2>1 DEF ReadContext, Stalled
  <2>3. PICK d : d = db /\ db' = d /\ Own(d)
    BY <1>1, <2>1 DEF ReadContext
  <2> QED
    BY <1>1, <2>2, <2>3, ToStage DEF Stage
<1> QED
  BY <1>2, <1>3

LEMMA WriteRspValues ==
    ASSUME TypeInv, Asked, SearchInv, ValuesInv, WriteRsp
    PROVE  ValuesInv'
<1>1. /\ link = "up" /\ reqs # <<>> /\ Head(reqs).op = "write"
      /\ Do(Rest, DbWrite(db, p_hdl1, p_hdl1 + 1), auth)
      /\ table' = table /\ db' = db /\ encrypted' = encrypted /\ early' = early
  BY DEF WriteRsp, Answered, peerVars
<1>2. CASE WideDesc \/ early
  BY <1>1, <1>2 DEF ValuesInv, WideDesc
<1>3. CASE ~WideDesc /\ ~early
  <2>1. searched /\ ~finished
    BY <1>1, AfterSearch DEF SearchInv
  <2>2. Ready /\ p_hdl2 <= MaxHdl /\ Real(db) /\ Own(db)
    BY <1>3, <2>1, Context DEF ValuesInv
  <2>3. ~ReadsPlain /\ ~ReadsRefused
    <3>1. ASSUME ReadsAt(db, p_hdl1, reqs) PROVE FALSE
      <4>1. Head(reqs) = Request("read", p_hdl1, db[p_hdl1].len)
        BY <3>1 DEF ReadsAt
      <4> QED
        BY <1>1, <4>1 DEF Request
    <3> QED
      BY <3>1 DEF ReadsPlain, ReadsRefused
  <2>4. Writes
    BY <1>1, <1>3, <2>1, <2>3 DEF ValuesInv, Pairs, Stalled
  <2>5. /\ auth = FALSE /\ encrypted' = FALSE /\ Tried(db, MaxHdl) /\ Rest = <<>>
        /\ p_hdl1 \in Nat
    <3>1. \A r \in RequestSet : reqs = <<r>> => Rest = <<>>
      BY OneRequest
    <3> QED
      BY <1>1, <2>4, <3>1 DEF Writes, TypeInv
  <2>6. PICK d : d = db
    OBVIOUS
  <2>7. PICK st \in Nat : st = p_hdl1 + 1 /\ st >= 1
    BY <2>5
  <2>8. PICK s : s = DbWrite(d, p_hdl1, st)
    OBVIOUS
  <2>9. PlainNext(d, p_hdl1, s)
    BY <2>2, <2>5, <2>6, <2>7, <2>8, WriteNext
  <2>10. Do(<<>>, s, auth)
    BY <1>1, <2>5, <2>6, <2>7, <2>8
  <2> QED
    BY <1>1, <2>1, <2>2, <2>5, <2>6, <2>9, <2>10, DoPlain
<1> QED
  BY <1>2, <1>3

(* The pairing that was asked for; any other makes the values late.        *)
LEMMA EncryptedValues ==
    ASSUME TypeInv, Asked, SearchInv, ValuesInv, Encrypted
    PROVE  ValuesInv'
<1>1. /\ link = "up" /\ Do(reqs, DbRead(db, TRUE, p_hdl1, 1, 0), FALSE)
      /\ table' = table /\ db' = db /\ encrypted' = TRUE /\ early' = (early \/ ~auth)
  BY DEF Encrypted, peerVars
<1>2. CASE WideDesc \/ early \/ ~auth
  BY <1>1, <1>2 DEF ValuesInv, WideDesc
<1>3. CASE ~WideDesc /\ ~early /\ auth
  <2>1. searched /\ ~finished
    BY <1>1, <1>3 DEF SearchInv, Searching
  <2>2. Ready /\ p_hdl2 <= MaxHdl /\ Real(db) /\ Own(db)
    BY <1>3, <2>1, Context DEF ValuesInv
  <2>3. Pairs
    BY <1>1, <1>3, <2>1 DEF ValuesInv, ReadsPlain, Writes, ReadsRefused, Stalled
  <2>4. reqs = <<>> /\ Tried(db, MaxHdl)
    BY <2>3 DEF Pairs
  <2>5. PICK d : d = db
    OBVIOUS
  <2>6. PICK one \in Nat, zero \in Nat, enc \in BOOLEAN, no \in BOOLEAN :
          one = 1 /\ zero = 0 /\ enc = TRUE /\ no = FALSE /\ one >= 1
    <3>1. PICK one \in Nat, zero \in Nat : one = 1 /\ zero = 0 /\ one >= 1
      OBVIOUS
    <3>2. TRUE \in BOOLEAN /\ FALSE \in BOOLEAN
      OBVIOUS
    <3> QED
      BY ONLY <3>1, <3>2, Zenon
  <2>7. WholeBelow(d, one)
    <3>1. \A k \in Hdl : ~(k < one)
      BY <2>2, <2>6, HdlFacts DEF Ready
    <3> QED
      BY <3>1 DEF WholeBelow
  <2>8. RefusedFrom(d, one)
    <3> SUFFICES ASSUME NEW k \in Hdl
                 PROVE  /\ d[k].perm => d[k].len = 0
                        /\ Want(d, k) => d[k].perm \/ Whole(d, k)
      BY DEF RefusedFrom
    <3>1. Fresh(d, k)
      BY <2>4, <2>5 DEF Tried
    <3>2. ASSUME Want(d, k) PROVE d[k].perm \/ Whole(d, k)
      <4>1. k < MaxHdl
        BY <2>2, <2>5, <3>2, WantIn
      <4> QED
        BY <2>4, <2>5, <3>2, <4>1 DEF Tried
    <3> QED
      BY <3>1, <3>2 DEF Fresh
  <2>9. PICK s : s = DbRead(d, enc, p_hdl1, one, zero)
    OBVIOUS
  <2>10. RefusedNext(d, p_hdl1, s)
    BY <2>2, <2>5, <2>6, <2>7, <2>8, <2>9, NextRefused
  <2>11. Do(<<>>, s, no)
    BY <1>1, <2>4, <2>5, <2>6, <2>9
  <2> QED
    BY <1>1, <2>1, <2>2, <2>5, <2>6, <2>10, <2>11, DoRefused
<1> QED
  BY <1>2, <1>3

LEMMA DisconnectedValues ==
    ASSUME ValuesInv, Disconnected
    PROVE  ValuesInv'
<1>1. /\ link' = "down" /\ table' = table /\ db' = db /\ early' = early
      /\ finished' = finished
  BY DEF Disconnected, peerVars, histVars
<1>2. CASE WideDesc \/ early
  BY <1>1, <1>2 DEF ValuesInv, WideDesc
<1>3. CASE ~WideDesc /\ ~early
  <2>1. PICK d : d = db /\ db' = d
    BY <1>1
  <2> QED
    BY <1>1, <1>3, <2>1, StagesPrimed DEF ValuesInv
<1> QED
  BY <1>2, <1>3

LEMMA NothingValues ==
    ASSUME ValuesInv, UNCHANGED vars
    PROVE  ValuesInv'
<1>1. UNCHANGED <<table, link, reqs, auth, encrypted, db, p_hdl1, searched, finished, early>>
  BY DEF vars, peerVars, hdlVars, histVars
<1>2. CASE WideDesc \/ early
  BY <1>1, <1>2 DEF ValuesInv, WideDesc
<1>3. CASE ~WideDesc /\ ~early
  <2>1. PICK d : d = db /\ db' = d
    BY <1>1
  <2>2. /\ PlainAt(db, p_hdl1) => PlainAt(db, p_hdl1)'
        /\ RefusedAt(db, p_hdl1) => RefusedAt(db, p_hdl1)'
        /\ Tried(db, MaxHdl) => Tried(db, MaxHdl)'
        /\ WholeBelow(db, MaxHdl) => WholeBelow(db, MaxHdl)'
        /\ Own(db) => Own(db)'
        /\ ReadsAt(db, p_hdl1, reqs) => ReadsAt(db, p_hdl1, reqs)'
    <3>1. PICK p, q : p = p_hdl1 /\ q = reqs /\ p_hdl1' = p /\ reqs' = q
      BY <1>1
    <3> QED
      BY <1>1, <2>1, <3>1, StagesPrimed
  <2>3. Writes => Writes'
    BY <1>1, <2>2 DEF Writes, RequestSet
  <2>4. /\ ReadsPlain => ReadsPlain'
        /\ ReadsRefused => ReadsRefused'
        /\ Pairs => Pairs'
        /\ Stalled => Stalled'
    BY <1>1, <2>2 DEF ReadsPlain, ReadsRefused, Pairs, Stalled
  <2>5. link' = "up" /\ searched' => Stage'
    <3>1. link' = "up" /\ searched' => Stage
      BY <1>1, <1>3 DEF ValuesInv, Stage
    <3> QED
      BY <2>3, <2>4, <3>1 DEF Stage
  <2>6. Own(db)' /\ (finished' => WholeBelow(db, MaxHdl)')
    BY <1>1, <1>3, <2>2 DEF ValuesInv
  <2> QED
    BY <2>5, <2>6 DEF ValuesInv, Stage
<1> QED
  BY <1>2, <1>3

LEMMA InitValues ==
    ASSUME Init
    PROVE  ValuesInv
<1>1. /\ db = [h \in Hdl |-> Unknown] /\ link = "down" /\ finished = FALSE
  BY DEF Init
<1>2. Own(db)
  BY <1>1 DEF Own, Unknown
<1> QED
  BY <1>1, <1>2 DEF ValuesInv

(* The values are read in five stages: all that can be read on a plain     *)
(* link, writes, pairing, what was refused, and the end, or none at all    *)
(* when a peer leaves the browser without an answer it looks at            *)
(* (sdp.c:136-177, 283-335).                                               *)
THEOREM ValuesInOrder == Spec => []ValuesInv
<1>1. TypeInv /\ Asked /\ SearchInv /\ Init => ValuesInv
  BY InitValues
<1>2. TypeInv /\ Asked /\ SearchInv /\ (TypeInv /\ Asked /\ SearchInv)' /\ ValuesInv
      /\ [Next]_vars => ValuesInv'
  <2> SUFFICES ASSUME TypeInv, Asked, SearchInv, TypeInv', SearchInv', ValuesInv, [Next]_vars
               PROVE  ValuesInv'
    OBVIOUS
  <2>1. CASE Connected \/ ReadGroupRsp \/ ReadGroupEnd \/ ReadByTypeRsp
    BY <2>1, SearchValues
  <2>2. CASE ReadByTypeEnd
    BY <2>2, ReadByTypeEndValues
  <2>3. CASE FindInfoRsp
    BY <2>3, FindInfoRspValues
  <2>4. CASE FindInfoEnd
    BY <2>4, FindInfoEndValues
  <2>5. CASE ReadRsp
    BY <2>5, ReadRspValues
  <2>6. CASE ReadError
    BY <2>6, ReadErrorValues
  <2>7. CASE BlobError
    BY <2>7, BlobErrorValues
  <2>8. CASE WriteRsp
    BY <2>8, WriteRspValues
  <2>9. CASE Encrypted
    BY <2>9, EncryptedValues
  <2>10. CASE Disconnected
    BY <2>10, DisconnectedValues
  <2>11. CASE UNCHANGED vars
    BY <2>11, NothingValues
  <2> QED
    BY <2>1, <2>2, <2>3, <2>4, <2>5, <2>6, <2>7, <2>8, <2>9, <2>10, <2>11 DEF Next, Client
<1> QED
  BY <1>1, <1>2, SearchKeepsOrder, PTL DEF Spec

(* What is printed as the value of a handle was read from it, as long as   *)
(* the peer does not encrypt the link of its own accord; and at the end    *)
(* the value of every attribute that can be read is there, whole if it is  *)
(* shorter than 2^8 bytes (sdp.c:151-177, 283-293, 298-326).               *)
THEOREM ValuesTrue == Spec => []ValuesRight
<1>1. TypeInv /\ Asked /\ SearchInv /\ ValuesInv => ValuesRight
  <2> SUFFICES ASSUME TypeInv, SearchInv, ValuesInv, ~WideDesc, ~early, NEW h \in Hdl
               PROVE  /\ db[h].from \subseteq {h}
                      /\ /\ finished /\ db[h].type \in {"value", "desc"} /\ table[h].read
                         /\ table[h].len < ByteMax
                         => db[h].len = table[h].len
    BY DEF ValuesRight
  <2>1. db[h].from \subseteq {h}
    BY DEF ValuesInv, Own
  <2>2. ASSUME finished, db[h].type \in {"value", "desc"}, table[h].read,
               table[h].len < ByteMax
        PROVE  db[h].len = table[h].len
    <3>1. h \in DOMAIN table /\ (db[h].type = "value" => db[h].read = table[h].read)
      BY <2>2 DEF SearchInv, FoundIsReal
    <3>2. h < MaxHdl
      BY <3>1, HdlFacts DEF TypeInv
    <3>3. Want(db, h)
      BY <2>2, <3>1 DEF Want
    <3> QED
      BY <2>2, <3>2, <3>3 DEF ValuesInv, WholeBelow, Whole
  <2> QED
    BY <2>1, <2>2
<1> QED
  BY <1>1, SearchKeepsOrder, ValuesInOrder, PTL

=============================================================================
