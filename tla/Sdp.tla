--------------------------------- MODULE Sdp ---------------------------------
(***************************************************************************)
(* The browser of attribute databases (easyBtHostSDP/sdp.c on top of       *)
(* easyBtHost/eb_gattc.c) and its peer.  It searches for services,         *)
(* characteristics and, in the gaps that remain, descriptors; it reads     *)
(* what is readable, writes the values back, pairs, and reads what needed  *)
(* encryption.                                                             *)
(*                                                                         *)
(* Every response is one call of sdp_event, which sends the next request   *)
(* before it returns.  The peer is this host (own), whose answers are      *)
(* those of eb_att.c and eb_gatts.c, or any other that keeps to the        *)
(* protocol.                                                               *)
(***************************************************************************)
EXTENDS AttServer

CONSTANTS
    Tables,         \* attribute tables a peer may have
    MaxHdl,         \* 0xffff: the last handle
    ByteMax,        \* 2^8: value_len is a uint8_t
    MaxConns        \* bound: connections made in a behaviour

Attribute ==
    [ kind : {"serv", "decl", "value", "desc"}, wide : BOOLEAN, len : Nat,
      read : BOOLEAN, write : BOOLEAN, auth : BOOLEAN ]

(* A table begins with a service, and a value follows its declaration.     *)
ASSUME SdpAssumption ==
    /\ \A t \in Tables :
        /\ t \in Seq(Attribute) /\ Len(t) < MaxHdl
        /\ t # <<>> => t[1].kind = "serv"
        /\ \A h \in DOMAIN t :
            /\ t[h].kind = "decl" => h < Len(t) /\ t[h + 1].kind = "value"
            /\ t[h].kind = "value" => t[h - 1].kind = "decl"
    /\ MaxHdl \in Nat /\ ByteMax \in Nat \ {0}
    /\ MaxConns \in Nat

VARIABLES
    table,          \* the peer's attributes
    last,           \* the end handle of the peer's last service
    own,            \* the peer is this host
    link,           \* "down", "up", or "closing": eb_gap_disconnect was called
    reqs,           \* requests sent and not answered
    auth,           \* eb_smp_auth was called, pairing is under way
    encrypted,      \* gap_env.encrypted
    db,             \* what is known of each handle
    p_hdl1, p_hdl2, p_hdl3,
    conns,          \* history: number of connections
    searched,       \* history: the search of this link is over
    finished,       \* history: the browser disconnected by itself
    early           \* history: the peer encrypted this link unasked

peerVars == <<table, last, own>>
hdlVars == <<p_hdl1, p_hdl2, p_hdl3>>
histVars == <<conns, searched, finished, early>>
vars == <<peerVars, link, reqs, auth, encrypted, db, hdlVars, histVars>>

Hdl == 1 .. MaxHdl

Unknown == [ type |-> "none", read |-> FALSE, write |-> FALSE, perm |-> FALSE,
             len |-> 0, from |-> {} ]

(* Tables this host's server can serve: the responses to the searches for  *)
(* services and for types are assembled on the stack without a look at the *)
(* space left, so that longer runs of them overwrite it.                   *)
Servable(t) ==
    LET services == ServiceRows(t, 1, Len(t), Len(t))
    IN  /\ \A h \in DOMAIN t : t[h].wide => t[h].kind \in {"serv", "value"}
        /\ \A i \in DOMAIN services : \A k \in i .. Len(services) :
              SameWidth(SubSeq(services, i, k), k - i + 1) =>
                  Bytes(SubSeq(services, i, k), k - i + 1) <= Mtu
        /\ \A h, k \in DOMAIN t :
              h <= k /\ (\A j \in h..k : t[j].kind = "desc") =>
                  Bytes(InfoRows(t, h, k), k - h + 1) <= Mtu

Init ==
    /\ table \in Tables
    /\ own \in IF Servable(table) THEN BOOLEAN ELSE {FALSE}
    /\ last \in IF own THEN {Len(table)} ELSE {Len(table), MaxHdl}
    /\ link = "down"
    /\ reqs = <<>>
    /\ auth = FALSE
    /\ encrypted = FALSE
    /\ db = [h \in Hdl |-> Unknown]
    /\ p_hdl1 = 0 /\ p_hdl2 = 0 /\ p_hdl3 = 0
    /\ conns = 0
    /\ searched = FALSE
    /\ finished = FALSE
    /\ early = FALSE

-----------------------------------------------------------------------------
(* The client.  What a function of sdp.c does at its end: it sets p_hdl1   *)
(* to hdl, and sends a request (req has one or none), asks for pairing, or *)
(* disconnects.                                                            *)

Request(op, from, to) == [op |-> op, from |-> from, to |-> to]

Step(hdl, req) == [hdl |-> hdl, req |-> req, pair |-> FALSE, close |-> FALSE]

(* Do step s, with the requests rest still unanswered.                     *)
Do(rest, s, pairing) ==
    /\ p_hdl1' = s.hdl
    /\ reqs' = rest \o s.req
    /\ auth' = (pairing \/ s.pair)
    /\ link' = IF s.close THEN "closing" ELSE link
    /\ finished' = (finished \/ s.close)

(* db_write: the next attribute to write back, or pairing.                 *)
DbWrite(d, p, st) ==
    LET writable == {h \in st .. p_hdl2 : \/ d[h].type = "value" /\ d[h].write
                                          \/ d[h].type = "desc"}
    IN  IF writable # {}
        THEN LET h == Min(writable)
             IN  Step(h, <<Request("write", h, d[h].len)>>)
        ELSE [Step(p, <<>>) EXCEPT !.pair = TRUE]

(* db_read: the next attribute to read, at an offset; if there is none,    *)
(* the end on an encrypted link (enc), and the first write on a plain one. *)
DbRead(d, enc, p, st, offset) ==
    LET readable == {h \in st .. p_hdl2 :
                        IF enc THEN d[h].perm
                        ELSE \/ d[h].type = "value" /\ d[h].read
                             \/ d[h].type = "desc"}
    IN  IF readable # {}
        THEN Step(Min(readable), <<Request("read", Min(readable), offset)>>)
        ELSE IF enc THEN [Step(p, <<>>) EXCEPT !.close = TRUE]
        ELSE DbWrite(d, p, 1)

(* The first handle behind hdl3 of which nothing is known.                 *)
FirstGap(d, hdl3) ==
    LET gap == {h \in hdl3 + 1 .. p_hdl2 : d[h].type = "none"}
    IN  IF gap # {} THEN Min(gap) ELSE Max({hdl3, p_hdl2}) + 1

(* search_info: asks for that gap up to its end, or ends the search.       *)
SearchInfo(d, rest, hdl3) ==
    LET st == FirstGap(d, hdl3)
        known == {h \in st .. p_hdl2 : d[h].type # "none"}
        en == IF known # {} THEN Min(known) - 1 ELSE Max({p_hdl2, st - 1})
    IN  /\ p_hdl3' = en
        /\ searched' = (searched \/ st > p_hdl2)
        /\ Do(rest, IF st > p_hdl2 THEN DbRead(d, encrypted, st, 1, 0)
                    ELSE Step(st, <<Request("info", st, en)>>), auth)

-----------------------------------------------------------------------------
(* The responses.                                                          *)

(* The oldest request is one of op, r, and its answer arrives.             *)
Answered(op) == link = "up" /\ reqs # <<>> /\ Head(reqs).op = op

(* How many rows the peer answers with.                                    *)
Counts(rows, ownCount) == IF own THEN {ownCount} ELSE AllowedRows(rows)

Rest == Tail(reqs)

(* The search goes on with request r.                                      *)
Ask(r) == reqs' = Append(Rest, r) /\ UNCHANGED <<link, auth>>

GroupSearch == ServiceRows(table, Head(reqs).from, MaxHdl, last)
TypeSearch == CharRows(table, Head(reqs).from, MaxHdl)
InfoSearch == InfoRows(table, Head(reqs).from, Head(reqs).to)

(* EB_EVT_GATTC_READ_GROUP_RSP.                                            *)
ReadGroupRsp ==
    /\ Answered("group") /\ GroupSearch # <<>>
    /\ \E n \in Counts(GroupSearch, GroupRows(GroupSearch)) :
          LET rows == SubSeq(GroupSearch, 1, n)
              end == rows[n].end
          IN  /\ db' = [h \in Hdl |->
                          IF \E k \in 1..n : rows[k].hdl = h
                          THEN [db[h] EXCEPT !.type = "serv", !.read = TRUE]
                          ELSE db[h]]
              /\ p_hdl2' = Max({end, p_hdl2})
              /\ Ask(IF end = MaxHdl THEN Request("type", 1, MaxHdl)
                     ELSE Request("group", end + 1, MaxHdl))
    /\ UNCHANGED <<peerVars, encrypted, p_hdl1, p_hdl3, histVars>>

(* Its error response, or that of a search for characteristics.            *)
ReadGroupEnd ==
    /\ Answered("group") /\ GroupSearch = <<>>
    /\ Ask(Request("type", 1, MaxHdl))
    /\ UNCHANGED <<peerVars, encrypted, db, hdlVars, histVars>>

ReadByTypeEnd ==
    /\ Answered("type") /\ TypeSearch = <<>>
    /\ SearchInfo(db, Rest, 0)
    /\ UNCHANGED <<peerVars, encrypted, db, p_hdl2, conns, early>>

(* Fault: the next request for characteristics leaves a handle out.        *)
AfterCharSkips(row) == row.val + 2

(* Where the search for characteristics goes on.                           *)
AfterChar(row) == row.val + 1

(* Fault: the value is taken for a declaration too.                        *)
CharTypeDecl(row, h) == "decl"

CharType(row, h) == IF row.hdl = h THEN "decl" ELSE "value"

StoreChars(rows) ==
    [h \in Hdl |->
        IF \E r \in rows : h \in {r.hdl, r.val}
        THEN LET r == CHOOSE r \in rows : h \in {r.hdl, r.val}
             IN  [db[h] EXCEPT !.type = CharType(r, h), !.read = r.read,
                               !.write = r.write]
        ELSE db[h]]

(* EB_EVT_GATTC_READ_BY_TYPE_RSP.                                          *)
ReadByTypeRsp ==
    /\ Answered("type") /\ TypeSearch # <<>>
    /\ \E n \in Counts(TypeSearch, TypeRows(TypeSearch)) :
          /\ db' = StoreChars(ToSet(SubSeq(TypeSearch, 1, n)))
          /\ Ask(Request("type", AfterChar(TypeSearch[n]), MaxHdl))
    /\ UNCHANGED <<peerVars, encrypted, hdlVars, histVars>>

(* EB_EVT_GATTC_FIND_INFO_RSP.  The client takes both formats for the one  *)
(* with four bytes a row: of 18 bytes it makes four rows, and the handles  *)
(* of the last three are bytes of the UUID.                                *)
FindInfoRsp ==
    /\ Answered("info") /\ InfoSearch # <<>>
    /\ \E n \in Counts(InfoSearch, FindInfoRows(InfoSearch)) :
       \E wrong \in IF InfoSearch[1].wide THEN {S \in SUBSET Hdl : Cardinality(S) <= 3}
                    ELSE {{}} :
          LET known == {InfoSearch[k].hdl : k \in 1..n} \cup wrong
          IN  db' = [h \in Hdl |-> IF h \in known
                                   THEN [db[h] EXCEPT !.type = "desc", !.read = TRUE,
                                                      !.write = TRUE]
                                   ELSE db[h]]
    /\ SearchInfo(db', Rest, p_hdl3)
    /\ UNCHANGED <<peerVars, encrypted, p_hdl2, conns, early>>

(* Any error response to it.                                               *)
FindInfoEnd ==
    /\ Answered("info") /\ InfoSearch = <<>>
    /\ SearchInfo(db, Rest, p_hdl3)
    /\ UNCHANGED <<peerVars, encrypted, db, p_hdl2, conns, early>>

-----------------------------------------------------------------------------
Exists(h) == h \in DOMAIN table
ValueLen(h) == IF table[h].kind \in {"value", "desc"} THEN table[h].len ELSE 2
Locked(h) == table[h].auth /\ ~encrypted

(* Fault: a value longer than one response is not read on.                 *)
FullNever(n) == FALSE
(* Fault: the rest of a value is asked for from the last response's length.*)
NextOffsetLast(len, n) == n

Full(n) == n >= Mtu - 1
NextOffset(len, n) == len

(* EB_EVT_GATTC_READ_RSP.  A response that is full is read on.  An offset  *)
(* of 0 is a Read Request, any other a Read Blob Request.                  *)
ReadRsp ==
    /\ Answered("read")
    /\ LET h == Head(reqs).from
           off == Head(reqs).to
           n == Min({Mtu - 1, Max({0, ValueLen(h) - off})})
       IN  /\ Exists(h)
           /\ IF own /\ off > 0 THEN TRUE
              ELSE table[h].read /\ off <= ValueLen(h) /\ (off = 0 => ~Locked(h))
           /\ db' = [db EXCEPT ![p_hdl1].len = (@ + n) % ByteMax,
                               ![p_hdl1].from = @ \cup {h}]
           /\ Do(Rest, IF Full(n)
                       THEN DbRead(db', encrypted, p_hdl1, p_hdl1,
                                   NextOffset(db'[p_hdl1].len, n))
                       ELSE DbRead(db', encrypted, p_hdl1, p_hdl1 + 1, 0), auth)
    /\ UNCHANGED <<peerVars, encrypted, p_hdl2, p_hdl3, conns, searched, early>>

(* The error response to a Read Request: error 0x05 marks the attribute,   *)
(* and the declaration before it, as one to be read once encrypted.        *)
ReadError ==
    /\ Answered("read") /\ Head(reqs).to = 0
    /\ LET h == Head(reqs).from
           locked == Exists(h) /\ table[h].read /\ Locked(h)
       IN  /\ Exists(h) /\ table[h].read => locked
           /\ db' = [k \in Hdl |->
                       IF locked /\ (\/ k = p_hdl1
                                     \/ db[p_hdl1].type = "value" /\ k = p_hdl1 - 1)
                       THEN [db[k] EXCEPT !.perm = TRUE]
                       ELSE db[k]]
    /\ Do(Rest, DbRead(db', encrypted, p_hdl1, p_hdl1 + 1, 0), auth)
    /\ UNCHANGED <<peerVars, encrypted, p_hdl2, p_hdl3, conns, searched, early>>

(* The error response to a Read Blob Request has no case in sdp_event.     *)
(* A peer that is not this host refuses an offset beyond the end, and may  *)
(* refuse to read on in a value that fits one response; this host answers  *)
(* either with an empty value, and looks at no permission.                 *)
BlobError ==
    /\ Answered("read") /\ Head(reqs).to > 0
    /\ LET h == Head(reqs).from
       IN  Exists(h) => /\ ~own
                        /\ \/ ~table[h].read
                           \/ Head(reqs).to > ValueLen(h)
                           \/ ValueLen(h) = Mtu - 1
    /\ reqs' = Rest
    /\ UNCHANGED <<peerVars, link, auth, encrypted, db, hdlVars, histVars>>

(* A Write Response, or the error response to it: the next one is written. *)
(* eb_gattc_write announces the length of the whole value but sends no     *)
(* more than Mtu - 1 bytes of it: a peer waits for the rest for ever.      *)
WriteRsp ==
    /\ Answered("write") /\ Head(reqs).to <= Mtu - 1
    /\ Do(Rest, DbWrite(db, p_hdl1, p_hdl1 + 1), auth)
    /\ UNCHANGED <<peerVars, encrypted, db, p_hdl2, p_hdl3, conns, searched, early>>

-----------------------------------------------------------------------------
(* EB_EVT_GAP_CONNECTED with status 0.                                     *)
Connected ==
    /\ link = "down" /\ conns < MaxConns
    /\ link' = "up"
    /\ encrypted' = FALSE
    /\ db' = [h \in Hdl |-> Unknown]
    /\ reqs' = <<Request("group", 1, MaxHdl)>>
    /\ p_hdl1' = 1
    /\ p_hdl2' = 0
    /\ conns' = conns + 1
    /\ searched' = FALSE /\ finished' = FALSE /\ early' = FALSE
    /\ auth' = FALSE
    /\ UNCHANGED <<peerVars, p_hdl3>>

(* EB_EVT_GAP_ENCRYPTED, at the end of the pairing this host asked for or, *)
(* when the peer is the master, at any time.                               *)
Encrypted ==
    /\ link = "up" /\ (auth \/ ~encrypted)
    /\ encrypted' = TRUE
    /\ early' = (early \/ ~auth)
    /\ Do(reqs, DbRead(db, TRUE, p_hdl1, 1, 0), FALSE)
    /\ UNCHANGED <<peerVars, db, p_hdl2, p_hdl3, conns, searched>>

(* The link ends: eb_gap_disconnect, timer 3 of main.c after 20 seconds,   *)
(* or a loss.  Pairing and requests end with it.                           *)
Disconnected ==
    /\ link # "down"
    /\ link' = "down"
    /\ reqs' = <<>>
    /\ auth' = FALSE
    /\ UNCHANGED <<peerVars, encrypted, db, hdlVars, histVars>>

Client ==
    \/ ReadGroupRsp \/ ReadGroupEnd \/ ReadByTypeRsp \/ ReadByTypeEnd
    \/ FindInfoRsp \/ FindInfoEnd
    \/ ReadRsp \/ ReadError \/ BlobError \/ WriteRsp

Next == Connected \/ Client \/ Encrypted \/ Disconnected

Spec == Init /\ [][Next]_vars

(* The peer answers each request that reached it, pairing comes to an end, *)
(* and eb_schedule is polled for ever.                                     *)
Fairness == WF_vars(Client) /\ WF_vars(auth /\ Encrypted)

FairSpec == Spec /\ Fairness

-----------------------------------------------------------------------------
WideDesc == \E h \in DOMAIN table : table[h].kind = "desc" /\ table[h].wide

(* Whatever the peer answers, and however its answers are cut, what the    *)
(* browser prints of a handle is true: the attribute exists, has that type *)
(* and those properties, unless the peer has a descriptor with a UUID of   *)
(* 128 bits, which it misreads (sdp.c:221-282, eb_gattc.c:25-89).          *)
FoundIsReal ==
    WideDesc \/ \A h \in Hdl :
        db[h].type # "none" =>
            /\ h \in DOMAIN table
            /\ db[h].type = table[h].kind
            /\ db[h].type = "value" => /\ db[h].read = table[h].read
                                      /\ db[h].write = table[h].write

(* When the search is over, every service and characteristic has been      *)
(* found, and of each run of descriptors all that the peer answered with,  *)
(* which is at least the first; search_info asks once for a gap, so that   *)
(* it is all of them only when the answer holds them all                   *)
(* (sdp.c:179-198, 221-282, eb_att.c:176-204).                             *)
FoundComplete ==
    searched => \A h \in DOMAIN table :
        db[h].type = "none" => /\ table[h].kind = "desc"
                               /\ table[h - 1].kind = "desc"
                               /\ ~own

(* What is printed as the value of a handle was read from it, as long as   *)
(* the peer does not encrypt the link of its own accord; and at the end    *)
(* the value of every attribute that can be read is there, whole if it is  *)
(* shorter than 2^8 bytes (sdp.c:151-177, 283-293, 298-326).               *)
ValuesRight ==
    WideDesc \/ early \/ \A h \in Hdl :
        /\ db[h].from \subseteq {h}
        /\ /\ finished /\ db[h].type \in {"value", "desc"} /\ table[h].read
           /\ table[h].len < ByteMax
           => db[h].len = table[h].len

(* The answers this host's server cuts are ones the protocol allows, for   *)
(* the tables it can serve (eb_att.c:43-120, 176-204).                     *)
AnswersAllowed ==
    own /\ link = "up" /\ reqs # <<>> =>
        CASE Head(reqs).op = "group" /\ GroupSearch # <<>> ->
                GroupRows(GroupSearch) \in AllowedRows(GroupSearch)
          [] Head(reqs).op = "type" /\ TypeSearch # <<>> ->
                TypeRows(TypeSearch) \in AllowedRows(TypeSearch)
          [] Head(reqs).op = "info" /\ InfoSearch # <<>> ->
                FindInfoRows(InfoSearch) \in AllowedRows(InfoSearch)
          [] OTHER -> TRUE

(* What the client leaves without an answer or a request: a value it reads *)
(* that is as long as a full response, or longer than its length counter,  *)
(* and one it cannot write back in one request.                            *)
Stalls ==
    \E h \in DOMAIN table :
        /\ table[h].kind \in {"value", "desc"} /\ table[h].read
        /\ \/ table[h].len = Mtu - 1 /\ ~own
           \/ table[h].len >= ByteMax
           \/ table[h].write /\ table[h].len >= Mtu

(* The browser comes to its end by itself on every link that lasts, except *)
(* with a peer whose values stall it: of these, only timer 3 of main.c     *)
(* ends the link (sdp.c:136-177, 283-335).                                 *)
BrowsingEnds == link = "up" /\ ~Stalls ~> finished \/ link = "down"

=============================================================================
