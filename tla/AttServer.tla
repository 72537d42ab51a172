------------------------------ MODULE AttServer ------------------------------
(***************************************************************************)
(* The searches easyBtHost/eb_att.c makes in its attribute table, as       *)
(* operators.  A table is a sequence of attributes, the handle of an       *)
(* attribute is its position, and last is the end handle of its last       *)
(* service.  A search yields rows; how many of them the server puts into   *)
(* its response is translated from the loops, and AllowedRows says how     *)
(* many the protocol allows it to.                                         *)
(***************************************************************************)
EXTENDS Integers, Sequences, SequencesExt, FiniteSetsExt

CONSTANT Mtu            \* EB_ATT_MTU_DEFAULT

(* A row with a UUID of 128 bits fits a response, another beside it does   *)
(* not: the code has 23.                                                   *)
ASSUME AttServerAssumption == Mtu \in 23 .. 29

(* How many elements of S there are up to h.                               *)
Place(S, h) == Cardinality({g \in S : g <= h})

(* The handles from sh to eh with an attribute of a kind, in order.        *)
Found(t, sh, eh, kinds) ==
    LET S == {h \in DOMAIN t \cap (sh .. eh) : t[h].kind \in kinds}
    IN  [k \in 1 .. Cardinality(S) |-> CHOOSE h \in S : Place(S, h) = k]

(* The services; each ends before the next.  size is that of a row with a  *)
(* UUID of 16 bits.                                                        *)
ServiceRows(t, sh, eh, last) ==
    LET s == Found(t, sh, eh, {"serv"})
    IN  [k \in DOMAIN s |->
            [ hdl  |-> s[k],
              end  |-> IF k < Len(s) THEN s[k + 1] - 1 ELSE Min({eh, last}),
              wide |-> t[s[k]].wide,
              size |-> 6 ]]

(* The characteristic declarations, each with the value that follows it.   *)
CharRows(t, sh, eh) ==
    LET s == Found(t, sh, eh, {"decl"})
    IN  [k \in DOMAIN s |->
            [ hdl  |-> s[k],
              val  |-> s[k] + 1,
              read |-> t[s[k] + 1].read,
              write |-> t[s[k] + 1].write,
              wide |-> t[s[k] + 1].wide,
              size |-> 7 ]]

(* All attributes with their types.                                        *)
InfoRows(t, sh, eh) ==
    LET s == Found(t, sh, eh, {"serv", "decl", "value", "desc"})
    IN  [k \in DOMAIN s |->
            [ hdl  |-> s[k],
              wide |-> t[s[k]].wide,
              size |-> 4 ]]

(* The length of a response with the first k rows; a UUID of 128 bits is   *)
(* 14 bytes longer.                                                        *)
Bytes(rows, k) ==
    2 + k * rows[1].size + 14 * Cardinality({j \in 1..k : rows[j].wide})

SameWidth(rows, k) == \A j \in 1..k : rows[j].wide = rows[1].wide

(* What the protocol allows: one row or more, of one width, within the MTU.*)
AllowedRows(rows) ==
    {k \in DOMAIN rows : SameWidth(rows, k) /\ Bytes(rows, k) <= Mtu}

(* A service is added when the next one is met: the loop ends before one   *)
(* of another width, when the response is full, or behind the last one.    *)
GroupRows(rows) ==
    Min({k \in DOMAIN rows : \/ k = Len(rows)
                             \/ ~SameWidth(rows, k + 1)
                             \/ Bytes(rows, k) >= Mtu})

(* Fault: the space left is not looked at.                                 *)
TypeRowsAll(rows) ==
    Min({k \in DOMAIN rows : k = Len(rows) \/ ~SameWidth(rows, k)})

(* A characteristic is added while it fits, up to one of another width.    *)
TypeRows(rows) ==
    Max({k \in DOMAIN rows : /\ Bytes(rows, k) <= Mtu
                             /\ k > 1 => SameWidth(rows, k - 1)})

(* An attribute is added whatever is left, up to one of another width.     *)
FindInfoRows(rows) ==
    Min({k \in DOMAIN rows : k = Len(rows) \/ ~SameWidth(rows, k)})

=============================================================================
