------------------------------ MODULE Hashmap ------------------------------
(***************************************************************************)
(* The hash map of the protocol parser (parse_protocol2/hashmap.c), which  *)
(* its pools of types and formats (pool_param.c, pool_format.c) and its    *)
(* check for unused types (parse_init.c) keep their names in: open         *)
(* addressing with chains of at most MAX_CHAIN_LENGTH, in a table that     *)
(* grows when it is half full or a chain is full.  Growing puts every      *)
(* element again, which may itself grow the table.                         *)
(*                                                                         *)
(* An element that is not in use has neither key nor data.                 *)
(***************************************************************************)
EXTENDS Integers, Sequences, SequencesExt, FiniteSets

CONSTANTS
    Key, Value,
    Missing,            \* MAP_MISSING: what is found for no key
    INITIAL_SIZE,
    MAX_CHAIN_LENGTH,
    MaxTable,           \* the largest table there is memory for
    Hashes              \* hash functions, before they are taken modulo the size

ASSUME HashmapAssumption ==
    /\ Missing \notin Value
    /\ {INITIAL_SIZE, MAX_CHAIN_LENGTH, MaxTable} \subseteq Nat \ {0}
    /\ INITIAL_SIZE <= MaxTable
    /\ Hashes \subseteq [Key -> Nat]

VARIABLES
    m,          \* hashmap_map: table_size, size, data
    hash,       \* hashmap_hash_int, with another program another one
    call,       \* the last call: operation, key, value, status
    doubled     \* history: a key was put while its element lay behind a
                \* removed one

hashmapVars == <<m, hash, call, doubled>>

-----------------------------------------------------------------------------
Empty == [key |-> Missing, data |-> Missing]

NewMap(n) == [table_size |-> n, size |-> 0, data |-> [i \in 0 .. n - 1 |-> Empty]]

InUse(t, i) == t.data[i] # Empty

(* The places that are probed for k, in their order.                       *)
Chain(t, k) ==
    [i \in 1..MAX_CHAIN_LENGTH |-> (hash[k] + i - 1) % t.table_size]

MAP_FULL == -1

(* Fault: only the home of a key is looked at before the table grows, and  *)
(* what is there is taken.                                                 *)
ProbeHome(t, k) == IF t.size >= t.table_size \div 2 THEN MAP_FULL ELSE Chain(t, k)[1]

(* hashmap_hash.                                                           *)
Probe(t, k) ==
    LET free(i) == ~InUse(t, i) \/ t.data[i].key = k
        c == Chain(t, k)
    IN  IF t.size >= t.table_size \div 2 \/ ~\E j \in DOMAIN c : free(c[j])
        THEN MAP_FULL
        ELSE SelectSeq(c, free)[1]

RECURSIVE Put(_, _, _)

(* hashmap_rehash: if putting an element fails those after it are lost.    *)
Rehash(t) ==
    LET again(r, i) ==
            IF r.status # "ok" \/ ~InUse(t, i) THEN r
            ELSE Put(r.map, t.data[i].key, t.data[i].data)
    IN  IF 2 * t.table_size > MaxTable THEN [map |-> t, status |-> "omem"]
        ELSE FoldLeft(again, [map |-> NewMap(2 * t.table_size), status |-> "ok"],
                      [j \in 1 .. t.table_size |-> j - 1])

(* hashmap_put.                                                            *)
Put(t, k, v) ==
    LET i == Probe(t, k)
        r == Rehash(t)
    IN  CASE i # MAP_FULL ->
                [map |-> [t EXCEPT !.data[i] = [key |-> k, data |-> v],
                                   !.size = @ + 1],
                 status |-> "ok"]
          [] i = MAP_FULL /\ r.status = "omem" -> r
          [] i = MAP_FULL /\ r.status = "ok"   -> Put(r.map, k, v)

(* The place where hashmap_get and hashmap_remove find k.                  *)
Found(t, k) ==
    LET c == SelectSeq(Chain(t, k), LAMBDA i : t.data[i].key = k)
    IN  IF c = <<>> THEN MAP_FULL ELSE c[1]

(* hashmap_get.                                                            *)
Get(t, k) == IF Found(t, k) = MAP_FULL THEN Missing ELSE t.data[Found(t, k)].data

-----------------------------------------------------------------------------
HashmapInit(hashes) ==
    /\ hash \in hashes
    /\ m = NewMap(INITIAL_SIZE)
    /\ call = [op |-> "new"]
    /\ doubled = FALSE

HashmapPut(k, v) ==
    LET r == Put(m, k, v)
    IN  /\ m' = r.map
        /\ call' = [op |-> "put", key |-> k, value |-> v, status |-> r.status]
        /\ doubled' = (doubled \/ \E i, j \in DOMAIN m'.data :
                            i # j /\ InUse(m', i) /\ m'.data[i].key = m'.data[j].key)
        /\ UNCHANGED hash

(* hashmap_remove, which the parser does not use.                          *)
HashmapRemove(k) ==
    LET i == Found(m, k)
    IN  /\ m' = IF i = MAP_FULL THEN m
                ELSE [m EXCEPT !.data[i] = Empty, !.size = @ - 1]
        /\ call' = [op |-> "remove", key |-> k]
        /\ UNCHANGED <<hash, doubled>>

HashmapNext ==
    \E k \in Key :
        \/ \E v \in Value : HashmapPut(k, v)
        \/ HashmapRemove(k)

-----------------------------------------------------------------------------
(* What hashmap_iterate visits.                                            *)
Visited(t) == {i \in DOMAIN t.data : InUse(t, i)}

Promise == INSTANCE Map WITH map <- [k \in Key |-> Get(m, k)],
                             visits <- Cardinality(Visited(m))

(* The table is the map that was put into it, whatever collides and        *)
(* however often it grows, in the middle of a growth too; a call that runs *)
(* out of memory may lose elements but changes none; iterating visits each *)
(* key once (hashmap.c:192-355).  This ends when a key is put in front of  *)
(* its own element, where another key was removed before.                  *)
MapKept == Promise!MapInit /\ [][Promise!MapNext \/ doubled']_hashmapVars

=============================================================================
