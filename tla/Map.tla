-------------------------------- MODULE Map --------------------------------
(***************************************************************************)
(* What a map promises its caller: a key has the value that was put last   *)
(* and was not removed since.  See Hashmap.                                *)
(***************************************************************************)
EXTENDS Integers, FiniteSets

CONSTANTS Key, Value, Missing

VARIABLES
    map,        \* the value of each key
    visits,     \* how many elements an iteration visits
    call        \* the last call

Keys(f) == {k \in Key : f[k] # Missing}

MapInit ==
    /\ map = [k \in Key |-> Missing]
    /\ visits = 0

MapPut(k, v) ==
    /\ call' = [op |-> "put", key |-> k, value |-> v, status |-> "ok"]
    /\ map' = [map EXCEPT ![k] = v]

(* There was no memory: elements may be lost.                              *)
MapPutFails(k, v) ==
    /\ call' = [op |-> "put", key |-> k, value |-> v, status |-> "omem"]
    /\ \A j \in Keys(map') : map'[j] = map[j]

MapRemove(k) ==
    /\ call' = [op |-> "remove", key |-> k]
    /\ map' = [map EXCEPT ![k] = Missing]

MapNext ==
    /\ \E k \in Key : MapRemove(k) \/ \E v \in Value : MapPut(k, v) \/ MapPutFails(k, v)
    /\ visits' = Cardinality(Keys(map'))

=============================================================================
