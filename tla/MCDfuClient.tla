----------------------------- MODULE MCDfuClient -----------------------------
(* Instance of DfuClient for TLC: a command object of one packet and a     *)
(* data object of several, the last one short.                             *)
EXTENDS DfuClient

MCSize == [cmd |-> 1, data |-> 5]
MCLong == [cmd |-> 1, data |-> 6]

=============================================================================
