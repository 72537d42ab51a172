------------------------------ MODULE MCBtUsb ------------------------------
(* Instance of BtUsb for TLC: more events than data, as only events hold   *)
(* advertising reports.                                                    *)
EXTENDS BtUsb

MCMaxReads == [evt |-> 2, acl |-> 1]

=============================================================================
