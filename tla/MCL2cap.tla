------------------------------ MODULE MCL2cap ------------------------------
(* Instance of L2capPeer for TLC: fragments of two bytes, a window of two, *)
(* and PDUs of one, two and three fragments, the last one full or not.     *)
EXTENDS L2capPeer

MCPduLen == {1, 4, 5}

=============================================================================
