------------------------------ MODULE MCHciCmd ------------------------------
(* Instance of HciCmd for TLC: every constant is a number of the .cfg.     *)
EXTENDS HciCmd

=============================================================================
