-------------------------------- MODULE MCSmp -------------------------------
(* Instance of Smp for TLC: the number of links is that of the .cfg.       *)
EXTENDS Smp

=============================================================================
