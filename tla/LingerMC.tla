------------------------------ MODULE LingerMC ------------------------------
(* Small instances of Linger for TLC; the values of the constants are in   *)
(* linger.cfg.                                                             *)
EXTENDS Linger

=============================================================================
