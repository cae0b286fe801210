------------------------------ MODULE InprocMC ------------------------------
(* Small instances of Inproc for TLC; the values of the constants are in   *)
(* inproc.cfg.                                                             *)
EXTENDS Inproc

=============================================================================
