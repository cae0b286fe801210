----------------------------- MODULE ReplierMC ------------------------------
(* Small instances of Replier for TLC; the values of the constants are in  *)
(* reply.cfg.                                                              *)
EXTENDS Replier

=============================================================================
