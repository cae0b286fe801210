---------------------------- MODULE SocketCoreMC ----------------------------
(* Small instances of SocketCore for TLC.                                  *)
EXTENDS SocketCore, TLC

(* Pipes are interchangeable; used where only invariants are checked.      *)
PipeSymmetry == Permutations(Pipe)

=============================================================================
