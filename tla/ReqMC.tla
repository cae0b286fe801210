------------------------------- MODULE ReqMC --------------------------------
(* Small instances of Req for TLC.                                         *)
EXTENDS Req, TLC

(* Threads and endpoints are interchangeable; used where no liveness       *)
(* property is checked.                                                    *)
ReqSymmetry == Permutations(Thread) \union Permutations(Pipe)

=============================================================================
