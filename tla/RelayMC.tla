------------------------------ MODULE RelayMC -------------------------------
(* Small instances of Relay for TLC.                                       *)
EXTENDS Relay

CONSTANTS c1, c2, d1, d2, s

(* Two clients of one device; one client of two devices in a cycle.        *)
Tree == {<<c1, d1>>, <<c2, d1>>, <<d1, s>>}
Loop == {<<c1, d1>>, <<d1, d2>>, <<d2, d1>>, <<d2, s>>}

Networks == {Tree, Loop}

=============================================================================
