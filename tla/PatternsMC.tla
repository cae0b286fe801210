----------------------------- MODULE PatternsMC -----------------------------
(* Small instances of Patterns for TLC.                                    *)
EXTENDS Patterns, TLC

CONSTANTS a, b, c

(* Three nodes in a line.                                                  *)
Line == {{a, b}, {b, c}}

(* The ends of the line are interchangeable; used where no liveness        *)
(* property is checked.                                                    *)
LineSymmetry == Permutations({a, c})

=============================================================================
