----------------------------- MODULE SurveyorMC -----------------------------
(* The instance of Surveyor for TLC; its liveness property rules symmetry  *)
(* out.                                                                    *)
EXTENDS Surveyor, TLC

=============================================================================
