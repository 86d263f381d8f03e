----------------------------- MODULE MCStepGuider -----------------------------
(* Instances of StepGuider for TLC.                                        *)
EXTENDS StepGuider

MCTravels == {1, 3}
MCAmounts == {0, 3}
=============================================================================
