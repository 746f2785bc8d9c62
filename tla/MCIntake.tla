------------------------------ MODULE MCIntake ------------------------------
(***************************************************************************)
(* The intake on its own, model-checked.                                   *)
(***************************************************************************)
EXTENDS Intake
=============================================================================
