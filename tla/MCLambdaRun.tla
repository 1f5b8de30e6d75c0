----------------------------- MODULE MCLambdaRun -----------------------------
(* LambdaRun for a few interrupts. *)
EXTENDS LambdaRun
=============================================================================
