--------------------------- MODULE MCTrainMetrics ---------------------------
(* TrainMetrics for a few rows. *)
EXTENDS TrainMetrics
=============================================================================
