----------------------------- MODULE LayerRead -----------------------------
(***************************************************************************)
(* What one layer read promises the reader thread, with no worker and no   *)
(* job queue in sight (_RangeReaders.run of                                *)
(* src/src/souplite/utils/async_disk_source.py): it ends with every part   *)
(* of the layer in the region or it refuses, the bytes change only while   *)
(* it runs, and a part that has arrived is not written again.              *)
(***************************************************************************)
CONSTANT Part

VARIABLES status, arrived

readVars == <<status, arrived>>

Init == status = "none" /\ arrived = {}

Begin ==
  /\ status \in {"none", "whole"}
  /\ status' = "reading"
  /\ arrived' = {}

Arrive ==
  /\ status = "reading"
  /\ arrived' \in SUBSET Part
  /\ arrived \subseteq arrived'
  /\ UNCHANGED status

EndWhole ==
  /\ status = "reading"
  /\ arrived = Part
  /\ status' = "whole"
  /\ UNCHANGED arrived

EndRefused ==
  /\ status = "reading"
  /\ status' = "refused"
  /\ UNCHANGED arrived

Spec == Init /\ [][Begin \/ Arrive \/ EndWhole \/ EndRefused]_readVars
=============================================================================
