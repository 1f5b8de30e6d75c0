---------------------------- MODULE MCLoopDaemon ----------------------------
(* LoopDaemon with one daemon and one operator. *)
EXTENDS LoopDaemon
=============================================================================
