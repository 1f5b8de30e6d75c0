--------------------------- MODULE MCRangeReaders ---------------------------
(* RangeReaders on small pools. *)
EXTENDS RangeReaders
=============================================================================
