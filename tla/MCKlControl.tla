----------------------------- MODULE MCKlControl ----------------------------
(* KlControl on coefficients inside and outside the range. *)
EXTENDS KlControl
=============================================================================
