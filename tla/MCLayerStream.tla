--------------------------- MODULE MCLayerStream ---------------------------
(* Small instances of LayerStream for TLC.                                 *)
EXTENDS LayerStream

\* Three decoder layers, an embedding and an untied output weight: tensors of
\* different names are different shapes to the source.
Untied == [l \in 0 .. 4 |-> IF l < 3 THEN 0 ELSE l - 2]
=============================================================================
