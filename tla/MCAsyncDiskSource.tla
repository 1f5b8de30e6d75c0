------------------------- MODULE MCAsyncDiskSource -------------------------
(* Small instances of AsyncDiskSource for TLC.                             *)
EXTENDS AsyncDiskSource

\* Three decoder layers of one shape.
OneShape == [l \in 0 .. 2 |-> 0]

\* Three decoder layers and a vocabulary weight, a group of one.
DecoderAndVocab == [l \in 0 .. 3 |-> IF l = 3 THEN 1 ELSE 0]

\* Two decoder layers, an embedding and an untied output weight.
DecoderEmbedHead == [l \in 0 .. 3 |-> IF l < 2 THEN 0 ELSE l - 1]
\* The bound of the pinned run: either the reader has been restarted or two copies are
\* in flight, not both.
RestartOrTwoCopies == starts = 1 \/ Len(stream) <= 1
=============================================================================
