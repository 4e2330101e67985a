---------------------------- MODULE MCChunkGraph ----------------------------
(* Model checking of ChunkGraph: two prose texts and one that is copied. *)
EXTENDS ChunkGraph
=============================================================================
