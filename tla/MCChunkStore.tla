---------------------------- MODULE MCChunkStore ----------------------------
(* ChunkStore on small files; the configurations choose the bounds.        *)
EXTENDS ChunkStore
=============================================================================
