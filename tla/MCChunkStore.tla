---------------------------- MODULE MCChunkStore ----------------------------
(* Small instances of ChunkStore for TLC. *)
EXTENDS ChunkStore, TLC

Symmetry == Permutations(Tasks) \cup Permutations(Chunks) \cup Permutations(Inodes)
=============================================================================
