----------------------------- MODULE MCImageClient -----------------------------
(* Instances of ImageClient for TLC. *)
EXTENDS ImageClient

CONSTANTS s1, s2

(* Of up to thirty images each is in exactly one chunk.                     *)
ASSUME ChunksOfFew ==
  \A n \in 1 .. 30 : \A i \in 1 .. n :
    Cardinality({k \in Chunk : i \in ChunkOf(k, n)}) = 1
===============================================================================
