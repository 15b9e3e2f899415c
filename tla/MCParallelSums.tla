--------------------------- MODULE MCParallelSums ---------------------------
(* Small instances of ParallelSums for TLC. *)
EXTENDS ParallelSums

\* An empty file, one longer than the ring of buffers, and a short one.
MCBlocks == <<0, 6, 2>>
MCBlocksTwo == <<2, 1>>
=============================================================================
