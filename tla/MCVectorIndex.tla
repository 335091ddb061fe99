---------------------------- MODULE MCVectorIndex ---------------------------
(* Small instances of VectorIndex for TLC.                                 *)
EXTENDS VectorIndex, TLC

Symmetric == Permutations(Roots) \cup Permutations(Entities)
               \cup Permutations(Scanners) \cup Permutations(Builders)
=============================================================================
