--------------------------- MODULE MCProjectIndex ---------------------------
(* Small instances of ProjectIndex for TLC.                                *)
EXTENDS ProjectIndex, TLC

\* Roots, entities and the threads of one kind are interchangeable; ids are
\* ordered and are not.
Symmetric == Permutations(Roots) \cup Permutations(Entities)
               \cup Permutations(Scanners) \cup Permutations(Creators)
               \cup Permutations(Deleters)
=============================================================================
