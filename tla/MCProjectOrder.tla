--------------------------- MODULE MCProjectOrder ---------------------------
(* Small instances of ProjectOrder for TLC.                                *)
EXTENDS ProjectOrder, TLC

Symmetric == Permutations(Reorderers)
=============================================================================
