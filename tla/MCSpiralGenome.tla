--------------------------- MODULE MCSpiralGenome ---------------------------
(***************************************************************************)
(* Instances of SpiralGenome for TLC.                                      *)
(***************************************************************************)
EXTENDS SpiralGenome, TLC

Interchangeable == Permutations(Entity) \union Permutations(Body)
=============================================================================
