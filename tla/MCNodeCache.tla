----------------------------- MODULE MCNodeCache -----------------------------
(* TLC instances of NodeCache: four nodes in three blocks, ids 0..5 in     *)
(* words of two bits, three of the nodes referenced by the first filter    *)
(* and two by the second.                                                  *)
EXTENDS NodeCache, TLC

ThreeBlocks == <<<<0, 1>>, <<3>>, <<5>>>>
Coords == 0 :> 7 @@ 1 :> 4 @@ 3 :> 9 @@ 5 :> 5

OneFilter == {{0, 3, 5}, {}}
TwoFilters == {{0, 3, 5}, {1, 5}}
=============================================================================
