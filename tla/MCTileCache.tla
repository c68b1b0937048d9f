---------------------------- MODULE MCTileCache ----------------------------
(* TLC instances of TileCache.                                             *)
EXTENDS TileCache, TLC

T(z, x, y) == [z |-> z, x |-> x, y |-> y]

(* FineZoom = 2: a world 4 units wide, of levels 0, 1 and 2.               *)
(* Wide sees the two upper tiles of level 1; Deep two neighbours of level  *)
(* 2, one under each of them; World, at the tie between levels 0 and 1,    *)
(* the root.                                                               *)
Wide  == [cx |-> 2, cy |-> 0, hx |-> 1, hy |-> 0, zoom |-> 2]
Deep  == [cx |-> 2, cy |-> 0, hx |-> 1, hy |-> 0, zoom |-> 4]
World == [cx |-> 2, cy |-> 0, hx |-> 0, hy |-> 0, zoom |-> 1]

(* The source ends at level 1, so Deep is overzoomed; it lacks one of the  *)
(* tiles Wide sees, and a prefetch around Wide finds one more.             *)
Pyramid == T(0, 0, 0) :> 2 @@ T(1, 0, 0) :> 3 @@ T(1, 0, 1) :> 2

AllCameras == {Wide, Deep, World}

(* FineZoom = 1, level 1 only: two cameras that share one tile of a 2x2    *)
(* world, one of whose tiles is missing.                                   *)
UpperRow   == [cx |-> 1, cy |-> 0, hx |-> 1, hy |-> 0, zoom |-> 2]
LeftColumn == [cx |-> 0, cy |-> 1, hx |-> 0, hy |-> 1, zoom |-> 2]

PanCameras == {UpperRow, LeftColumn}
PanArchive == T(1, 0, 0) :> 2 @@ T(1, 1, 0) :> 3 @@ T(1, 1, 1) :> 1
=============================================================================
