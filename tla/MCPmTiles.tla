------------------------------ MODULE MCPmTiles ------------------------------
(* TLC instances of PmTiles.                                               *)
EXTENDS PmTiles, TLC

CONSTANTS sea, land, town, wood

T(z, x, y) == [z |-> z, x |-> x, y |-> y]

Lengths == sea :> 1 @@ land :> 9 @@ town :> 3 @@ wood :> 2

(* Six tiles of levels 0 and 2, with a level left out between them: a run  *)
(* of sea, one more sea tile after a gap of the curve, land, town, wood.   *)
(* And an archive of none.                                                 *)
Coast ==
    T(0, 0, 0) :> land @@ T(2, 0, 0) :> sea @@ T(2, 1, 0) :> sea @@
    T(2, 0, 1) :> sea @@ T(2, 0, 2) :> town @@ T(2, 0, 3) :> wood

Coasts == {Coast, <<>>}

(* Tiles that are there, tiles between and beyond them, one twice.         *)
Views == {
    <<T(2, 0, 0), T(1, 0, 0), T(2, 1, 1)>>,
    <<T(2, 0, 3), T(0, 0, 0), T(0, 0, 0)>>,
    <<T(0, 0, 0), T(2, 0, 2), T(3, 0, 0)>>}
=============================================================================
