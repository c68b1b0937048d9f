--------------------------- MODULE MCSpillBuckets ---------------------------
(* TLC instances of SpillBuckets: three records of two tiles, two of them  *)
(* of one bucket; a second extract that leaves that bucket untouched.      *)
EXTENDS SpillBuckets, TLC

CONSTANTS r1, r2, r3, tileA, tileB

AllRecords == {r1, r2, r3}
Tile == r1 :> tileA @@ r2 :> tileA @@ r3 :> tileB
RouteTo == tileA :> 0 @@ tileB :> 1

Whole == {{r1, r2, r3}}
WholeOrPart == {{r1, r2, r3}, {r3}}
=============================================================================
