----------------------------- MODULE MCPreview -----------------------------
(* TLC instances of Preview: FineZoom = 2, a world 4 units wide.           *)
EXTENDS Preview, TLC

T(z, x, y) == [z |-> z, x |-> x, y |-> y]
C(cx, hx, zoom) == [cx |-> cx, cy |-> 0, hx |-> hx, hy |-> 0, zoom |-> zoom]

(* Cameras over one centre: the root, tiles of level 1, and a tile beyond  *)
(* the archive, seen from two zooms; and one to pan to.                    *)
AllCameras == {C(2, 0, 1), C(2, 1, 2), C(2, 0, 4), C(2, 0, 6), C(0, 1, 2)}

Narrow == C(2, 0, 4)

(* The source ends at level 1 and lacks tiles of it.                       *)
Pyramid == T(0, 0, 0) :> 1 @@ T(1, 0, 0) :> 3 @@ T(1, 1, 0) :> 2

(* The root shows nothing to a camera that sees all of it; one tile shows  *)
(* more to the closest camera.                                             *)
Contents == T(0, 0, 0) :> {0} @@ T(1, 0, 0) :> {0} @@ T(1, 1, 0) :> {0, 2}
=============================================================================
