----------------------------- MODULE TileAddress -----------------------------
(***************************************************************************)
(* The parameters of a tiling run and the addresses of build_tiles's tiler *)
(* (tiler/mod.rs): the id a tile's records are spilled and grouped under,  *)
(* the bucket they go to, and the grid a zoom cuts the world into.         *)
(*                                                                         *)
(* The world is a square of integer units, Extent of them across a tile of *)
(* the grid zoom; a tile of zoom z is Width(z) of them across, and one     *)
(* tile-local unit of that zoom is Unit(z) of them.                        *)
(***************************************************************************)
EXTENDS Integers, Sequences

LOCAL INSTANCE SequencesExt
LOCAL INSTANCE FiniteSetsExt

CONSTANTS GridZoom, BucketZoom, Extent, SimplifyPx, TileRenderPx

ASSUME TileParamsAssumption ==
    /\ {GridZoom, BucketZoom, Extent, SimplifyPx, TileRenderPx} \subseteq Nat \ {0}
    /\ BucketZoom <= GridZoom
    /\ Extent < 2^15
    /\ (SimplifyPx * Extent) % TileRenderPx = 0

Unit(z) == 2^(GridZoom - z)
Width(z) == Extent * Unit(z)

(* Bit i of n goes to place 2i, and the even bits of n come back.          *)
Spread[n \in Nat] == IF n = 0 THEN 0 ELSE (n % 2) + 4 * Spread[n \div 2]
Compact[n \in Nat] == IF n = 0 THEN 0 ELSE (n % 2) + 2 * Compact[n \div 4]

Morton2(x, y) == Spread[x] + 2 * Spread[y]
Demorton2(d) == <<Compact[d], Compact[d \div 2]>>

(* local_zoom_offset: how many tiles the coarser zooms have.               *)
LocalZoomOffset(z) == (4^z - 1) \div 3

TileId(x, y, z) == LocalZoomOffset(z) + Morton2(x, y)

(* split_id, for the zooms up to the grid's.                               *)
ZoomOf(id) == CHOOSE z \in 0..GridZoom : LocalZoomOffset(z) <= id /\ id < LocalZoomOffset(z + 1)
MortonOf(id) == id - LocalZoomOffset(ZoomOf(id))

(* TileParams::tile and TileParams::route.                                 *)
TileAt(id) ==
    LET place == Demorton2(MortonOf(id)) IN [z |-> ZoomOf(id), x |-> place[1], y |-> place[2]]

Route(id) ==
    LET shift == ZoomOf(id) - BucketZoom
    IN  IF shift >= 0 THEN MortonOf(id) \div 4^shift ELSE MortonOf(id) * 4^(-shift)

(* simplify_tolerance: at least one tile-local unit.                       *)
SimplifyTolerance(z) == Unit(z) * Max({(SimplifyPx * Extent) \div TileRenderPx, 1})

(* tiles_covering: the tiles under the box of the points.                  *)
Column(v, z) == Min({Max({v \div Width(z), 0}), 2^z - 1})

TilesCovering(points, z) ==
    LET Lo(axis) == Column(Min({p[axis] : p \in ToSet(points)}), z)
        Hi(axis) == Column(Max({p[axis] : p \in ToSet(points)}), z)
    IN  [x0 |-> Lo(1), y0 |-> Lo(2), x1 |-> Hi(1), y1 |-> Hi(2)]

(* quantize: the nearest tile-local unit, kept inside the tile.  A place   *)
(* is a fraction, the numerators n over d.                                 *)
Rounded(n, d) == (2 * n + d) \div (2 * d)

Quantize(n, d, tile) ==
    LET Local(axis, index) ==
            LET v == Rounded(n[axis] - index * Width(tile.z) * d, Unit(tile.z) * d)
            IN  Min({Max({v, 0}), Extent})
    IN  <<Local(1, tile.x), Local(2, tile.y)>>
=============================================================================
