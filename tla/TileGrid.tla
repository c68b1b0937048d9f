------------------------------ MODULE TileGrid ------------------------------
(***************************************************************************)
(* The tile pyramid and the camera geometry of the `tiles` crate           *)
(* (tiles/src/lib.rs, tiles/src/reader/mod.rs, tiles/src/view.rs): a tile, *)
(* its ancestors, the level a camera selects and the tiles it sees.        *)
(*                                                                         *)
(* Lengths are integers.  The world is a square of 2^FineZoom units per    *)
(* axis, so a tile of level z is 2^(FineZoom - z) units wide.  A camera is *)
(* north-up (bearing 0): its centre <<cx, cy>> and the half-extents hx, hy  *)
(* of its viewport in world units, and its effective zoom, counted in half *)
(* levels so that a tie between two materialized levels is representable.  *)
(***************************************************************************)
EXTENDS Integers, FiniteSets

CONSTANTS
    ZoomLevels,     \* the materialized levels the cache is configured with
    FineZoom        \* resolution of the world: 2^FineZoom units per axis

ASSUME ZoomLevelsAssumption ==
    /\ ZoomLevels # {}
    /\ IsFiniteSet(ZoomLevels)
    /\ FineZoom \in Nat
    /\ ZoomLevels \subseteq 0..FineZoom

Tiles == UNION {[z : {z}, x : 0..(2^z - 1), y : 0..(2^z - 1)] : z \in 0..FineZoom}

(* Tile::parent applied k times.                                           *)
Ancestor(t, k) == [z |-> t.z - k, x |-> t.x \div 2^k, y |-> t.y \div 2^k]

(* The order TileRange::tiles enumerates one level in: y outer, x inner.   *)
RowMajor(t, u) == t.y < u.y \/ (t.y = u.y /\ t.x <= u.x)

IsFirst(t, S) == t \in S /\ \A u \in S : RowMajor(t, u)

Distance(a, b) == IF a < b THEN b - a ELSE a - b

(* TileCache::target_level: nearest level, ties to the coarser one.        *)
TargetLevel(cam) ==
    CHOOSE level \in ZoomLevels :
        \A other \in ZoomLevels :
            LET d == Distance(2 * level, cam.zoom)
                e == Distance(2 * other, cam.zoom)
            IN  d < e \/ (d = e /\ level <= other)

(* TileCache::visible_range: the tiles of `level` under the viewport,      *)
(* widened by `margin` rings; both ends are clamped to the level's grid.   *)
VisibleRange(cam, level, margin) ==
    LET width    == 2^(FineZoom - level)
        last     == 2^level - 1
        Clamp(v) == IF v < 0 THEN 0 ELSE IF v > last THEN last ELSE v
        Low(c, h)  == Clamp((c - h) \div width - margin)
        High(c, h) == Clamp((c + h) \div width + margin)
    IN  {t \in Tiles : /\ t.z = level
                       /\ t.x \in Low(cam.cx, cam.hx)..High(cam.cx, cam.hx)
                       /\ t.y \in Low(cam.cy, cam.hy)..High(cam.cy, cam.hy)}

Visible(cam) == VisibleRange(cam, TargetLevel(cam), 0)
=============================================================================
