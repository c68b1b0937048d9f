------------------------------ MODULE TileClip ------------------------------
(***************************************************************************)
(* How build_tiles cuts a shape into tiles (tiler/grid.rs, tiler/clip.rs). *)
(* A line is clipped to every tile its box touches; a polygon is halved    *)
(* along the longer axis of its tiles until one tile is left.              *)
(*                                                                         *)
(* Lines take any course: where one crosses a border is a fraction.  The   *)
(* polygons are rectangles along the axes, and a hole lies inside one tile *)
(* or covers it.                                                           *)
(***************************************************************************)
EXTENDS TileAddress

LOCAL INSTANCE SequencesExt
LOCAL INSTANCE FiniteSetsExt
LOCAL INSTANCE Functions

Rect(tile) ==
    [x0 |-> tile.x * Width(tile.z), x1 |-> (tile.x + 1) * Width(tile.z),
     y0 |-> tile.y * Width(tile.z), y1 |-> (tile.y + 1) * Width(tile.z)]

-----------------------------------------------------------------------------
(* liang_barsky: the part of the segment inside the rectangle, from t0 to  *)
(* t1; a t is a pair <<n, d>> with d > 0.                                  *)
Less(s, t) == s[1] * t[2] < t[1] * s[2]
Latest(ts) == CHOOSE t \in ts : \A s \in ts : ~Less(t, s)
Earliest(ts) == CHOOSE t \in ts : \A s \in ts : ~Less(s, t)

Outside == <<>>

LiangBarsky(p, q, rect) ==
    LET dx == q[1] - p[1]
        dy == q[2] - p[2]
        edges == {<<-dx, p[1] - rect.x0>>, <<dx, rect.x1 - p[1]>>,
                  <<-dy, p[2] - rect.y0>>, <<dy, rect.y1 - p[2]>>}
        t0 == Latest({<<0, 1>>} \cup {<<-e[2], -e[1]>> : e \in {f \in edges : f[1] < 0}})
        t1 == Earliest({<<1, 1>>} \cup {<<e[2], e[1]>> : e \in {f \in edges : f[1] > 0}})
    IN  IF (\E e \in edges : e[1] = 0 /\ e[2] < 0) \/ Less(t1, t0) THEN Outside ELSE <<t0, t1>>

(* lerp, and the quantize its result goes through.                         *)
LerpAt(p, q, t, tile) ==
    Quantize([axis \in 1..2 |-> p[axis] * t[2] + t[1] * (q[axis] - p[axis])], t[2], tile)

Piece(points, startCut, endCut) == [points |-> points, startCut |-> startCut, endCut |-> endCut]

(* flush: a piece of two vertices at least is kept.                        *)
Flush(state, endCut) ==
    [out |-> IF Len(state.current) >= 2
             THEN Append(state.out, Piece(state.current, state.startCut, endCut)) ELSE state.out,
     current |-> <<>>, startCut |-> state.startCut]

(* One segment of the line: it may begin a piece, and ends it when it      *)
(* leaves the tile.                                                        *)
Segment(state, p, q, tile, seen) ==
    LET begun == IF state.current # <<>> THEN state
                 ELSE [state EXCEPT !.startCut = Less(<<0, 1>>, seen[1]),
                                    !.current = <<LerpAt(p, q, seen[1], tile)>>]
        grown == [begun EXCEPT !.current = Append(@, LerpAt(p, q, seen[2], tile))]
    IN  IF Less(seen[2], <<1, 1>>) THEN Flush(grown, TRUE) ELSE grown

(* clip_line of clip.rs, on one tile.                                      *)
ClipPolyline(points, tile) ==
    LET Step(state, i) ==
            LET seen == LiangBarsky(points[i], points[i + 1], Rect(tile))
            IN  IF seen = Outside THEN Flush(state, TRUE)
                ELSE Segment(state, points[i], points[i + 1], tile, seen)
        start == [out |-> <<>>, current |-> <<>>, startCut |-> FALSE]
    IN  Flush(FoldLeft(Step, start, [i \in 1..(Len(points) - 1) |-> i]), FALSE).out

(* The tiles of a box, row by row.                                         *)
TilesOf(box, z) ==
    LET columns == box.x1 - box.x0 + 1
    IN  [i \in 1..(columns * (box.y1 - box.y0 + 1)) |->
            [z |-> z, x |-> box.x0 + ((i - 1) % columns), y |-> box.y0 + ((i - 1) \div columns)]]

PiecesIn(tile, pieces) == [i \in DOMAIN pieces |-> [tile |-> tile, piece |-> pieces[i]]]

(* clip_line of grid.rs.                                                   *)
ClipLine(points, z) ==
    IF Len(points) < 2 THEN <<>>
    ELSE FoldLeft(LAMBDA cuts, tile : cuts \o PiecesIn(tile, ClipPolyline(points, tile)),
                  <<>>, TilesOf(TilesCovering(points, z), z))

(* clip_point: the anchor in the tile that has it.                         *)
HomeTile(anchor, z) == [z |-> z, x |-> Column(anchor[1], z), y |-> Column(anchor[2], z)]

ClipPoint(anchor, z) ==
    [tile |-> HomeTile(anchor, z), anchor |-> Quantize(anchor, 1, HomeTile(anchor, z))]

-----------------------------------------------------------------------------
(* sh_pass: the ring without what lies on the far side of a bound.  An     *)
(* edge that crosses it runs along the other axis' coordinate.             *)
ShPass(ring, axis, bound, keepGe) ==
    LET Inside(p) == IF keepGe THEN p[axis] >= bound ELSE p[axis] <= bound
        Prev(i) == ring[IF i = 1 THEN Len(ring) ELSE i - 1]
        Crossing(p) == [p EXCEPT ![axis] = bound]
        Kept(i) == (IF Inside(ring[i]) # Inside(Prev(i)) THEN <<Crossing(ring[i])>> ELSE <<>>)
                       \o (IF Inside(ring[i]) THEN <<ring[i]>> ELSE <<>>)
    IN  IF Len(ring) < 3 THEN <<>> ELSE FlattenSeq([i \in DOMAIN ring |-> Kept(i)])

ShRect(ring, r) ==
    ShPass(ShPass(ShPass(ShPass(ring, 1, r.x0, TRUE), 1, r.x1, FALSE), 2, r.y0, TRUE), 2, r.y1, FALSE)

(* geo's intersection of a rectangle with holes and a rectangle: no        *)
(* polygon, or one, its ring closed.                                       *)
Hull(ring) ==
    [x0 |-> Min({p[1] : p \in ToSet(ring)}), x1 |-> Max({p[1] : p \in ToSet(ring)}),
     y0 |-> Min({p[2] : p \in ToSet(ring)}), y1 |-> Max({p[2] : p \in ToSet(ring)})]

Meet(a, b) == [x0 |-> Max({a.x0, b.x0}), x1 |-> Min({a.x1, b.x1}),
               y0 |-> Max({a.y0, b.y0}), y1 |-> Min({a.y1, b.y1})]

HasArea(r) == r.x0 < r.x1 /\ r.y0 < r.y1

RingOf(r) == <<<<r.x1, r.y0>>, <<r.x1, r.y1>>, <<r.x0, r.y1>>, <<r.x0, r.y0>>, <<r.x1, r.y0>>>>

Intersection(outer, holes, rect) ==
    LET common == Meet(Hull(outer), rect)
        within == SelectSeq(holes, LAMBDA hole : HasArea(Meet(Hull(hole), common)))
    IN  IF ~HasArea(common) \/ \E hole \in ToSet(within) : Meet(Hull(hole), common) = common THEN <<>>
        ELSE <<[outer |-> RingOf(common), inners |-> [i \in DOMAIN within |->
                                                        RingOf(Meet(Hull(within[i]), common))]]>>

(* canonicalize: the ring from its least vertex on.                        *)
Before(p, q) == p[1] < q[1] \/ (p[1] = q[1] /\ p[2] < q[2])

Canonicalize(ring) ==
    LET least == Min({i \in DOMAIN ring : \A j \in DOMAIN ring : ~Before(ring[j], ring[i])})
    IN  IF Len(ring) < 2 THEN ring ELSE SubSeq(ring, least, Len(ring)) \o SubSeq(ring, 1, least - 1)

ToLocal(ring, tile) ==
    LET local == [i \in DOMAIN ring |-> Quantize(ring[i], 1, tile)]
    IN  Canonicalize(IF Len(local) >= 2 /\ local[1] = Last(local) THEN Front(local) ELSE local)

BboxArea(ring) == LET hull == Hull(ring) IN (hull.x1 - hull.x0) * (hull.y1 - hull.y0)

OnEdge(v) == v[1] \in {0, Extent} \/ v[2] \in {0, Extent}

(* One polygon of one tile, with what of it the cut made: a piece whose    *)
(* box is too small to be seen is left out.                                *)
AreaPiece(polygon, tile) ==
    LET inners == SelectSeq([i \in DOMAIN polygon.inners |-> ToLocal(polygon.inners[i], tile)],
                            LAMBDA hole : Len(hole) >= 3)
        rings == <<ToLocal(polygon.outer, tile)>> \o inners
        all == FlattenSeq(rings)
    IN  [tile |-> tile, rings |-> rings, clip |-> [i \in DOMAIN all |-> OnEdge(all[i])]]

(* min_area: a box two pixels square.                                      *)
BigEnough(piece) ==
    Len(piece.rings[1]) >= 3
        /\ BboxArea(piece.rings[1]) * TileRenderPx * TileRenderPx >= 4 * Extent * Extent

LeafPieces(outer, holes, tile) ==
    LET polygons == Intersection(outer, holes, Rect(tile))
    IN  SelectSeq([i \in DOMAIN polygons |-> AreaPiece(polygons[i], tile)], BigEnough)

Lone(box) == box.x0 = box.x1 /\ box.y0 = box.y1

Halves(box) ==
    LET mid == box.x0 + (box.x1 - box.x0) \div 2
        down == box.y0 + (box.y1 - box.y0) \div 2
    IN  IF box.x1 - box.x0 >= box.y1 - box.y0
        THEN <<[box EXCEPT !.x1 = mid], [box EXCEPT !.x0 = mid + 1]>>
        ELSE <<[box EXCEPT !.y1 = down], [box EXCEPT !.y0 = down + 1]>>

BoxRect(box, z) ==
    [x0 |-> box.x0 * Width(z), x1 |-> (box.x1 + 1) * Width(z),
     y0 |-> box.y0 * Width(z), y1 |-> (box.y1 + 1) * Width(z)]

(* clip_area_range: a half of one tile gets the geometry uncut, a larger   *)
(* one what is inside it.                                                  *)
RECURSIVE ClipAreaRange(_, _, _, _)
ClipAreaRange(outer, holes, box, z) ==
    LET ToHalf(half) ==
            IF Lone(half) THEN ClipAreaRange(outer, holes, half, z)
            ELSE LET so == ShRect(outer, BoxRect(half, z))
                     sh == [i \in DOMAIN holes |-> ShRect(holes[i], BoxRect(half, z))]
                 IN  IF Len(so) < 3 THEN <<>>
                     ELSE ClipAreaRange(so, SelectSeq(sh, LAMBDA h : Len(h) >= 3), half, z)
    IN  IF Lone(box) THEN LeafPieces(outer, holes, [z |-> z, x |-> box.x0, y |-> box.y0])
        ELSE ToHalf(Halves(box)[1]) \o ToHalf(Halves(box)[2])

(* clip_area                                                               *)
ClipArea(outer, holes, z) ==
    IF Len(outer) < 3 THEN <<>> ELSE ClipAreaRange(outer, holes, TilesCovering(outer, z), z)
=============================================================================
