---------------------------- MODULE TilePipeline ----------------------------
(***************************************************************************)
(* From the extracted shapes to the scene on the screen: the tile sink     *)
(* (build_tiles/src/tiler/sink.rs), the forest mask (mask.rs), the buckets *)
(* and the archive of main.rs, and the scene of tiles/src/decode.rs at a   *)
(* camera.                                                                 *)
(*                                                                         *)
(* The threads of the extraction push shapes in any order; a push, which   *)
(* spills a record per tile, is one step, so that two shapes meet in the   *)
(* same order in every tile they share.  The camera sees whole tiles, each *)
(* its own: what a fallback shows is Preview's subject.                    *)
(***************************************************************************)
EXTENDS TileClip, TileFormat, SceneWeld, FiniteSets

LOCAL INSTANCE SequencesExt
LOCAL INSTANCE FiniteSetsExt
LOCAL INSTANCE Functions

CONSTANTS
    ZoomLevels,         \* TileSink::zooms
    AggMaxZoom,         \* TileSink::agg_max_zoom
    RoadAggMaxZoom,     \* TileSink::road_agg_max_zoom
    MinBlobPixels,      \* mask.rs MIN_BLOB_PIXELS
    Maps,               \* what there may be to build: [shapes, strokes]
    CameraZooms,        \* the zooms the camera looks from, in half levels
    Viewport            \* the part of the world it sees, a rectangle

Grid == INSTANCE TileGrid WITH FineZoom <- GridZoom

ASSUME PipelineAssumption ==
    /\ ZoomLevels \subseteq 0..GridZoom /\ GridZoom \in ZoomLevels
    /\ {AggMaxZoom, RoadAggMaxZoom} \subseteq Nat
    /\ CameraZooms \subseteq Nat

VARIABLES
    map,        \* the map that is built
    phase,      \* what main is at
    todo,       \* its shapes or buckets still to do
    mask,       \* PolygonMask::bits, the pixels set
    spill,      \* the buckets' files: encoded records
    archive,    \* tile id -> tile
    view        \* what the camera sees

vars == <<map, phase, todo, mask, spill, archive, view>>

NoView == [zoom |-> 0]

Zooms == SelectSeq([i \in 1..(GridZoom + 1) |-> i - 1], LAMBDA z : z \in ZoomLevels)

-----------------------------------------------------------------------------
(* geo's simplify_vw: while the smallest triangle of a vertex and its two  *)
(* neighbours is no larger than eps squared, that vertex goes.             *)
Doubled(a, b, c) ==
    LET cross == (b[1] - a[1]) * (c[2] - a[2]) - (b[2] - a[2]) * (c[1] - a[1])
    IN  IF cross < 0 THEN -cross ELSE cross

RECURSIVE SimplifyVw(_, _)
SimplifyVw(points, eps) ==
    LET Triangle(i) == Doubled(points[i - 1], points[i], points[i + 1])
        Smallest(inner) == Min({i \in inner : \A j \in inner : Triangle(i) <= Triangle(j)})
        Without(i) == IF Triangle(i) > 2 * eps * eps THEN points
                      ELSE SimplifyVw(RemoveAt(points, i), eps)
    IN  IF Len(points) < 3 THEN points ELSE Without(Smallest(2..(Len(points) - 1)))

(* simplify_road_segments: the stretches between junctions, each by itself.*)
(* Fault: the line as a whole.                                             *)
SimplifyWhole(points, junctions, eps) == SimplifyVw(points, eps)

SimplifyRoadSegments(points, junctions, eps) ==
    LET n == Len(points)
        Stretch(state, i) ==
            IF junctions[i] \/ i = n
            THEN [out |-> state.out \o Tail(SimplifyVw(SubSeq(points, state.start, i), eps)),
                  start |-> i]
            ELSE state
    IN  IF Len(junctions) # n \/ n < 2 THEN SimplifyVw(points, eps)
        ELSE FoldLeft(Stretch, [out |-> <<points[1]>>, start |-> 1],
                      [k \in 1..(n - 1) |-> k + 1]).out

FullDetail(z, forced) == forced \/ z = GridZoom

-----------------------------------------------------------------------------
(* clip_road_at: the ends a cut made are Cut, the others the road's own.   *)
EndsOf(road, piece) ==
    <<IF piece.startCut THEN "Cut" ELSE road.start, IF piece.endCut THEN "Cut" ELSE road.end>>

RoadRecord(road, cut, z) ==
    [key |-> TileId(cut.tile.x, cut.tile.y, z), geometry |-> "Road", kind |-> road.kind,
     layer |-> road.layer, start |-> EndsOf(road, cut.piece)[1],
     end |-> EndsOf(road, cut.piece)[2], coords |-> cut.piece.points, lanes |-> road.lanes,
     name |-> road.name, structure |-> road.structure]

RoadLine(road, z) ==
    IF FullDetail(z, FALSE) THEN road.line
    ELSE SimplifyRoadSegments(road.line, road.junctions, SimplifyTolerance(z))

ClipRoadAt(road, z) ==
    LET cuts == ClipLine(RoadLine(road, z), z)
    IN  [i \in DOMAIN cuts |-> RoadRecord(road, cuts[i], z)]

(* polygon_area, in squares of the world's unit.                           *)
PolygonArea(ring) ==
    LET hull == Hull(ring) IN (hull.x1 - hull.x0) * (hull.y1 - hull.y0)

(* clip_area_at: buildings are never simplified, and holes no one could    *)
(* see are filled.                                                         *)
HoleShows(hole, z) ==
    Len(hole) >= 3 /\ PolygonArea(hole) * TileRenderPx * TileRenderPx > 20 * Width(z) * Width(z)

AreaRecord(area, piece, z) ==
    [key |-> TileId(piece.tile.x, piece.tile.y, z), geometry |-> "Area", kind |-> area.kind,
     layer |-> area.layer, floors |-> area.floors, rings |-> piece.rings, clip |-> piece.clip]

ClipAreaAt(area, z) ==
    LET Simple(ring) == IF FullDetail(z, area.kind = "Building") THEN ring
                        ELSE SimplifyVw(ring, SimplifyTolerance(z))
        outer == Simple(area.polygon.outer)
        holes == SelectSeq([i \in DOMAIN area.polygon.inners |-> Simple(area.polygon.inners[i])],
                           LAMBDA hole : HoleShows(hole, z))
        pieces == ClipArea(outer, holes, z)
    IN  [i \in DOMAIN pieces |-> AreaRecord(area, pieces[i], z)]

PointRecord(point, place, z) ==
    [key |-> TileId(place.tile.x, place.tile.y, z), anchor |-> place.anchor] @@ point

(* push, zoom by zoom: push_road, push_area, push_label, push_poi.  The    *)
(* raw geometry of an aggregated kind is for the finer zooms.              *)
IsAggregated(kind) == kind = "Forest"

(* Fault: it is pushed at every zoom.                                      *)
AreaAtEvery(area, z) == IF z < AreaMinZoom(area.kind) THEN <<>> ELSE ClipAreaAt(area, z)

AreaAt(area, z) ==
    IF z < AreaMinZoom(area.kind) \/ (IsAggregated(area.kind) /\ z <= AggMaxZoom) THEN <<>>
    ELSE ClipAreaAt(area, z)

RoadAt(road, z) == IF z < RoadMinZoom(road.kind) THEN <<>> ELSE ClipRoadAt(road, z)

(* Fault: a label is first built at the zoom after its own.                *)
LabelAfter(label, z) ==
    IF z <= LabelMinZoom(label.class) THEN <<>>
    ELSE <<PointRecord([geometry |-> "Label", kind |-> label.class, name |-> label.name],
                       ClipPoint(label.anchor, z), z)>>

LabelAt(label, z) ==
    IF z < LabelMinZoom(label.class) THEN <<>>
    ELSE <<PointRecord([geometry |-> "Label", kind |-> label.class, name |-> label.name],
                       ClipPoint(label.anchor, z), z)>>

PoiAt(poi, z) ==
    IF z < PoiMinZoom(poi.kind) THEN <<>>
    ELSE <<PointRecord([geometry |-> "Poi", kind |-> poi.kind], ClipPoint(poi.anchor, z), z)>>

PushAt(shape, z) ==
    CASE shape.shape = "Road"  -> RoadAt(shape, z)
      [] shape.shape = "Area"  -> AreaAt(shape, z)
      [] shape.shape = "Label" -> LabelAt(shape, z)
      [] shape.shape = "Poi"   -> PoiAt(shape, z)

(* push_aggregated and push_aggregated_road                                *)
PushAggregatedAt(shape, z) ==
    CASE shape.shape = "Area" /\ z <= AggMaxZoom /\ z >= AreaMinZoom(shape.kind) ->
            ClipAreaAt(shape, z)
      [] shape.shape = "Road" /\ z <= RoadAggMaxZoom -> ClipRoadAt(shape, z)
      [] OTHER -> <<>>

(* SpillWriter::append, record after record.                               *)
Spilled(files, records) ==
    FoldLeft(LAMBDA f, r : LET b == Route(r.key) IN
                IF b \in DOMAIN f THEN [f EXCEPT ![b] = Append(@, Encode(r))]
                ELSE f @@ (b :> <<Encode(r)>>),
             files, records)

-----------------------------------------------------------------------------
(* The mask: a pixel is a tile of the grid zoom (MASK_ZOOM), set when its  *)
(* centre is in the ring; holes are ignored (burn, scanline_fill).         *)
Burnt(polygon) ==
    LET box == TilesCovering(polygon.outer, GridZoom)
        hull == Hull(polygon.outer)
        Centre(i) == i * Extent + Extent \div 2
    IN  {p \in (box.x0..box.x1) \X (box.y0..box.y1) :
            /\ hull.x0 <= Centre(p[1]) /\ Centre(p[1]) <= hull.x1
            /\ hull.y0 <= Centre(p[2]) /\ Centre(p[2]) < hull.y1}

(* merged_polygons: the contour of each blob large enough, without holes.  *)
(* The crate contour traces it through the middles of the borders, so the  *)
(* corners are cut, half a pixel of area in all; here they are kept in the *)
(* outline and taken off the area.  The blobs of the instance are          *)
(* rectangles.                                                             *)
Beside(p, q) == Apart(p, q) = 1 /\ (p[1] = q[1] \/ p[2] = q[2])

RECURSIVE Blob(_, _)
Blob(pixels, part) ==
    LET more == {p \in pixels \ part : \E q \in part : Beside(p, q)}
    IN  IF more = {} THEN part ELSE Blob(pixels, part \cup more)

Blobs(pixels) == {Blob(pixels, {p}) : p \in pixels}

Contour(blob) ==
    LET Edge(axis, Of2(_), by) == (Of2({p[axis] : p \in blob}) + by) * Extent
    IN  RingOf([x0 |-> Edge(1, Min, 0), x1 |-> Edge(1, Max, 1),
                y0 |-> Edge(2, Min, 0), y1 |-> Edge(2, Max, 1)])

MergedForests ==
    {[shape |-> "Area", kind |-> "Forest", layer |-> 0, floors |-> 0,
      polygon |-> [outer |-> Contour(blob), inners |-> <<>>]] :
        blob \in {b \in Blobs(mask) : 2 * Cardinality(b) - 1 >= 2 * MinBlobPixels}}

-----------------------------------------------------------------------------
Init ==
    /\ map \in Maps
    /\ phase = "extract"
    /\ todo = map.shapes
    /\ mask = {}
    /\ spill = <<>>
    /\ archive = <<>>
    /\ view = NoView

(* PolygonTee::push                                                        *)
Push(shape) ==
    /\ phase = "extract"
    /\ shape \in todo
    /\ todo' = todo \ {shape}
    /\ mask' = IF shape.shape = "Area" /\ shape.kind = "Forest"
               THEN mask \cup Burnt(shape.polygon) ELSE mask
    /\ spill' = Spilled(spill, FlattenSeq([i \in DOMAIN Zooms |-> PushAt(shape, Zooms[i])]))
    /\ UNCHANGED <<map, phase, archive, view>>

(* A merged forest, then a merged stroke: major roads are aggregated, and  *)
(* borders are pushed as they are.                                         *)
PushMerged(shape) ==
    /\ phase \in {"forests", "features"}
    /\ shape \in todo
    /\ todo' = todo \ {shape}
    /\ spill' = Spilled(spill, FlattenSeq([i \in DOMAIN Zooms |->
                    IF shape.kind = "Border" THEN PushAt(shape, Zooms[i])
                    ELSE PushAggregatedAt(shape, Zooms[i])]))
    /\ UNCHANGED <<map, phase, mask, archive, view>>

(* main goes on when it is through with what it is at.                     *)
GoOn ==
    /\ todo = {}
    /\ phase \in {"extract", "forests", "features"}
    /\ phase' = CASE phase = "extract" -> "forests" [] phase = "forests" -> "features"
                  [] phase = "features" -> "archive"
    /\ todo' = CASE phase = "extract" -> MergedForests [] phase = "forests" -> map.strokes
                 [] phase = "features" -> DOMAIN spill
    /\ UNCHANGED <<map, mask, spill, archive, view>>

(* A bucket's records are grouped by their tile, in their order.           *)
KeyOf(fields) == fields[1]

RecordsOf(file, key) ==
    LET of == SelectSeq(file, LAMBDA fields : KeyOf(fields) = key)
    IN  [i \in DOMAIN of |-> Decode(of[i])]

BuildBucket(b) ==
    /\ phase = "archive"
    /\ b \in todo
    /\ todo' = todo \ {b}
    /\ archive' = archive @@ [key \in {KeyOf(f) : f \in ToSet(spill[b])} |->
                                 BuildTile(RecordsOf(spill[b], key), Extent)]
    /\ UNCHANGED <<map, phase, mask, spill, view>>

(* The tiles under the viewport, as SceneView::update has them of a cache  *)
(* that has loaded them all.                                               *)
TargetLevel(zoom) == Grid!TargetLevel([zoom |-> zoom + 2])

VisibleTiles(level) ==
    LET tiles == TilesOf(TilesCovering(RingOf(Viewport), level), level)
        stored == SelectSeq(tiles, LAMBDA t : TileId(t.x, t.y, t.z) \in DOMAIN archive)
    IN  [i \in DOMAIN stored |->
            [tile |-> stored[i], source |-> TileAt(TileId(stored[i].x, stored[i].y, stored[i].z)),
             data |-> DecodeTile(archive[TileId(stored[i].x, stored[i].y, stored[i].z)])]]

Look(zoom) ==
    /\ phase = "archive"
    /\ todo = {}
    /\ view = NoView
    /\ view' = [zoom |-> zoom, level |-> TargetLevel(zoom),
                scene |-> FromVisible(VisibleTiles(TargetLevel(zoom)), zoom \div 2)]
    /\ UNCHANGED <<map, phase, todo, mask, spill, archive>>

(* Nothing is left to do, and the camera rests.                            *)
Looked == view # NoView /\ UNCHANGED vars

Next ==
    \/ \E shape \in todo : Push(shape) \/ PushMerged(shape)
    \/ GoOn
    \/ \E b \in todo : BuildBucket(b)
    \/ \E zoom \in CameraZooms : Look(zoom)
    \/ Looked

Spec == Init /\ [][Next]_vars

-----------------------------------------------------------------------------
(* The properties speak of the map and of what is on the screen.  A place  *)
(* of the world is on it where rounding to the level's units puts it.      *)
Seen == view # NoView
Display == view.zoom \div 2
Level == view.level
Scene == view.scene

OnScreen(place) == [axis \in 1..2 |-> Rounded(place[axis], Unit(Level))]

MapShapes(shape) == {s \in map.shapes : s.shape = shape}

(* A label or a symbol is on the screen once, at its place, exactly when   *)
(* the camera has come to the zoom its class is displayed from; and a road *)
(* of a class the pyramid has is drawn from its zoom on.  The zoom it is   *)
(* built from, the level the camera loads, the one tile that takes it and  *)
(* the camera's own zoom are four numbers of four files.                   *)
ShapesAreShown ==
    Seen =>
        /\ \A l \in MapShapes("Label") :
                Quantify(DOMAIN Scene.labels, LAMBDA i :
                    Scene.labels[i] = [class |-> l.class, rank |-> LabelRank(l.class),
                                       anchor |-> OnScreen(l.anchor), name |-> l.name])
                    = IF Display >= LabelDisplayMinZoom(l.class) THEN 1 ELSE 0
        /\ \A p \in MapShapes("Poi") :
                Quantify(DOMAIN Scene.pois, LAMBDA i :
                    Scene.pois[i] = [kind |-> p.kind, anchor |-> OnScreen(p.anchor)])
                    = IF Display >= PoiDisplayMinZoom(p.kind) THEN 1 ELSE 0
        /\ \A r \in MapShapes("Road") :
                (\E i \in DOMAIN Scene.roads : Scene.roads[i].kind = r.kind)
                    <=> \E s \in MapShapes("Road") :
                            /\ s.kind = r.kind
                            /\ RoadMinZoom(s.kind) <= GridZoom
                            /\ Display >= RoadDisplayMinZoom(s.kind)

(* The ground of the map's areas of a kind at a level: where forests are   *)
(* aggregated the blocks of pixels they fill, and else the polygons        *)
(* simplification leaves, with the holes that show.                        *)
ScreenHull(ring) ==
    LET hull == Hull(ring)
    IN  [x0 |-> Rounded(hull.x0, Unit(Level)), x1 |-> Rounded(hull.x1, Unit(Level)),
         y0 |-> Rounded(hull.y0, Unit(Level)), y1 |-> Rounded(hull.y1, Unit(Level))]

Size(r) == (r.x1 - r.x0) * (r.y1 - r.y0)

Survives(ring, kind) ==
    FullDetail(Level, kind = "Building")
        \/ PolygonArea(ring) > 2 * SimplifyTolerance(Level) * SimplifyTolerance(Level)

Grounds(kind) ==
    IF IsAggregated(kind) /\ Level <= AggMaxZoom THEN {f.polygon : f \in MergedForests}
    ELSE IF Level < AreaMinZoom(kind) THEN {}
    ELSE {a.polygon : a \in {s \in MapShapes("Area") : s.kind = kind}}

HolesOf(polygon, kind) ==
    {i \in DOMAIN polygon.inners :
        Survives(polygon.inners[i], kind) /\ HoleShows(polygon.inners[i], Level)}

GroundSize(polygon, kind) ==
    Size(ScreenHull(polygon.outer))
        - MapThenSumSet(LAMBDA i : Size(ScreenHull(polygon.inners[i])), HolesOf(polygon, kind))

PieceSize(area) ==
    Size(Hull(area.rings[1]))
        - FoldLeft(LAMBDA n, ring : n + Size(Hull(ring)), 0, Tail(area.rings))

(* What the screen shows of a kind of area is its ground, every part of it *)
(* once: the pieces the tiles bring do not overlap, lie on the ground and  *)
(* have its size.                                                          *)
AreasCoverOnce ==
    Seen => \A k \in DOMAIN AreaKind :
        LET kind    == AreaKind[k]
            grounds == {p \in Grounds(kind) : Survives(p.outer, kind)}
            shown   == {i \in DOMAIN Scene.areas : Scene.areas[i].kind = kind}
            Part(i) == Hull(Scene.areas[i].rings[1])
        IN  /\ \A i \in shown : \E p \in grounds : Meet(Part(i), ScreenHull(p.outer)) = Part(i)
            /\ \A i, j \in shown : i = j \/ ~HasArea(Meet(Part(i), Part(j)))
            /\ MapThenSumSet(LAMBDA i : PieceSize(Scene.areas[i]), shown)
                    = IF Display < AreaDisplayMinZoom(kind) THEN 0
                      ELSE MapThenSumSet(LAMBDA p : GroundSize(p, kind), grounds)

(* The ends of the map's roads of a kind at a place of the screen, and the *)
(* ends of the strokes the scene has of it there.                          *)
LinesOf(kind) == {r \in MapShapes("Road") \cup map.strokes : r.kind = kind}

EndsAt(kind, place) ==
    Cardinality({r \in LinesOf(kind) : OnScreen(r.line[1]) = place})
        + Cardinality({r \in LinesOf(kind) : OnScreen(Last(r.line)) = place})

(* A road comes back from the tiles as it went in, however many tiles and  *)
(* buckets cut it: no stroke of the scene is cut short at a border, one    *)
(* ends only where a road of the map does, and where just two roads of a   *)
(* kind meet neither does.  Along each road of the map its stroke has the  *)
(* road's lanes, forward and backward as it is travelled.                  *)
StrokesAreWelded ==
    Seen => \A s \in ToSet(Scene.roads) :
        /\ s.start # "Cut" /\ s.end # "Cut"
        /\ \A place \in {s.coords[1], Last(s.coords)} : EndsAt(s.kind, place) \notin {0, 2}
        /\ \A r \in LinesOf(s.kind) : \A n \in 1..(Len(r.line) - 1) :
              \A i, j \in DOMAIN s.coords :
                /\ s.coords[i] = OnScreen(r.line[n])
                /\ s.coords[j] = OnScreen(r.line[n + 1])
                => /\ \A m \in (i + 1)..(j - 1) : s.lanes[m] = r.lanes
                   /\ \A m \in (j + 1)..(i - 1) : s.lanes[m] = Swapped(r.lanes)

(* Roads that share a junction still share it on the screen, at every      *)
(* level both are drawn at: simplification moves neither off it.           *)
JunctionsHold ==
    Seen => \A r \in MapShapes("Road") : \A n \in DOMAIN r.junctions :
        r.junctions[n] =>
            \A i \in DOMAIN Scene.roads :
                Scene.roads[i].kind = r.kind =>
                    \E j \in DOMAIN Scene.roads :
                        /\ Scene.roads[j].kind = r.kind
                        /\ OnScreen(r.line[n]) \in ToSet(Scene.roads[j].coords)
=============================================================================
