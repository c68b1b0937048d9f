------------------------------ MODULE SceneWeld ------------------------------
(***************************************************************************)
(* The scene of a set of decoded tiles (tiles/src/decode.rs): their shapes *)
(* in one frame, the pieces of roads welded where they meet, and the       *)
(* widths of those that stay apart evened out where they touch.            *)
(***************************************************************************)
EXTENDS Integers, Sequences, FeatureKinds

LOCAL INSTANCE SequencesExt
LOCAL INSTANCE FiniteSetsExt
LOCAL INSTANCE TLC

WeldTolDiv == 1024

Tolerance(extent) == Max({extent \div WeldTolDiv, 1})

Apart(a, b) ==
    LET Distance(i) == IF a[i] < b[i] THEN b[i] - a[i] ELSE a[i] - b[i]
    IN  Max({Distance(1), Distance(2)})

Toward(a, b) == <<b[1] - a[1], b[2] - a[2]>>
Dot(u, v) == u[1] * v[1] + u[2] * v[2]

-----------------------------------------------------------------------------
(* The ends of the pieces, start and end of each in turn.                  *)
Ports(roads) == 1..(2 * Len(roads))
PieceOf(port) == (port + 1) \div 2
IsStart(port) == port % 2 = 1
PlaceOf(roads, port) ==
    IF IsStart(port) THEN roads[PieceOf(port)].coords[1] ELSE Last(roads[PieceOf(port)].coords)

(* Ends within the tolerance of a place, in the order of the cells around  *)
(* it, column by column, and in each of the pieces.                        *)
CellOrder(roads, tol, p, q) ==
    LET Cell(port, axis) == PlaceOf(roads, port)[axis] \div tol
    IN  \/ Cell(p, 1) < Cell(q, 1)
        \/ Cell(p, 1) = Cell(q, 1) /\ Cell(p, 2) < Cell(q, 2)
        \/ Cell(p, 1) = Cell(q, 1) /\ Cell(p, 2) = Cell(q, 2) /\ p < q

Cluster(roads, tol, place) ==
    SortSeq(SelectSeq([p \in Ports(roads) |-> p],
                      LAMBDA p : Apart(PlaceOf(roads, p), place) <= tol),
            LAMBDA p, q : CellOrder(roads, tol, p, q))

(* The way a piece leaves one of its ends.                                 *)
Departs(roads, port) ==
    LET coords == roads[PieceOf(port)].coords n == Len(coords)
    IN  IF IsStart(port) THEN Toward(coords[1], coords[2]) ELSE Toward(coords[n], coords[n - 1])

Heading(coords) == Toward(coords[Len(coords) - 1], Last(coords))

(* CONTINUATION_MIN_COS: turning by less than 60 degrees.                  *)
Continues(heading, out) ==
    Dot(heading, out) > 0
        /\ 4 * Dot(heading, out) * Dot(heading, out) > Dot(heading, heading) * Dot(out, out)

Straighter(heading, out, other) ==
    Dot(heading, out) * Dot(heading, out) * Dot(other, other)
        > Dot(heading, other) * Dot(heading, other) * Dot(out, out)

Nowhere == 0

(* At a junction the straightest of the candidates, of equals the first.   *)
Straightest(roads, heading, candidates) ==
    FoldLeft(LAMBDA best, p :
                IF Continues(heading, Departs(roads, p))
                   /\ (best = Nowhere
                        \/ Straighter(heading, Departs(roads, p), Departs(roads, best)))
                THEN p ELSE best,
             Nowhere, candidates)

(* Where the line goes on: to the one other piece that ends here, whatever *)
(* its angle, and at a junction to one that continues it.                  *)
NextPort(roads, line, here) ==
    LET open == SelectSeq(here, LAMBDA p : PieceOf(p) \notin line.used)
    IN  IF open = <<>> THEN Nowhere
        ELSE IF Len(here) <= 2 THEN open[1]
        ELSE Straightest(roads, Heading(line.coords), open)

SwapAll(lanes) == [i \in DOMAIN lanes |-> Swapped(lanes[i])]

(* The piece as it is travelled from one of its ends.                      *)
(* Fault: turned round, it keeps its lanes.                                *)
TurnedUnswapped(road, isStart) ==
    IF isStart THEN road
    ELSE [road EXCEPT !.coords = Reverse(@), !.lanes = Reverse(@),
                      !.start = road.end, !.end = road.start]

Turned(road, isStart) ==
    IF isStart THEN road
    ELSE [road EXCEPT !.coords = Reverse(@), !.lanes = SwapAll(Reverse(@)),
                      !.start = road.end, !.end = road.start]

(* The line with a piece at its tail, the place they share once.           *)
Grown(line, piece, road) ==
    LET skip == IF Last(line.coords) = road.coords[1] THEN 1 ELSE 0
    IN  [line EXCEPT !.used = @ \cup {piece}, !.end = road.end,
                     !.coords = @ \o SubSeq(road.coords, skip + 1, Len(road.coords)),
                     !.lanes = @ \o SubSeq(road.lanes, skip + 1, Len(road.lanes)),
                     !.layers[road.layer] = @ + Len(road.coords)]

RECURSIVE GrowTail(_, _, _)
GrowTail(roads, tol, line) ==
    LET Along(port) ==
            IF port = Nowhere THEN line
            ELSE GrowTail(roads, tol,
                          Grown(line, PieceOf(port), Turned(roads[PieceOf(port)], IsStart(port))))
    IN  Along(NextPort(roads, line, Cluster(roads, tol, Last(line.coords))))

(* The line the other way round.                                           *)
Flipped(line) ==
    [line EXCEPT !.coords = Reverse(@), !.lanes = SwapAll(Reverse(@)),
                 !.start = line.end, !.end = line.start]

BothWays(roads, tol, line) ==
    Flipped(GrowTail(roads, tol, Flipped(GrowTail(roads, tol, line))))

(* The layer most vertices lie on, the higher of two.                      *)
DrawLayer(layers) ==
    CHOOSE l \in DOMAIN layers : \A k \in DOMAIN layers :
        layers[k] < layers[l] \/ (layers[k] = layers[l] /\ k <= l)

Stroke(seed, line) ==
    [seed EXCEPT !.coords = line.coords, !.lanes = line.lanes, !.start = line.start,
                 !.end = line.end, !.layer = DrawLayer(line.layers)]

LineFrom(roads, used, seed) ==
    [coords |-> roads[seed].coords, lanes |-> roads[seed].lanes, start |-> roads[seed].start,
     end |-> roads[seed].end, used |-> used \cup {seed},
     layers |-> [l \in {r.layer : r \in ToSet(roads)} |->
                    IF l = roads[seed].layer THEN Len(roads[seed].coords) ELSE 0]]

(* weld_group: each piece not yet used seeds a line that grows both ways.  *)
RECURSIVE WeldGroup(_, _, _)
WeldGroup(roads, tol, used) ==
    LET seed == Min(DOMAIN roads \ used)
        Rest(line) == <<Stroke(roads[seed], line)>> \o WeldGroup(roads, tol, line.used)
    IN  IF used = DOMAIN roads THEN <<>>
        ELSE Rest(BothWays(roads, tol, LineFrom(roads, used, seed)))

(* weld_scene_roads: only pieces of one kind weld.                         *)
WeldSceneRoads(roads, tol) ==
    FlattenSeq([k \in DOMAIN RoadKind |->
        WeldGroup(SelectSeq(roads, LAMBDA r : r.kind = RoadKind[k]), tol, {})])

-----------------------------------------------------------------------------
(* blend_join_widths: an end is widened to the widest end of another road  *)
(* of its kind there, by its forward lanes.                                *)
Total(lanes) == Min({lanes.forward + lanes.backward, 255})

LanesAt(roads, port) ==
    IF IsStart(port) THEN roads[PieceOf(port)].lanes[1] ELSE Last(roads[PieceOf(port)].lanes)

Joint(roads, tol, port) ==
    {q \in Ports(roads) :
        /\ PieceOf(q) # PieceOf(port)
        /\ roads[PieceOf(q)].kind = roads[PieceOf(port)].kind
        /\ Apart(PlaceOf(roads, q), PlaceOf(roads, port)) <= tol}

Blended(roads, tol, port) ==
    LET own == LanesAt(roads, port)
        widest == Max({Total(own)} \cup {Total(LanesAt(roads, q)) : q \in Joint(roads, tol, port)})
    IN  IF widest > Total(own) THEN [own EXCEPT !.forward = Max({widest - own.backward, 0})] ELSE own

BlendJoinWidths(roads, tol) ==
    [i \in DOMAIN roads |->
        [roads[i] EXCEPT !.lanes[1] = Blended(roads, tol, 2 * i - 1),
                         !.lanes[Len(roads[i].lanes)] = Blended(roads, tol, 2 * i)]]

-----------------------------------------------------------------------------
(* from_visible: of the shapes the camera's zoom shows, those of exact     *)
(* tiles weld and those of fallbacks are scaled up.                        *)
Exact(v) == v.source = v.tile

TargetZoom(visible) ==
    LET exact == SelectSeq(visible, Exact)
    IN  IF visible = <<>> THEN 0 ELSE IF exact = <<>> THEN visible[1].tile.z ELSE exact[1].tile.z

ToScene(v, zoom, at) ==
    LET scale == IF zoom > v.source.z THEN 2^(zoom - v.source.z) ELSE 1
    IN  <<(v.source.x * v.data.extent + at[1]) * scale, (v.source.y * v.data.extent + at[2]) * scale>>

SceneRoads(v, zoom, display) ==
    LET shown == SelectSeq(v.data.roads, LAMBDA r : RoadDisplayMinZoom(r.kind) <= display)
    IN  [i \in DOMAIN shown |->
            [shown[i] EXCEPT !.lanes = [n \in DOMAIN shown[i].coords |-> shown[i].lanes],
                !.coords = [n \in DOMAIN shown[i].coords |-> ToScene(v, zoom, shown[i].coords[n])]]]

SceneAreas(v, zoom, display) ==
    LET shown == SelectSeq(v.data.areas, LAMBDA a : AreaDisplayMinZoom(a.kind) <= display)
        Placed(ring) == [n \in DOMAIN ring |-> ToScene(v, zoom, ring[n])]
    IN  [i \in DOMAIN shown |->
            [shown[i] EXCEPT !.rings = [n \in DOMAIN shown[i].rings |-> Placed(shown[i].rings[n])]]]

SceneLabels(v, zoom, display) ==
    LET shown == SelectSeq(v.data.labels, LAMBDA l : LabelDisplayMinZoom(l.class) <= display)
    IN  [i \in DOMAIN shown |-> [shown[i] EXCEPT !.anchor = ToScene(v, zoom, @)]]

ScenePois(v, zoom, display) ==
    LET shown == SelectSeq(v.data.pois, LAMBDA p : PoiDisplayMinZoom(p.kind) <= display)
    IN  [i \in DOMAIN shown |-> [shown[i] EXCEPT !.anchor = ToScene(v, zoom, @)]]

(* The order areas are drawn in: by layer, kind and floors.                *)
DrawnBefore(a, b) ==
    LET Kind(area) == AsU8(AreaKind, area.kind)
    IN  \/ a.layer < b.layer
        \/ a.layer = b.layer /\ Kind(a) < Kind(b)
        \/ a.layer = b.layer /\ Kind(a) = Kind(b) /\ a.floors < b.floors

InDrawOrder(areas) ==
    LET order == SortSeq([i \in DOMAIN areas |-> i], LAMBDA i, j :
                     DrawnBefore(areas[i], areas[j]) \/ (~DrawnBefore(areas[j], areas[i]) /\ i < j))
    IN  [n \in DOMAIN order |-> areas[order[n]]]

FromVisible(visible, display) ==
    LET zoom == TargetZoom(visible)
        tol  == Tolerance(IF visible = <<>> THEN 0 ELSE Last(visible).data.extent)
        Roads(tiles) == FlattenSeq([i \in DOMAIN tiles |-> SceneRoads(tiles[i], zoom, display)])
        From(ShapesOf(_, _, _)) ==
            FlattenSeq([i \in DOMAIN visible |-> ShapesOf(visible[i], zoom, display)])
        fallback == SelectSeq(visible, LAMBDA v : ~Exact(v))
    IN  [targetZoom |-> zoom,
         roads  |-> BlendJoinWidths(Roads(fallback)
                        \o WeldSceneRoads(Roads(SelectSeq(visible, Exact)), tol), tol),
         areas  |-> InDrawOrder(From(SceneAreas)),
         labels |-> From(SceneLabels),
         pois   |-> From(ScenePois)]
=============================================================================
