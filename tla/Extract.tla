------------------------------ MODULE Extract ------------------------------
(***************************************************************************)
(* The extraction half of build_tiles (extractor.rs, relation_features.rs, *)
(* borders.rs, route_roads.rs, node_cache.rs and the passes of main.rs):   *)
(* an OSM extract is read again and again, each pass over one section of   *)
(* it, and becomes shapes for the tiler.                                   *)
(*                                                                         *)
(* A pass hands the blocks of its section to the workers, who finish them  *)
(* in any order and merge what they found; main waits for all of them.     *)
(* What a block does to the shared state is one step, since it only adds   *)
(* to sets that no one reads before the join - but for the connectivity    *)
(* pass, which is RoadConnectivity's machine and keeps its finer steps.    *)
(***************************************************************************)
EXTENDS RoadConnectivity, Classifier, Multipolygon, Strokes, Bags

CONSTANTS
    OsmFile,            \* the .osm.pbf file, as OsmPbf describes it
    OldIndexes,         \* what the .idx file may hold when the builder starts
    ToX, ToY,           \* LatLon::to_mercator, axis by axis
    WaterShapes,        \* the shapefile's polygons: [outers, inners] in mercator
    MapNodes,           \* the map the file encodes: id -> [lon, lat, tags],
    MapWays,            \*   id -> [refs, tags],
    MapRelations,       \*   id -> [tags, members],
    MapPolygons         \*   and relation id -> the polygons it outlines

NoIndex == [ways |-> -1, relations |-> -1, end |-> -1, maxNodeId |-> -1, maxWayId |-> -1]

(* PackedCoord: degrees by 10^7, rounded; a slot never written reads as 0. *)
ZeroCoord == [lon |-> 0, lat |-> 0]
Packed(n) == [lon |-> (n.lon + 50) \div 100, lat |-> (n.lat + 50) \div 100]

Project(coord) == <<ToX[coord.lon], ToY[coord.lat]>>

VARIABLES
    pass,               \* the pass main is in
    todo,               \* the blocks of its section no worker has finished
    idxFile,            \* the .idx file beside the extract: an index, or NoIndex
    index,              \* OsmPbfIndex
    relationWays,       \* ways the filtered relations point to
    relationRelations,  \* relations they point to
    stored,             \* the node store: id -> coordinate
    memberWays,         \* way id -> refs, of the ways relations point to
    claimed,            \* <<feature, member ways>> of the claimed relations
    resolved,           \* way id -> refs and class, of their members
    sink                \* the shapes pushed so far, a bag

scan == <<relationWays, relationRelations>>
connectivity == <<seen, shared, way, ref, again>>
features == <<claimed, resolved>>
extractVars == <<connectivity, pass, todo, idxFile, index, scan, stored, memberWays, features, sink>>

Strings(b) == OsmFile.blobs[b].block.strings
WaysIn(b) == DecodeWays(OsmFile.blobs[b].block)
RelationsIn(b) == DecodeRelations(OsmFile.blobs[b].block)
NodesIn(b) == DecodeNodes(OsmFile.blobs[b].block)

WaySection(idx) == IterBlocks(OsmFile, idx.ways, idx.relations - idx.ways)
RelationSection(idx) == IterBlocks(OsmFile, idx.relations, idx.end - idx.relations)
NodeSection(idx) == IterBlocks(OsmFile, 0, idx.ways)

-----------------------------------------------------------------------------
(* The filters of main.rs.                                                 *)
(* Fault: the ways' filter lacks a railway.                                *)
WayTagFilterRail == {
    {<<"highway", {}>>},
    {<<"railway", {"rail", "light_rail"}>>},
    {<<"natural", {"water", "wood"}>>},
    {<<"landuse", {"forest", "grass", "meadow"}>>},
    {<<"leisure", {"park"}>>},
    {<<"building", {}>>}}

WayTagFilter == {
    {<<"highway", {}>>},
    {<<"railway", {"rail", "light_rail", "narrow_gauge"}>>},
    {<<"natural", {"water", "wood"}>>},
    {<<"landuse", {"forest", "grass", "meadow"}>>},
    {<<"leisure", {"park"}>>},
    {<<"building", {}>>}}

RelationTagFilter == {
    {<<"natural", {"water", "wood"}>>, <<"type", {"multipolygon"}>>},
    {<<"landuse", {"forest", "grass", "meadow"}>>, <<"type", {"multipolygon"}>>},
    {<<"leisure", {"park"}>>, <<"type", {"multipolygon"}>>},
    {<<"building", {}>>, <<"type", {"multipolygon"}>>},
    {<<"admin_level", {"2"}>>}}

WayPasses(b, w) == Matches(GetSidFilter(WayTagFilter, Strings(b)), w.tags)
RelationPasses(b, r) == Matches(GetSidFilter(RelationTagFilter, Strings(b)), r.tags)

WayShape(b, w) == ClassifyWay(w.tags, Strings(b))

MemberIds(r, type) == {m.id : m \in {n \in Range(r.members) : n.type = type}}

(* The ways of a block as the connectivity pass sees them.                 *)
ConnectivityWays(b) ==
    [i \in DOMAIN WaysIn(b) |->
        [road |-> /\ WayPasses(b, WaysIn(b)[i])
                  /\ WayShape(b, WaysIn(b)[i]).shape = "Road",
         refs |-> WaysIn(b)[i].refs]]

ASSUME ExtractAssumption ==
    /\ Indexable(OsmFile)
    /\ \A b \in DOMAIN OsmFile.blobs :
            OsmFile.blobs[b].type = "OSMData" => Strings(b) \in Seq(STRING)
    /\ Capacity = Index(OsmFile).maxNodeId + 1
    /\ Blocks = WaySection(Index(OsmFile))
    /\ Ways = [b \in Blocks |-> ConnectivityWays(b)]
    /\ OldIndexes \subseteq {NoIndex, Index(OsmFile)}

-----------------------------------------------------------------------------
(* The passes in main's order.                                             *)
PassAfter == [
    index |-> "scan", scan |-> "rescan", rescan |-> "bitset", bitset |-> "store",
    store |-> "connect", connect |-> "ways", ways |-> "members", members |-> "relations",
    relations |-> "places", places |-> "water", water |-> "claims", claims |-> "resolve",
    resolve |-> "routes"]

SectionOf(p, idx) ==
    CASE p = "index" -> DataBlobs(OsmFile, 0)
      [] p \in {"store", "places"} -> NodeSection(idx)
      [] p \in {"bitset", "ways", "members", "resolve"} -> WaySection(idx)
      [] p \in {"scan", "rescan", "relations", "claims"} -> RelationSection(idx)
      [] p = "water" -> DOMAIN WaterShapes
      [] OTHER -> {}

(* A worker is done with block b of pass p; all workers of a pass are.     *)
Finish(p, b) ==
    /\ pass = p
    /\ b \in todo
    /\ todo' = todo \ {b}
    /\ UNCHANGED <<pass, connectivity>>

GoOn(p, idx) ==
    /\ pass' = p
    /\ todo' = SectionOf(p, idx)

(* relation_features::run returns early when nothing was claimed.          *)
Join ==
    /\ pass \in DOMAIN PassAfter \ {"index"}
    /\ todo = {}
    /\ pass = "connect" => Done
    /\ GoOn(IF pass = "claims" /\ claimed = {} THEN "done" ELSE PassAfter[pass], index)
    /\ UNCHANGED <<connectivity, idxFile, index, scan, stored, memberWays, features, sink>>

-----------------------------------------------------------------------------
ExtractInit ==
    /\ Init
    /\ pass = "index"
    /\ todo = DataBlobs(OsmFile, 0)
    /\ idxFile \in OldIndexes
    /\ index = NoIndex
    /\ relationWays = {}
    /\ relationRelations = {}
    /\ stored = <<>>
    /\ memberWays = <<>>
    /\ claimed = {}
    /\ resolved = <<>>
    /\ sink = EmptyBag

(* OsmPbfIndex::open: the index of an earlier run is taken as it is.       *)
OpenIndex ==
    /\ pass = "index"
    /\ idxFile # NoIndex
    /\ index' = idxFile
    /\ GoOn("scan", idxFile)
    /\ UNCHANGED <<connectivity, idxFile, scan, stored, memberWays, features, sink>>

(* OsmPbfIndex::index, a block: the reduce keeps the smaller position and  *)
(* the larger id, whatever the order.                                      *)
Earlier(a, found) == IF found = {} THEN a ELSE IF a < 0 THEN Min(found) ELSE Min(found \cup {a})

IndexBlock(b) ==
    /\ idxFile = NoIndex
    /\ Finish("index", b)
    /\ LET part == BlockIndex(OsmFile, b)
       IN  index' = [ways |-> Earlier(index.ways, part.ways),
                     relations |-> Earlier(index.relations, part.relations),
                     end |-> OsmFile.length,
                     maxNodeId |-> Max({0, index.maxNodeId, part.maxNodeId}),
                     maxWayId |-> Max({0, index.maxWayId, part.maxWayId})]
    /\ UNCHANGED <<idxFile, scan, stored, memberWays, features, sink>>

WriteIndex ==
    /\ pass = "index"
    /\ todo = {}
    /\ idxFile' = index
    /\ GoOn("scan", index)
    /\ UNCHANGED <<connectivity, index, scan, stored, memberWays, features, sink>>

(* FilteredRelations::scan_block: what the filtered relations point to.    *)
ScanBlock(b) ==
    /\ Finish("scan", b)
    /\ LET kept == {r \in Range(RelationsIn(b)) : RelationPasses(b, r)}
       IN  /\ relationWays' = relationWays \cup UNION {MemberIds(r, "Way") : r \in kept}
           /\ relationRelations' =
                relationRelations \cup UNION {MemberIds(r, "Relation") : r \in kept}
    /\ UNCHANGED <<idxFile, index, stored, memberWays, features, sink>>

(* rescan_block: the ways of the relations of relations.                   *)
RescanBlock(b) ==
    /\ Finish("rescan", b)
    /\ relationWays' = relationWays \cup
            UNION {MemberIds(r, "Way") : r \in {q \in Range(RelationsIn(b)) : q.id \in relationRelations}}
    /\ UNCHANGED <<relationRelations, idxFile, index, stored, memberWays, features, sink>>

(* build_node_bitset: the nodes of the relations' ways and of the ways     *)
(* that will be classified.  Each gets a slot, zero until it is written.   *)
(* Fault: a relation's way counts only when it is classified as well.      *)
KeepsClassified(b, w) == WayPasses(b, w) /\ WayShape(b, w) # UnknownShape

KeepsNodes(b, w) ==
    \/ w.id \in relationWays
    \/ WayPasses(b, w) /\ WayShape(b, w) # UnknownShape

BitsetBlock(b) ==
    /\ Finish("bitset", b)
    /\ LET ids == UNION {Range(w.refs) : w \in {v \in Range(WaysIn(b)) : KeepsNodes(b, v)}}
       IN  stored' = [id \in ids \cup DOMAIN stored |-> ZeroCoord]
    /\ UNCHANGED <<idxFile, index, scan, memberWays, features, sink>>

(* build_node_store: set is a no-op for an id without a slot.              *)
StoreBlock(b) ==
    /\ Finish("store", b)
    /\ LET found == {n \in Range(NodesIn(b)) : n.id \in DOMAIN stored}
       IN  stored' = [id \in DOMAIN stored |->
                IF \E n \in found : n.id = id THEN Packed(CHOOSE n \in found : n.id = id)
                ELSE stored[id]]
    /\ UNCHANGED <<idxFile, index, scan, memberWays, features, sink>>

(* A step of detect_road_connectivity.                                     *)
Connect ==
    /\ pass = "connect"
    /\ \E b \in Blocks : TestAndSet(b) \/ SetShared(b) \/ NextWay(b)
    /\ UNCHANGED <<pass, todo, idxFile, index, scan, stored, memberWays, features, sink>>

-----------------------------------------------------------------------------
(* resolve_line, and the closures line and junctions_for of extract_ways:  *)
(* both leave out the nodes that are not in the store.                     *)
Known(refs) == SelectSeq(refs, LAMBDA id : id \in DOMAIN stored)

ResolveLine(refs) == [i \in DOMAIN Known(refs) |-> Project(stored[Known(refs)[i]])]

IsJunction(id) == HasBit(shared, id)

JunctionsFor(refs) == [i \in DOMAIN Known(refs) |-> IsJunction(Known(refs)[i])]

Edge(id) == IF IsJunction(id) THEN "Connected" ELSE "Disconnected"

IsRing(refs) == Len(refs) >= 4 /\ refs[1] = refs[Len(refs)]

RoadShape(kind, line, start, end, layer, lanes, name, structure, junctions) ==
    [shape |-> "Road", kind |-> kind, line |-> line, start |-> start, end |-> end,
     layer |-> layer, lanes |-> lanes, name |-> name, structure |-> structure,
     junctions |-> junctions]

AreaShape(kind, polygon, layer, floors) ==
    [shape |-> "Area", kind |-> kind, polygon |-> polygon, layer |-> layer, floors |-> floors]

LabelShape(anchor, class, name) ==
    [shape |-> "Label", anchor |-> anchor, class |-> class, name |-> name]

PoiShape(anchor, kind) == [shape |-> "Poi", anchor |-> anchor, kind |-> kind]

(* A bridge or tunnel without a layer gets one.                            *)
LayerWithin(layer, structure) ==
    IF layer # 0 THEN layer
    ELSE CASE structure = "Bridge" -> 1 [] structure = "Tunnel" -> -1 [] structure = "None" -> 0

(* area_label_class and emit_area_label: what a named area is labelled.    *)
AreaLabelClass(kind) ==
    CASE kind = "Water" -> "Water" [] kind \in {"Forest", "Grass"} -> "Park" [] OTHER -> NotAKind

AreaLabels(polygon, kind, name) ==
    IF name = EmptyText \/ AreaLabelClass(kind) = NotAKind \/ InteriorPoints(polygon) = {} THEN <<>>
    ELSE <<LabelShape(InteriorPoint(polygon), AreaLabelClass(kind), name)>>

(* extract_ways, one way.                                                  *)
RoadOf(w, kind, strings) ==
    LET structure == StructureOf(w.tags, strings)
    IN  RoadShape(kind, ResolveLine(w.refs), Edge(w.refs[1]), Edge(w.refs[Len(w.refs)]),
                  LayerWithin(LayerOf(w.tags, strings), structure), LanesOf(w.tags, strings),
                  NameOf(w.tags, strings), structure, JunctionsFor(w.refs))

AreaOf(w, kind, strings) ==
    LET polygon == PolygonOf(ResolveLine(w.refs), <<>>)
    IN  AreaLabels(polygon, kind, NameOf(w.tags, strings))
            \o <<AreaShape(kind, polygon, LayerOf(w.tags, strings), FloorsOf(w.tags, strings))>>

WayShapes(b, w) ==
    LET class == WayShape(b, w)
    IN  CASE WayPasses(b, w) /\ class.shape = "Road" /\ Len(w.refs) >= 2 ->
                <<RoadOf(w, class.kind, Strings(b))>>
          [] WayPasses(b, w) /\ class.shape = "Area" /\ IsRing(w.refs) ->
                AreaOf(w, class.kind, Strings(b))
          [] OTHER -> <<>>

(* ShapeSink::push, of all the shapes of a block.                          *)
Push(shapes) == sink' = FoldFunction(LAMBDA shape, bag : bag (+) SetToBag({shape}), sink, shapes)

WaysBlock(b) ==
    /\ Finish("ways", b)
    /\ Push(FlattenSeq([i \in DOMAIN WaysIn(b) |-> WayShapes(b, WaysIn(b)[i])]))
    /\ UNCHANGED <<idxFile, index, scan, stored, memberWays, features>>

(* collect_relation_member_ways.                                           *)
MembersBlock(b) ==
    /\ Finish("members", b)
    /\ LET found == {w \in Range(WaysIn(b)) : w.id \in relationWays}
       IN  memberWays' = [id \in {w.id : w \in found} \cup DOMAIN memberWays |->
                IF \E w \in found : w.id = id THEN (CHOOSE w \in found : w.id = id).refs
                ELSE memberWays[id]]
    /\ UNCHANGED <<idxFile, index, scan, stored, features, sink>>

(* extract_relations, one relation: its member ways by role, stitched into *)
(* rings; one label, at the largest of its polygons.                       *)
Fragments(r, isInner, innerSid) ==
    LET of == SelectSeq(r.members, LAMBDA m :
                /\ m.type = "Way"
                /\ m.id \in DOMAIN memberWays
                /\ (innerSid # NoSid /\ m.role = innerSid) = isInner)
    IN  [i \in DOMAIN of |-> memberWays[of[i].id]]

Lines(rings) == [i \in DOMAIN rings |-> ResolveLine(rings[i])]

EmitMultipolygon(polygons, r, kind, strings) ==
    LET name == NameOf(r.tags, strings)
    IN  AreaLabels(polygons[LargestPolygon(polygons)], kind, name)
            \o [i \in DOMAIN polygons |->
                    AreaShape(kind, polygons[i], LayerOf(r.tags, strings), FloorsOf(r.tags, strings))]

RelationShapes(b, r) ==
    LET class  == ClassifyRelation(r.tags, Strings(b))
        inner  == Sid(Strings(b), "inner")
        outers == AssembleRings(Fragments(r, FALSE, inner))
        inners == AssembleRings(Fragments(r, TRUE, inner))
    IN  IF RelationPasses(b, r) /\ class.shape = "Area" /\ outers # <<>>
        THEN EmitMultipolygon(Polygons(Lines(outers), Lines(inners)), r, class.kind, Strings(b))
        ELSE <<>>

RelationsBlock(b) ==
    /\ Finish("relations", b)
    /\ Push(FlattenSeq(
            [i \in DOMAIN RelationsIn(b) |-> RelationShapes(b, RelationsIn(b)[i])]))
    /\ UNCHANGED <<idxFile, index, scan, stored, memberWays, features>>

(* extract_place_labels, one node: a named place, a point of interest.     *)
NodeShapes(n, strings) ==
    LET class  == ClassifyPlace(n.tags, strings)
        name   == NameOf(n.tags, strings)
        kind   == ClassifyPoi(n.tags, strings)
        anchor == Project(Packed(n))
    IN  (IF class # NotAKind /\ name # EmptyText THEN <<LabelShape(anchor, class, name)>> ELSE <<>>)
            \o (IF kind # NotAKind THEN <<PoiShape(anchor, kind)>> ELSE <<>>)

PlacesBlock(b) ==
    /\ Finish("places", b)
    /\ Push(FlattenSeq([i \in DOMAIN NodesIn(b) |-> NodeShapes(NodesIn(b)[i], Strings(b))]))
    /\ UNCHANGED <<idxFile, index, scan, stored, memberWays, features>>

(* read_water_polygons, and what main pushes of them; polygons that do not *)
(* touch, which a union leaves as they are.                                *)
WaterPolygons(shape) == Polygons(shape.outers, shape.inners)

PushWater(i) ==
    /\ Finish("water", i)
    /\ Push([k \in DOMAIN WaterPolygons(WaterShapes[i]) |->
                AreaShape("Water", WaterPolygons(WaterShapes[i])[k], -1, 0)])
    /\ UNCHANGED <<idxFile, index, scan, stored, memberWays, features>>

-----------------------------------------------------------------------------
(* RouteRoads::claims and Borders::claims.                                 *)
HasTag(tags, strings, key, value) ==
    \E i \in DOMAIN tags :
        /\ KeyOf(tags[i], strings) = key
        /\ ValueOf(tags[i], strings) = value

ClaimsRoute(tags, strings) == HasTag(tags, strings, "route", "road")

ClaimsBorder(tags, strings) ==
    /\ HasTag(tags, strings, "boundary", "administrative")
    /\ HasTag(tags, strings, "admin_level", "2")

(* scan_relations: who claims the relations that have ways.                *)
ClaimsBlock(b) ==
    /\ Finish("claims", b)
    /\ LET withWays == {r \in Range(RelationsIn(b)) : MemberIds(r, "Way") # {}}
       IN  claimed' = claimed
            \cup {<<"routes", MemberIds(r, "Way")>> :
                    r \in {q \in withWays : ClaimsRoute(q.tags, Strings(b))}}
            \cup {<<"borders", MemberIds(r, "Way")>> :
                    r \in {q \in withWays : ClaimsBorder(q.tags, Strings(b))}}
    /\ UNCHANGED <<idxFile, index, scan, stored, memberWays, resolved, sink>>

(* resolve_ways: refs and class of every member way.                       *)
ResolveBlock(b) ==
    /\ Finish("resolve", b)
    /\ LET needed == UNION {c[2] : c \in claimed}
           found  == {w \in Range(WaysIn(b)) : w.id \in needed}
           New(id) == CHOOSE w \in found : w.id = id
       IN  resolved' = [id \in {w.id : w \in found} \cup DOMAIN resolved |->
                IF \E w \in found : w.id = id
                THEN [refs |-> New(id).refs, class |-> WayShape(b, New(id))]
                ELSE resolved[id]]
    /\ UNCHANGED <<idxFile, index, scan, stored, memberWays, claimed, sink>>

(* polylines: of the members, a set without an order, the lines of two     *)
(* points or more.                                                         *)
Orders(S) == {f \in [1..Cardinality(S) -> S] : Range(f) = S}

Polylines(ids) ==
    SelectSeq([i \in DOMAIN ids |-> ResolveLine(resolved[ids[i]].refs)],
              LAMBDA line : Len(line) >= 2)

StrokeShape(kind, line) ==
    RoadShape(kind, line, "Disconnected", "Disconnected", 0, Lanes(0, 0), EmptyText, "None", <<>>)

Build(members, kind) ==
    \E ids \in Orders(members \cap DOMAIN resolved) :
        LET strokes == MergePolylines(Polylines(ids))
        IN  Push([i \in DOMAIN strokes |-> StrokeShape(kind, strokes[i])])

Groups(feature) == {c[2] : c \in {d \in claimed : d[1] = feature}}

(* RouteRoads::build: all the ways of a route one of whose is a motorway.  *)
TouchesMotorway(group) ==
    \E w \in group \cap DOMAIN resolved :
        resolved[w].class \in {ShapeOf("Road", "Motorway"), ShapeOf("Road", "MotorwayLink")}

BuildRoutes ==
    /\ pass = "routes"
    /\ Build(UNION {g \in Groups("routes") : TouchesMotorway(g)}, "MajorRoad")
    /\ pass' = "borders"
    /\ UNCHANGED <<connectivity, todo, idxFile, index, scan, stored, memberWays, features>>

(* Borders::build: every member once, whichever countries share it.        *)
BuildBorders ==
    /\ pass = "borders"
    /\ Build(UNION Groups("borders"), "Border")
    /\ pass' = "done"
    /\ UNCHANGED <<connectivity, todo, idxFile, index, scan, stored, memberWays, features>>

Extracted == pass = "done" /\ UNCHANGED extractVars

ExtractNext ==
    \/ OpenIndex
    \/ WriteIndex
    \/ Join
    \/ Connect
    \/ \E b \in todo :
        \/ IndexBlock(b)
        \/ ScanBlock(b)
        \/ RescanBlock(b)
        \/ BitsetBlock(b)
        \/ StoreBlock(b)
        \/ WaysBlock(b)
        \/ MembersBlock(b)
        \/ RelationsBlock(b)
        \/ PlacesBlock(b)
        \/ PushWater(b)
        \/ ClaimsBlock(b)
        \/ ResolveBlock(b)
    \/ BuildRoutes
    \/ BuildBorders
    \/ Extracted

ExtractSpec == ExtractInit /\ [][ExtractNext]_extractVars

(* The workers of the connectivity pass go on while it has work, and so do *)
(* main and the workers in every other pass, which always has a step left  *)
(* to take: steps go on being taken unless that pass or the end is reached.*)
ExtractFairSpec ==
    /\ ExtractSpec
    /\ WF_extractVars(Connect)
    /\ <>[](pass \in {"connect", "done"}) \/ []<><<TRUE>>_extractVars

-----------------------------------------------------------------------------
InSomeOrder(S) == FoldSet(LAMBDA x, seq : Append(seq, x), <<>>, S)

(* The shapes the map calls for, from its elements alone: their tags read  *)
(* with a table of all its words.                                          *)
WordsOf(tags) == UNION {{t[1], t[2]} : t \in Range(tags)}

AllStrings ==
    <<EmptyText>> \o InSomeOrder(
        UNION {WordsOf(m.tags) : m \in Range(MapNodes) \cup Range(MapWays) \cup Range(MapRelations)}
            \ {EmptyText})

TagsOf(element) ==
    [i \in DOMAIN element.tags |->
        Tag(Sid(AllStrings, element.tags[i][1]), Sid(AllStrings, element.tags[i][2]))]

MapShape(w) == ClassifyWay(TagsOf(MapWays[w]), AllStrings)

MapRoads == {w \in DOMAIN MapWays : MapShape(w).shape = "Road"}
MapAreas == {w \in DOMAIN MapWays : MapShape(w).shape = "Area" /\ IsRing(MapWays[w].refs)}

PlaceOf(id) == <<ToX[MapNodes[id].lon], ToY[MapNodes[id].lat]>>
PlacesOf(refs) == [i \in DOMAIN refs |-> PlaceOf(refs[i])]

MapReferences(id) ==
    SumFunctionOnSet(
        [w \in MapRoads |-> Cardinality({i \in DOMAIN MapWays[w].refs : MapWays[w].refs[i] = id})],
        MapRoads)

MapEdge(id) == IF MapReferences(id) >= 2 THEN "Connected" ELSE "Disconnected"

RoadOfMap(w) ==
    LET refs == MapWays[w].refs
        tags == TagsOf(MapWays[w])
        structure == StructureOf(tags, AllStrings)
    IN  <<RoadShape(MapShape(w).kind, PlacesOf(refs), MapEdge(refs[1]), MapEdge(refs[Len(refs)]),
                    LayerWithin(LayerOf(tags, AllStrings), structure), LanesOf(tags, AllStrings),
                    NameOf(tags, AllStrings), structure,
                    [i \in DOMAIN refs |-> MapReferences(refs[i]) >= 2])>>

AreasOfMap(polygons, tags, kind) ==
    (IF polygons = <<>> THEN <<>>
     ELSE AreaLabels(polygons[LargestPolygon(polygons)], kind, NameOf(tags, AllStrings)))
        \o [i \in DOMAIN polygons |->
                AreaShape(kind, polygons[i], LayerOf(tags, AllStrings), FloorsOf(tags, AllStrings))]

RelationOfMap(r) ==
    AreasOfMap([i \in DOMAIN MapPolygons[r] |->
                    [outer |-> PlacesOf(MapPolygons[r][i].outer),
                     inners |-> [k \in DOMAIN MapPolygons[r][i].inners |->
                                    PlacesOf(MapPolygons[r][i].inners[k])]]],
               TagsOf(MapRelations[r]),
               ClassifyRelation(TagsOf(MapRelations[r]), AllStrings).kind)

NodeOfMap(id) ==
    LET tags == TagsOf(MapNodes[id])
        class == ClassifyPlace(tags, AllStrings)
    IN  (IF class = NotAKind \/ NameOf(tags, AllStrings) = EmptyText THEN <<>>
         ELSE <<LabelShape(PlaceOf(id), class, NameOf(tags, AllStrings))>>)
            \o (IF ClassifyPoi(tags, AllStrings) = NotAKind THEN <<>>
                ELSE <<PoiShape(PlaceOf(id), "TrafficSignal")>>)

(* One shape for each element and place in its list.                       *)
CountedShapes(S, Shapes(_)) ==
    LET from == UNION {{<<x, i>> : i \in DOMAIN Shapes(x)} : x \in S}
    IN  [shape \in {Shapes(f[1])[f[2]] : f \in from} |->
            Cardinality({f \in from : Shapes(f[1])[f[2]] = shape})]

MapBag ==
    CountedShapes(MapRoads, RoadOfMap)
    (+) CountedShapes(MapAreas, LAMBDA w :
            AreasOfMap(<<[outer |-> PlacesOf(MapWays[w].refs), inners |-> <<>>]>>,
                       TagsOf(MapWays[w]), MapShape(w).kind))
    (+) CountedShapes(DOMAIN MapPolygons, RelationOfMap)
    (+) CountedShapes(DOMAIN MapNodes, NodeOfMap)

(* Read in whatever order the workers take its blocks, the file gives the  *)
(* tiler exactly the shapes of its map, each once: no pass starts at the   *)
(* wrong byte or stops a block early, no node a shape needs is missing     *)
(* from the store, every junction is flagged at its own vertex, every hole *)
(* is in the ring it belongs to.                                           *)
MapIsExtracted == pass = "places" /\ todo = {} => sink = MapBag

(* What will be drawn has its nodes in the store, whichever of the earlier *)
(* passes it owes them to: the ways that are classified, the members of    *)
(* the filtered relations and of those they contain, and the borders,      *)
(* which are claimed by tests of their own; and a node of the extract that *)
(* has a slot has its place there before anything is drawn.                *)
NodesAreStored ==
    /\ pass \notin {"index", "scan", "rescan", "bitset"} =>
            \A b \in WaySection(index) : \A w \in Range(WaysIn(b)) :
                WayPasses(b, w) /\ WayShape(b, w) # UnknownShape => Range(w.refs) \subseteq DOMAIN stored
    /\ \A id \in DOMAIN memberWays : Range(memberWays[id]) \subseteq DOMAIN stored
    /\ \A group \in Groups("borders") : \A id \in group \cap DOMAIN resolved :
            Range(resolved[id].refs) \subseteq DOMAIN stored
    /\ pass \notin {"index", "scan", "rescan", "bitset", "store"} =>
            \A b \in NodeSection(index) : \A n \in Range(NodesIn(b)) : n.id \in DOMAIN stored =>
                \E c \in NodeSection(index) : \E m \in Range(NodesIn(c)) :
                    m.id = n.id /\ stored[n.id] = Packed(m)

(* The coarse filters of main.rs let through whatever the classifiers and  *)
(* the borders make something of, in a block whose table holds those words *)
(* alone: node store, ways and relations passes agree on what is kept.     *)
Vocabulary ==
    UNION {{kv[1]} \cup kv[2] : kv \in UNION (WayTagFilter \cup RelationTagFilter)}
        \cup DOMAIN HighwayKind \cup DOMAIN RailwayKind \cup {"boundary", "administrative"}

FilterCoversClassifier ==
    pass = "scan" => \A key, value \in Vocabulary :
        LET strings == <<EmptyText, key, value>>
            tags    == <<Tag(Sid(strings, key), Sid(strings, value))>>
        IN  /\ ClassifyWay(tags, strings) # UnknownShape
                => Matches(GetSidFilter(WayTagFilter, strings), tags)
            /\ ClassifyRelation(tags, strings) # UnknownShape
                => Matches(GetSidFilter(RelationTagFilter, strings), tags)
            /\ LET both == <<EmptyText, "boundary", "administrative", key, value>>
                   boundary == <<Tag(1, 2), Tag(Sid(both, key), Sid(both, value))>>
               IN  ClaimsBorder(boundary, both)
                    => Matches(GetSidFilter(RelationTagFilter, both), boundary)

(* How often a line passes over a stretch, and how often several lines do. *)
Stretches(line) == {{line[i], line[i + 1]} : i \in 1..(Len(line) - 1)}

Passes(line, stretch) == Cardinality({i \in 1..(Len(line) - 1) : {line[i], line[i + 1]} = stretch})

PassesOf(lines, stretch) ==
    SumFunctionOnSet([i \in DOMAIN lines |-> Passes(lines[i], stretch)], DOMAIN lines)

SameStretches(lines, others) ==
    \A stretch \in UNION {Stretches(line) : line \in Range(lines) \cup Range(others)} :
        PassesOf(lines, stretch) = PassesOf(others, stretch)

(* The lines of a kind the sink was given, one for each copy.              *)
StrokesOf(kind) ==
    LET shapes == {s \in DOMAIN sink : s.shape = "Road" /\ s.kind = kind}
        copies == InSomeOrder(UNION {{<<s, k>> : k \in 1..sink[s]} : s \in shapes})
    IN  [i \in DOMAIN copies |-> copies[i][1].line]

WaysOfRelations(P(_)) ==
    UNION {{m[2] : m \in {n \in Range(r.members) : n[1] = "Way"}} :
           r \in {q \in Range(MapRelations) : P(q)}}

IsBoundary(r) == <<"admin_level", "2">> \in Range(r.tags)
IsRoute(r) ==
    /\ <<"route", "road">> \in Range(r.tags)
    /\ \E m \in Range(r.members) : MapShape(m[2]) = ShapeOf("Road", "Motorway")

(* In whatever order the members come out of their hash set, the border    *)
(* strokes go once over each stretch of border, though two countries share *)
(* it; and every way of a route with a motorway lies along a major road.   *)
StrokesAreWhole ==
    pass = "done" =>
        /\ LET ways == InSomeOrder(WaysOfRelations(IsBoundary))
           IN  SameStretches(StrokesOf("Border"),
                             [i \in DOMAIN ways |-> PlacesOf(MapWays[ways[i]].refs)])
        /\ \A w \in WaysOfRelations(IsRoute) : \E i \in DOMAIN StrokesOf("MajorRoad") :
              Hugs(PlacesOf(MapWays[w].refs), StrokesOf("MajorRoad")[i])

(* Fragments that close up, each node the end of an even number of them    *)
(* and no two of them the same single edge: every one is in a ring, once.  *)
FragmentLists ==
    LET edges == ((0..3) \X (0..3) \ {<<node, node>> : node \in 0..3})
                    \cup {<<0, 5, 1>>, <<2, 6, 0>>, <<1, 7, 1>>}
    IN  UNION {[1..n -> edges] : n \in 3..4}

ClosesUp(fragments) ==
    /\ \A i, j \in Loose(fragments) :
            i # j /\ Len(fragments[i]) = 2 /\ Len(fragments[j]) = 2
                => Ends(fragments[i]) # Ends(fragments[j])
    /\ \A node \in UNION {Ends(fragments[i]) : i \in Loose(fragments)} :
            Cardinality({i \in Loose(fragments) : node \in Ends(fragments[i])}) % 2 = 0

RingsUseEveryFragment ==
    pass = "relations" => \A fragments \in {f \in FragmentLists : ClosesUp(f)} :
        LET rings == AssembleRings(fragments)
        IN  /\ SameStretches(rings, fragments)
            /\ \A i \in DOMAIN rings : ClosedRing(rings[i])

-----------------------------------------------------------------------------
ShapeLines(shape) ==
    CASE shape.shape = "Road" -> {shape.line}
      [] shape.shape = "Area" -> {shape.polygon.outer} \cup Range(shape.polygon.inners)
      [] OTHER -> {}

(* "Nodes missing from the cache (e.g. referenced across an extract's      *)
(* boundary) are skipped" (extractor.rs): each vertex of a shape is at the *)
(* place of a node of the extract.                                         *)
MissingNodesAreSkipped ==
    pass = "places" => \A shape \in DOMAIN sink : \A line \in ShapeLines(shape) :
        Range(line) \subseteq {PlaceOf(id) : id \in DOMAIN MapNodes}

(* The nodes of a dense block are read though it has no tags at all, for   *)
(* which its keys_vals "may be empty" (osmpbf.rs).                         *)
TaglessNodesAreRead ==
    pass = "ways" => \A id \in DOMAIN stored \cap DOMAIN MapNodes :
        stored[id] = [lon |-> MapNodes[id].lon, lat |-> MapNodes[id].lat]
=============================================================================
