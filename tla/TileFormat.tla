----------------------------- MODULE TileFormat -----------------------------
(***************************************************************************)
(* The two forms a tile's shapes are stored in: the spill record of one    *)
(* shape in one tile (build_tiles/src/tiler/record.rs), and the tile of    *)
(* the archive, built from its records (tiler/format.rs) and decoded by    *)
(* the client (tiles/src/decode.rs, util/src/tileformat.rs).               *)
(*                                                                         *)
(* A record is a sequence of fields, a tile its sections; a number stands  *)
(* for its bytes and a string for its own.  Points are tile-local.         *)
(***************************************************************************)
EXTENDS Integers, Sequences, FeatureKinds

LOCAL INSTANCE SequencesExt
LOCAL INSTANCE FiniteSetsExt

NoName == ""

ByteOf(layer) == layer % 256
LayerOf(byte) == IF byte >= 128 THEN byte - 256 ELSE byte

U16(n) == n % 65536

-----------------------------------------------------------------------------
(* The caps byte: where the road starts and ends, and what it runs on.     *)
Caps(road) ==
    AsU8(EdgeNode, road.start) + 4 * AsU8(EdgeNode, road.end)
        + 16 * AsU8(RoadStructure, road.structure)

StartOf(caps) == EdgeFromU8(caps % 4)
EndOf(caps) == EdgeFromU8((caps \div 4) % 4)
StructureOf(caps) == StructureFromU8((caps \div 16) % 4)

(* Flags packed into bytes, the first of eight the lowest bit.             *)
PackBits(bits) ==
    [b \in 1..((Len(bits) + 7) \div 8) |->
        FoldLeft(LAMBDA byte, i : IF 8 * (b - 1) + i <= Len(bits) /\ bits[8 * (b - 1) + i]
                                  THEN byte + 2^(i - 1) ELSE byte,
                 0, [i \in 1..8 |-> i])]

UnpackBits(bytes, n) ==
    [i \in 1..n |-> (bytes[((i - 1) \div 8) + 1] \div 2^((i - 1) % 8)) % 2 = 1]

AnyBit(bits) == \E i \in DOMAIN bits : bits[i]

-----------------------------------------------------------------------------
(* record.rs: the flags beside the kind tell the four shapes apart.        *)
AreaFlag == 128
LabelFlag == 64
KindMask == 64

WriteCoords(coords) == <<Len(coords)>> \o coords
WriteBitmask(bits) == IF AnyBit(bits) THEN <<1>> \o PackBits(bits) ELSE <<0>>

EncodeRings(rings) == FlattenSeq([i \in DOMAIN rings |-> WriteCoords(rings[i])])

EncodeRoad(r) ==
    <<r.key, AsU8(RoadKind, r.kind), ByteOf(r.layer), Caps(r), r.lanes.forward, r.lanes.backward>>
        \o WriteCoords(r.coords) \o <<r.name>>

EncodeArea(r) ==
    <<r.key, AreaFlag + AsU8(AreaKind, r.kind), ByteOf(r.layer), r.floors, Len(r.rings)>>
        \o EncodeRings(r.rings) \o WriteBitmask(r.clip)

EncodeLabel(r) == <<r.key, LabelFlag + AsU8(LabelClass, r.kind), 0, r.anchor, r.name>>

EncodePoi(r) == <<r.key, AreaFlag + LabelFlag + AsU8(PoiKind, r.kind), 0, r.anchor>>

Encode(r) ==
    CASE r.geometry = "Road" -> EncodeRoad(r)
      [] r.geometry = "Area" -> EncodeArea(r)
      [] r.geometry = "Label" -> EncodeLabel(r)
      [] r.geometry = "Poi" -> EncodePoi(r)

(* The rings from a place of the fields on, and the flags after them.      *)
CoordsAt(fields, at) == SubSeq(fields, at + 1, at + fields[at])

ReadRings(fields, at, count) ==
    FoldLeft(LAMBDA read, i :
                [rings |-> Append(read.rings, CoordsAt(fields, read.at)),
                 at |-> read.at + 1 + fields[read.at]],
             [rings |-> <<>>, at |-> at], [i \in 1..count |-> i])

ReadBitmask(fields, at, n) ==
    IF fields[at] = 0 THEN <<>> ELSE UnpackBits(SubSeq(fields, at + 1, Len(fields)), n)

VerticesOf(rings) == FoldLeft(LAMBDA n, ring : n + Len(ring), 0, rings)

DecodeRoad(fields) ==
    [geometry |-> "Road", kind |-> RoadFromU8(fields[2]), layer |-> LayerOf(fields[3]),
     start |-> StartOf(fields[4]), end |-> EndOf(fields[4]), structure |-> StructureOf(fields[4]),
     lanes |-> Lanes(fields[5], fields[6]), coords |-> CoordsAt(fields, 7), name |-> Last(fields)]

DecodeArea(fields, read) ==
    [geometry |-> "Area", kind |-> AreaFromU8(fields[2] % KindMask), layer |-> LayerOf(fields[3]),
     floors |-> fields[4], rings |-> read.rings,
     clip |-> ReadBitmask(fields, read.at, VerticesOf(read.rings))]

Decode(fields) ==
    LET tag == fields[2]
    IN  IF tag >= AreaFlag + LabelFlag
        THEN [geometry |-> "Poi", kind |-> PoiFromU8(tag % KindMask), anchor |-> fields[4]]
        ELSE IF tag >= AreaFlag THEN DecodeArea(fields, ReadRings(fields, 6, fields[5]))
        ELSE IF tag >= LabelFlag
        THEN [geometry |-> "Label", kind |-> LabelFromU8(tag % KindMask), anchor |-> fields[4],
              name |-> fields[5]]
        ELSE DecodeRoad(fields)

-----------------------------------------------------------------------------
(* zigzag and its inverse: a delta as an unsigned 16-bit number.           *)
Zigzag(d) == U16(IF d >= 0 THEN 2 * d ELSE -2 * d - 1)
Dezigzag(z) == IF z % 2 = 0 THEN z \div 2 ELSE -((z + 1) \div 2)

(* push_deltas: each vertex from the one before it, the first from (0, 0). *)
PushDeltas(coords) ==
    [i \in DOMAIN coords |->
        [axis \in 1..2 |-> Zigzag(coords[i][axis] - IF i = 1 THEN 0 ELSE coords[i - 1][axis])]]

(* read_chain                                                              *)
ReadChain(deltas) ==
    LET Sum(axis) == FoldLeft(LAMBDA sums, d : Append(sums, Dezigzag(d[axis])
                                  + IF sums = <<>> THEN 0 ELSE Last(sums)), <<>>, deltas)
    IN  [i \in DOMAIN deltas |-> <<Sum(1)[i], Sum(2)[i]>>]

(* The records of one shape, in their order, and their names in the order  *)
(* they are first met (intern).                                            *)
Of(records, geometry) == SelectSeq(records, LAMBDA r : r.geometry = geometry)

HasName(r) == r.geometry = "Label" \/ (r.geometry = "Road" /\ r.name # NoName)

Interned(records) ==
    FoldLeft(LAMBDA list, r : IF HasName(r) /\ r.name \notin ToSet(list)
                              THEN Append(list, r.name) ELSE list, <<>>, records)

NameNone == 65535

NameIndex(strings, r) ==
    IF HasName(r) THEN (CHOOSE i \in DOMAIN strings : strings[i] = r.name) - 1 ELSE NameNone

RoadMeta(strings, r) ==
    [kind |-> AsU8(RoadKind, r.kind), caps |-> Caps(r), layer |-> r.layer,
     forward |-> r.lanes.forward, backward |-> r.lanes.backward,
     vertices |-> U16(Len(r.coords)), name |-> NameIndex(strings, r)]

(* An area's rings follow those of the areas before it.                    *)
RingsBefore(areas, i) == FoldLeft(LAMBDA n, a : n + Len(a.rings), 0, SubSeq(areas, 1, i - 1))

AreaMeta(areas, i) ==
    [kind |-> AsU8(AreaKind, areas[i].kind), layer |-> areas[i].layer, floors |-> areas[i].floors,
     first |-> U16(RingsBefore(areas, i)), count |-> U16(Len(areas[i].rings))]

LabelMeta(strings, r) ==
    [class |-> AsU8(LabelClass, r.kind), rank |-> LabelRank(r.kind), anchor |-> r.anchor,
     name |-> NameIndex(strings, r)]

PoiMeta(r) == [kind |-> AsU8(PoiKind, r.kind), anchor |-> r.anchor]

(* A flag for every ring vertex, an area with no mask counting as none.    *)
ClipFlags(areas) ==
    FlattenSeq([i \in DOMAIN areas |->
        IF areas[i].clip = <<>> THEN [v \in 1..VerticesOf(areas[i].rings) |-> FALSE]
        ELSE areas[i].clip])

RingsIn(areas) == FlattenSeq([i \in DOMAIN areas |-> areas[i].rings])

(* build_tile                                                              *)
BuildTile(records, extent) ==
    LET roads == Of(records, "Road")
        areas == Of(records, "Area")
        labels == Of(records, "Label")
        pois == Of(records, "Poi")
        strings == Interned(records)
        rings == RingsIn(areas)
    IN  [extent  |-> extent,
         roads   |-> [i \in DOMAIN roads |-> RoadMeta(strings, roads[i])],
         areas   |-> [i \in DOMAIN areas |-> AreaMeta(areas, i)],
         rings   |-> [i \in DOMAIN rings |-> U16(Len(rings[i]))],
         labels  |-> [i \in DOMAIN labels |-> LabelMeta(strings, labels[i])],
         pois    |-> [i \in DOMAIN pois |-> PoiMeta(pois[i])],
         roadCoords |-> FlattenSeq([i \in DOMAIN roads |-> PushDeltas(roads[i].coords)]),
         ringCoords |-> FlattenSeq([i \in DOMAIN rings |-> PushDeltas(rings[i])]),
         strings |-> strings,
         clip    |-> IF AnyBit(ClipFlags(areas)) THEN PackBits(ClipFlags(areas)) ELSE <<>>]

-----------------------------------------------------------------------------
(* decode_uncompressed: chain i of a pool is as long as count i says, and  *)
(* starts where those before it end.                                       *)
VerticesBefore(counts, i) == FoldLeft(LAMBDA n, c : n + c, 0, SubSeq(counts, 1, i - 1))

Chains(pool, counts) ==
    [i \in DOMAIN counts |->
        ReadChain(SubSeq(pool, VerticesBefore(counts, i) + 1, VerticesBefore(counts, i) + counts[i]))]

NameOf(strings, index) == IF index + 1 \in DOMAIN strings THEN strings[index + 1] ELSE NoName

DecRoad(strings, meta, coords) ==
    [kind |-> RoadFromU8(meta.kind), layer |-> meta.layer,
     lanes |-> Lanes(meta.forward, meta.backward), start |-> StartOf(meta.caps),
     end |-> EndOf(meta.caps), structure |-> StructureOf(meta.caps),
     name |-> NameOf(strings, meta.name), coords |-> coords]

DecArea(blob, rings, meta) ==
    LET last == meta.first + meta.count
        bits == UnpackBits(blob.clip, VerticesBefore(blob.rings, Len(blob.rings) + 1))
    IN  [kind |-> AreaFromU8(meta.kind), layer |-> meta.layer, floors |-> meta.floors,
         rings |-> SubSeq(rings, meta.first + 1, last),
         clip |-> IF blob.clip = <<>> THEN <<>>
                  ELSE SubSeq(bits, VerticesBefore(blob.rings, meta.first + 1) + 1,
                              VerticesBefore(blob.rings, last + 1))]

DecLabel(strings, meta) ==
    [class |-> LabelFromU8(meta.class), rank |-> meta.rank, anchor |-> meta.anchor,
     name |-> NameOf(strings, meta.name)]

DecPoi(meta) == [kind |-> PoiFromU8(meta.kind), anchor |-> meta.anchor]

DecodeTile(blob) ==
    LET roads == Chains(blob.roadCoords, [i \in DOMAIN blob.roads |-> blob.roads[i].vertices])
        rings == Chains(blob.ringCoords, blob.rings)
    IN  [extent |-> blob.extent,
         roads  |-> [i \in DOMAIN blob.roads |-> DecRoad(blob.strings, blob.roads[i], roads[i])],
         areas  |-> [i \in DOMAIN blob.areas |-> DecArea(blob, rings, blob.areas[i])],
         labels |-> [i \in DOMAIN blob.labels |-> DecLabel(blob.strings, blob.labels[i])],
         pois   |-> [i \in DOMAIN blob.pois |-> DecPoi(blob.pois[i])]]
=============================================================================
