----------------------------- MODULE MCExtract -----------------------------
(* TLC instance of Extract: a small map, and the file a writer makes of it. *)
EXTENDS Extract

CONSTANTS
    Dropped,        \* nodes of the map the extract was cut without
    EmptyKeysVals   \* the writer leaves keys_vals out of a block with no tags

At(lon, lat) == [lon |-> lon, lat |-> lat, tags |-> <<>>]
Tagged(lon, lat, tags) == [lon |-> lon, lat |-> lat, tags |-> tags]
W(refs, tags) == [refs |-> refs, tags |-> tags]

(* 0..4 the roads' nodes, 5..14 the areas', 15..18 the border's, 19 a      *)
(* town, 20 and 21 the second carriageway.                                 *)
AllNodes ==
    0 :> At(2, 2) @@ 1 :> Tagged(4, 2, <<<<"highway", "traffic_signals">>>>) @@ 2 :> At(6, 2) @@
    3 :> At(4, 6) @@ 4 :> At(6, 6) @@ 5 :> At(10, 10) @@ 6 :> At(14, 10) @@ 7 :> At(14, 14) @@
    8 :> At(10, 14) @@ 9 :> At(12, 11) @@ 10 :> At(13, 13) @@ 11 :> At(11, 13) @@
    12 :> At(16, 2) @@ 13 :> At(20, 2) @@ 14 :> At(20, 6) @@ 15 :> At(16, 20) @@
    16 :> At(18, 20) @@ 17 :> At(18, 24) @@ 18 :> At(14, 20) @@
    19 :> Tagged(9, 9, <<<<"place", "town">>, <<"name", "Ardon">>>>) @@
    20 :> At(2, 3) @@ 21 :> At(6, 3)

Nodes == [id \in DOMAIN AllNodes \ Dropped |-> AllNodes[id]]

TheWays ==
    1 :> W(<<0, 1, 2>>, <<<<"highway", "motorway">>, <<"lanes", "3">>, <<"oneway", "yes">>>>) @@
    2 :> W(<<2, 4>>, <<<<"name", "Ardon">>, <<"highway", "trunk">>, <<"bridge", "yes">>>>) @@
    3 :> W(<<0, 1>>, <<<<"highway", "path">>>>) @@
    4 :> W(<<3, 1>>, <<<<"railway", "light_rail">>, <<"layer", "2">>>>) @@
    5 :> W(<<4, 1, 4>>, <<<<"highway", "residential">>, <<"lanes", "3">>>>) @@
    6 :> W(<<5, 6, 7>>, <<>>) @@
    7 :> W(<<5, 8, 7>>, <<>>) @@
    8 :> W(<<9, 10, 11, 9>>, <<<<"building", "yes">>, <<"building:levels", "2.5">>>>) @@
    9 :> W(<<12, 13, 14, 12>>, <<<<"natural", "water">>, <<"name", "Ardon">>>>) @@
    10 :> W(<<18, 15>>, <<>>) @@
    11 :> W(<<15, 16>>, <<>>) @@
    12 :> W(<<16, 17>>, <<>>) @@
    13 :> W(<<20, 21>>, <<<<"highway", "trunk_link">>>>)

Outer(w) == <<"Way", w, "outer">>
Inner(w) == <<"Way", w, "inner">>

(* A wood with a clearing, a park of two parts, two countries and a road   *)
(* route each way, and a relation another one contains.                    *)
TheRelations ==
    1 :> [tags |-> <<<<"type", "multipolygon">>, <<"natural", "wood">>, <<"name", "Ardon">>>>,
          members |-> <<Outer(6), Inner(8), Outer(7)>>] @@
    2 :> [tags |-> <<<<"type", "multipolygon">>, <<"leisure", "park">>>>,
          members |-> <<Outer(9), Outer(6), Outer(7), Inner(8), <<"Relation", 5, "subarea">>>>] @@
    3 :> [tags |-> <<<<"boundary", "administrative">>, <<"admin_level", "2">>>>,
          members |-> <<Outer(10), Outer(11)>>] @@
    4 :> [tags |-> <<<<"admin_level", "2">>, <<"boundary", "administrative">>>>,
          members |-> <<Outer(11), Outer(12)>>] @@
    5 :> [tags |-> <<<<"route", "road">>>>, members |-> <<<<"Way", 1, "">>, <<"Way", 13, "">>>>] @@
    6 :> [tags |-> <<<<"route", "road">>>>, members |-> <<<<"Way", 5, "">>>>]

WoodRing == [outer |-> <<5, 6, 7, 8, 5>>, inners |-> <<<<9, 10, 11, 9>>>>]

ThePolygons ==
    1 :> <<WoodRing>> @@
    2 :> <<[outer |-> <<12, 13, 14, 12>>, inners |-> <<>>], WoodRing>>

TheWater ==
    <<[outers |-> <<<<<<30, 0>>, <<34, 0>>, <<34, 9>>>>, <<<<40, 0>>, <<49, 0>>, <<49, 9>>>>>>,
       inners |-> <<<<<<45, 1>>, <<46, 1>>, <<46, 2>>>>>>]>>

Xs30 == [lon \in 0..30 |-> lon + 1]
Ys30 == [lat \in 0..30 |-> lat + 3]

Ints == "1" :> 1 @@ "2" :> 2 @@ "3" :> 3
Tenths == "1" :> 10 @@ "2.5" :> 25

-----------------------------------------------------------------------------
(* The writer.                                                             *)
Deltas(ints) == [i \in DOMAIN ints |-> IF i = 1 THEN ints[1] ELSE ints[i] - ints[i - 1]]

Table(elements, more) ==
    <<EmptyText>> \o
        InSomeOrder((more \cup UNION {WordsOf(e.tags) : e \in elements}) \ {EmptyText})

KeySids(strings, tags) == [i \in DOMAIN tags |-> Sid(strings, tags[i][1])]
ValSids(strings, tags) == [i \in DOMAIN tags |-> Sid(strings, tags[i][2])]

KeysVals(strings, nodes) ==
    FlattenSeq([i \in DOMAIN nodes |->
        FlattenSeq([k \in DOMAIN nodes[i].tags |->
            <<Sid(strings, nodes[i].tags[k][1]), Sid(strings, nodes[i].tags[k][2])>>]) \o <<0>>])

Group == [nodes |-> <<>>, dense |-> NoDense, ways |-> <<>>, relations |-> <<>>]

Blob(size, strings, granularity, lonOffset, latOffset, group) ==
    [type |-> "OSMData", size |-> size,
     block |-> [strings |-> strings, granularity |-> granularity, lonOffset |-> lonOffset,
                latOffset |-> latOffset, groups |-> <<group>>]]

DenseBlob(size, ids) ==
    LET nodes   == [i \in DOMAIN ids |-> Nodes[ids[i]]]
        strings == Table(Range(nodes), {})
    IN  Blob(size, strings, 100, 0, 0, [Group EXCEPT !.dense = [
            present  |-> TRUE,
            id       |-> Deltas(ids),
            lon      |-> Deltas([i \in DOMAIN ids |-> nodes[i].lon]),
            lat      |-> Deltas([i \in DOMAIN ids |-> nodes[i].lat]),
            keysVals |-> IF EmptyKeysVals /\ \A i \in DOMAIN ids : nodes[i].tags = <<>>
                         THEN <<>> ELSE KeysVals(strings, nodes)]])

PlainBlob(size, ids) ==
    LET strings == Table({Nodes[ids[i]] : i \in DOMAIN ids}, {})
    IN  Blob(size, strings, 50, 100, -50, [Group EXCEPT !.nodes = [i \in DOMAIN ids |->
            [id |-> ids[i], lon |-> 2 * Nodes[ids[i]].lon - 2, lat |-> 2 * Nodes[ids[i]].lat + 1,
             keys |-> KeySids(strings, Nodes[ids[i]].tags),
             vals |-> ValSids(strings, Nodes[ids[i]].tags)]]])

WayBlob(size, ids) ==
    LET strings == Table({TheWays[ids[i]] : i \in DOMAIN ids}, {})
    IN  Blob(size, strings, 100, 0, 0, [Group EXCEPT !.ways = [i \in DOMAIN ids |->
            [id |-> ids[i], refs |-> Deltas(TheWays[ids[i]].refs),
             keys |-> KeySids(strings, TheWays[ids[i]].tags),
             vals |-> ValSids(strings, TheWays[ids[i]].tags)]]])

RelationBlob(size, ids) ==
    LET rels    == [i \in DOMAIN ids |-> TheRelations[ids[i]]]
        strings == Table(Range(rels), {"outer", "inner", "subarea"})
        Field(r, k) == [m \in DOMAIN rels[r].members |-> rels[r].members[m][k]]
    IN  Blob(size, strings, 100, 0, 0, [Group EXCEPT !.relations = [i \in DOMAIN ids |->
            [id |-> ids[i], memids |-> Deltas(Field(i, 2)), types |-> Field(i, 1),
             rolesSid |-> [m \in DOMAIN rels[i].members |->
                IF rels[i].members[m][3] = "" THEN 0 ELSE Sid(strings, rels[i].members[m][3])],
             keys |-> KeySids(strings, rels[i].tags), vals |-> ValSids(strings, rels[i].tags)]]])

Present(ids) == SelectSeq(ids, LAMBDA id : id \notin Dropped)

TheBlobs == <<
    [type |-> "OSMHeader", size |-> 3, block |-> <<>>],
    DenseBlob(9, Present(<<0, 1, 2, 3, 4, 5, 6, 7, 8>>)),
    DenseBlob(7, Present(<<9, 10, 11, 12, 13, 14>>)),
    PlainBlob(8, Present(<<15, 16, 17, 18, 19, 20, 21>>)),
    WayBlob(5, <<1, 2, 6>>),
    WayBlob(6, <<3, 4, 7, 8, 9>>),
    WayBlob(7, <<5, 10, 11, 12, 13>>),
    RelationBlob(4, <<1, 3, 5>>),
    RelationBlob(6, <<2, 4, 6>>)>>

TheFile == [blobs |-> TheBlobs, length |-> 55]

TheIndex == Index(TheFile)
Indexes == {NoIndex, TheIndex}

(* The way section, which takes in the block after it, and its ways as the *)
(* classifier must find them.                                              *)
Road(w) == [road |-> TRUE, refs |-> TheWays[w].refs]
Other(w) == [road |-> FALSE, refs |-> TheWays[w].refs]

WayBlocks == {5, 6, 7, 8}
BlockWays ==
    5 :> <<Road(1), Road(2), Other(6)>> @@
    6 :> <<Other(3), Road(4), Other(7), Other(8), Other(9)>> @@
    7 :> <<Road(5), Other(10), Other(11), Other(12), Road(13)>> @@
    8 :> <<>>

=============================================================================
