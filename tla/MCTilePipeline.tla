--------------------------- MODULE MCTilePipeline ---------------------------
(* TLC instance of TilePipeline: maps around the middle of the world, where *)
(* the tiles of every level and the buckets have a border, x = 524288.      *)
EXTENDS TilePipeline, TLC

At(x, y) == <<524288 + x, 524544 + y>>
Box(x0, y0, x1, y1) == <<At(x0, y0), At(x1, y0), At(x1, y1), At(x0, y1), At(x0, y0)>>

R(kind, line, lanes, junctions) ==
    [shape |-> "Road", kind |-> kind, line |-> line, start |-> "Connected", end |-> "Disconnected",
     layer |-> IF kind = "Trunk" THEN 1 ELSE 0, lanes |-> lanes, name |-> "Ardon",
     structure |-> IF kind = "Trunk" THEN "Bridge" ELSE "None", junctions |-> junctions]

A(kind, outer, inners) ==
    [shape |-> "Area", kind |-> kind, layer |-> -1, floors |-> 1,
     polygon |-> [outer |-> outer, inners |-> inners]]

L(class) == [shape |-> "Label", class |-> class, kind |-> class, name |-> "Ardon", anchor |-> At(37, 91)]
P == [shape |-> "Poi", kind |-> "TrafficSignal", anchor |-> At(-3, 91)]

(* A primary road that jogs at a junction, drawn on against its direction, *)
(* around a corner, with a trunk road's end at the jog and a street's end  *)
(* where the first two meet.                                               *)
Roads == {
    R("Primary", <<At(-100, 96), At(-52, 96), At(-36, 112), At(-20, 96), At(28, 96)>>,
      Lanes(2, 1), <<FALSE, FALSE, TRUE, FALSE, TRUE>>),
    R("Primary", <<At(134, 96), At(28, 96)>>, Lanes(1, 2), <<FALSE, TRUE>>),
    R("Primary", <<At(134, 96), At(134, 180)>>, Lanes(2, 1), <<FALSE, FALSE>>),
    R("Trunk", <<At(-36, 112), At(-36, 180)>>, Lanes(1, 1), <<TRUE, FALSE>>),
    R("Primary", <<At(28, 50), At(28, 96)>>, Lanes(1, 0), <<FALSE, TRUE>>)}

Strokes == {[R("MajorRoad", <<At(-100, 30), At(134, 30)>>, Lanes(0, 0), <<>>) EXCEPT !.name = NoName],
            [R("Border", <<At(-90, 200), At(90, 20)>>, Lanes(0, 0), <<>>) EXCEPT !.name = NoName]}

(* Two woods side by side, one with a clearing, a lake, a lawn, a house.   *)
Areas == {
    A("Forest", Box(-128, -256, 128, 0), <<Box(-60, -200, -20, -180)>>),
    A("Forest", Box(128, -256, 256, 0), <<>>),
    A("Water", Box(-150, 10, 90, 160), <<Box(10, 70, 50, 120)>>),
    A("Grass", Box(100, 10, 140, 40), <<>>),
    A("Building", Box(-10, 30, 10, 40), <<>>)}

Alone == {[shapes |-> {L(LabelClass[i])}, strokes |-> {}] : i \in DOMAIN LabelClass}
    \cup {[shapes |-> {P}, strokes |-> {}]}
    \cup {[shapes |-> {R(RoadKind[i], <<At(-30, 30), At(40, 30)>>, Lanes(1, 1), <<>>)},
           strokes |-> {}] : i \in {n \in DOMAIN RoadKind : RoadKind[n] \notin {"MajorRoad", "Border"}}}

TheMaps == {[shapes |-> Roads, strokes |-> Strokes], [shapes |-> Areas, strokes |-> {}]} \cup Alone

TheViewport == [x0 |-> 524288 - 256, x1 |-> 524288 + 320, y0 |-> 524544 - 300, y1 |-> 524544 + 255]
=============================================================================
