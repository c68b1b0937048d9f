---------------------------- MODULE Multipolygon ----------------------------
(***************************************************************************)
(* How build_tiles/src/extractor.rs makes the areas of a multipolygon      *)
(* relation: its member ways, lists of node ids, are stitched into rings   *)
(* (assemble_rings), and the rings become polygons with their holes        *)
(* (emit_multipolygon).  A line is a sequence of points <<x, y>>, a        *)
(* polygon [outer, inners]; geo's polygons close their rings themselves.   *)
(***************************************************************************)
EXTENDS Integers, SequencesExt

ClosedRing(ring) == ring[1] = Last(ring)

Ends(fragment) == {fragment[1], Last(fragment)}

(* The fragments to be stitched; a shorter one is no line at all.          *)
IsLine(fragment) == Len(fragment) >= 2

Loose(fragments) == {i \in DOMAIN fragments : IsLine(fragments[i]) /\ ~ClosedRing(fragments[i])}

(* The unused fragments that go on from the ring's end: those that have    *)
(* the node for one of their two ends.                                     *)
(* Fault: only those that begin there.                                     *)
GoesOnForward(fragments, unused, ring) == {i \in unused : fragments[i][1] = Last(ring)}

GoesOn(fragments, unused, ring) == {i \in unused : Last(ring) \in Ends(fragments[i])}

Joined(ring, fragment) ==
    ring \o Tail(IF Last(fragment) = Last(ring) THEN Reverse(fragment) ELSE fragment)

(* A round of the loop that closes one ring: it goes on with the first of  *)
(* the list, until the ring is closed or nothing goes on.  No more rounds  *)
(* than there are fragments change anything.                               *)
IsWhole(ring) == ClosedRing(ring) /\ Len(ring) >= 4

Stitch(fragments, st) ==
    LET next == GoesOn(fragments, st.unused, st.ring)
    IN  IF IsWhole(st.ring) \/ next = {} THEN st
        ELSE [ring |-> Joined(st.ring, fragments[Min(next)]), unused |-> st.unused \ {Min(next)}]

CloseRing(fragments, start) ==
    LET after[k \in 0..Len(fragments)] ==
            IF k = 0 THEN start ELSE Stitch(fragments, after[k - 1])
    IN  after[Len(fragments)]

(* One start of the loop over them all; a dangling chain is dropped.       *)
WithRing(rings, ring) == IF IsWhole(ring) THEN Append(rings, ring) ELSE rings

StartRing(fragments, i, st) ==
    LET end == CloseRing(fragments, [ring |-> fragments[i], unused |-> st.unused \ {i}])
    IN  IF i \notin st.unused THEN st
        ELSE [rings |-> WithRing(st.rings, end.ring), unused |-> end.unused]

(* assemble_rings: fragments that are closed first, then the open ones.    *)
WithClosed(rings, fragment) ==
    IF IsLine(fragment) /\ ClosedRing(fragment) THEN Append(rings, fragment) ELSE rings

ClosedFragments(fragments) ==
    LET upto[k \in 0..Len(fragments)] ==
            IF k = 0 THEN <<>> ELSE WithClosed(upto[k - 1], fragments[k])
    IN  upto[Len(fragments)]

AssembleRings(fragments) ==
    LET after[k \in 0..Len(fragments)] ==
            IF k = 0 THEN [rings |-> ClosedFragments(fragments), unused |-> Loose(fragments)]
            ELSE StartRing(fragments, k, after[k - 1])
    IN  after[Len(fragments)].rings

-----------------------------------------------------------------------------
(* bbox_area, and the polygon with the largest one: of equal ones the last.*)
Xs(line) == {p[1] : p \in ToSet(line)}
Ys(line) == {p[2] : p \in ToSet(line)}

BboxArea(line) ==
    IF line = <<>> THEN 0
    ELSE (Max(Xs(line)) - Min(Xs(line))) * (Max(Ys(line)) - Min(Ys(line)))

Closing(line) == IF line = <<>> \/ ClosedRing(line) THEN line ELSE Append(line, line[1])

PolygonOf(outer, inners) ==
    [outer |-> Closing(outer), inners |-> [i \in DOMAIN inners |-> Closing(inners[i])]]

LargestPolygon(polygons) ==
    Max({i \in DOMAIN polygons :
        \A j \in DOMAIN polygons : BboxArea(polygons[j].outer) <= BboxArea(polygons[i].outer)})

(* The point is inside the ring, by the parity of the edges a ray to its   *)
(* right crosses: geo's contains away from the ring itself, and main.rs's  *)
(* point_in_ring.                                                          *)
Crosses(p, a, b) ==
    /\ (a[2] > p[2]) # (b[2] > p[2])
    /\ LET side == (b[1] - a[1]) * (p[2] - a[2]) - (p[1] - a[1]) * (b[2] - a[2])
       IN  IF b[2] > a[2] THEN side > 0 ELSE side < 0

PointInRing(ring, p) ==
    /\ Len(ring) >= 3
    /\ LET Previous(i) == ring[IF i = 1 THEN Len(ring) ELSE i - 1]
       IN  Quantify(DOMAIN ring, LAMBDA i : Crosses(p, Previous(i), ring[i])) % 2 = 1

(* The hole goes to the only outer ring, or to the first that contains its *)
(* first point; a hole of none, and one with no point, is left out.        *)
Owner(outers, inner) ==
    IF Len(outers) = 1 THEN {1}
    ELSE IF inner = <<>> THEN {}
    ELSE LET containing == {i \in DOMAIN outers : PointInRing(outers[i], inner[1])}
         IN  IF containing = {} THEN {} ELSE {Min(containing)}

Polygons(outers, inners) ==
    [i \in DOMAIN outers |->
        PolygonOf(outers[i], SelectSeq(inners, LAMBDA inner : i \in Owner(outers, inner)))]

(* geo's interior_point: some point inside the outer ring and in no hole;  *)
(* of one the lines of the instance never meet.                            *)
InteriorPoints(polygon) ==
    IF polygon.outer = <<>> THEN {}
    ELSE {p \in (Min(Xs(polygon.outer))..Max(Xs(polygon.outer)))
                    \X (Min(Ys(polygon.outer))..Max(Ys(polygon.outer))) :
            /\ PointInRing(polygon.outer, p)
            /\ \A i \in DOMAIN polygon.inners : ~PointInRing(polygon.inners[i], p)}

InteriorPoint(polygon) == CHOOSE p \in InteriorPoints(polygon) : TRUE
=============================================================================
