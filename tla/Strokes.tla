------------------------------- MODULE Strokes -------------------------------
(***************************************************************************)
(* merge_polylines of build_tiles/src/major_roads.rs: polylines that share *)
(* an end are chained into strokes, each by the straightest continuation,  *)
(* and of parallel strokes the shorter one is dropped.                     *)
(*                                                                         *)
(* Points are pairs of integers.  The lines dedup_parallel measures run    *)
(* along the axes, so that their lengths are integers, and they lie so     *)
(* near each other that the scale of the projection is the same for all.   *)
(***************************************************************************)
EXTENDS Integers, SequencesExt

CONSTANT MaxParallelDist        \* MAX_PARALLEL_DIST_M

Vector(a, b) == <<b[1] - a[1], b[2] - a[2]>>
Dot(u, v) == u[1] * v[1] + u[2] * v[2]
Square(u) == Dot(u, u)
Magnitude(n) == IF n < 0 THEN -n ELSE n

-----------------------------------------------------------------------------
(* A branch at a node: the line it is, and whether it begins there.  The   *)
(* table lists a node's branches by line, the start of a line before its   *)
(* end.                                                                    *)
BranchNode(lines, branch) ==
    IF branch.isStart THEN lines[branch.line][1] ELSE Last(lines[branch.line])

BranchesAt(lines, unused, node) ==
    {b \in [line : unused, isStart : BOOLEAN] : BranchNode(lines, b) = node}

Listed(a, b) == a.line < b.line \/ (a.line = b.line /\ (a.isStart \/ ~b.isStart))

(* The direction a branch leaves the node in.                              *)
Departure(lines, branch) ==
    LET line == lines[branch.line] n == Len(line)
    IN  IF branch.isStart THEN Vector(line[1], line[2]) ELSE Vector(line[n], line[n - 1])

(* MIN_CONTINUATION_COS: within 60 degrees of going straight on; and which *)
(* of two such departures is the straighter, compared by the squares.      *)
GoesStraight(inc, dep) ==
    Dot(inc, dep) > 0 /\ 4 * Dot(inc, dep) * Dot(inc, dep) >= Square(inc) * Square(dep)

NoLessStraight(inc, dep, other) ==
    Dot(inc, dep) * Dot(inc, dep) * Square(other) >= Dot(inc, other) * Dot(inc, other) * Square(dep)

(* The branches to go on with: the straightest, and of equals the last.    *)
BestBranches(lines, unused, coords) ==
    LET n    == Len(coords)
        inc  == Vector(coords[n - 1], coords[n])
        Dep(b) == Departure(lines, b)
        open == {b \in BranchesAt(lines, unused, coords[n]) : GoesStraight(inc, Dep(b))}
        Preferred(b, o) == /\ NoLessStraight(inc, Dep(b), Dep(o))
                           /\ NoLessStraight(inc, Dep(o), Dep(b)) => Listed(o, b)
    IN  {b \in open : Square(inc) # 0 /\ \A o \in open : Preferred(b, o)}

(* Fault: the joint is kept twice.                                         *)
ExtendedTwice(coords, line, isStart) == coords \o (IF isStart THEN line ELSE Reverse(line))

Extended(coords, line, isStart) == coords \o Tail(IF isStart THEN line ELSE Reverse(line))

(* A round of the inner loop, which goes on until no branch does; no more  *)
(* rounds than there are lines change anything.                            *)
Grow(lines, st) ==
    LET best   == BestBranches(lines, st.unused, st.coords)
        Grown(branch) == [coords |-> Extended(st.coords, lines[branch.line], branch.isStart),
                          unused |-> st.unused \ {branch.line}]
    IN  IF best = {} THEN st ELSE Grown(CHOOSE branch \in best : TRUE)

GrowTail(lines, start) ==
    LET after[k \in 0..Len(lines)] == IF k = 0 THEN start ELSE Grow(lines, after[k - 1])
    IN  after[Len(lines)]

(* chain_group: each line not yet used grows both ways.                    *)
Drawn(lines) == {i \in DOMAIN lines : Len(lines[i]) >= 2}

Turned(st) == [st EXCEPT !.coords = Reverse(@)]

BothWays(lines, start) == Turned(GrowTail(lines, Turned(GrowTail(lines, start))))

Seed(lines, i, st) ==
    LET end == BothWays(lines, [coords |-> lines[i], unused |-> st.unused \ {i}])
    IN  IF i \notin st.unused THEN st
        ELSE [strokes |-> Append(st.strokes, end.coords), unused |-> end.unused]

ChainGroup(lines) ==
    LET after[k \in 0..Len(lines)] ==
            IF k = 0 THEN [strokes |-> <<>>, unused |-> Drawn(lines)]
            ELSE Seed(lines, k, after[k - 1])
    IN  after[Len(lines)].strokes

-----------------------------------------------------------------------------
Bbox(line) ==
    [x0 |-> Min({p[1] : p \in ToSet(line)}), y0 |-> Min({p[2] : p \in ToSet(line)}),
     x1 |-> Max({p[1] : p \in ToSet(line)}), y1 |-> Max({p[2] : p \in ToSet(line)})]

BboxOverlap(a, b, margin) ==
    /\ a.x0 - margin <= b.x1 /\ b.x0 - margin <= a.x1
    /\ a.y0 - margin <= b.y1 /\ b.y0 - margin <= a.y1

(* ground_length                                                           *)
GroundLength(line) ==
    FoldLeft(LAMBDA sum, i : sum + Magnitude(line[i + 1][1] - line[i][1])
                                 + Magnitude(line[i + 1][2] - line[i][2]),
             0, [i \in 1..(Len(line) - 1) |-> i])

(* point_seg_dist, compared with the limit.                                *)
NearSegment(p, a, b, dist) ==
    LET along == Dot(Vector(a, b), Vector(a, p))
        total == Square(Vector(a, b))
        cross == (b[1] - a[1]) * (p[2] - a[2]) - (b[2] - a[2]) * (p[1] - a[1])
    IN  IF along <= 0 THEN Square(Vector(a, p)) <= dist * dist
        ELSE IF along >= total THEN Square(Vector(b, p)) <= dist * dist
        ELSE cross * cross <= dist * dist * total

(* parallel_overlap, at least MIN_PARALLEL_OVERLAP = 0.6: lines of at most *)
(* 64 vertices are sampled at every one.                                   *)
Hugs(a, b) ==
    LET near == {i \in DOMAIN a : \E j \in 1..(Len(b) - 1) :
                    NearSegment(a[i], b[j], b[j + 1], MaxParallelDist)}
    IN  5 * Quantify(DOMAIN a, LAMBDA i : i \in near) >= 3 * Len(a)

(* The stable order, the longest first.                                    *)
LongestFirst(chains) ==
    SetToSortSeq(DOMAIN chains, LAMBDA a, b :
        \/ GroundLength(chains[a]) > GroundLength(chains[b])
        \/ GroundLength(chains[a]) = GroundLength(chains[b]) /\ a < b)

(* dedup_parallel: in that order, a stroke not removed removes the later   *)
(* ones that hug it.                                                       *)
DedupParallel(chains) ==
    LET RemoveHuggers(removed, i) ==
            IF i \in removed THEN removed
            ELSE removed \cup {j \in DOMAIN chains :
                    /\ \/ GroundLength(chains[i]) > GroundLength(chains[j])
                       \/ GroundLength(chains[i]) = GroundLength(chains[j]) /\ i < j
                    /\ BboxOverlap(Bbox(chains[i]), Bbox(chains[j]), MaxParallelDist)
                    /\ Hugs(chains[j], chains[i])}
        removed == FoldLeft(RemoveHuggers, {}, LongestFirst(chains))
        kept    == SetToSortSeq(DOMAIN chains \ removed, <)
    IN  [k \in DOMAIN kept |-> chains[kept[k]]]

MergePolylines(lines) == DedupParallel(ChainGroup(lines))
=============================================================================
