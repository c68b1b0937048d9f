-------------------------- MODULE RoadConnectivity --------------------------
(***************************************************************************)
(* detect_road_connectivity of build_tiles/src/extractor.rs: one parallel  *)
(* pass over the ways of the extract finds the nodes that roads share.     *)
(*                                                                         *)
(* par_bridge hands the PBF blocks to the rayon workers; a block's ways    *)
(* are read in order.  Any number of blocks may be in progress at once, so *)
(* each block is a process.  The two bitsets are shared by all of them     *)
(* without a lock: `seen` is tested and set in one atomic step, and a node *)
(* seen before is put into `shared` in a second one.                       *)
(***************************************************************************)
EXTENDS BitSet, Sequences

CONSTANTS
    Blocks,         \* the PBF blocks of the ways section
    Ways            \* block -> sequence of its ways, [road, refs]

Way == [road : BOOLEAN, refs : Seq(Ids)]

ASSUME WaysAssumption == Ways \in [Blocks -> Seq(Way)]

VARIABLES
    seen,           \* words of the first bitset
    shared,         \* words of the second one
    way,            \* the way each block is at
    ref,            \* the node reference of that way it is at
    again           \* test_and_set returned true, shared.set still to come

vars == <<seen, shared, way, ref, again>>

-----------------------------------------------------------------------------
Init ==
    /\ seen = EmptyWords
    /\ shared = EmptyWords
    /\ way = [b \in Blocks |-> 1]
    /\ ref = [b \in Blocks |-> 1]
    /\ again = [b \in Blocks |-> FALSE]

Finished(b) == way[b] > Len(Ways[b])

(* The way is kept by the filter and classified as a road.                 *)
(* Fault: every way is taken for a road.                                   *)
AnyWay(b) == TRUE

IsRoad(b) == Ways[b][way[b]].road

Node(b) == Ways[b][way[b]].refs[ref[b]]

(* seen.test_and_set(node_id)                                              *)
TestAndSet(b) ==
    /\ ~Finished(b)
    /\ IsRoad(b)
    /\ ref[b] <= Len(Ways[b][way[b]].refs)
    /\ ~again[b]
    /\ seen' = FetchOr(seen, Node(b))
    /\ IF HasBit(seen, Node(b))
       THEN /\ again' = [again EXCEPT ![b] = TRUE]
            /\ UNCHANGED ref
       ELSE /\ ref' = [ref EXCEPT ![b] = @ + 1]
            /\ UNCHANGED again
    /\ UNCHANGED <<shared, way>>

(* shared.set(node_id)                                                     *)
SetShared(b) ==
    /\ again[b]
    /\ shared' = FetchOr(shared, Node(b))
    /\ again' = [again EXCEPT ![b] = FALSE]
    /\ ref' = [ref EXCEPT ![b] = @ + 1]
    /\ UNCHANGED <<seen, way>>

(* On to the block's next way: this one is no road, or its refs are done.  *)
(* Fault: only the roads are iterated past.                                *)
NextRoad(b) ==
    /\ ~Finished(b)
    /\ ~again[b]
    /\ ref[b] > Len(Ways[b][way[b]].refs)
    /\ way' = [way EXCEPT ![b] = @ + 1]
    /\ ref' = [ref EXCEPT ![b] = 1]
    /\ UNCHANGED <<seen, shared, again>>

NextWay(b) ==
    /\ ~Finished(b)
    /\ ~again[b]
    /\ ~IsRoad(b) \/ ref[b] > Len(Ways[b][way[b]].refs)
    /\ way' = [way EXCEPT ![b] = @ + 1]
    /\ ref' = [ref EXCEPT ![b] = 1]
    /\ UNCHANGED <<seen, shared, again>>

Done == \A b \in Blocks : Finished(b)

(* for_each has joined its workers.                                        *)
Return == Done /\ UNCHANGED vars

Next ==
    \/ \E b \in Blocks : TestAndSet(b) \/ SetShared(b) \/ NextWay(b)
    \/ Return

Spec == Init /\ [][Next]_vars

FairSpec == Spec /\ \A b \in Blocks : WF_vars(TestAndSet(b) \/ SetShared(b) \/ NextWay(b))

-----------------------------------------------------------------------------
(* The references the roads of the extract make: block, way, position.     *)
RoadRefs ==
    UNION {UNION {{<<b, w, i>> : i \in 1..Len(Ways[b][w].refs)} :
                  w \in {v \in 1..Len(Ways[b]) : Ways[b][v].road}} : b \in Blocks}

NodeAt(r) == Ways[r[1]][r[2]].refs[r[3]]

(* References already tested, and a reference tested but not yet shared.   *)
Tested(r) ==
    LET b == r[1] IN
    \/ r[2] < way[b]
    \/ r[2] = way[b] /\ r[3] < ref[b]
    \/ r[2] = way[b] /\ r[3] = ref[b] /\ again[b]

Pending(n) == \E b \in Blocks : again[b] /\ Node(b) = n

(* Every variable has its type.                                            *)
TypeOK ==
    /\ seen \in [Words -> SUBSET (0..(WordBits - 1))]
    /\ shared \in [Words -> SUBSET (0..(WordBits - 1))]
    /\ way \in [Blocks -> Nat \ {0}]
    /\ ref \in [Blocks -> Nat \ {0}]
    /\ again \in [Blocks -> BOOLEAN]

TwiceTested(n) ==
    \E r \in RoadRefs :
        /\ NodeAt(r) = n /\ Tested(r)
        /\ \E s \in RoadRefs : r # s /\ NodeAt(s) = n /\ Tested(s)

(* Whatever the workers' interleaving, a node is marked shared exactly     *)
(* when two road references to it were tested, up to the marks a worker    *)
(* stands between its two atomic steps for: of racing first references     *)
(* exactly one sees the bit clear, and no mark is lost or made early.      *)
SharedMeansTwice ==
    \A n \in Ids :
        /\ HasBit(shared, n) => TwiceTested(n)
        /\ TwiceTested(n) => HasBit(shared, n) \/ Pending(n)

(* What extract_ways reads: once the pass has joined, the shared nodes are *)
(* those the roads of the whole extract reference at least twice.          *)
JunctionsExact ==
    Done => Members(shared) =
        {n \in Ids : \E r \in RoadRefs :
            NodeAt(r) = n /\ \E s \in RoadRefs : r # s /\ NodeAt(s) = n}

(* RankedBitSet::rank is the number of set bits below an id, for every id  *)
(* up to and beyond the capacity, in every bitset the pass goes through;   *)
(* so distinct members get distinct slots 0..len of a sparse store.        *)
RankIsCount ==
    \A id \in 0..(Capacity + WordBits) :
        Rank(seen, id) = Cardinality({i \in Members(seen) : i < id})

(* The parallel pass comes to its end.                                     *)
PassTerminates == <>Done
=============================================================================
