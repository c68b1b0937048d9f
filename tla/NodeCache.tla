------------------------------ MODULE NodeCache ------------------------------
(***************************************************************************)
(* The node location cache of build_tiles: node_cache.rs, the SparseStore  *)
(* of cache/src/store.rs it is built on, and the part of main.rs that      *)
(* reuses the cache of an earlier run or rebuilds it.                      *)
(*                                                                         *)
(* Two files beside the extract outlive a run: the store, a memory map     *)
(* whose slot rank(id) holds the coordinate of node id, and the bbox       *)
(* sidecar.  A run may be killed at any point.  The page cache survives    *)
(* the process, so what is written to the map is in the file at once.      *)
(*                                                                         *)
(* Of a coordinate one axis is kept: the other is treated alike.  The      *)
(* extract holds each node its ways reference, once.                       *)
(***************************************************************************)
EXTENDS BitSet, Sequences

CONSTANTS
    Workers,        \* threads of the rayon pool
    NodeBlocks,     \* the blocks of the nodes section: each a sequence of ids
    Coord,          \* node id -> its coordinate
    Filters,        \* the sets of node ids a filter's ways may reference
    FilterMayChange,    \* whether the next run may come with another filter
    MaxRuns,        \* bound on the number of runs
    None            \* Rust's None, a file that is not there

SlotSize == 8       \* size_of::<PackedCoord>()
Zero == 0           \* a slot of zero bytes: the coordinate (0, 0)

Nodes == UNION {Range(NodeBlocks[b]) : b \in DOMAIN NodeBlocks}

Store == [length : Nat, slots : Seq(Nat)]
Job == [block : Nat, node : Nat]

ASSUME NodeCacheAssumption ==
    /\ NodeBlocks \in Seq(Seq(Ids) \ {<<>>})
    /\ Coord \in [Nodes -> Nat \ {Zero}]
    /\ Filters # {} /\ Filters \subseteq SUBSET Nodes
    /\ FilterMayChange \in BOOLEAN
    /\ MaxRuns \in Nat \ {0}
    /\ IsFiniteSet(Workers)
    /\ None \notin Store
    /\ None \notin Job
    /\ None \notin Nat \X Nat

VARIABLES
    runs,           \* how many runs were started
    phase,          \* where main is
    filter,         \* the node ids this run's filter references
    store,          \* the .nodes file: its length and its slots
    sidecar,        \* the .bbox file: the numbers in it
    bits,           \* words of the RankedBitSet
    unread,         \* next node block of the PBF reader
    job,            \* the block and node a worker is at, or None
    acc,            \* a worker's running bounds
    osmBbox         \* the bounds main goes on with

files == <<store, sidecar>>
fill == <<unread, job, acc>>
vars == <<runs, phase, filter, files, bits, fill, osmBbox>>

-----------------------------------------------------------------------------
(* build_node_bitset: the atomic sets of all the workers have been joined. *)
BitsOf(S) == [w \in Words |-> {id % WordBits : id \in {i \in S : i \div WordBits = w}}]

SetBits == Cardinality(Members(bits))

(* The length of a store with that many slots; never 0.                    *)
Length(slots) == IF slots = 0 THEN 1 ELSE slots * SlotSize

(* node_store_matches and load_bbox: the store of an earlier run is reused.*)
(* Fault: its length alone is asked for.                                   *)
LengthMatches == store # None /\ store.length = Length(SetBits)

Reusable ==
    /\ store # None /\ store.length = Length(SetBits)
    /\ sidecar # None /\ Len(sidecar) = 2

Slot(id) == Rank(bits, id) + 1

(* SparseStore::get                                                        *)
Get(id) == IF HasBit(bits, id) THEN store.slots[Slot(id)] ELSE None

(* fold_bounds and merge_bounds.                                           *)
(* Faults: the ends are swapped; one side is dropped.                      *)
FoldSwapped(a, c) ==
    IF a = None THEN <<c, c>>
    ELSE <<IF c > a[1] THEN c ELSE a[1], IF c < a[2] THEN c ELSE a[2]>>

FoldBounds(a, c) ==
    IF a = None THEN <<c, c>>
    ELSE <<IF c < a[1] THEN c ELSE a[1], IF c > a[2] THEN c ELSE a[2]>>

KeepLeft(a, b) == IF a = None THEN b ELSE a

MergeBounds(a, b) ==
    IF a = None THEN b
    ELSE IF b = None THEN a
    ELSE <<IF b[1] < a[1] THEN b[1] ELSE a[1], IF b[2] > a[2] THEN b[2] ELSE a[2]>>

-----------------------------------------------------------------------------
Init ==
    /\ runs = 1
    /\ phase = "start"
    /\ filter \in Filters
    /\ store = None
    /\ sidecar = None
    /\ bits = EmptyWords
    /\ unread = 1
    /\ job = [w \in Workers |-> None]
    /\ acc = [w \in Workers |-> None]
    /\ osmBbox = None

(* The next run, its memory new.                                           *)
StartRun ==
    /\ phase \in {"use", "dead"}
    /\ runs < MaxRuns
    /\ runs' = runs + 1
    /\ phase' = "start"
    /\ filter' \in (IF FilterMayChange THEN Filters ELSE {filter})
    /\ bits' = EmptyWords
    /\ unread' = 1
    /\ job' = [w \in Workers |-> None]
    /\ acc' = [w \in Workers |-> None]
    /\ osmBbox' = None
    /\ UNCHANGED files

(* The process is killed, or panics on an I/O error.                       *)
Kill ==
    /\ phase \notin {"use", "dead"}
    /\ phase' = "dead"
    /\ UNCHANGED <<runs, filter, files, bits, fill, osmBbox>>

BuildBitset ==
    /\ phase = "start"
    /\ bits' = BitsOf(filter)
    /\ phase' = "check"
    /\ UNCHANGED <<runs, filter, files, fill, osmBbox>>

(* "Reusing node store ...", with the bounds of the sidecar.               *)
Reuse ==
    /\ phase = "check"
    /\ Reusable
    /\ osmBbox' = sidecar
    /\ phase' = "use"
    /\ UNCHANGED <<runs, filter, files, bits, fill>>

(* SparseStoreBuilder::create: the file is created or truncated, then      *)
(* given its length, which fills it with zeros.  The sidecar stays.        *)
Truncate ==
    /\ phase = "check"
    /\ ~Reusable
    /\ store' = [length |-> 0, slots |-> <<>>]
    /\ phase' = "truncated"
    /\ UNCHANGED <<runs, filter, sidecar, bits, fill, osmBbox>>

SetLen ==
    /\ phase = "truncated"
    /\ store' = [length |-> Length(SetBits), slots |-> [i \in 1..SetBits |-> Zero]]
    /\ phase' = "fill"
    /\ UNCHANGED <<runs, filter, sidecar, bits, fill, osmBbox>>

(* A worker takes the next block from the reader par_bridge shares.        *)
(* Fault: the reader is not moved on.                                      *)
TakeAgain(w) ==
    /\ phase = "fill"
    /\ job[w] = None
    /\ unread <= Len(NodeBlocks)
    /\ job' = [job EXCEPT ![w] = [block |-> unread, node |-> 1]]
    /\ UNCHANGED <<runs, phase, filter, files, bits, unread, acc, osmBbox>>

TakeBlock(w) ==
    /\ phase = "fill"
    /\ job[w] = None
    /\ unread <= Len(NodeBlocks)
    /\ job' = [job EXCEPT ![w] = [block |-> unread, node |-> 1]]
    /\ unread' = unread + 1
    /\ UNCHANGED <<runs, phase, filter, files, bits, acc, osmBbox>>

(* SparseStoreBuilder::set of the block's next node, a no-op unless it is  *)
(* referenced; every node counts for the bounds.                           *)
StoreNode(w) ==
    /\ phase = "fill"
    /\ job[w] # None
    /\ LET block == NodeBlocks[job[w].block]
           id    == block[job[w].node] IN
        /\ store' = IF HasBit(bits, id)
                    THEN [store EXCEPT !.slots[Slot(id)] = Coord[id]] ELSE store
        /\ acc' = [acc EXCEPT ![w] = FoldBounds(@, Coord[id])]
        /\ job' = [job EXCEPT ![w] =
               IF @.node < Len(block) THEN [job[w] EXCEPT !.node = @ + 1] ELSE None]
    /\ UNCHANGED <<runs, phase, filter, sidecar, bits, unread, osmBbox>>

(* The pass is joined, the workers' bounds are merged, the map is flushed. *)
Flush ==
    /\ phase = "fill"
    /\ unread > Len(NodeBlocks)
    /\ \A w \in Workers : job[w] = None
    /\ LET bounds == FoldFunction(MergeBounds, None, acc) IN
           osmBbox' = IF bounds = None THEN <<Zero, Zero>> ELSE bounds
    /\ phase' = "flushed"
    /\ UNCHANGED <<runs, filter, files, bits, fill>>

(* save_bbox, a std::fs::write: the sidecar is truncated, then written.    *)
TruncateBbox ==
    /\ phase = "flushed"
    /\ sidecar' = <<>>
    /\ phase' = "save"
    /\ UNCHANGED <<runs, filter, store, bits, fill, osmBbox>>

WriteBbox ==
    /\ phase = "save"
    /\ sidecar' = osmBbox
    /\ phase' = "use"
    /\ UNCHANGED <<runs, filter, store, bits, fill, osmBbox>>

-----------------------------------------------------------------------------
Main == BuildBitset \/ Reuse \/ Truncate \/ SetLen \/ Flush \/ TruncateBbox \/ WriteBbox

Work(w) == TakeBlock(w) \/ StoreNode(w)

Next == Main \/ (\E w \in Workers : Work(w)) \/ Kill \/ StartRun

Spec == Init /\ [][Next]_vars

(* Main and the pool's threads run on.                                     *)
FairSpec == Spec /\ WF_vars(Main) /\ \A w \in Workers : WF_vars(Work(w))

-----------------------------------------------------------------------------
Bounds == {p \in Nat \X Nat : p[1] <= p[2]}

(* Every variable has its type; bounds are in order, and a map that is     *)
(* being filled has a slot for each set bit.                               *)
TypeOK ==
    /\ runs \in 1..MaxRuns
    /\ phase \in {"start", "check", "truncated", "fill", "flushed", "save", "use", "dead"}
    /\ filter \in Filters
    /\ store \in Store \cup {None}
    /\ store # None => store.length \in {0, Length(Len(store.slots))}
    /\ sidecar \in {None, <<>>} \cup Bounds
    /\ bits \in [Words -> SUBSET (0..(WordBits - 1))]
    /\ unread \in 1..(Len(NodeBlocks) + 1)
    /\ job \in [Workers -> Job \cup {None}]
    /\ \A w \in Workers : job[w] # None =>
           job[w].block \in DOMAIN NodeBlocks /\ job[w].node \in DOMAIN NodeBlocks[job[w].block]
    /\ acc \in [Workers -> Bounds \cup {None}]
    /\ osmBbox \in Bounds \cup {None}
    /\ phase \in {"fill", "flushed", "save", "use"} => Len(store.slots) = SetBits

(* Built or reused, the store main goes on with gives the coordinate of    *)
(* each node this run's filter references, and None for any other: no slot *)
(* of a killed build and no slot of another node set is ever read.         *)
StoreIsRight ==
    phase = "use" =>
        \A id \in Ids : Get(id) = IF id \in filter THEN Coord[id] ELSE None

(* Built or reused, the bounds are those of every node of the extract,     *)
(* however the workers shared the blocks; an extract without nodes is a    *)
(* point at the origin.                                                    *)
BboxIsRight ==
    phase = "use" =>
        IF Nodes = {} THEN osmBbox = <<Zero, Zero>>
        ELSE /\ \A id \in Nodes : osmBbox[1] <= Coord[id] /\ Coord[id] <= osmBbox[2]
             /\ \A end \in Range(osmBbox) : end \in Range(Coord)

(* A run comes to its end.                                                 *)
RunEnds == phase = "start" ~> phase \in {"use", "dead"}
=============================================================================
