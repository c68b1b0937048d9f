--------------------------- MODULE NodeCacheProofs ---------------------------
(***************************************************************************)
(* Theorems of NodeCache, for every extract, every set of filters, every   *)
(* number of workers and of runs, with their proofs.                       *)
(***************************************************************************)
EXTENDS NodeCache, BitSetProofs

(* What a bitset of some ids contains.                                     *)
LEMMA BitsOfMembers ==
    ASSUME NEW S \in SUBSET Ids
    PROVE  /\ BitsOf(S) \in [Words -> SUBSET Bits]
           /\ \A id \in Ids : HasBit(BitsOf(S), id) <=> id \in S
           /\ Members(BitsOf(S)) = S
  <1>1. BitsOf(S) \in [Words -> SUBSET Bits]
    BY WordOfId DEF BitsOf
  <1>2. ASSUME NEW id \in Ids
        PROVE  HasBit(BitsOf(S), id) <=> id \in S
    <2>0. id < Capacity
      BY BitSetAssumption DEF Ids
    <2>1. id < Capacity /\ id \div WordBits \in Words
      BY <2>0, WordOfId
    <2>2. BitsOf(S)[id \div WordBits]
            = {i % WordBits : i \in {j \in S : j \div WordBits = id \div WordBits}}
      BY <2>1 DEF BitsOf
    <2>3. \A j \in S : j \div WordBits = id \div WordBits /\ j % WordBits = id % WordBits => j = id
      BY WordAndBit
    <2>. QED
      BY <2>1, <2>2, <2>3 DEF HasBit
  <1>. QED
    BY <1>1, <1>2 DEF Members

(* The slots of the members are distinct, and the store has them.          *)
LEMMA SlotsAreDistinct ==
    ASSUME NEW words \in [Words -> SUBSET Bits]
    PROVE  /\ Cardinality(Members(words)) \in Nat
           /\ \A id \in Members(words) : Rank(words, id) + 1 \in 1..Cardinality(Members(words))
           /\ \A id, other \in Members(words) :
                  id # other => Rank(words, id) + 1 # Rank(words, other) + 1
  <1>. DEFINE M == Members(words)
              below(id) == {m \in M : m < id}
  <1>1. M \subseteq Nat /\ IsFiniteSet(M)
    <2>1. IsFiniteSet(Ids)
      BY BitSetAssumption, FS_Interval DEF Ids
    <2>2. M \in SUBSET Ids /\ Ids \subseteq Nat
      BY DEF Members, Ids
    <2>. QED
      BY <2>1, <2>2, FS_Subset
  <1>2. \A id \in Nat : IsFiniteSet(below(id)) /\ Rank(words, id) = Cardinality(below(id))
    BY RankCounts
  <1>3. Cardinality(M) \in Nat /\ \A id \in Nat : Cardinality(below(id)) \in Nat
    BY <1>1, <1>2, FS_CardinalityType
  <1>. HIDE DEF M
  <1>4. ASSUME NEW id \in M, NEW S, IsFiniteSet(S), below(id) \cup {id} \subseteq S
        PROVE  Cardinality(below(id)) + 1 <= Cardinality(S)
    <2>1. id \in Nat /\ id \notin below(id)
      BY <1>1
    <2>2. Cardinality(below(id) \cup {id}) = Cardinality(below(id)) + 1
      <3>. HIDE DEF below
      <3>. QED
        BY <1>2, <2>1, FS_AddElement
    <2>3. Cardinality(below(id) \cup {id}) <= Cardinality(S)
      <3>. HIDE DEF below
      <3>. QED
        BY <1>4, FS_Subset
    <2>. QED
      BY <2>2, <2>3
  <1>5. ASSUME NEW id \in M
        PROVE  Cardinality(below(id)) + 1 <= Cardinality(M)
    BY <1>1, <1>4, <1>5
  <1>6. ASSUME NEW id \in M, NEW other \in M, id < other
        PROVE  Cardinality(below(id)) + 1 <= Cardinality(below(other))
    <2>1. below(id) \cup {id} \subseteq below(other)
      <3>1. \A m \in M : m < id => m < other
        BY <1>1, <1>6
      <3>. QED
        BY <1>6, <3>1
    <2>2. IsFiniteSet(below(other))
      BY <1>1, <1>2
    <2>. QED
      BY <1>4, <2>1, <2>2
  <1>. HIDE DEF below
  <1>7. \A id \in M : Rank(words, id) + 1 \in 1..Cardinality(M)
    BY <1>1, <1>2, <1>3, <1>5
  <1>8. \A id, other \in M : id # other => Rank(words, id) + 1 # Rank(words, other) + 1
    <2>. SUFFICES ASSUME NEW id \in M, NEW other \in M, id < other
                  PROVE  Rank(words, id) + 1 # Rank(words, other) + 1
      BY <1>1
    <2>1. Rank(words, id) = Cardinality(below(id)) /\ Rank(words, other) = Cardinality(below(other))
      BY <1>1, <1>2
    <2>2. Cardinality(below(id)) \in Nat /\ Cardinality(below(other)) \in Nat
      BY <1>1, <1>3
    <2>. QED
      BY <1>6, <2>1, <2>2
  <1>. QED
    BY <1>3, <1>7, <1>8 DEF M
-----------------------------------------------------------------------------
(* The hull of the bounds A of the workers s.                              *)
IsHull(A, b, s) ==
    IF \A w \in s : A[w] = None THEN b = None
    ELSE /\ b \in Bounds
         /\ \A w \in s : A[w] # None => b[1] <= A[w][1] /\ A[w][2] <= b[2]
         /\ \E w \in s : A[w] # None /\ A[w][1] = b[1]
         /\ \E w \in s : A[w] # None /\ A[w][2] = b[2]

LEMMA BoundsType ==
    /\ None \notin Bounds
    /\ \A b \in Bounds : b[1] \in Nat /\ b[2] \in Nat /\ b[1] <= b[2] /\ b = <<b[1], b[2]>>
    /\ \A m, n \in Nat : m <= n => <<m, n>> \in Bounds
  BY NodeCacheAssumption DEF Bounds

LEMMA HullIsOne ==
    ASSUME NEW W, NEW A \in [W -> Bounds \cup {None}], NEW s \in SUBSET W,
           NEW b, IsHull(A, b, s), NEW c, IsHull(A, c, s)
    PROVE  b = c
  <1>1. CASE \A w \in s : A[w] = None
    BY <1>1 DEF IsHull
  <1>2. CASE ~(\A w \in s : A[w] = None)
    <2>1. /\ b \in Bounds /\ c \in Bounds
          /\ \A w \in s : A[w] # None => /\ b[1] <= A[w][1] /\ A[w][2] <= b[2]
                                         /\ c[1] <= A[w][1] /\ A[w][2] <= c[2]
          /\ \E w \in s : A[w] # None /\ A[w][1] = b[1]
          /\ \E w \in s : A[w] # None /\ A[w][2] = b[2]
          /\ \E w \in s : A[w] # None /\ A[w][1] = c[1]
          /\ \E w \in s : A[w] # None /\ A[w][2] = c[2]
      BY <1>2, Zenon DEF IsHull
    <2>2. /\ b[1] \in Nat /\ b[2] \in Nat /\ b = <<b[1], b[2]>>
          /\ c[1] \in Nat /\ c[2] \in Nat /\ c = <<c[1], c[2]>>
      BY <2>1, BoundsType
    <2>3. b[1] = c[1]
      BY <2>1, <2>2
    <2>4. b[2] = c[2]
      BY <2>1, <2>2
    <2>. QED
      BY <2>2, <2>3, <2>4
  <1>. QED
    BY <1>1, <1>2

LEMMA MergeHull ==
    ASSUME NEW W, NEW A \in [W -> Bounds \cup {None}], NEW s \in SUBSET W, NEW x \in s,
           NEW b, IsHull(A, b, s \ {x})
    PROVE  IsHull(A, MergeBounds(A[x], b), s)
  <1>. DEFINE m == MergeBounds(A[x], b)
  <1>1. CASE A[x] = None
    <2>1. m = b
      BY <1>1 DEF MergeBounds
    <2>2. \A w \in s : A[w] # None <=> w \in s \ {x} /\ A[w] # None
      BY <1>1
    <2>. HIDE DEF m
    <2>. QED
      BY <2>1, <2>2 DEF IsHull, m
  <1>2. CASE A[x] # None /\ b = None
    <2>1. m = A[x] /\ A[x] \in Bounds
      BY <1>2 DEF MergeBounds
    <2>2. \A w \in s : A[w] # None => w = x
      BY <1>2, BoundsType DEF IsHull
    <2>3. A[x][1] <= A[x][1] /\ A[x][2] <= A[x][2]
      BY <2>1, BoundsType
    <2>. HIDE DEF m
    <2>4. IsHull(A, m, s)
      BY <1>2, <2>1, <2>2, <2>3 DEF IsHull
    <2>. QED
      BY <2>4 DEF m
  <1>3. CASE A[x] # None /\ b # None
    <2>1. /\ b \in Bounds /\ A[x] \in Bounds
          /\ \A w \in s \ {x} : A[w] # None => b[1] <= A[w][1] /\ A[w][2] <= b[2]
          /\ \E w \in s \ {x} : A[w] # None /\ A[w][1] = b[1]
          /\ \E w \in s \ {x} : A[w] # None /\ A[w][2] = b[2]
      BY <1>3 DEF IsHull
    <2>2. /\ b[1] \in Nat /\ b[2] \in Nat /\ b[1] <= b[2]
          /\ A[x][1] \in Nat /\ A[x][2] \in Nat /\ A[x][1] <= A[x][2]
          /\ \A w \in s : A[w] # None => A[w][1] \in Nat /\ A[w][2] \in Nat
      BY <2>1, BoundsType
    <2>3. m = <<IF b[1] < A[x][1] THEN b[1] ELSE A[x][1], IF b[2] > A[x][2] THEN b[2] ELSE A[x][2]>>
      BY <1>3 DEF MergeBounds
    <2>. HIDE DEF m
    <2>4. m \in Bounds /\ m[1] <= b[1] /\ m[1] <= A[x][1] /\ b[2] <= m[2] /\ A[x][2] <= m[2]
          /\ m[1] \in {b[1], A[x][1]} /\ m[2] \in {b[2], A[x][2]}
      BY <2>2, <2>3, BoundsType
    <2>5. \A w \in s : A[w] # None => m[1] <= A[w][1] /\ A[w][2] <= m[2]
      <3>. SUFFICES ASSUME NEW w \in s, A[w] # None
                    PROVE  m[1] <= A[w][1] /\ A[w][2] <= m[2]
        OBVIOUS
      <3>1. m[1] \in Nat /\ m[2] \in Nat
        BY <2>4, BoundsType
      <3>2. CASE w = x
        BY <2>4, <3>2
      <3>3. CASE w # x
        <4>1. b[1] <= A[w][1] /\ A[w][2] <= b[2]
          BY <2>1, <3>3
        <4>. QED
          BY <2>2, <2>4, <3>1, <4>1
      <3>. QED
        BY <3>2, <3>3
    <2>6. /\ \E w \in s : A[w] # None /\ A[w][1] = m[1]
          /\ \E w \in s : A[w] # None /\ A[w][2] = m[2]
      BY <1>3, <2>1, <2>4
    <2>7. IsHull(A, m, s)
      BY <1>3, <2>4, <2>5, <2>6 DEF IsHull
    <2>. QED
      BY <2>7 DEF m
  <1>. QED
    BY <1>1, <1>2, <1>3

(* The function FoldFunction evaluates.                                    *)
IsMerging(A, W, g) ==
    g = [s \in SUBSET W |-> IF s = {} THEN None
                            ELSE LET x == CHOOSE y \in s : TRUE IN MergeBounds(A[x], g[s \ {x}])]

(* Whatever the order the workers' bounds are merged in, the result is     *)
(* their hull.                                                             *)
LEMMA FoldIsHull ==
    ASSUME NEW W, IsFiniteSet(W), NEW A \in [W -> Bounds \cup {None}]
    PROVE  IsHull(A, FoldFunction(MergeBounds, None, A), W)
  <1>0. \A b : IsHull(A, b, {}) <=> b = None
    BY DEF IsHull
  <1>1. FoldFunction(MergeBounds, None, A) = (CHOOSE g : IsMerging(A, W, g))[W]
    <2>1. DOMAIN A = W
      OBVIOUS
    <2>2. FoldFunctionOnSet(MergeBounds, None, A, W) = (CHOOSE g : IsMerging(A, W, g))[W]
      BY Zenon DEF FoldFunctionOnSet, MapThenFoldSet, IsMerging
    <2>. QED
      BY <2>1, <2>2, Zenon DEF FoldFunction
  <1>2. \A s \in SUBSET W : \E b : IsHull(A, b, s)
    <2>. DEFINE Good == {s \in SUBSET W : \E b : IsHull(A, b, s)}
    <2>1. {} \in Good
      BY <1>0
    <2>2. ASSUME NEW s \in SUBSET W, s # {}, \A x \in s : s \ {x} \in Good
          PROVE  s \in Good
      <3>1. PICK x : x \in s
        BY <2>2
      <3>2. PICK b : IsHull(A, b, s \ {x})
        BY <2>2, <3>1
      <3>3. IsHull(A, MergeBounds(A[x], b), s)
        BY <3>1, <3>2, MergeHull
      <3>. QED
        BY <3>3
    <2>. HIDE DEF Good
    <2>3. \A s \in SUBSET W : s \in Good
      BY <2>1, <2>2, SetInduction
    <2>. QED
      BY <2>3 DEF Good
  <1>. DEFINE G == [s \in SUBSET W |-> CHOOSE b : IsHull(A, b, s)]
  <1>3. \A s \in SUBSET W : IsHull(A, G[s], s)
    BY <1>2
  <1>4. IsMerging(A, W, G)
    <2>1. G = [s \in SUBSET W |-> G[s]]
      OBVIOUS
    <2>. HIDE DEF G
    <2>2. ASSUME NEW s \in SUBSET W
          PROVE  G[s] = IF s = {} THEN None
                        ELSE LET x == CHOOSE y \in s : TRUE IN MergeBounds(A[x], G[s \ {x}])
      <3>1. CASE s = {}
        BY <1>0, <1>3, <3>1
      <3>2. CASE s # {}
        <4>. DEFINE x == CHOOSE y \in s : TRUE
        <4>1. x \in s
          BY <3>2
        <4>. HIDE DEF x
        <4>2. IsHull(A, G[s \ {x}], s \ {x}) /\ IsHull(A, G[s], s)
          BY <1>3
        <4>3. IsHull(A, MergeBounds(A[x], G[s \ {x}]), s)
          BY <4>1, <4>2, MergeHull
        <4>4. G[s] = MergeBounds(A[x], G[s \ {x}])
          BY <4>2, <4>3, HullIsOne
        <4>. QED
          BY <3>2, <4>4 DEF x
      <3>. QED
        BY <3>1, <3>2
    <2>. QED
      BY <2>1, <2>2, Zenon DEF IsMerging
  <1>. HIDE DEF G
  <1>. DEFINE H == CHOOSE g : IsMerging(A, W, g)
  <1>5. IsMerging(A, W, H)
    BY <1>4, Zenon
  <1>. HIDE DEF H
  <1>6. ASSUME NEW s \in SUBSET W
        PROVE  /\ s = {} => H[s] = None
               /\ s # {} => \E x \in s : H[s] = MergeBounds(A[x], H[s \ {x}])
    <2>1. H[s] = IF s = {} THEN None
                 ELSE LET x == CHOOSE y \in s : TRUE IN MergeBounds(A[x], H[s \ {x}])
      BY <1>5, Zenon DEF IsMerging
    <2>2. s # {} => (CHOOSE y \in s : TRUE) \in s
      OBVIOUS
    <2>. QED
      BY <2>1, <2>2, Zenon
  <1>7. \A s \in SUBSET W : IsHull(A, H[s], s)
    <2>. DEFINE Good == {s \in SUBSET W : IsHull(A, H[s], s)}
    <2>1. {} \in Good
      BY <1>0, <1>6
    <2>2. ASSUME NEW s \in SUBSET W, s # {}, \A x \in s : s \ {x} \in Good
          PROVE  s \in Good
      <3>1. PICK x \in s : H[s] = MergeBounds(A[x], H[s \ {x}])
        BY <1>6, <2>2
      <3>2. IsHull(A, H[s \ {x}], s \ {x})
        BY <2>2
      <3>. QED
        BY <3>1, <3>2, MergeHull
    <2>. HIDE DEF Good
    <2>3. \A s \in SUBSET W : s \in Good
      BY <2>1, <2>2, SetInduction
    <2>. QED
      BY <2>3 DEF Good
  <1>. QED
    BY <1>1, <1>7 DEF H
-----------------------------------------------------------------------------
(* The nodes of the extract, by block and place.                           *)
LEMMA BlocksType ==
    /\ Len(NodeBlocks) \in Nat /\ DOMAIN NodeBlocks = 1..Len(NodeBlocks)
    /\ \A b \in DOMAIN NodeBlocks :
          /\ Len(NodeBlocks[b]) \in Nat \ {0}
          /\ DOMAIN NodeBlocks[b] = 1..Len(NodeBlocks[b])
          /\ \A p \in DOMAIN NodeBlocks[b] : NodeBlocks[b][p] \in Ids /\ NodeBlocks[b][p] \in Nodes
    /\ \A id \in Nodes : \E b \in DOMAIN NodeBlocks : \E p \in DOMAIN NodeBlocks[b] : NodeBlocks[b][p] = id
  <1>1. NodeBlocks \in Seq(Seq(Ids) \ {<<>>})
    BY NodeCacheAssumption
  <1>2. ASSUME NEW b \in DOMAIN NodeBlocks
        PROVE  NodeBlocks[b] \in Seq(Ids) /\ NodeBlocks[b] # <<>>
    BY <1>1, <1>2
  <1>3. ASSUME NEW s \in Seq(Ids), s # <<>>
        PROVE  Len(s) \in Nat \ {0} /\ DOMAIN s = 1..Len(s) /\ \A p \in DOMAIN s : s[p] \in Ids
    BY <1>3
  <1>4. Len(NodeBlocks) \in Nat /\ DOMAIN NodeBlocks = 1..Len(NodeBlocks)
    BY <1>1
  <1>. QED
    BY <1>2, <1>3, <1>4 DEF Nodes, Range

LEMMA NodesType ==
    /\ Nodes \subseteq Ids
    /\ \A id \in Nodes : Coord[id] \in Nat /\ Coord[id] \in Range(Coord)
    /\ Range(Coord) \subseteq Nat
    /\ Nodes = {} => Range(Coord) = {}
    /\ \A f \in Filters : f \subseteq Ids /\ f \subseteq Nodes
  BY NodeCacheAssumption, BlocksType DEF Range

(* What the bits of a run's filter tell.                                   *)
LEMMA FilterBits ==
    ASSUME filter \in Filters, bits = BitsOf(filter)
    PROVE  /\ bits \in [Words -> SUBSET (0..(WordBits - 1))]
           /\ SetBits = Cardinality(filter) /\ SetBits \in Nat
           /\ \A id \in Ids : HasBit(bits, id) <=> id \in filter
           /\ \A id \in filter : Slot(id) \in 1..SetBits
           /\ \A id, other \in filter : id # other => Slot(id) # Slot(other)
  <1>1. filter \subseteq Ids
    BY NodesType
  <1>2. /\ BitsOf(filter) \in [Words -> SUBSET Bits] /\ Members(BitsOf(filter)) = filter
        /\ \A id \in Ids : HasBit(BitsOf(filter), id) <=> id \in filter
    BY <1>1, BitsOfMembers
  <1>3. /\ Cardinality(filter) \in Nat
        /\ \A id \in filter : Rank(BitsOf(filter), id) + 1 \in 1..Cardinality(filter)
        /\ \A id, other \in filter :
               id # other => Rank(BitsOf(filter), id) + 1 # Rank(BitsOf(filter), other) + 1
    <2>1. \A words \in [Words -> SUBSET Bits] :
             /\ Cardinality(Members(words)) \in Nat
             /\ \A id \in Members(words) : Rank(words, id) + 1 \in 1..Cardinality(Members(words))
             /\ \A id, other \in Members(words) :
                    id # other => Rank(words, id) + 1 # Rank(words, other) + 1
      BY SlotsAreDistinct
    <2>. QED
      BY <1>2, <2>1, Zenon
  <1>. QED
    BY <1>2, <1>3, Zenon DEF SetBits, Slot, Bits

-----------------------------------------------------------------------------
(* The box a file or a run holds is that of the extract.                   *)
BoxOf(b) ==
    IF Nodes = {} THEN b = <<Zero, Zero>>
    ELSE /\ \A id \in Nodes : b[1] <= Coord[id] /\ Coord[id] <= b[2]
         /\ \A end \in Range(b) : end \in Range(Coord)

(* Each referenced node has its coordinate in its slot.                    *)
SlotsAreRight == \A id \in filter : store.slots[Rank(BitsOf(filter), id) + 1] = Coord[id]

(* A node of a block that was handed out is still ahead of the worker that *)
(* took the block, or both its slot and a worker's bounds have it.         *)
Ahead(b, p) == \E w \in Workers : job[w] # None /\ job[w].block = b /\ job[w].node <= p

Stored(id) ==
    /\ id \in filter => store.slots[Rank(BitsOf(filter), id) + 1] = Coord[id]
    /\ \E w \in Workers : acc[w] # None /\ acc[w][1] <= Coord[id] /\ Coord[id] <= acc[w][2]

BitsAreOfTheFilter == phase \notin {"start", "dead"} => bits = BitsOf(filter)

FillIsNew ==
    phase \in {"start", "check", "truncated"} => unread = 1 /\ \A w \in Workers : job[w] = None

StoreIsOpen ==
    phase \in {"fill", "flushed", "save", "use"} => store # None /\ store.length = Length(SetBits)

BoundsAreOfNodes ==
    \A w \in Workers : acc[w] # None => acc[w][1] \in Range(Coord) /\ acc[w][2] \in Range(Coord)

NothingSkipped ==
    phase = "fill" =>
        \A b \in DOMAIN NodeBlocks : \A p \in DOMAIN NodeBlocks[b] :
            b < unread => Ahead(b, p) \/ Stored(NodeBlocks[b][p])

BuiltIsRight ==
    /\ phase \in {"flushed", "save"} => SlotsAreRight
    /\ phase \in {"flushed", "save", "use"} => osmBbox \in Bounds /\ BoxOf(osmBbox)

SavedBoxIsRight == sidecar \in Bounds => BoxOf(sidecar)

NInv ==
    /\ TypeOK
    /\ BitsAreOfTheFilter
    /\ FillIsNew
    /\ StoreIsOpen
    /\ BoundsAreOfNodes
    /\ NothingSkipped
    /\ BuiltIsRight
    /\ SavedBoxIsRight

LEMMA InitNInv == Init => NInv
  <1>. SUFFICES ASSUME Init
                PROVE  NInv
    OBVIOUS
  <1>1. EmptyWords \in [Words -> SUBSET (0..(WordBits - 1))]
    BY DEF EmptyWords
  <1>2. TypeOK
    BY <1>1, NodeCacheAssumption, BlocksType DEF Init, TypeOK
  <1>. QED
    BY <1>2, BoundsType DEF Init, NInv, BitsAreOfTheFilter, FillIsNew, StoreIsOpen, BoundsAreOfNodes,
                NothingSkipped, BuiltIsRight, SavedBoxIsRight

(* The file of an earlier run that may be reused.                          *)
LEMMA ReusableIs ==
    ASSUME TypeOK
    PROVE  Reusable <=> store # None /\ store.length = Length(SetBits) /\ sidecar \in Bounds
  <1>1. \A b \in Bounds : b # None /\ Len(b) = 2
    <2>1. \A m, n : Len(<<m, n>>) = 2
      OBVIOUS
    <2>. QED
      BY <2>1, BoundsType
  <1>2. Len(<<>>) # 2
    OBVIOUS
  <1>. QED
    BY <1>1, <1>2 DEF TypeOK, Reusable

LEMMA StartRunNInv ==
    ASSUME NInv, StartRun
    PROVE  NInv'
  <1>1. EmptyWords \in [Words -> SUBSET (0..(WordBits - 1))]
    BY DEF EmptyWords
  <1>2. TypeOK'
    BY <1>1, NodeCacheAssumption, BlocksType DEF NInv, StartRun, TypeOK, files
  <1>. QED
    BY <1>2 DEF StartRun, files, NInv, BitsAreOfTheFilter, FillIsNew, StoreIsOpen, BoundsAreOfNodes,
                NothingSkipped, BuiltIsRight, SavedBoxIsRight

LEMMA KillNInv ==
    ASSUME NInv, Kill
    PROVE  NInv'
  <1>1. TypeOK'
    BY DEF NInv, Kill, TypeOK, files, fill
  <1>. QED
    BY <1>1 DEF Kill, files, fill, NInv, BitsAreOfTheFilter, FillIsNew, StoreIsOpen, BoundsAreOfNodes,
                NothingSkipped, BuiltIsRight, SavedBoxIsRight

LEMMA BuildBitsetNInv ==
    ASSUME NInv, BuildBitset
    PROVE  NInv'
  <1>1. BitsOf(filter) \in [Words -> SUBSET (0..(WordBits - 1))]
    BY NodesType, BitsOfMembers DEF NInv, TypeOK, Bits
  <1>2. TypeOK'
    BY <1>1 DEF NInv, BuildBitset, TypeOK, files, fill
  <1>. QED
    BY <1>2 DEF BuildBitset, files, fill, NInv, BitsAreOfTheFilter, FillIsNew, StoreIsOpen,
                BoundsAreOfNodes, NothingSkipped, BuiltIsRight, SavedBoxIsRight

LEMMA LengthIsOne ==
    ASSUME NEW m \in Nat
    PROVE  /\ Length(m) \in Nat \ {0}
           /\ \A n \in Nat : Length(m) = Length(n) => m = n
  BY DEF Length, SlotSize

LEMMA ReuseNInv ==
    ASSUME NInv, Reuse
    PROVE  NInv'
  <1>1. /\ store # None /\ store.length = Length(SetBits) /\ sidecar \in Bounds
        /\ osmBbox' = sidecar /\ phase' = "use"
        /\ UNCHANGED <<runs, filter, store, sidecar, bits, unread, job, acc>>
    BY ReusableIs DEF NInv, Reuse, files, fill
  <1>2. SetBits' = SetBits /\ SetBits \in Nat
    BY <1>1, FilterBits DEF Reuse, NInv, TypeOK, BitsAreOfTheFilter, SetBits
  <1>3. Len(store.slots) = SetBits
    <2>1. Len(store.slots) \in Nat /\ store.length \in {0, Length(Len(store.slots))}
      BY <1>1 DEF NInv, TypeOK, Store
    <2>. QED
      BY <1>1, <1>2, <2>1, LengthIsOne
  <1>4. TypeOK'
    BY <1>1, <1>2, <1>3 DEF NInv, TypeOK
  <1>5. BoxOf(osmBbox)'
    BY <1>1 DEF NInv, SavedBoxIsRight, BoxOf
  <1>. QED
    BY <1>1, <1>2, <1>4, <1>5 DEF Reuse, NInv, BitsAreOfTheFilter, FillIsNew, StoreIsOpen,
                BoundsAreOfNodes, NothingSkipped, BuiltIsRight, SavedBoxIsRight

LEMMA TruncateNInv ==
    ASSUME NInv, Truncate
    PROVE  NInv'
  <1>1. store' \in Store /\ store'.length = 0
    <2>1. <<>> \in Seq(Nat)
      OBVIOUS
    <2>. QED
      BY <2>1 DEF Truncate, Store
  <1>2. TypeOK'
    BY <1>1 DEF NInv, Truncate, TypeOK, fill
  <1>. QED
    BY <1>2 DEF Truncate, fill, NInv, BitsAreOfTheFilter, FillIsNew, StoreIsOpen, BoundsAreOfNodes,
                NothingSkipped, BuiltIsRight, SavedBoxIsRight

LEMMA SetLenNInv ==
    ASSUME NInv, SetLen
    PROVE  NInv'
  <1>1. SetBits \in Nat /\ SetBits' = SetBits
    BY FilterBits DEF SetLen, NInv, TypeOK, BitsAreOfTheFilter, SetBits
  <1>. DEFINE slots == [i \in 1..SetBits |-> Zero]
  <1>2. slots \in Seq(Nat) /\ Len(slots) = SetBits
    BY <1>1 DEF Zero
  <1>. HIDE DEF slots
  <1>3. store' = [length |-> Length(SetBits), slots |-> slots]
    BY DEF SetLen, slots
  <1>4. store' \in Store /\ store' # None /\ store'.length = Length(SetBits) /\ Len(store'.slots) = SetBits
    BY <1>1, <1>2, <1>3, LengthIsOne, NodeCacheAssumption DEF Store
  <1>5. TypeOK'
    BY <1>1, <1>4 DEF NInv, SetLen, TypeOK, fill
  <1>6. StoreIsOpen' /\ NothingSkipped'
    BY <1>1, <1>4, BlocksType DEF SetLen, fill, NInv, FillIsNew, StoreIsOpen, NothingSkipped
  <1>. QED
    BY <1>5, <1>6 DEF SetLen, fill, NInv, BitsAreOfTheFilter, FillIsNew, BoundsAreOfNodes,
                BuiltIsRight, SavedBoxIsRight
LEMMA TakeBlockNInv ==
    ASSUME NInv, NEW w \in Workers, TakeBlock(w)
    PROVE  NInv'
  <1>. DEFINE new == [block |-> unread, node |-> 1]
  <1>1. /\ phase = "fill" /\ job[w] = None /\ unread \in DOMAIN NodeBlocks /\ unread' = unread + 1
        /\ job' = [job EXCEPT ![w] = new]
        /\ UNCHANGED <<runs, phase, filter, store, sidecar, bits, acc, osmBbox>>
    BY BlocksType DEF TakeBlock, files, NInv, TypeOK
  <1>2. /\ new \in Job /\ new # None /\ new.block = unread /\ new.node = 1
        /\ new.block \in DOMAIN NodeBlocks /\ new.node \in DOMAIN NodeBlocks[new.block]
    BY <1>1, BlocksType, NodeCacheAssumption DEF Job
  <1>. HIDE DEF new
  <1>3. job'[w] = new /\ \A v \in Workers : v # w => job'[v] = job[v]
    BY <1>1 DEF NInv, TypeOK
  <1>4. TypeOK'
    <2>1. job' \in [Workers -> Job \cup {None}]
      BY <1>1, <1>2 DEF NInv, TypeOK
    <2>2. unread' \in 1..(Len(NodeBlocks) + 1)
      BY <1>1, BlocksType
    <2>3. SetBits' = SetBits
      BY <1>1 DEF SetBits
    <2>4. \A v \in Workers : job'[v] # None =>
             job'[v].block \in DOMAIN NodeBlocks /\ job'[v].node \in DOMAIN NodeBlocks[job'[v].block]
      BY <1>2, <1>3 DEF NInv, TypeOK
    <2>. QED
      BY <1>1, <2>1, <2>2, <2>3, <2>4 DEF NInv, TypeOK
  <1>5. NothingSkipped'
    <2>. SUFFICES ASSUME NEW b \in DOMAIN NodeBlocks, NEW p \in DOMAIN NodeBlocks[b], b < unread + 1
                  PROVE  Ahead(b, p)' \/ Stored(NodeBlocks[b][p])'
      BY <1>1 DEF NothingSkipped
    <2>1. CASE b = unread
      <3>1. 1 <= p
        BY BlocksType
      <3>. QED
        BY <1>2, <1>3, <2>1, <3>1 DEF Ahead
    <2>2. CASE b # unread
      <3>1. Ahead(b, p) \/ Stored(NodeBlocks[b][p])
        BY <1>1, <2>2, BlocksType DEF NInv, TypeOK, NothingSkipped
      <3>2. Ahead(b, p) => Ahead(b, p)'
        BY <1>1, <1>3 DEF Ahead
      <3>3. Stored(NodeBlocks[b][p]) => Stored(NodeBlocks[b][p])'
        BY <1>1 DEF Stored
      <3>. QED
        BY <3>1, <3>2, <3>3
    <2>. QED
      BY <2>1, <2>2
  <1>6. SetBits' = SetBits
    BY <1>1 DEF SetBits
  <1>. QED
    BY <1>1, <1>4, <1>5, <1>6 DEF NInv, BitsAreOfTheFilter, FillIsNew, StoreIsOpen, BoundsAreOfNodes,
                BuiltIsRight, SavedBoxIsRight

(* fold_bounds widens bounds to a coordinate.                              *)
LEMMA FoldWidens ==
    ASSUME NEW a \in Bounds \cup {None}, NEW c \in Nat
    PROVE  LET d == FoldBounds(a, c) IN
           /\ d \in Bounds /\ d # None
           /\ d[1] <= c /\ c <= d[2]
           /\ a # None => d[1] <= a[1] /\ a[2] <= d[2]
           /\ a = None => d[1] = c /\ d[2] = c
           /\ a # None => d[1] \in {a[1], c} /\ d[2] \in {a[2], c}
  <1>. DEFINE d == FoldBounds(a, c)
  <1>1. CASE a = None
    <2>1. d = <<c, c>>
      BY <1>1 DEF FoldBounds
    <2>. QED
      BY <1>1, <2>1, BoundsType
  <1>2. CASE a # None
    <2>1. a[1] \in Nat /\ a[2] \in Nat /\ a[1] <= a[2]
      BY <1>2, BoundsType
    <2>2. d = <<IF c < a[1] THEN c ELSE a[1], IF c > a[2] THEN c ELSE a[2]>>
      BY <1>2 DEF FoldBounds
    <2>. HIDE DEF d
    <2>3. d \in Bounds
      BY <2>1, <2>2, BoundsType
    <2>4. /\ d[1] <= c /\ c <= d[2] /\ d[1] <= a[1] /\ a[2] <= d[2]
          /\ d[1] \in {a[1], c} /\ d[2] \in {a[2], c}
      BY <2>1, <2>2
    <2>. QED
      BY <1>2, <2>3, <2>4, BoundsType DEF d
  <1>. QED
    BY <1>1, <1>2

LEMMA StoreNodeNInv ==
    ASSUME NInv, NEW w \in Workers, StoreNode(w)
    PROVE  NInv'
  <1>0. PICK id : id = NodeBlocks[job[w].block][job[w].node]
    OBVIOUS
  <1>. DEFINE at    == job[w]
              block == NodeBlocks[at.block]
              next  == IF at.node < Len(block) THEN [at EXCEPT !.node = @ + 1] ELSE None
              grown == FoldBounds(acc[w], Coord[id])
  <1>1. /\ phase = "fill" /\ at # None
        /\ store' = IF HasBit(bits, id) THEN [store EXCEPT !.slots[Slot(id)] = Coord[id]] ELSE store
        /\ acc' = [acc EXCEPT ![w] = grown]
        /\ job' = [job EXCEPT ![w] = next]
        /\ UNCHANGED <<runs, phase, filter, sidecar, bits, unread, osmBbox>>
    <2>1. /\ store' = IF HasBit(bits, id) THEN [store EXCEPT !.slots[Slot(id)] = Coord[id]] ELSE store
          /\ acc' = [acc EXCEPT ![w] = FoldBounds(@, Coord[id])]
      BY <1>0, Zenon DEF StoreNode
    <2>2. job' = [job EXCEPT ![w] = next]
      BY Zenon DEF StoreNode
    <2>. QED
      BY <2>1, <2>2 DEF StoreNode
  <1>2. /\ at \in Job /\ at.block \in DOMAIN NodeBlocks /\ at.node \in DOMAIN block
        /\ Len(block) \in Nat \ {0} /\ DOMAIN block = 1..Len(block)
        /\ id \in Ids /\ id \in Nodes /\ Coord[id] \in Nat /\ Coord[id] \in Range(Coord)
    BY <1>0, <1>1, BlocksType, NodesType DEF NInv, TypeOK
  <1>3. /\ filter \in Filters /\ bits = BitsOf(filter) /\ filter \subseteq Ids
        /\ SetBits \in Nat /\ SetBits' = SetBits
        /\ \A n \in Ids : HasBit(bits, n) <=> n \in filter
        /\ \A n \in filter : Slot(n) \in 1..SetBits
        /\ \A n, m \in filter : n # m => Slot(n) # Slot(m)
    BY <1>1, NodesType, FilterBits DEF NInv, TypeOK, BitsAreOfTheFilter, SetBits
  <1>4. /\ store \in Store /\ store # None /\ Len(store.slots) = SetBits
        /\ store.slots \in [1..SetBits -> Nat] /\ store.length = Length(SetBits)
    <2>1. store \in Store /\ store # None /\ Len(store.slots) = SetBits /\ store.length = Length(SetBits)
      BY <1>1 DEF NInv, TypeOK, StoreIsOpen
    <2>2. store.slots \in Seq(Nat)
      BY <2>1 DEF Store
    <2>3. \A q \in Seq(Nat) : q \in [1..Len(q) -> Nat]
      OBVIOUS
    <2>. QED
      BY <2>1, <2>2, <2>3
  <1>5. /\ store' \in Store /\ store' # None /\ Len(store'.slots) = SetBits
        /\ store'.length = Length(SetBits)
        /\ id \in filter => store'.slots[Slot(id)] = Coord[id]
        /\ \A n \in filter : n # id => store'.slots[Slot(n)] = store.slots[Slot(n)]
    <2>1. CASE id \in filter
      <3>. DEFINE k == Slot(id)
                  q == [store.slots EXCEPT ![k] = Coord[id]]
      <3>1. HasBit(bits, id) /\ k \in 1..SetBits
        BY <1>2, <1>3, <2>1
      <3>2. store' = [store EXCEPT !.slots[k] = Coord[id]]
        BY <1>1, <3>1, Zenon
      <3>. HIDE DEF k
      <3>3. q \in [1..SetBits -> Nat] /\ q[k] = Coord[id] /\ \A j \in 1..SetBits : j # k => q[j] = store.slots[j]
        BY <1>2, <1>4, <3>1
      <3>4. q \in Seq(Nat) /\ Len(q) = SetBits
        <4>. HIDE DEF q
        <4>. QED
          BY <1>3, <3>3
      <3>5. store' = [store EXCEPT !.slots = q]
        BY <3>2
      <3>. HIDE DEF q
      <3>6. store' \in Store /\ store'.slots = q /\ store'.length = store.length
        BY <1>4, <3>4, <3>5 DEF Store
      <3>7. \A n \in filter : n # id => Slot(n) \in 1..SetBits /\ Slot(n) # k
        BY <1>3, <2>1 DEF k
      <3>8. store' # None
        BY <3>6, NodeCacheAssumption
      <3>. QED
        BY <1>4, <2>1, <3>3, <3>4, <3>6, <3>7, <3>8 DEF k
    <2>2. CASE id \notin filter
      <3>1. store' = store
        BY <1>1, <1>2, <1>3, <2>2
      <3>. QED
        BY <1>4, <2>2, <3>1
    <2>. QED
      BY <2>1, <2>2
  <1>6. /\ acc'[w] = grown /\ \A v \in Workers : v # w => acc'[v] = acc[v]
        /\ job'[w] = next /\ \A v \in Workers : v # w => job'[v] = job[v]
    BY <1>1 DEF NInv, TypeOK
  <1>7. acc[w] \in Bounds \cup {None}
    BY DEF NInv, TypeOK
  <1>8. /\ grown \in Bounds /\ grown # None
        /\ grown[1] <= Coord[id] /\ Coord[id] <= grown[2]
        /\ acc[w] # None => grown[1] <= acc[w][1] /\ acc[w][2] <= grown[2]
        /\ acc[w] = None => grown[1] = Coord[id] /\ grown[2] = Coord[id]
        /\ acc[w] # None => grown[1] \in {acc[w][1], Coord[id]} /\ grown[2] \in {acc[w][2], Coord[id]}
    BY <1>2, <1>7, FoldWidens
  <1>. HIDE DEF grown
  <1>9. next # None => /\ at.node < Len(block) /\ next \in Job
                       /\ next.block = at.block /\ next.node = at.node + 1
    BY <1>2 DEF Job
  <1>10. next = None => at.node = Len(block)
    <2>1. CASE at.node < Len(block)
      <3>1. next = [at EXCEPT !.node = @ + 1]
        BY <2>1
      <3>2. next \in Job
        BY <1>2, <3>1 DEF Job
      <3>. QED
        BY <3>2, NodeCacheAssumption
    <2>2. CASE ~(at.node < Len(block))
      BY <1>2, <2>2 DEF Job
    <2>. QED
      BY <2>1, <2>2
  <1>. HIDE DEF next
  <1>11. TypeOK'
    <2>1. job' \in [Workers -> Job \cup {None}]
      BY <1>1, <1>9 DEF NInv, TypeOK
    <2>2. \A v \in Workers : job'[v] # None =>
             job'[v].block \in DOMAIN NodeBlocks /\ job'[v].node \in DOMAIN NodeBlocks[job'[v].block]
      <3>. SUFFICES ASSUME NEW v \in Workers, job'[v] # None
                    PROVE  job'[v].block \in DOMAIN NodeBlocks /\ job'[v].node \in DOMAIN NodeBlocks[job'[v].block]
        OBVIOUS
      <3>1. CASE v = w
        <4>1. next # None /\ at.node + 1 \in 1..Len(block)
          BY <1>2, <1>6, <1>9, <3>1
        <4>2. next.block = at.block /\ next.node \in DOMAIN NodeBlocks[at.block]
          BY <1>2, <1>9, <4>1
        <4>. QED
          BY <1>2, <1>6, <3>1, <4>2
      <3>2. CASE v # w
        BY <1>6, <3>2 DEF NInv, TypeOK
      <3>. QED
        BY <3>1, <3>2
    <2>3. acc' \in [Workers -> Bounds \cup {None}]
      BY <1>1, <1>8 DEF NInv, TypeOK
    <2>4. store'.length \in {0, Length(Len(store'.slots))}
      BY <1>5
    <2>. QED
      BY <1>1, <1>3, <1>5, <2>1, <2>2, <2>3, <2>4 DEF NInv, TypeOK
  <1>12. BoundsAreOfNodes'
    <2>. SUFFICES ASSUME NEW v \in Workers, acc'[v] # None
                  PROVE  acc'[v][1] \in Range(Coord) /\ acc'[v][2] \in Range(Coord)
      BY DEF BoundsAreOfNodes
    <2>1. CASE v = w
      BY <1>2, <1>6, <1>8, <2>1 DEF NInv, BoundsAreOfNodes
    <2>2. CASE v # w
      BY <1>6, <2>2 DEF NInv, BoundsAreOfNodes
    <2>. QED
      BY <2>1, <2>2
  <1>13. \A n \in filter : Slot(n) = Rank(BitsOf(filter), n) + 1
    BY <1>3 DEF Slot
  <1>14. Stored(id)'
    BY <1>1, <1>5, <1>6, <1>8, <1>13 DEF Stored
  <1>15. ASSUME NEW n \in Nodes, Stored(n)
         PROVE  Stored(n)'
    <2>1. n \in filter => store'.slots[Slot(n)] = Coord[n]
      BY <1>5, <1>13, <1>15 DEF Stored
    <2>2. PICK v \in Workers : acc[v] # None /\ acc[v][1] <= Coord[n] /\ Coord[n] <= acc[v][2]
      BY <1>15 DEF Stored
    <2>3. acc'[v] # None /\ acc'[v][1] <= Coord[n] /\ Coord[n] <= acc'[v][2]
      <3>1. CASE v = w
        <4>1. /\ grown[1] \in Nat /\ grown[2] \in Nat /\ acc[w][1] \in Nat /\ acc[w][2] \in Nat
              /\ Coord[n] \in Nat
          BY <1>7, <1>8, <2>2, <3>1, BoundsType, NodesType
        <4>. QED
          BY <1>6, <1>8, <2>2, <3>1, <4>1
      <3>2. CASE v # w
        BY <1>6, <2>2, <3>2
      <3>. QED
        BY <3>1, <3>2
    <2>. QED
      BY <1>1, <1>13, <2>1, <2>3 DEF Stored
  <1>16. NothingSkipped'
    <2>. SUFFICES ASSUME NEW b \in DOMAIN NodeBlocks, NEW p \in DOMAIN NodeBlocks[b], b < unread
                  PROVE  Ahead(b, p)' \/ Stored(NodeBlocks[b][p])'
      BY <1>1 DEF NothingSkipped
    <2>1. CASE Stored(NodeBlocks[b][p])
      BY <1>15, <2>1, BlocksType
    <2>2. CASE Ahead(b, p)
      <3>1. PICK v \in Workers : job[v] # None /\ job[v].block = b /\ job[v].node <= p
        BY <2>2 DEF Ahead
      <3>2. CASE v # w
        BY <1>6, <3>1, <3>2 DEF Ahead
      <3>3. CASE v = w /\ at.node = p
        BY <1>0, <1>14, <3>1, <3>3
      <3>4. CASE v = w /\ at.node # p
        <4>1. p \in 1..Len(block) /\ at.node < p /\ at.node \in Nat
          BY <1>2, <3>1, <3>4
        <4>2. next # None /\ next.block = b /\ next.node <= p
          BY <1>2, <1>9, <1>10, <3>1, <3>4, <4>1
        <4>. QED
          BY <1>6, <4>2 DEF Ahead
      <3>. QED
        BY <3>2, <3>3, <3>4
    <2>. QED
      BY <1>1, <2>1, <2>2 DEF NInv, NothingSkipped
  <1>. QED
    BY <1>1, <1>3, <1>5, <1>11, <1>12, <1>16 DEF NInv, BitsAreOfTheFilter, FillIsNew, StoreIsOpen,
                BuiltIsRight, SavedBoxIsRight
LEMMA FlushNInv ==
    ASSUME NInv, Flush
    PROVE  NInv'
  <1>. DEFINE hull == FoldFunction(MergeBounds, None, acc)
  <1>1. /\ phase = "fill" /\ phase' = "flushed" /\ unread > Len(NodeBlocks)
        /\ \A w \in Workers : job[w] = None
        /\ osmBbox' = IF hull = None THEN <<Zero, Zero>> ELSE hull
        /\ UNCHANGED <<runs, filter, store, sidecar, bits, unread, job, acc>>
    BY DEF Flush, files, fill
  <1>2. acc \in [Workers -> Bounds \cup {None}] /\ IsHull(acc, hull, Workers)
    <2>1. \A A \in [Workers -> Bounds \cup {None}] :
              IsHull(A, FoldFunction(MergeBounds, None, A), Workers)
      BY NodeCacheAssumption, FoldIsHull
    <2>2. acc \in [Workers -> Bounds \cup {None}]
      BY DEF NInv, TypeOK
    <2>. QED
      BY <2>1, <2>2, Zenon
  <1>. HIDE DEF hull
  <1>3. \A id \in Nodes : Stored(id)
    <2>. SUFFICES ASSUME NEW b \in DOMAIN NodeBlocks, NEW p \in DOMAIN NodeBlocks[b]
                  PROVE  Stored(NodeBlocks[b][p])
      BY BlocksType
    <2>1. b < unread
      BY <1>1, BlocksType DEF NInv, TypeOK
    <2>. QED
      BY <1>1, <2>1 DEF NInv, NothingSkipped, Ahead
  <1>4. SlotsAreRight
    BY <1>3, NodesType DEF NInv, TypeOK, Stored, SlotsAreRight
  <1>5. osmBbox' \in Bounds /\ BoxOf(osmBbox')
    <2>1. CASE Nodes = {}
      <3>1. \A w \in Workers : acc[w] = None
        BY <2>1, NodesType DEF NInv, BoundsAreOfNodes
      <3>2. osmBbox' = <<Zero, Zero>>
        BY <1>1, <1>2, <3>1 DEF IsHull
      <3>. QED
        BY <2>1, <3>2, BoundsType DEF BoxOf, Zero
    <2>2. CASE Nodes # {}
      <3>1. ~(\A w \in Workers : acc[w] = None)
        BY <1>3, <2>2 DEF Stored
      <3>2. /\ hull \in Bounds
            /\ \A w \in Workers : acc[w] # None => hull[1] <= acc[w][1] /\ acc[w][2] <= hull[2]
            /\ \E w \in Workers : acc[w] # None /\ acc[w][1] = hull[1]
            /\ \E w \in Workers : acc[w] # None /\ acc[w][2] = hull[2]
        BY <1>2, <3>1, Zenon DEF IsHull
      <3>3. osmBbox' = hull
        BY <1>1, <3>2, BoundsType
      <3>4. hull[1] \in Range(Coord) /\ hull[2] \in Range(Coord)
        BY <3>2 DEF NInv, BoundsAreOfNodes
      <3>5. \A end \in Range(hull) : end \in Range(Coord)
        <4>1. hull = <<hull[1], hull[2]>>
          BY <3>2, BoundsType
        <4>2. \A m, n : Range(<<m, n>>) = {m, n}
          BY DEF Range
        <4>. QED
          BY <3>4, <4>1, <4>2
      <3>6. ASSUME NEW id \in Nodes
            PROVE  hull[1] <= Coord[id] /\ Coord[id] <= hull[2]
        <4>1. PICK w \in Workers : acc[w] # None /\ acc[w][1] <= Coord[id] /\ Coord[id] <= acc[w][2]
          BY <1>3 DEF Stored
        <4>2. /\ hull[1] <= acc[w][1] /\ acc[w][2] <= hull[2]
              /\ hull[1] \in Nat /\ hull[2] \in Nat /\ acc[w][1] \in Nat /\ acc[w][2] \in Nat
              /\ Coord[id] \in Nat
          BY <1>2, <3>2, <4>1, BoundsType, NodesType
        <4>. QED
          BY <4>1, <4>2
      <3>. QED
        BY <2>2, <3>2, <3>3, <3>5, <3>6 DEF BoxOf
    <2>. QED
      BY <2>1, <2>2
  <1>6. SetBits' = SetBits /\ SlotsAreRight'
    BY <1>1, <1>4 DEF SetBits, SlotsAreRight
  <1>7. TypeOK'
    BY <1>1, <1>5, <1>6 DEF NInv, TypeOK
  <1>. QED
    BY <1>1, <1>5, <1>6, <1>7 DEF NInv, BitsAreOfTheFilter, FillIsNew, StoreIsOpen, BoundsAreOfNodes,
                NothingSkipped, BuiltIsRight, SavedBoxIsRight, BoxOf

LEMMA SaveNInv ==
    ASSUME NInv, TruncateBbox \/ WriteBbox
    PROVE  NInv'
  <1>1. /\ phase \in {"flushed", "save"} /\ phase' \in {"save", "use"} /\ sidecar' \in {<<>>, osmBbox}
        /\ UNCHANGED <<runs, filter, store, bits, unread, job, acc, osmBbox>>
    BY DEF TruncateBbox, WriteBbox, fill
  <1>2. osmBbox \in Bounds /\ BoxOf(osmBbox) /\ SlotsAreRight
    BY <1>1 DEF NInv, BuiltIsRight
  <1>3. SetBits' = SetBits /\ SlotsAreRight' /\ BoxOf(osmBbox)'
    BY <1>1, <1>2 DEF SetBits, SlotsAreRight, BoxOf
  <1>4. <<>> \notin Bounds
    <2>1. \A m, n : <<>> # <<m, n>>
      OBVIOUS
    <2>. QED
      BY <2>1, BoundsType
  <1>5. TypeOK'
    BY <1>1, <1>2, <1>3 DEF NInv, TypeOK
  <1>6. SavedBoxIsRight'
    BY <1>1, <1>2, <1>4 DEF SavedBoxIsRight, BoxOf
  <1>. QED
    BY <1>1, <1>2, <1>3, <1>5, <1>6 DEF NInv, BitsAreOfTheFilter, FillIsNew, StoreIsOpen,
                BoundsAreOfNodes, NothingSkipped, BuiltIsRight

LEMMA NextNInv == NInv /\ [Next]_vars => NInv'
  <1>. SUFFICES ASSUME NInv, UNCHANGED vars
                PROVE  NInv'
    BY StartRunNInv, KillNInv, BuildBitsetNInv, ReuseNInv, TruncateNInv, SetLenNInv, TakeBlockNInv,
       StoreNodeNInv, FlushNInv, SaveNInv DEF Next, Main, Work
  <1>1. UNCHANGED <<runs, phase, filter, store, sidecar, bits, unread, job, acc, osmBbox>>
    BY DEF vars, files, fill
  <1>2. SetBits' = SetBits
    BY <1>1 DEF SetBits
  <1>3. TypeOK'
    BY <1>1, <1>2 DEF NInv, TypeOK
  <1>4. NothingSkipped'
    BY <1>1 DEF NInv, NothingSkipped, Ahead, Stored
  <1>. QED
    BY <1>1, <1>2, <1>3, <1>4 DEF NInv, BitsAreOfTheFilter, FillIsNew, StoreIsOpen, BoundsAreOfNodes,
                BuiltIsRight, SavedBoxIsRight, SlotsAreRight, BoxOf

LEMMA NInvHolds == Spec => []NInv
  BY InitNInv, NextNInv, PTL DEF Spec

(* Every variable keeps its type; a map that is filled or used has a slot  *)
(* for each set bit, also one reused by its length alone.                  *)
THEOREM NodeCacheTypes == Spec => []TypeOK
  <1>1. NInv => TypeOK
    BY DEF NInv
  <1>. QED
    BY <1>1, NInvHolds, PTL

(* The bounds main goes on with are those of the extract's nodes, however  *)
(* the workers share the blocks, in whatever order their bounds are        *)
(* merged, whatever was killed before, and for any change of the filter.   *)
THEOREM BoundsAreRight == Spec => []BboxIsRight
  <1>1. NInv => BboxIsRight
    BY DEF NInv, BuiltIsRight, BboxIsRight, BoxOf
  <1>. QED
    BY <1>1, NInvHolds, PTL

-----------------------------------------------------------------------------
(* While the filter stays, a sidecar that can be read vouches for the      *)
(* store: it is written after the store is complete, and the store is only *)
(* truncated when there is none.                                           *)
SidecarVouches ==
    /\ sidecar \in Bounds =>
          store # None /\ store.length = Length(Cardinality(filter)) /\ SlotsAreRight
    /\ phase \in {"truncated", "fill", "flushed", "save"} => sidecar \notin Bounds
    /\ phase = "use" => SlotsAreRight

LEMMA NextVouches ==
    ASSUME FilterMayChange = FALSE
    PROVE  NInv /\ SidecarVouches /\ [Next]_vars => SidecarVouches'
  <1>. SUFFICES ASSUME NInv, SidecarVouches, [Next]_vars
                PROVE  SidecarVouches'
    OBVIOUS
  <1>1. filter' = filter
    BY DEF Next, Main, Work, StartRun, Kill, BuildBitset, Reuse, Truncate, SetLen, TakeBlock, StoreNode,
           Flush, TruncateBbox, WriteBbox, vars
  <1>2. CASE UNCHANGED <<store, sidecar>> /\ phase' \notin {"truncated", "use"}
             /\ (phase' \in {"fill", "flushed", "save"} =>
                    phase \in {"truncated", "fill", "flushed", "save"})
    BY <1>1, <1>2 DEF SidecarVouches, SlotsAreRight
  <1>3. CASE Reuse
    <2>1. sidecar \in Bounds
      BY <1>3, ReusableIs DEF NInv, Reuse
    <2>. QED
      BY <1>1, <1>3, <2>1 DEF SidecarVouches, SlotsAreRight, Reuse, files
  <1>4. CASE Truncate
    <2>1. SetBits = Cardinality(filter)
      BY <1>4, FilterBits DEF Truncate, NInv, TypeOK, BitsAreOfTheFilter
    <2>2. sidecar \notin Bounds
      BY <1>4, <2>1, ReusableIs DEF NInv, SidecarVouches, Truncate
    <2>. QED
      BY <1>4, <2>2 DEF SidecarVouches, Truncate
  <1>5. CASE SetLen \/ \E w \in Workers : StoreNode(w)
    <2>1. /\ phase \in {"truncated", "fill"} /\ phase' = "fill" /\ UNCHANGED sidecar
      BY <1>5 DEF SetLen, StoreNode
    <2>. QED
      BY <2>1 DEF SidecarVouches
  <1>6. CASE TruncateBbox
    <2>1. <<>> \notin Bounds
      <3>1. \A m, n : <<>> # <<m, n>>
        OBVIOUS
      <3>. QED
        BY <3>1, BoundsType
    <2>. QED
      BY <1>6, <2>1 DEF SidecarVouches, TruncateBbox
  <1>7. CASE WriteBbox
    <2>1. store # None /\ store.length = Length(SetBits) /\ SlotsAreRight
      BY <1>7 DEF WriteBbox, NInv, StoreIsOpen, BuiltIsRight
    <2>2. SetBits = Cardinality(filter)
      BY <1>7, FilterBits DEF WriteBbox, NInv, TypeOK, BitsAreOfTheFilter
    <2>3. UNCHANGED <<store, filter>> /\ phase' = "use"
      BY <1>7 DEF WriteBbox
    <2>. QED
      BY <2>1, <2>2, <2>3 DEF SidecarVouches, SlotsAreRight
  <1>8. CASE UNCHANGED vars
    BY <1>8 DEF vars, files, SidecarVouches, SlotsAreRight
  <1>9. CASE StartRun \/ Kill \/ BuildBitset \/ Flush \/ \E w \in Workers : TakeBlock(w)
    BY <1>2, <1>9 DEF StartRun, Kill, BuildBitset, Flush, TakeBlock, files
  <1>. QED
    BY <1>3, <1>4, <1>5, <1>6, <1>7, <1>8, <1>9 DEF Next, Main, Work

(* Built or reused, the store main goes on with has the coordinate of each *)
(* referenced node and of no other, over any number of runs killed at any  *)
(* point (node_cache.rs, store.rs), as long as the runs share one filter:  *)
(* with another one of as many nodes the store is taken for its own.       *)
THEOREM StoreStaysRight ==
    ASSUME FilterMayChange = FALSE
    PROVE  Spec => []StoreIsRight
  <1>1. Init => SidecarVouches
    BY BoundsType DEF Init, SidecarVouches
  <1>2. NInv /\ SidecarVouches => StoreIsRight
    <2>. SUFFICES ASSUME NInv, SidecarVouches, phase = "use", NEW id \in Ids
                  PROVE  Get(id) = IF id \in filter THEN Coord[id] ELSE None
      BY DEF StoreIsRight
    <2>1. bits = BitsOf(filter) /\ (HasBit(bits, id) <=> id \in filter)
      BY FilterBits DEF NInv, TypeOK, BitsAreOfTheFilter
    <2>. QED
      BY <2>1 DEF SidecarVouches, SlotsAreRight, Get, Slot
  <1>3. NInv /\ SidecarVouches /\ [Next]_vars => SidecarVouches'
    BY NextVouches
  <1>. QED
    BY <1>1, <1>2, <1>3, NInvHolds, PTL DEF Spec
=============================================================================
