---------------------------- MODULE ExtractProofs ----------------------------
(***************************************************************************)
(* Theorems of Extract and of the modules it is made of, for every extract *)
(* and every split of it into blocks, with their proofs:                   *)
(*   RoadConnectivity: the shared nodes are found without a lock, and the  *)
(*     passes around that one leave it the machine it is (ExtractConnects);*)
(*   Multipolygon: every fragment that can be is stitched into a ring      *)
(*     (RingsAreWhole);                                                    *)
(*   Strokes: the strokes are the lines they are chained of                *)
(*     (ChainsAreWhole);                                                   *)
(*   Classifier: the coarse filters keep whatever is classified or claimed *)
(*     (FilterKeepsWays, FilterKeepsRelations);                            *)
(*   the passes: what is drawn has its nodes stored (NodesAreKept).        *)
(***************************************************************************)
EXTENDS Extract, BitSetProofs, SequenceTheorems

-----------------------------------------------------------------------------
(* RoadConnectivity.                                                       *)

(* A road reference names a block, a way of it and a position in its refs. *)
IsRoadRef(b, w, i) ==
    /\ w <= Len(Ways[b])
    /\ Ways[b][w].road
    /\ i <= Len(Ways[b][w].refs)

LEMMA WaysType ==
    ASSUME NEW b \in Blocks
    PROVE  /\ Len(Ways[b]) \in Nat
           /\ \A w \in 1..Len(Ways[b]) :
                  /\ Ways[b][w] \in Way
                  /\ Ways[b][w].road \in BOOLEAN
                  /\ Len(Ways[b][w].refs) \in Nat
                  /\ \A i \in 1..Len(Ways[b][w].refs) : Ways[b][w].refs[i] \in Ids
  <1>1. Ways[b] \in Seq(Way)
    BY WaysAssumption
  <1>2. ASSUME NEW w \in 1..Len(Ways[b])
        PROVE  /\ Ways[b][w] \in Way
               /\ Ways[b][w].refs \in Seq(Ids)
               /\ Ways[b][w].road \in BOOLEAN
    <2>1. Ways[b][w] \in Way
      BY <1>1, <1>2
    <2>. QED
      BY <2>1 DEF Way
  <1>. QED
    BY <1>1, <1>2

LEMMA RoadRefParts ==
    ASSUME NEW r
    PROVE  r \in RoadRefs <=>
              \E b \in Blocks, w \in Nat \ {0}, i \in Nat \ {0} :
                  IsRoadRef(b, w, i) /\ r = <<b, w, i>>
  <1>1. r \in RoadRefs <=>
            \E b \in Blocks : \E w \in 1..Len(Ways[b]) :
                Ways[b][w].road /\ \E i \in 1..Len(Ways[b][w].refs) : r = <<b, w, i>>
    BY DEF RoadRefs
  <1>2. ASSUME r \in RoadRefs
        PROVE  \E b \in Blocks, w \in Nat \ {0}, i \in Nat \ {0} :
                   IsRoadRef(b, w, i) /\ r = <<b, w, i>>
    BY <1>1, <1>2, WaysType DEF IsRoadRef
  <1>3. ASSUME NEW b \in Blocks, NEW w \in Nat \ {0}, NEW i \in Nat \ {0},
               IsRoadRef(b, w, i), r = <<b, w, i>>
        PROVE  r \in RoadRefs
    <2>1. w \in 1..Len(Ways[b])
      BY <1>3, WaysType DEF IsRoadRef
    <2>2. i \in 1..Len(Ways[b][w].refs)
      BY <1>3, <2>1, WaysType DEF IsRoadRef
    <2>. QED
      BY <1>1, <1>3, <2>1, <2>2 DEF IsRoadRef
  <1>. QED
    BY <1>2, <1>3

-----------------------------------------------------------------------------
(* The block stands at a road reference whenever a second step is due, and *)
(* that reference has been seen before.                                    *)
AtRoadRef(b) ==
    /\ way[b] <= Len(Ways[b])
    /\ IsRoad(b)
    /\ ref[b] <= Len(Ways[b][way[b]].refs)

PendingIsTwice == \A b \in Blocks : again[b] => AtRoadRef(b) /\ TwiceTested(Node(b))

(* The first bitset holds the nodes of the tested references.              *)
SeenExact ==
    \A n \in Ids : HasBit(seen, n) <=> \E r \in RoadRefs : Tested(r) /\ NodeAt(r) = n

IInv == TypeOK /\ PendingIsTwice /\ SeenExact /\ SharedMeansTwice

(* The reference a block stands at.                                        *)
Current(b) == <<b, way[b], ref[b]>>

LEMMA CurrentIsRoadRef ==
    ASSUME TypeOK, NEW b \in Blocks, AtRoadRef(b)
    PROVE  Current(b) \in RoadRefs /\ NodeAt(Current(b)) = Node(b) /\ Node(b) \in Ids
  <1>1. way[b] \in 1..Len(Ways[b])
    BY WaysType DEF TypeOK, AtRoadRef
  <1>2. ref[b] \in 1..Len(Ways[b][way[b]].refs)
    BY <1>1, WaysType DEF TypeOK, AtRoadRef
  <1>3. Ways[b][way[b]].road
    BY DEF AtRoadRef, IsRoad
  <1>4. Current(b) \in RoadRefs
    BY <1>1, <1>2, <1>3, RoadRefParts DEF Current, TypeOK, AtRoadRef, IsRoadRef, IsRoad
  <1>5. NodeAt(Current(b)) = Node(b)
    BY DEF NodeAt, Current, Node
  <1>6. Node(b) \in Ids
    BY <1>1, <1>2, WaysType DEF Node
  <1>. QED
    BY <1>4, <1>5, <1>6

LEMMA NodeAtType ==
    ASSUME NEW r \in RoadRefs
    PROVE  NodeAt(r) \in Ids
  <1>1. PICK b \in Blocks, w \in Nat \ {0}, i \in Nat \ {0} :
            IsRoadRef(b, w, i) /\ r = <<b, w, i>>
    BY RoadRefParts
  <1>2. w \in 1..Len(Ways[b])
    BY <1>1, WaysType DEF IsRoadRef
  <1>3. i \in 1..Len(Ways[b][w].refs)
    BY <1>1, <1>2, WaysType DEF IsRoadRef
  <1>. QED
    BY <1>1, <1>2, <1>3, WaysType DEF NodeAt

-----------------------------------------------------------------------------
(* What each step does to the set of tested references.                    *)
LEMMA TestAndSetTests ==
    ASSUME TypeOK, NEW b \in Blocks, TestAndSet(b)
    PROVE  /\ AtRoadRef(b)
           /\ ~Tested(Current(b))
           /\ \A r \in RoadRefs : Tested(r)' <=> Tested(r) \/ r = Current(b)
  <1>1. AtRoadRef(b)
    BY WaysType DEF TypeOK, TestAndSet, Finished, AtRoadRef
  <1>2. ~Tested(Current(b))
    BY DEF TypeOK, TestAndSet, Tested, Current
  <1>3. ASSUME NEW r \in RoadRefs
        PROVE  Tested(r)' <=> Tested(r) \/ r = Current(b)
    <2>1. PICK c \in Blocks, w \in Nat \ {0}, i \in Nat \ {0} : r = <<c, w, i>>
      BY RoadRefParts
    <2>3. CASE c # b
      BY <2>1, <2>3 DEF TypeOK, TestAndSet, Tested, Current
    <2>4. CASE c = b
      BY <2>1, <2>4 DEF TypeOK, TestAndSet, Tested, Current
    <2>. QED
      BY <2>3, <2>4
  <1>. QED
    BY <1>1, <1>2, <1>3

LEMMA SetSharedTestsNone ==
    ASSUME TypeOK, NEW b \in Blocks, SetShared(b), NEW r \in RoadRefs
    PROVE  Tested(r)' <=> Tested(r)
  <1>1. PICK c \in Blocks, w \in Nat \ {0}, i \in Nat \ {0} : r = <<c, w, i>>
    BY RoadRefParts
  <1>3. CASE c # b
    BY <1>1, <1>3 DEF TypeOK, SetShared, Tested
  <1>4. CASE c = b
    BY <1>1, <1>4 DEF TypeOK, SetShared, Tested
  <1>. QED
    BY <1>3, <1>4

(* A way is left only when it is no road or all its references are tested. *)
LEMMA NextWayTestsNone ==
    ASSUME TypeOK, NEW b \in Blocks, NextWay(b), NEW r \in RoadRefs
    PROVE  Tested(r)' <=> Tested(r)
  <1>1. PICK c \in Blocks, w \in Nat \ {0}, i \in Nat \ {0} :
            IsRoadRef(c, w, i) /\ r = <<c, w, i>>
    BY RoadRefParts
  <1>3. CASE c # b
    BY <1>1, <1>3 DEF TypeOK, NextWay, Tested
  <1>4. CASE c = b /\ w # way[b]
    BY <1>1, <1>4 DEF TypeOK, NextWay, Tested
  <1>5. CASE c = b /\ w = way[b]
    <2>1. ref[b] > Len(Ways[b][w].refs)
      BY <1>1, <1>5 DEF NextWay, IsRoad, IsRoadRef
    <2>2. i < ref[b]
      BY <2>1, <1>1, <1>5, WaysType DEF TypeOK, IsRoadRef
    <2>. QED
      BY <1>1, <1>5, <2>2 DEF TypeOK, NextWay, Tested
  <1>. QED
    BY <1>3, <1>4, <1>5

-----------------------------------------------------------------------------
(* The invariant holds before the first way is read.                       *)
LEMMA InitInvariant == Init => IInv
  <1>. SUFFICES ASSUME Init PROVE IInv
    OBVIOUS
  <1>1. TypeOK
    BY DEF Init, TypeOK, EmptyWords
  <1>2. \A r \in RoadRefs : ~Tested(r)
    <2>. SUFFICES ASSUME NEW r \in RoadRefs PROVE ~Tested(r)
      OBVIOUS
    <2>1. PICK c \in Blocks, w \in Nat \ {0}, i \in Nat \ {0} : r = <<c, w, i>>
      BY RoadRefParts
    <2>. QED
      BY <2>1 DEF Init, Tested
  <1>3. \A n \in Ids : ~HasBit(seen, n) /\ ~HasBit(shared, n)
    BY WordOfId DEF Init, EmptyWords, HasBit
  <1>. QED
    BY <1>1, <1>2, <1>3 DEF Init, IInv, PendingIsTwice, SeenExact, SharedMeansTwice, TwiceTested

LEMMA TestAndSetInvariant ==
    ASSUME IInv, NEW b \in Blocks, TestAndSet(b)
    PROVE  IInv'
  <1>. DEFINE n0 == Node(b)
              r0 == Current(b)
  <1>1. TypeOK /\ AtRoadRef(b) /\ ~Tested(r0)
    BY TestAndSetTests DEF IInv
  <1>2. r0 \in RoadRefs /\ NodeAt(r0) = n0 /\ n0 \in Ids
    BY <1>1, CurrentIsRoadRef
  <1>3. \A r \in RoadRefs : Tested(r)' <=> Tested(r) \/ r = r0
    BY <1>1, TestAndSetTests
  <1>4. TypeOK'
    <2>1. seen' \in [Words -> SUBSET Bits]
      BY <1>1, <1>2, FetchOrType DEF TypeOK, TestAndSet, Bits
    <2>2. ref' \in [Blocks -> Nat \ {0}] /\ again' \in [Blocks -> BOOLEAN]
      <3>1. ref[b] + 1 \in Nat \ {0}
        BY <1>1 DEF TypeOK
      <3>. QED
        BY <1>1, <3>1 DEF TypeOK, TestAndSet
    <2>3. shared' \in [Words -> SUBSET Bits] /\ way' \in [Blocks -> Nat \ {0}]
      BY <1>1 DEF TypeOK, TestAndSet, Bits
    <2>. QED
      BY <2>1, <2>2, <2>3 DEF TypeOK, Bits
  <1>5. \A n \in Ids : HasBit(seen', n) <=> HasBit(seen, n) \/ n = n0
    BY <1>1, <1>2, FetchOrAdds DEF TypeOK, TestAndSet, Bits
  <1>6. SeenExact'
    <2>1. \A n \in Ids : HasBit(seen', n) <=> \E r \in RoadRefs : Tested(r)' /\ NodeAt(r) = n
      BY <1>2, <1>3, <1>5 DEF IInv, SeenExact
    <2>. QED
      BY <2>1 DEF SeenExact
  <1>7. \A n \in Ids : TwiceTested(n) => TwiceTested(n)'
    BY <1>3 DEF TwiceTested
  <1>8. ASSUME NEW n \in Ids, n = n0
        PROVE  TwiceTested(n)' => HasBit(seen, n0)
    <2>1. HasBit(seen, n) <=> \E s \in RoadRefs : Tested(s) /\ NodeAt(s) = n
      BY DEF IInv, SeenExact
    <2>. QED
      BY <1>2, <1>3, <1>8, <2>1 DEF TwiceTested
  <1>9. \A n \in Ids : n # n0 => (TwiceTested(n)' <=> TwiceTested(n))
    BY <1>2, <1>3 DEF TwiceTested
  <1>10. \A c \in Blocks : again[c] => again'[c] /\ (AtRoadRef(c)
            => AtRoadRef(c)') /\ Node(c)' = Node(c)
    BY <1>1 DEF TypeOK, TestAndSet, AtRoadRef, IsRoad, Node
  <1>11. HasBit(seen, n0) => again'[b] /\ Node(b)' = n0 /\ AtRoadRef(b)'
    BY <1>1 DEF TypeOK, TestAndSet, AtRoadRef, IsRoad, Node
  <1>12. \A c \in Blocks : again'[c] => again[c] \/ (c = b /\ HasBit(seen, n0))
    BY <1>1 DEF TypeOK, TestAndSet
  <1>13. PendingIsTwice'
    <2>. SUFFICES ASSUME NEW c \in Blocks, again'[c]
                  PROVE  AtRoadRef(c)' /\ TwiceTested(Node(c))'
      BY DEF PendingIsTwice
    <2>1. CASE again[c]
      <3>1. AtRoadRef(c) /\ TwiceTested(Node(c)) /\ Node(c) \in Ids
        BY <1>1, <2>1, CurrentIsRoadRef DEF IInv, PendingIsTwice
      <3>2. Node(c)' = Node(c) /\ AtRoadRef(c)'
        BY <1>10, <2>1, <3>1
      <3>3. TwiceTested(Node(c))' <=> \E r, s \in RoadRefs :
                r # s /\ Tested(r)' /\ Tested(s)' /\ NodeAt(r) = Node(c)' /\ NodeAt(s) = Node(c)'
        BY DEF TwiceTested, NodeAt
      <3>4. PICK r \in RoadRefs, s \in RoadRefs :
                r # s /\ Tested(r) /\ Tested(s) /\ NodeAt(r) = Node(c) /\ NodeAt(s) = Node(c)
        BY <3>1 DEF TwiceTested
      <3>. QED
        BY <1>3, <3>2, <3>3, <3>4
    <2>2. CASE c = b /\ HasBit(seen, n0)
      <3>1. Node(c)' = n0 /\ AtRoadRef(c)'
        BY <1>11, <2>2
      <3>2. TwiceTested(Node(c))' <=> \E r, s \in RoadRefs :
                r # s /\ Tested(r)' /\ Tested(s)' /\ NodeAt(r) = Node(c)' /\ NodeAt(s) = Node(c)'
        BY DEF TwiceTested, NodeAt
      <3>3. PICK s \in RoadRefs : Tested(s) /\ NodeAt(s) = n0
        BY <1>2, <2>2 DEF IInv, SeenExact
      <3>. QED
        BY <1>1, <1>2, <1>3, <3>1, <3>2, <3>3
    <2>. QED
      BY <1>12, <2>1, <2>2
  <1>14. SharedMeansTwice'
    <2>. SUFFICES ASSUME NEW n \in Ids
                  PROVE  /\ HasBit(shared', n) => TwiceTested(n)'
                         /\ TwiceTested(n)' => HasBit(shared', n) \/ Pending(n)'
      BY DEF SharedMeansTwice
    <2>1. shared' = shared
      BY DEF TestAndSet
    <2>2. Pending(n) => Pending(n)'
      BY <1>10 DEF Pending
    <2>3. n = n0 /\ HasBit(seen, n0) => Pending(n)'
      BY <1>11 DEF Pending
    <2>. QED
      BY <1>7, <1>8, <1>9, <2>1, <2>2, <2>3 DEF IInv, SharedMeansTwice, HasBit
  <1>. QED
    BY <1>4, <1>6, <1>13, <1>14 DEF IInv

LEMMA SetSharedInvariant ==
    ASSUME IInv, NEW b \in Blocks, SetShared(b)
    PROVE  IInv'
  <1>. DEFINE n0 == Node(b)
  <1>1. TypeOK /\ AtRoadRef(b) /\ TwiceTested(n0)
    BY DEF IInv, PendingIsTwice, SetShared
  <1>2. n0 \in Ids
    BY <1>1, CurrentIsRoadRef
  <1>3. \A r \in RoadRefs : Tested(r)' <=> Tested(r)
    BY <1>1, SetSharedTestsNone
  <1>4. TypeOK'
    <2>1. shared' \in [Words -> SUBSET Bits]
      BY <1>1, <1>2, FetchOrType DEF TypeOK, SetShared, Bits
    <2>2. ref' \in [Blocks -> Nat \ {0}] /\ again' \in [Blocks -> BOOLEAN]
      <3>1. ref[b] + 1 \in Nat \ {0}
        BY <1>1 DEF TypeOK
      <3>. QED
        BY <1>1, <3>1 DEF TypeOK, SetShared
    <2>3. seen' \in [Words -> SUBSET Bits] /\ way' \in [Blocks -> Nat \ {0}]
      BY <1>1 DEF TypeOK, SetShared, Bits
    <2>. QED
      BY <2>1, <2>2, <2>3 DEF TypeOK, Bits
  <1>5. SeenExact'
    BY <1>3 DEF IInv, SeenExact, SetShared, HasBit, NodeAt
  <1>6. \A n \in Ids : TwiceTested(n)' <=> TwiceTested(n)
    BY <1>3 DEF TwiceTested
  <1>7. ASSUME NEW c \in Blocks, c # b
        PROVE  /\ again'[c] = again[c] /\ Node(c)' = Node(c)
               /\ AtRoadRef(c) => AtRoadRef(c)'
    BY <1>1, <1>7 DEF TypeOK, SetShared, AtRoadRef, IsRoad, Node
  <1>8. again'[b] = FALSE
    BY <1>1 DEF TypeOK, SetShared
  <1>9. PendingIsTwice'
    <2>. SUFFICES ASSUME NEW c \in Blocks, again'[c]
                  PROVE  AtRoadRef(c)' /\ TwiceTested(Node(c))'
      BY DEF PendingIsTwice
    <2>1. c # b /\ again[c]
      BY <1>7, <1>8
    <2>2. AtRoadRef(c) /\ TwiceTested(Node(c))
      BY <2>1 DEF IInv, PendingIsTwice
    <2>3. Node(c)' = Node(c) /\ AtRoadRef(c)'
      BY <1>7, <2>1, <2>2
    <2>. QED
      BY <1>3, <2>2, <2>3 DEF TwiceTested
  <1>10. SharedMeansTwice'
    <2>. SUFFICES ASSUME NEW n \in Ids
                  PROVE  /\ HasBit(shared', n) => TwiceTested(n)'
                         /\ TwiceTested(n)' => HasBit(shared', n) \/ Pending(n)'
      BY DEF SharedMeansTwice
    <2>1. HasBit(shared', n) <=> HasBit(shared, n) \/ n = n0
      BY <1>1, <1>2, FetchOrAdds DEF TypeOK, SetShared, Bits
    <2>2. Pending(n) => n = n0 \/ Pending(n)'
      BY <1>7 DEF Pending
    <2>3. (HasBit(shared, n) => TwiceTested(n))
            /\ (TwiceTested(n) => HasBit(shared, n) \/ Pending(n))
      BY DEF IInv, SharedMeansTwice
    <2>. QED
      BY <1>1, <1>6, <2>1, <2>2, <2>3
  <1>. QED
    BY <1>4, <1>5, <1>9, <1>10 DEF IInv

LEMMA NextWayInvariant ==
    ASSUME IInv, NEW b \in Blocks, NextWay(b)
    PROVE  IInv'
  <1>1. TypeOK
    BY DEF IInv
  <1>2. \A r \in RoadRefs : Tested(r)' <=> Tested(r)
    BY <1>1, NextWayTestsNone
  <1>3. TypeOK'
    <2>1. way[b] + 1 \in Nat \ {0}
      BY <1>1 DEF TypeOK
    <2>. QED
      BY <1>1, <2>1 DEF TypeOK, NextWay
  <1>4. SeenExact'
    BY <1>2 DEF IInv, SeenExact, NextWay, HasBit, NodeAt
  <1>5. \A n \in Ids : TwiceTested(n)' <=> TwiceTested(n)
    BY <1>2 DEF TwiceTested
  <1>6. ASSUME NEW c \in Blocks, again[c]
        PROVE  /\ Node(c)' = Node(c)
               /\ AtRoadRef(c) => AtRoadRef(c)'
    <2>1. c # b
      BY <1>6 DEF NextWay
    <2>. QED
      BY <1>1, <2>1 DEF TypeOK, NextWay, AtRoadRef, IsRoad, Node
  <1>7. PendingIsTwice'
    <2>. SUFFICES ASSUME NEW c \in Blocks, again'[c]
                  PROVE  AtRoadRef(c)' /\ TwiceTested(Node(c))'
      BY DEF PendingIsTwice
    <2>1. again[c]
      BY DEF NextWay
    <2>2. AtRoadRef(c) /\ TwiceTested(Node(c))
      BY <2>1 DEF IInv, PendingIsTwice
    <2>3. Node(c)' = Node(c) /\ AtRoadRef(c)'
      BY <1>6, <2>1, <2>2
    <2>. QED
      BY <1>2, <2>2, <2>3 DEF TwiceTested
  <1>8. SharedMeansTwice'
    <2>. SUFFICES ASSUME NEW n \in Ids
                  PROVE  /\ HasBit(shared', n) => TwiceTested(n)'
                         /\ TwiceTested(n)' => HasBit(shared', n) \/ Pending(n)'
      BY DEF SharedMeansTwice
    <2>1. shared' = shared /\ again' = again
      BY DEF NextWay
    <2>2. Pending(n) => Pending(n)'
      BY <1>6, <2>1 DEF Pending
    <2>3. (HasBit(shared, n) => TwiceTested(n))
            /\ (TwiceTested(n) => HasBit(shared, n) \/ Pending(n))
      BY DEF IInv, SharedMeansTwice
    <2>. QED
      BY <1>5, <2>1, <2>2, <2>3
  <1>. QED
    BY <1>3, <1>4, <1>7, <1>8 DEF IInv

LEMMA Invariance == IInv /\ [Next]_vars => IInv'
  <1>. SUFFICES ASSUME IInv, [Next]_vars PROVE IInv'
    OBVIOUS
  <1>1. CASE \E b \in Blocks : TestAndSet(b)
    BY <1>1, TestAndSetInvariant
  <1>2. CASE \E b \in Blocks : SetShared(b)
    BY <1>2, SetSharedInvariant
  <1>3. CASE \E b \in Blocks : NextWay(b)
    BY <1>3, NextWayInvariant
  <1>4. CASE UNCHANGED vars
    BY <1>4 DEF vars, IInv, TypeOK, PendingIsTwice, SeenExact, SharedMeansTwice,
                AtRoadRef, IsRoad, Node, NodeAt, TwiceTested, Tested, Pending, HasBit
  <1>. QED
    BY <1>1, <1>2, <1>3, <1>4 DEF Next, Return

LEMMA InvariantHolds == Spec => []IInv
  BY InitInvariant, Invariance, PTL DEF Spec

-----------------------------------------------------------------------------
(* Every variable keeps its type in every reachable state.                 *)
THEOREM TypeCorrect == Spec => []TypeOK
  <1>1. IInv => TypeOK
    BY DEF IInv
  <1>. QED
    BY <1>1, InvariantHolds, PTL

(* Without a lock over the two bitsets no mark is lost and none is made    *)
(* early, for any number of workers (extractor.rs, test_and_set then set). *)
THEOREM SharedIsTwice == Spec => []SharedMeansTwice
  <1>1. IInv => SharedMeansTwice
    BY DEF IInv
  <1>. QED
    BY <1>1, InvariantHolds, PTL

(* What the pass leaves behind does not depend on the interleaving: the    *)
(* shared nodes are those referenced at least twice by the roads.          *)
THEOREM JunctionsAreExact == Spec => []JunctionsExact
  <1>1. ASSUME IInv PROVE JunctionsExact
    <2>. SUFFICES ASSUME Done
                  PROVE  Members(shared) =
                      {n \in Ids : \E r, s \in RoadRefs : r # s /\ NodeAt(r) = n /\ NodeAt(s) = n}
      BY DEF JunctionsExact
    <2>1. ASSUME NEW r \in RoadRefs PROVE Tested(r)
      <3>1. PICK b \in Blocks, w \in Nat \ {0}, i \in Nat \ {0} :
                IsRoadRef(b, w, i) /\ r = <<b, w, i>>
        BY RoadRefParts
      <3>2. w < way[b]
        BY <1>1, <3>1, WaysType DEF Done, Finished, IsRoadRef, IInv, TypeOK
      <3>. QED
        BY <3>1, <3>2 DEF Tested
    <2>2. ASSUME NEW n PROVE ~Pending(n)
      <3>. SUFFICES ASSUME NEW b \in Blocks, again[b] PROVE FALSE
        BY DEF Pending
      <3>1. way[b] <= Len(Ways[b])
        BY <1>1 DEF IInv, PendingIsTwice, AtRoadRef
      <3>. QED
        BY <1>1, <3>1, WaysType DEF Done, Finished, IInv, TypeOK
    <2>3. \A n \in Ids : HasBit(shared, n) <=> TwiceTested(n)
      BY <1>1, <2>2 DEF IInv, SharedMeansTwice
    <2>. QED
      BY <2>1, <2>3 DEF Members, TwiceTested
  <1>. QED
    BY <1>1, InvariantHolds, PTL
(* In every bitset the pass goes through, the rank of an id is the number  *)
(* of members below it, for every id (RankedBitSet::rank), so that         *)
(* distinct members get distinct slots of a store.                         *)
THEOREM RankIsACount == Spec => []RankIsCount
  <1>1. ASSUME IInv PROVE RankIsCount
    <2>1. seen \in [Words -> SUBSET Bits]
      BY <1>1 DEF IInv, TypeOK, Bits
    <2>2. \A id \in 0..(Capacity + WordBits) : id \in Nat
      OBVIOUS
    <2>3. \A words \in [Words -> SUBSET Bits], id \in Nat :
              Rank(words, id) = Cardinality({i \in Members(words) : i < id})
      BY RankCounts
    <2>. SUFFICES ASSUME NEW id \in 0..(Capacity + WordBits)
                  PROVE  Rank(seen, id) = Cardinality({i \in Members(seen) : i < id})
      BY DEF RankIsCount
    <2>. QED
      BY <2>1, <2>2, <2>3
  <1>. QED
    BY <1>1, InvariantHolds, PTL

-----------------------------------------------------------------------------
(* Passes over a stretch: of a line turned around, of two lines joined.    *)

(* Where a line passes over a stretch.                                     *)
Spots(line, stretch) == {i \in 1..(Len(line) - 1) : {line[i], line[i + 1]} = stretch}

(* The image of a set of integers by a shift or a mirroring is as large.   *)
LEMMA Mirrored ==
    ASSUME NEW A, IsFiniteSet(A), A \subseteq Int, NEW c \in Int, NEW s \in {1, -1},
           NEW B, B \subseteq Int, \A b \in B : (b - c) * s \in A, \A a \in A : c + a * s \in B
    PROVE  IsFiniteSet(B) /\ Cardinality(B) = Cardinality(A)
  <1>. DEFINE f == [a \in A |-> c + a * s]
  <1>1. f \in [A -> B] /\ \A a \in A : f[a] = c + a * s
    OBVIOUS
  <1>2. \A b \in B : \E a \in A : f[a] = b
    <2>1. ASSUME NEW b \in B
          PROVE  \E a \in A : f[a] = b
      <3>1. (b - c) * s \in A /\ b \in Int
        OBVIOUS
      <3>2. c + ((b - c) * s) * s = b
        <4>1. CASE s = 1
          BY <3>1, <4>1
        <4>2. CASE s = -1
          BY <3>1, <4>2
        <4>. QED
          BY <4>1, <4>2
      <3>. QED
        BY <3>1, <3>2
    <2>. QED
      BY <2>1
  <1>3. \A a, b \in A : f[a] = f[b] => a = b
    <2>1. \A a, b \in Int : c + a * s = c + b * s => a = b
      <3>1. CASE s = 1
        BY <3>1
      <3>2. CASE s = -1
        BY <3>2
      <3>. QED
        BY <3>1, <3>2
    <2>. QED
      BY <2>1
  <1>. HIDE DEF f
  <1>4. f \in Bijection(A, B)
    BY <1>1, <1>2, <1>3 DEF Bijection, Injection, Surjection, IsInjective
  <1>. QED
    BY <1>4, FS_Bijection DEF ExistsBijection

(* The places of the stretch are finitely many, and Passes counts them.    *)
LEMMA SpotsAre ==
    ASSUME NEW S, NEW line \in Seq(S), NEW stretch
    PROVE  /\ IsFiniteSet(Spots(line, stretch)) /\ Spots(line, stretch) \subseteq Nat
           /\ Passes(line, stretch) = Cardinality(Spots(line, stretch))
           /\ Passes(line, stretch) \in Nat
  <1>1. PICK n \in Nat : n = Len(line)
    OBVIOUS
  <1>2. IsFiniteSet(1..(n - 1))
    BY FS_Interval
  <1>3. Spots(line, stretch) \subseteq 1..(n - 1)
    BY <1>1 DEF Spots
  <1>4. IsFiniteSet(Spots(line, stretch)) /\ Spots(line, stretch) \subseteq Nat
    BY <1>2, <1>3, FS_Subset
  <1>5. Passes(line, stretch) = Cardinality(Spots(line, stretch))
    BY DEF Passes, Spots
  <1>. QED
    BY <1>4, <1>5, FS_CardinalityType

(* A line turned around passes over what it passed over.                   *)
LEMMA PassesTurned ==
    ASSUME NEW S, NEW line \in Seq(S), NEW stretch
    PROVE  Passes(Reverse(line), stretch) = Passes(line, stretch)
  <1>. DEFINE back == Reverse(line)
              A == Spots(line, stretch)
              B == Spots(back, stretch)
  <1>1. PICK n \in Nat : n = Len(line)
    OBVIOUS
  <1>2. back \in Seq(S) /\ Len(back) = n /\ \A i \in 1..n : back[i] = line[(n - i) + 1]
    BY <1>1 DEF Reverse
  <1>. HIDE DEF back
  <1>3. IsFiniteSet(A) /\ A \subseteq Nat /\ B \subseteq Nat
    BY <1>2, SpotsAre
  <1>4. \A i \in 1..(n - 1) : /\ n - i \in 1..(n - 1) /\ back[i] = line[(n - i) + 1]
                              /\ back[i + 1] = line[n - i]
    <2>1. \A i \in 1..(n - 1) : i \in 1..n /\ i + 1 \in 1..n /\ n - i \in 1..(n - 1)
                                /\ (n - (i + 1)) + 1 = n - i
      OBVIOUS
    <2>. QED
      BY <1>2, <2>1
  <1>5. \A i \in 1..(n - 1) : i \in B <=> n - i \in A
    <2>1. \A i : i \in A <=> i \in 1..(n - 1) /\ {line[i], line[i + 1]} = stretch
      BY <1>1 DEF Spots
    <2>2. \A i : i \in B <=> i \in 1..(n - 1) /\ {back[i], back[i + 1]} = stretch
      BY <1>2 DEF Spots
    <2>3. ASSUME NEW i \in 1..(n - 1)
          PROVE  i \in B <=> n - i \in A
      <3>1. n - i \in 1..(n - 1) /\ (n - i) + 1 \in Int
        BY <1>4
      <3>2. {back[i], back[i + 1]} = {line[n - i], line[(n - i) + 1]}
        BY <1>4
      <3>3. i \in B <=> {back[i], back[i + 1]} = stretch
        BY <2>2
      <3>4. n - i \in A <=> {line[n - i], line[(n - i) + 1]} = stretch
        BY <2>1, <3>1
      <3>. QED
        BY <3>2, <3>3, <3>4
    <2>. QED
      BY <2>3
  <1>6. A \subseteq 1..(n - 1) /\ B \subseteq 1..(n - 1)
    BY <1>1, <1>2 DEF Spots
  <1>. HIDE DEF A, B
  <1>7. \A b \in B : (b - n) * (-1) \in A
    <2>1. \A b \in 1..(n - 1) : (b - n) * (-1) = n - b
      OBVIOUS
    <2>. QED
      BY <1>5, <1>6, <2>1
  <1>8. \A a \in A : n + a * (-1) \in B
    <2>1. \A a \in 1..(n - 1) : n + a * (-1) = n - a /\ n - a \in 1..(n - 1) /\ n - (n - a) = a
      OBVIOUS
    <2>. QED
      BY <1>5, <1>6, <2>1
  <1>9. A \subseteq Int /\ B \subseteq Int /\ n \in Int /\ -1 \in {1, -1}
    BY <1>3
  <1>10. Cardinality(B) = Cardinality(A)
    BY <1>3, <1>7, <1>8, <1>9, Mirrored
  <1>11. Passes(back, stretch) = Cardinality(B) /\ Passes(line, stretch) = Cardinality(A)
    BY <1>2, SpotsAre DEF A, B
  <1>. QED
    BY <1>10, <1>11 DEF back

(* A line that goes on where another ends passes over what both do.        *)
LEMMA PassesJoined ==
    ASSUME NEW S, NEW a \in Seq(S), NEW b \in Seq(S), Len(a) > 0, Len(b) > 0, a[Len(a)] = b[1],
           NEW stretch
    PROVE  /\ a \o Tail(b) \in Seq(S) /\ Len(a \o Tail(b)) = Len(a) + Len(b) - 1
           /\ (a \o Tail(b))[1] = a[1]
           /\ (a \o Tail(b))[Len(a \o Tail(b))] = b[Len(b)]
           /\ Passes(a \o Tail(b), stretch) = Passes(a, stretch) + Passes(b, stretch)
  <1>1. PICK m \in Nat, n \in Nat : m = Len(a) /\ n = Len(b)
    OBVIOUS
  <1>2. PICK c : c = a \o Tail(b)
    OBVIOUS
  <1>3. /\ Tail(b) \in Seq(S) /\ Len(Tail(b)) = n - 1
        /\ \A i \in 1..(n - 1) : Tail(b)[i] = b[i + 1]
    BY <1>1, HeadTailProperties
  <1>4. PICK t : t = Tail(b)
    OBVIOUS
  <1>5. /\ c \in Seq(S) /\ Len(c) = m + (n - 1)
        /\ \A i \in 1..m : c[i] = a[i]
        /\ \A i \in 1..(n - 1) : c[m + i] = t[i]
    <2>1. c = a \o t /\ t \in Seq(S) /\ Len(t) = n - 1
      BY <1>2, <1>3, <1>4
    <2>2. c \in Seq(S) /\ Len(c) = Len(a) + Len(t)
          /\ \A i \in 1..(Len(a) + Len(t)) : c[i] = IF i <= Len(a) THEN a[i] ELSE t[i - Len(a)]
      BY <2>1, ConcatProperties
    <2>3. \A i \in 1..(m + (n - 1)) : c[i] = IF i <= m THEN a[i] ELSE t[i - m]
      BY <1>1, <2>1, <2>2
    <2>4. \A i \in 1..m : i \in 1..(m + (n - 1)) /\ i <= m
      BY <1>1
    <2>5. \A i \in 1..(n - 1) : m + i \in 1..(m + (n - 1)) /\ ~(m + i <= m) /\ (m + i) - m = i
      BY <1>1
    <2>. QED
      BY <1>1, <2>1, <2>2, <2>3, <2>4, <2>5
  <1>6. m > 0 /\ n > 0 /\ a[m] = b[1] /\ \A i \in 1..(n - 1) : c[m + i] = b[i + 1]
    BY <1>1, <1>3, <1>4, <1>5
  <1>7. \A i \in 1..n : c[(m - 1) + i] = b[i]
    <2>1. ASSUME NEW i \in 1..n
          PROVE  c[(m - 1) + i] = b[i]
      <3>1. CASE i = 1
        <4>1. (m - 1) + i = m /\ m \in 1..m
          BY <1>6, <3>1
        <4>. QED
          BY <1>5, <1>6, <3>1, <4>1
      <3>2. CASE i # 1
        <4>1. i - 1 \in 1..(n - 1) /\ m + (i - 1) = (m - 1) + i /\ (i - 1) + 1 = i
          BY <3>2
        <4>. QED
          BY <1>6, <4>1
      <3>. QED
        BY <3>1, <3>2
    <2>. QED
      BY <2>1
  <1>. DEFINE A == Spots(a, stretch)
              B == Spots(b, stretch)
              C == Spots(c, stretch)
              D == {i \in C : i >= m}
  <1>8. \A i : i \in A <=> i \in 1..(m - 1) /\ {a[i], a[i + 1]} = stretch
    BY <1>1 DEF Spots
  <1>9. \A i : i \in B <=> i \in 1..(n - 1) /\ {b[i], b[i + 1]} = stretch
    BY <1>1 DEF Spots
  <1>10. \A i : i \in C <=> i \in 1..(m + (n - 1) - 1) /\ {c[i], c[i + 1]} = stretch
    BY <1>5 DEF Spots
  <1>11. \A i : i \in D <=> i \in C /\ i >= m
    OBVIOUS
  <1>12. IsFiniteSet(A) /\ IsFiniteSet(B) /\ A \subseteq Nat /\ B \subseteq Nat /\ C \subseteq Nat
    BY <1>5, SpotsAre
  <1>. HIDE DEF A, B, C, D
  <1>13. C = A \cup D
    <2>1. \A i \in 1..(m - 1) : i \in 1..m /\ i + 1 \in 1..m /\ i \in 1..(m + (n - 1) - 1)
      BY <1>6
    <2>2. \A i \in 1..(m - 1) : i \in C <=> i \in A
      BY <1>5, <1>8, <1>10, <2>1
    <2>3. \A i \in 1..(m + (n - 1) - 1) : i >= m \/ i \in 1..(m - 1)
      OBVIOUS
    <2>. QED
      BY <1>8, <1>10, <1>11, <2>2, <2>3
  <1>14. A \cap D = {}
    <2>1. \A i \in 1..(m - 1) : ~(i >= m)
      OBVIOUS
    <2>. QED
      BY <1>8, <1>11, <2>1
  <1>15. \A i \in 1..(n - 1) : (m - 1) + i \in D <=> i \in B
    <2>1. \A i \in 1..(n - 1) : /\ (m - 1) + i \in 1..(m + (n - 1) - 1) /\ (m - 1) + i >= m
                                /\ i \in 1..n /\ i + 1 \in 1..n
                                /\ ((m - 1) + i) + 1 = (m - 1) + (i + 1)
      BY <1>6
    <2>2. ASSUME NEW i \in 1..(n - 1)
          PROVE  (m - 1) + i \in D <=> i \in B
      <3>1. PICK j : j = (m - 1) + i
        OBVIOUS
      <3>2. j \in D <=> {c[j], c[j + 1]} = stretch
        BY <1>10, <1>11, <2>1, <3>1
      <3>3. i \in B <=> {b[i], b[i + 1]} = stretch
        BY <1>9
      <3>4. c[j] = b[i] /\ c[j + 1] = b[i + 1]
        BY <1>7, <2>1, <3>1
      <3>. QED
        BY <3>1, <3>2, <3>3, <3>4
    <2>. QED
      BY <2>2
  <1>16. D \subseteq Int /\ \A d \in D : d - (m - 1) \in 1..(n - 1)
    <2>1. \A d \in 1..(m + (n - 1) - 1) : d >= m => d - (m - 1) \in 1..(n - 1)
      OBVIOUS
    <2>. QED
      BY <1>10, <1>11, <2>1
  <1>17. \A d \in D : (d - (m - 1)) * 1 \in B
    <2>1. \A d \in D : d \in Int /\ (d - (m - 1)) * 1 = d - (m - 1) /\ (m - 1) + (d - (m - 1)) = d
      BY <1>16
    <2>. QED
      BY <1>15, <1>16, <2>1
  <1>18. \A i \in B : (m - 1) + i * 1 \in D
    <2>1. \A i \in B : i \in 1..(n - 1) /\ i * 1 = i
      BY <1>9
    <2>. QED
      BY <1>15, <2>1
  <1>19. IsFiniteSet(D) /\ Cardinality(D) = Cardinality(B)
    <2>1. B \subseteq Int /\ m - 1 \in Int /\ 1 \in {1, -1}
      BY <1>12
    <2>. QED
      BY <1>12, <1>16, <1>17, <1>18, <2>1, Mirrored
  <1>20. Cardinality(C) = Cardinality(A) + Cardinality(B)
    BY <1>12, <1>13, <1>14, <1>19, DisjointUnion
  <1>21. /\ Passes(a, stretch) = Cardinality(A) /\ Passes(b, stretch) = Cardinality(B)
         /\ Passes(c, stretch) = Cardinality(C)
    BY <1>5, SpotsAre DEF A, B, C
  <1>22. c[1] = a[1] /\ c[m + (n - 1)] = b[n] /\ m + (n - 1) = (m + n) - 1
    <2>1. 1 \in 1..m /\ n \in 1..n /\ (m - 1) + n = m + (n - 1)
      BY <1>6
    <2>. QED
      BY <1>5, <1>7, <2>1
  <1>. QED
    BY <1>1, <1>2, <1>5, <1>20, <1>21, <1>22

-----------------------------------------------------------------------------
(* The loops of Multipolygon and Strokes, each a recursive function: its   *)
(* steps, read off its definition, are what the proofs need.               *)

(* The rounds of the loop that closes a ring.                              *)
LEMMA CloseRingRounds ==
    ASSUME NEW fragments, Len(fragments) \in Nat, NEW start
    PROVE  \E f : /\ f[0] = start
                  /\ \A k \in 1..Len(fragments) : f[k] = Stitch(fragments, f[k - 1])
                  /\ CloseRing(fragments, start) = f[Len(fragments)]
  <1>. DEFINE F == CHOOSE after : after = [k \in 0..Len(fragments) |->
                     IF k = 0 THEN start ELSE Stitch(fragments, after[k - 1])]
              Good == {n \in Nat : \E f : f = [k \in 0..n |->
                     IF k = 0 THEN start ELSE Stitch(fragments, f[k - 1])]}
  <1>1. 0 \in Good
    <2>1. PICK f : f = [k \in 0..0 |-> start]
      OBVIOUS
    <2>2. f = [k \in 0..0 |-> IF k = 0 THEN start ELSE Stitch(fragments, f[k - 1])]
      <3>1. \A k \in 0..0 : k = 0
        OBVIOUS
      <3>2. f = [k \in 0..0 |-> f[k]]
        BY <2>1
      <3>. QED
        BY <2>1, <3>1, <3>2
    <2>. QED
      BY <2>2
  <1>2. ASSUME NEW n \in Nat, n \in Good
        PROVE  n + 1 \in Good
    <2>1. PICK f : f = [k \in 0..n |-> IF k = 0 THEN start ELSE Stitch(fragments, f[k - 1])]
      BY <1>2
    <2>2. PICK g : g = [k \in 0..(n + 1) |-> IF k = n + 1 THEN Stitch(fragments, f[n]) ELSE f[k]]
      OBVIOUS
    <2>3. ASSUME NEW k \in 0..(n + 1)
          PROVE  g[k] = IF k = 0 THEN start ELSE Stitch(fragments, g[k - 1])
      <3>1. CASE k = n + 1
        <4>1. k # 0 /\ k - 1 = n /\ n \in 0..(n + 1) /\ n # n + 1
          BY <3>1
        <4>2. g[k - 1] = f[n] /\ g[k] = Stitch(fragments, f[n])
          BY <2>2, <3>1, <4>1
        <4>. QED
          BY <3>1, <4>1, <4>2
      <3>2. CASE k # n + 1
        <4>1. k \in 0..n /\ g[k] = f[k]
          BY <2>2, <3>2
        <4>2. f[k] = IF k = 0 THEN start ELSE Stitch(fragments, f[k - 1])
          BY <2>1, <4>1
        <4>3. k # 0 => g[k - 1] = f[k - 1]
          <5>1. k # 0 => k - 1 \in 0..(n + 1) /\ k - 1 # n + 1
            BY <4>1
          <5>. QED
            BY <2>2, <5>1
        <4>. QED
          BY <4>1, <4>2, <4>3
      <3>. QED
        BY <3>1, <3>2
    <2>4. g = [k \in 0..(n + 1) |-> IF k = 0 THEN start ELSE Stitch(fragments, g[k - 1])]
      <3>1. g = [k \in 0..(n + 1) |-> g[k]]
        BY <2>2
      <3>. QED
        BY <2>3, <3>1
    <2>. QED
      BY <2>4
  <1>. HIDE DEF Good
  <1>3. Len(fragments) \in Good
    BY <1>1, <1>2, NumberInduction, Zenon
  <1>4. \E f : f = [k \in 0..Len(fragments) |-> IF k = 0 THEN start
            ELSE Stitch(fragments, f[k - 1])]
    BY <1>3 DEF Good
  <1>5. F = [k \in 0..Len(fragments) |-> IF k = 0 THEN start ELSE Stitch(fragments, F[k - 1])]
    BY <1>4, Zenon
  <1>6. CloseRing(fragments, start) = F[Len(fragments)]
    BY Zenon DEF CloseRing
  <1>. HIDE DEF F
  <1>7. F[0] = start /\ \A k \in 1..Len(fragments) : F[k] = Stitch(fragments, F[k - 1])
    <2>1. 0 \in 0..Len(fragments) /\ \A k \in 1..Len(fragments) : k \in 0..Len(fragments) /\ k # 0
      OBVIOUS
    <2>2. \A k \in 0..Len(fragments) : F[k] = IF k = 0 THEN start ELSE Stitch(fragments, F[k - 1])
      BY <1>5
    <2>. QED
      BY <2>1, <2>2
  <1>. QED
    BY <1>6, <1>7

(* The fragments that are rings already, one after the other.              *)
LEMMA ClosedFragmentsSteps ==
    ASSUME NEW fragments, Len(fragments) \in Nat
    PROVE  \E f : /\ f[0] = <<>>
                  /\ \A k \in 1..Len(fragments) : f[k] = WithClosed(f[k - 1], fragments[k])
                  /\ ClosedFragments(fragments) = f[Len(fragments)]
  <1>. DEFINE F == CHOOSE after : after = [k \in 0..Len(fragments) |->
                     IF k = 0 THEN <<>> ELSE WithClosed(after[k - 1], fragments[k])]
              Good == {n \in Nat : \E f : f = [k \in 0..n |->
                     IF k = 0 THEN <<>> ELSE WithClosed(f[k - 1], fragments[k])]}
  <1>1. 0 \in Good
    <2>1. PICK f : f = [k \in 0..0 |-> <<>>]
      OBVIOUS
    <2>2. f = [k \in 0..0 |-> IF k = 0 THEN <<>> ELSE WithClosed(f[k - 1], fragments[k])]
      <3>1. \A k \in 0..0 : k = 0
        OBVIOUS
      <3>2. f = [k \in 0..0 |-> f[k]]
        BY <2>1
      <3>. QED
        BY <2>1, <3>1, <3>2
    <2>. QED
      BY <2>2
  <1>2. ASSUME NEW n \in Nat, n \in Good
        PROVE  n + 1 \in Good
    <2>1. PICK f : f = [k \in 0..n |-> IF k = 0 THEN <<>> ELSE WithClosed(f[k - 1], fragments[k])]
      BY <1>2
    <2>2. PICK g : g = [k \in 0..(n + 1) |-> IF k = n + 1
              THEN WithClosed(f[n], fragments[n + 1]) ELSE f[k]]
      OBVIOUS
    <2>3. ASSUME NEW k \in 0..(n + 1)
          PROVE  g[k] = IF k = 0 THEN <<>> ELSE WithClosed(g[k - 1], fragments[k])
      <3>1. CASE k = n + 1
        <4>1. k # 0 /\ k - 1 = n /\ n \in 0..(n + 1) /\ n # n + 1
          BY <3>1
        <4>2. g[k - 1] = f[n] /\ g[k] = WithClosed(f[n], fragments[n + 1])
          BY <2>2, <3>1, <4>1
        <4>. QED
          BY <3>1, <4>1, <4>2
      <3>2. CASE k # n + 1
        <4>1. k \in 0..n /\ g[k] = f[k]
          BY <2>2, <3>2
        <4>2. f[k] = IF k = 0 THEN <<>> ELSE WithClosed(f[k - 1], fragments[k])
          BY <2>1, <4>1
        <4>3. k # 0 => g[k - 1] = f[k - 1]
          <5>1. k # 0 => k - 1 \in 0..(n + 1) /\ k - 1 # n + 1
            BY <4>1
          <5>. QED
            BY <2>2, <5>1
        <4>. QED
          BY <4>1, <4>2, <4>3
      <3>. QED
        BY <3>1, <3>2
    <2>4. g = [k \in 0..(n + 1) |-> IF k = 0 THEN <<>> ELSE WithClosed(g[k - 1], fragments[k])]
      <3>1. g = [k \in 0..(n + 1) |-> g[k]]
        BY <2>2
      <3>. QED
        BY <2>3, <3>1
    <2>. QED
      BY <2>4
  <1>. HIDE DEF Good
  <1>3. Len(fragments) \in Good
    BY <1>1, <1>2, NumberInduction, Zenon
  <1>4. \E f : f = [k \in 0..Len(fragments) |-> IF k = 0 THEN <<>>
            ELSE WithClosed(f[k - 1], fragments[k])]
    BY <1>3 DEF Good
  <1>5. F = [k \in 0..Len(fragments) |-> IF k = 0 THEN <<>>
            ELSE WithClosed(F[k - 1], fragments[k])]
    BY <1>4, Zenon
  <1>6. ClosedFragments(fragments) = F[Len(fragments)]
    BY Zenon DEF ClosedFragments
  <1>. HIDE DEF F
  <1>7. F[0] = <<>> /\ \A k \in 1..Len(fragments) : F[k] = WithClosed(F[k - 1], fragments[k])
    <2>1. 0 \in 0..Len(fragments) /\ \A k \in 1..Len(fragments) : k \in 0..Len(fragments) /\ k # 0
      OBVIOUS
    <2>2. \A k \in 0..Len(fragments) : F[k] = IF k = 0 THEN <<>>
              ELSE WithClosed(F[k - 1], fragments[k])
      BY <1>5
    <2>. QED
      BY <2>1, <2>2
  <1>. QED
    BY <1>6, <1>7

(* The loop over the fragments to start a ring from.                       *)
LEMMA AssembleRingsSteps ==
    ASSUME NEW fragments, Len(fragments) \in Nat
    PROVE  \E f : /\ f[0] = [rings |-> ClosedFragments(fragments), unused |-> Loose(fragments)]
                  /\ \A k \in 1..Len(fragments) : f[k] = StartRing(fragments, k, f[k - 1])
                  /\ AssembleRings(fragments) = f[Len(fragments)].rings
  <1>. DEFINE F == CHOOSE after : after = [k \in 0..Len(fragments) |->
                     IF k = 0 THEN [rings |-> ClosedFragments(fragments),
                               unused |-> Loose(fragments)]
                               ELSE StartRing(fragments, k, after[k - 1])]
              Good == {n \in Nat : \E f : f = [k \in 0..n |->
                     IF k = 0 THEN [rings |-> ClosedFragments(fragments),
                               unused |-> Loose(fragments)]
                               ELSE StartRing(fragments, k, f[k - 1])]}
  <1>1. 0 \in Good
    <2>1. PICK f : f = [k \in 0..0 |-> [rings |-> ClosedFragments(fragments),
              unused |-> Loose(fragments)]]
      OBVIOUS
    <2>2. f = [k \in 0..0 |-> IF k = 0
              THEN [rings |-> ClosedFragments(fragments), unused |-> Loose(fragments)]
              ELSE StartRing(fragments, k, f[k - 1])]
      <3>1. \A k \in 0..0 : k = 0
        OBVIOUS
      <3>2. f = [k \in 0..0 |-> f[k]]
        BY <2>1
      <3>. QED
        BY <2>1, <3>1, <3>2
    <2>. QED
      BY <2>2
  <1>2. ASSUME NEW n \in Nat, n \in Good
        PROVE  n + 1 \in Good
    <2>1. PICK f : f = [k \in 0..n |-> IF k = 0
              THEN [rings |-> ClosedFragments(fragments), unused |-> Loose(fragments)]
              ELSE StartRing(fragments, k, f[k - 1])]
      BY <1>2
    <2>2. PICK g : g = [k \in 0..(n + 1) |-> IF k = n + 1
              THEN StartRing(fragments, n + 1, f[n]) ELSE f[k]]
      OBVIOUS
    <2>3. ASSUME NEW k \in 0..(n + 1)
          PROVE  g[k] = IF k = 0
                    THEN [rings |-> ClosedFragments(fragments),
                    unused |-> Loose(fragments)] ELSE StartRing(fragments, k, g[k - 1])
      <3>1. CASE k = n + 1
        <4>1. k # 0 /\ k - 1 = n /\ n \in 0..(n + 1) /\ n # n + 1
          BY <3>1
        <4>2. g[k - 1] = f[n] /\ g[k] = StartRing(fragments, n + 1, f[n])
          BY <2>2, <3>1, <4>1
        <4>. QED
          BY <3>1, <4>1, <4>2
      <3>2. CASE k # n + 1
        <4>1. k \in 0..n /\ g[k] = f[k]
          BY <2>2, <3>2
        <4>2. f[k] = IF k = 0 THEN [rings |-> ClosedFragments(fragments),
                  unused |-> Loose(fragments)] ELSE StartRing(fragments, k, f[k - 1])
          BY <2>1, <4>1
        <4>3. k # 0 => g[k - 1] = f[k - 1]
          <5>1. k # 0 => k - 1 \in 0..(n + 1) /\ k - 1 # n + 1
            BY <4>1
          <5>. QED
            BY <2>2, <5>1
        <4>. QED
          BY <4>1, <4>2, <4>3
      <3>. QED
        BY <3>1, <3>2
    <2>4. g = [k \in 0..(n + 1) |-> IF k = 0
              THEN [rings |-> ClosedFragments(fragments), unused |-> Loose(fragments)]
              ELSE StartRing(fragments, k, g[k - 1])]
      <3>1. g = [k \in 0..(n + 1) |-> g[k]]
        BY <2>2
      <3>. QED
        BY <2>3, <3>1
    <2>. QED
      BY <2>4
  <1>. HIDE DEF Good
  <1>3. Len(fragments) \in Good
    BY <1>1, <1>2, NumberInduction, Zenon
  <1>4. \E f : f = [k \in 0..Len(fragments) |-> IF k = 0
            THEN [rings |-> ClosedFragments(fragments), unused |-> Loose(fragments)]
            ELSE StartRing(fragments, k, f[k - 1])]
    BY <1>3 DEF Good
  <1>5. F = [k \in 0..Len(fragments) |-> IF k = 0
            THEN [rings |-> ClosedFragments(fragments), unused |-> Loose(fragments)]
            ELSE StartRing(fragments, k, F[k - 1])]
    BY <1>4, Zenon
  <1>6. AssembleRings(fragments) = F[Len(fragments)].rings
    BY Zenon DEF AssembleRings
  <1>. HIDE DEF F
  <1>7. F[0] = [rings |-> ClosedFragments(fragments), unused |-> Loose(fragments)]
            /\ \A k \in 1..Len(fragments) : F[k] = StartRing(fragments, k, F[k - 1])
    <2>1. 0 \in 0..Len(fragments) /\ \A k \in 1..Len(fragments) : k \in 0..Len(fragments) /\ k # 0
      OBVIOUS
    <2>2. \A k \in 0..Len(fragments) : F[k] = IF k = 0
              THEN [rings |-> ClosedFragments(fragments), unused |-> Loose(fragments)]
              ELSE StartRing(fragments, k, F[k - 1])
      BY <1>5
    <2>. QED
      BY <2>1, <2>2
  <1>. QED
    BY <1>6, <1>7

(* The rounds of the loop that grows a tail.                               *)
LEMMA GrowTailRounds ==
    ASSUME NEW lines, Len(lines) \in Nat, NEW start
    PROVE  \E f : /\ f[0] = start
                  /\ \A k \in 1..Len(lines) : f[k] = Grow(lines, f[k - 1])
                  /\ GrowTail(lines, start) = f[Len(lines)]
  <1>. DEFINE F == CHOOSE after : after = [k \in 0..Len(lines) |->
                     IF k = 0 THEN start ELSE Grow(lines, after[k - 1])]
              Good == {n \in Nat : \E f : f = [k \in 0..n |->
                     IF k = 0 THEN start ELSE Grow(lines, f[k - 1])]}
  <1>1. 0 \in Good
    <2>1. PICK f : f = [k \in 0..0 |-> start]
      OBVIOUS
    <2>2. f = [k \in 0..0 |-> IF k = 0 THEN start ELSE Grow(lines, f[k - 1])]
      <3>1. \A k \in 0..0 : k = 0
        OBVIOUS
      <3>2. f = [k \in 0..0 |-> f[k]]
        BY <2>1
      <3>. QED
        BY <2>1, <3>1, <3>2
    <2>. QED
      BY <2>2
  <1>2. ASSUME NEW n \in Nat, n \in Good
        PROVE  n + 1 \in Good
    <2>1. PICK f : f = [k \in 0..n |-> IF k = 0 THEN start ELSE Grow(lines, f[k - 1])]
      BY <1>2
    <2>2. PICK g : g = [k \in 0..(n + 1) |-> IF k = n + 1 THEN Grow(lines, f[n]) ELSE f[k]]
      OBVIOUS
    <2>3. ASSUME NEW k \in 0..(n + 1)
          PROVE  g[k] = IF k = 0 THEN start ELSE Grow(lines, g[k - 1])
      <3>1. CASE k = n + 1
        <4>1. k # 0 /\ k - 1 = n /\ n \in 0..(n + 1) /\ n # n + 1
          BY <3>1
        <4>2. g[k - 1] = f[n] /\ g[k] = Grow(lines, f[n])
          BY <2>2, <3>1, <4>1
        <4>. QED
          BY <3>1, <4>1, <4>2
      <3>2. CASE k # n + 1
        <4>1. k \in 0..n /\ g[k] = f[k]
          BY <2>2, <3>2
        <4>2. f[k] = IF k = 0 THEN start ELSE Grow(lines, f[k - 1])
          BY <2>1, <4>1
        <4>3. k # 0 => g[k - 1] = f[k - 1]
          <5>1. k # 0 => k - 1 \in 0..(n + 1) /\ k - 1 # n + 1
            BY <4>1
          <5>. QED
            BY <2>2, <5>1
        <4>. QED
          BY <4>1, <4>2, <4>3
      <3>. QED
        BY <3>1, <3>2
    <2>4. g = [k \in 0..(n + 1) |-> IF k = 0 THEN start ELSE Grow(lines, g[k - 1])]
      <3>1. g = [k \in 0..(n + 1) |-> g[k]]
        BY <2>2
      <3>. QED
        BY <2>3, <3>1
    <2>. QED
      BY <2>4
  <1>. HIDE DEF Good
  <1>3. Len(lines) \in Good
    BY <1>1, <1>2, NumberInduction, Zenon
  <1>4. \E f : f = [k \in 0..Len(lines) |-> IF k = 0 THEN start ELSE Grow(lines, f[k - 1])]
    BY <1>3 DEF Good
  <1>5. F = [k \in 0..Len(lines) |-> IF k = 0 THEN start ELSE Grow(lines, F[k - 1])]
    BY <1>4, Zenon
  <1>6. GrowTail(lines, start) = F[Len(lines)]
    BY Zenon DEF GrowTail
  <1>. HIDE DEF F
  <1>7. F[0] = start /\ \A k \in 1..Len(lines) : F[k] = Grow(lines, F[k - 1])
    <2>1. 0 \in 0..Len(lines) /\ \A k \in 1..Len(lines) : k \in 0..Len(lines) /\ k # 0
      OBVIOUS
    <2>2. \A k \in 0..Len(lines) : F[k] = IF k = 0 THEN start ELSE Grow(lines, F[k - 1])
      BY <1>5
    <2>. QED
      BY <2>1, <2>2
  <1>. QED
    BY <1>6, <1>7

(* The loop over the lines to start a stroke from.                         *)
LEMMA ChainGroupSteps ==
    ASSUME NEW lines, Len(lines) \in Nat
    PROVE  \E f : /\ f[0] = [strokes |-> <<>>, unused |-> Drawn(lines)]
                  /\ \A k \in 1..Len(lines) : f[k] = Seed(lines, k, f[k - 1])
                  /\ ChainGroup(lines) = f[Len(lines)].strokes
  <1>. DEFINE F == CHOOSE after : after = [k \in 0..Len(lines) |->
                     IF k = 0 THEN [strokes |-> <<>>, unused |-> Drawn(lines)]
                               ELSE Seed(lines, k, after[k - 1])]
              Good == {n \in Nat : \E f : f = [k \in 0..n |->
                     IF k = 0 THEN [strokes |-> <<>>, unused |-> Drawn(lines)]
                               ELSE Seed(lines, k, f[k - 1])]}
  <1>1. 0 \in Good
    <2>1. PICK f : f = [k \in 0..0 |-> [strokes |-> <<>>, unused |-> Drawn(lines)]]
      OBVIOUS
    <2>2. f = [k \in 0..0 |-> IF k = 0 THEN [strokes |-> <<>>, unused |-> Drawn(lines)]
              ELSE Seed(lines, k, f[k - 1])]
      <3>1. \A k \in 0..0 : k = 0
        OBVIOUS
      <3>2. f = [k \in 0..0 |-> f[k]]
        BY <2>1
      <3>. QED
        BY <2>1, <3>1, <3>2
    <2>. QED
      BY <2>2
  <1>2. ASSUME NEW n \in Nat, n \in Good
        PROVE  n + 1 \in Good
    <2>1. PICK f : f = [k \in 0..n |-> IF k = 0
              THEN [strokes |-> <<>>, unused |-> Drawn(lines)] ELSE Seed(lines, k, f[k - 1])]
      BY <1>2
    <2>2. PICK g : g = [k \in 0..(n + 1) |-> IF k = n + 1 THEN Seed(lines, n + 1, f[n]) ELSE f[k]]
      OBVIOUS
    <2>3. ASSUME NEW k \in 0..(n + 1)
          PROVE  g[k] = IF k = 0 THEN [strokes |-> <<>>, unused |-> Drawn(lines)]
                    ELSE Seed(lines, k, g[k - 1])
      <3>1. CASE k = n + 1
        <4>1. k # 0 /\ k - 1 = n /\ n \in 0..(n + 1) /\ n # n + 1
          BY <3>1
        <4>2. g[k - 1] = f[n] /\ g[k] = Seed(lines, n + 1, f[n])
          BY <2>2, <3>1, <4>1
        <4>. QED
          BY <3>1, <4>1, <4>2
      <3>2. CASE k # n + 1
        <4>1. k \in 0..n /\ g[k] = f[k]
          BY <2>2, <3>2
        <4>2. f[k] = IF k = 0 THEN [strokes |-> <<>>, unused |-> Drawn(lines)]
                  ELSE Seed(lines, k, f[k - 1])
          BY <2>1, <4>1
        <4>3. k # 0 => g[k - 1] = f[k - 1]
          <5>1. k # 0 => k - 1 \in 0..(n + 1) /\ k - 1 # n + 1
            BY <4>1
          <5>. QED
            BY <2>2, <5>1
        <4>. QED
          BY <4>1, <4>2, <4>3
      <3>. QED
        BY <3>1, <3>2
    <2>4. g = [k \in 0..(n + 1) |-> IF k = 0
              THEN [strokes |-> <<>>, unused |-> Drawn(lines)] ELSE Seed(lines, k, g[k - 1])]
      <3>1. g = [k \in 0..(n + 1) |-> g[k]]
        BY <2>2
      <3>. QED
        BY <2>3, <3>1
    <2>. QED
      BY <2>4
  <1>. HIDE DEF Good
  <1>3. Len(lines) \in Good
    BY <1>1, <1>2, NumberInduction, Zenon
  <1>4. \E f : f = [k \in 0..Len(lines) |-> IF k = 0
            THEN [strokes |-> <<>>, unused |-> Drawn(lines)] ELSE Seed(lines, k, f[k - 1])]
    BY <1>3 DEF Good
  <1>5. F = [k \in 0..Len(lines) |-> IF k = 0
            THEN [strokes |-> <<>>, unused |-> Drawn(lines)] ELSE Seed(lines, k, F[k - 1])]
    BY <1>4, Zenon
  <1>6. ChainGroup(lines) = F[Len(lines)].strokes
    BY Zenon DEF ChainGroup
  <1>. HIDE DEF F
  <1>7. F[0] = [strokes |-> <<>>, unused |-> Drawn(lines)] /\ \A k \in 1..Len(lines) :
            F[k] = Seed(lines, k, F[k - 1])
    <2>1. 0 \in 0..Len(lines) /\ \A k \in 1..Len(lines) : k \in 0..Len(lines) /\ k # 0
      OBVIOUS
    <2>2. \A k \in 0..Len(lines) : F[k] = IF k = 0
              THEN [strokes |-> <<>>, unused |-> Drawn(lines)] ELSE Seed(lines, k, F[k - 1])
      BY <1>5
    <2>. QED
      BY <2>1, <2>2
  <1>. QED
    BY <1>6, <1>7

-----------------------------------------------------------------------------
(* Rings. A ring under way is followed by the parity of the ends of the    *)
(* fragments not used yet.                                                 *)

(* An odd number of these fragments end at the node.                       *)
EndingAt(fragments, S, v) == {i \in S : v \in Ends(fragments[i])}
Odd(fragments, S, v) == Cardinality(EndingAt(fragments, S, v)) % 2 = 1

(* Every node is the end of an even number of these fragments.             *)
EndsEvenly(fragments, S) == \A v : ~Odd(fragments, S, v)

(* How often these fragments pass over a stretch.                          *)
Over(lines, S, stretch) ==
    SumFunctionOnSet([i \in DOMAIN lines |-> Passes(lines[i], stretch)], S)

(* Without a fragment, the parity is another at its two ends and there     *)
(* alone.                                                                  *)
LEMMA OddAfterOne ==
    ASSUME NEW S, IsFiniteSet(S), NEW fragments, NEW i \in S, NEW v
    PROVE  Odd(fragments, S \ {i}, v) <=> (Odd(fragments, S, v) <=> v \notin Ends(fragments[i]))
  <1>. DEFINE A == EndingAt(fragments, S, v)
              B == EndingAt(fragments, S \ {i}, v)
  <1>1. IsFiniteSet(A) /\ IsFiniteSet(B)
    <2>1. A \subseteq S /\ B \subseteq S
      BY DEF EndingAt
    <2>. QED
      BY <2>1, FS_Subset
  <1>2. Cardinality(A) \in Nat /\ Cardinality(B) \in Nat
    BY <1>1, FS_CardinalityType
  <1>3. CASE v \in Ends(fragments[i])
    <2>1. A = B \cup {i} /\ i \notin B
      BY <1>3 DEF EndingAt
    <2>2. Cardinality(A) = Cardinality(B) + 1
      BY <1>1, <2>1, FS_AddElement
    <2>3. \A n \in Nat : ((n + 1) % 2 = 1) <=> ~(n % 2 = 1)
      OBVIOUS
    <2>. QED
      BY <1>2, <1>3, <2>2, <2>3 DEF Odd
  <1>4. CASE v \notin Ends(fragments[i])
    <2>1. A = B
      BY <1>4 DEF EndingAt
    <2>. QED
      BY <1>4, <2>1 DEF Odd
  <1>. QED
    BY <1>3, <1>4

(* An odd number is not zero.                                              *)
LEMMA SomeEndsWhereOdd ==
    ASSUME NEW S, NEW fragments, NEW v, Odd(fragments, S, v)
    PROVE  \E i \in S : v \in Ends(fragments[i])
  <1>1. ASSUME EndingAt(fragments, S, v) = {}
        PROVE  FALSE
    BY <1>1, FS_EmptySet DEF Odd
  <1>. QED
    BY <1>1 DEF EndingAt

(* The sum over the fragments, one fragment at a time.                     *)
LEMMA OverIs ==
    ASSUME NEW T, NEW lines \in Seq(Seq(T)), NEW S, S \subseteq DOMAIN lines, NEW stretch
    PROVE  /\ IsFiniteSet(S) /\ Over(lines, S, stretch) \in Nat
           /\ Over(lines, {}, stretch) = 0
           /\ \A i \in DOMAIN lines \ S :
                  Over(lines, S \cup {i}, stretch)
                            = Over(lines, S, stretch) + Passes(lines[i], stretch)
  <1>. DEFINE f == [i \in DOMAIN lines |-> Passes(lines[i], stretch)]
  <1>1. IsFiniteSet(S)
    <2>1. PICK n \in Nat : n = Len(lines)
      OBVIOUS
    <2>2. DOMAIN lines = 1..n /\ IsFiniteSet(1..n)
      BY <2>1, FS_Interval
    <2>. QED
      BY <2>2, FS_Subset
  <1>2. \A i \in DOMAIN lines : f[i] = Passes(lines[i], stretch) /\ f[i] \in Nat
    <2>1. ASSUME NEW i \in DOMAIN lines
          PROVE  Passes(lines[i], stretch) \in Nat
      <3>1. lines[i] \in Seq(T)
        OBVIOUS
      <3>. QED
        BY <3>1, SpotsAre
    <2>. QED
      BY <2>1
  <1>. HIDE DEF f
  <1>3. SumFunctionOnSet(f, S) \in Nat /\ SumFunctionOnSet(f, {}) = 0
    BY <1>1, <1>2, SumIsNat, SumOfNothing
  <1>4. ASSUME NEW i \in DOMAIN lines \ S
        PROVE  SumFunctionOnSet(f, S \cup {i}) = SumFunctionOnSet(f, S) + f[i]
    <2>1. \A y \in S \cup {i} : f[y] \in Nat
      BY <1>2
    <2>. QED
      BY <1>1, <2>1, SumOfMore
  <1>. QED
    BY <1>1, <1>2, <1>3, <1>4 DEF Over, f

(* A ring joined with a fragment that ends where the ring does.            *)
LEMMA JoinedIs ==
    ASSUME NEW Vertex, NEW ring \in Seq(Vertex), Len(ring) >= 2,
           NEW fragment \in Seq(Vertex), Len(fragment) >= 2,
           ~ClosedRing(fragment), Last(ring) \in Ends(fragment)
    PROVE  /\ Joined(ring, fragment) \in Seq(Vertex)
           /\ Len(Joined(ring, fragment)) = Len(ring) + Len(fragment) - 1
           /\ Joined(ring, fragment)[1] = ring[1]
           /\ Ends(fragment) = {Last(ring), Last(Joined(ring, fragment))}
           /\ Last(ring) # Last(Joined(ring, fragment))
           /\ \A s : Passes(Joined(ring, fragment), s) = Passes(ring, s) + Passes(fragment, s)
  <1>1. PICK n \in Nat : n = Len(fragment) /\ n >= 2
    OBVIOUS
  <1>2. PICK piece : piece = IF Last(fragment) = Last(ring) THEN Reverse(fragment) ELSE fragment
    OBVIOUS
  <1>3. /\ Reverse(fragment) \in Seq(Vertex) /\ Len(Reverse(fragment)) = n
        /\ Reverse(fragment)[1] = fragment[n] /\ Reverse(fragment)[n] = fragment[1]
    <2>1. \A i \in 1..n : Reverse(fragment)[i] = fragment[(n - i) + 1]
      BY <1>1 DEF Reverse
    <2>2. 1 \in 1..n /\ n \in 1..n /\ (n - 1) + 1 = n /\ (n - n) + 1 = 1
      BY <1>1
    <2>. QED
      BY <1>1, <2>1, <2>2 DEF Reverse
  <1>4. /\ piece \in Seq(Vertex) /\ Len(piece) = n /\ piece[1] = Last(ring)
        /\ Ends(fragment) = {Last(ring), piece[n]} /\ piece[n] # Last(ring)
    <2>1. CASE Last(fragment) = Last(ring)
      BY <1>1, <1>2, <1>3, <2>1 DEF Ends, Last, ClosedRing
    <2>2. CASE Last(fragment) # Last(ring)
      BY <1>1, <1>2, <2>2 DEF Ends, Last, ClosedRing
    <2>. QED
      BY <2>1, <2>2
  <1>5. \A s : Passes(piece, s) = Passes(fragment, s)
    BY <1>2, PassesTurned
  <1>6. ring[Len(ring)] = piece[1] /\ Len(ring) > 0 /\ Len(piece) > 0
    BY <1>1, <1>4 DEF Last
  <1>7. Joined(ring, fragment) = ring \o Tail(piece)
    BY <1>2 DEF Joined
  <1>8. ASSUME NEW s
        PROVE  /\ ring \o Tail(piece) \in Seq(Vertex)
               /\ Len(ring \o Tail(piece)) = Len(ring) + Len(piece) - 1
               /\ (ring \o Tail(piece))[1] = ring[1]
               /\ (ring \o Tail(piece))[Len(ring \o Tail(piece))] = piece[Len(piece)]
               /\ Passes(ring \o Tail(piece), s) = Passes(ring, s) + Passes(piece, s)
    <2>1. piece \in Seq(Vertex) /\ ring[Len(ring)] = piece[1] /\ Len(ring) > 0 /\ Len(piece) > 0
      BY <1>4, <1>6
    <2>. QED
      BY <2>1, PassesJoined
  <1>9. PICK joined : joined = ring \o Tail(piece)
    OBVIOUS
  <1>10. joined[Len(joined)] = piece[n] /\ joined = Joined(ring, fragment)
    BY <1>4, <1>7, <1>8, <1>9
  <1>11. /\ joined \in Seq(Vertex) /\ Len(joined) = Len(ring) + n - 1 /\ joined[1] = ring[1]
         /\ \A s : Passes(joined, s) = Passes(ring, s) + Passes(fragment, s)
    BY <1>4, <1>5, <1>8, <1>9
  <1>. QED
    BY <1>1, <1>4, <1>10, <1>11 DEF Last

-----------------------------------------------------------------------------
(* A ring under way, of fragments that before it ended evenly: what is     *)
(* left ends oddly at the ring's two loose ends alone; and it is as long   *)
(* as its fragments together.                                              *)
RingHolds(Vertex, fragments, all, ring, unused) ==
    /\ ring \in Seq(Vertex) /\ Len(ring) >= 2
    /\ unused \subseteq all
    /\ \A v : Odd(fragments, unused, v) <=> ~ClosedRing(ring) /\ v \in Ends(ring)
    /\ Len(ring) = 2 =>
           \E i \in all \ unused : Len(fragments[i]) = 2 /\ Ends(fragments[i]) = Ends(ring)
    /\ ClosedRing(ring) => Len(ring) >= 4
    /\ \A s : Passes(ring, s) = Over(fragments, all \ unused, s)

(* The first conjunct of ClosesUp.                                         *)
NoEdgeTwice(fragments) ==
    \A i, j \in Loose(fragments) :
        i # j /\ Len(fragments[i]) = 2 /\ Len(fragments[j]) = 2
                  => Ends(fragments[i]) # Ends(fragments[j])

(* A fragment to be stitched is a line with two different ends.            *)
LEMMA LooseIs ==
    ASSUME NEW Vertex, NEW fragments \in Seq(Seq(Vertex)), NEW i \in Loose(fragments)
    PROVE  /\ i \in DOMAIN fragments /\ fragments[i] \in Seq(Vertex)
           /\ Len(fragments[i]) \in Nat /\ Len(fragments[i]) >= 2 /\ ~ClosedRing(fragments[i])
  <1>1. i \in DOMAIN fragments /\ IsLine(fragments[i]) /\ ~ClosedRing(fragments[i])
    BY DEF Loose
  <1>2. fragments[i] \in Seq(Vertex)
    BY <1>1
  <1>. QED
    BY <1>1, <1>2 DEF IsLine

(* A ring begun with one fragment of a set that ends evenly.               *)
LEMMA RingStarts ==
    ASSUME NEW Vertex, NEW fragments \in Seq(Seq(Vertex)), NEW all,
              all \subseteq Loose(fragments),
           EndsEvenly(fragments, all), NEW i \in all
    PROVE  RingHolds(Vertex, fragments, all, fragments[i], all \ {i})
  <1>1. /\ i \in DOMAIN fragments /\ fragments[i] \in Seq(Vertex)
        /\ Len(fragments[i]) \in Nat /\ Len(fragments[i]) >= 2 /\ ~ClosedRing(fragments[i])
    BY LooseIs
  <1>2. IsFiniteSet(all) /\ all \subseteq DOMAIN fragments
    <2>1. all \subseteq DOMAIN fragments
      BY DEF Loose
    <2>. QED
      BY <2>1, OverIs
  <1>3. ASSUME NEW v
        PROVE  Odd(fragments, all \ {i}, v) <=> v \in Ends(fragments[i])
    BY <1>2, OddAfterOne DEF EndsEvenly
  <1>4. all \ (all \ {i}) = {i}
    OBVIOUS
  <1>5. ASSUME NEW s
        PROVE  Passes(fragments[i], s) = Over(fragments, {i}, s)
    <2>4. PICK none : none = {}
      OBVIOUS
    <2>1. none \subseteq DOMAIN fragments /\ i \in DOMAIN fragments \ none
      BY <1>1, <2>4
    <2>5. Over(fragments, {}, s) = 0
      BY <2>1, OverIs
    <2>6. none \subseteq DOMAIN fragments
      BY <2>1
    <2>7. \A j \in DOMAIN fragments \ none :
              Over(fragments, none \cup {j}, s)
                        = Over(fragments, none, s) + Passes(fragments[j], s)
      BY <2>6, OverIs
    <2>3. Over(fragments, none \cup {i}, s) = Over(fragments, none, s) + Passes(fragments[i], s)
      BY <2>1, <2>7
    <2>2. Passes(fragments[i], s) \in Nat /\ {} \cup {i} = {i}
      BY <1>1, SpotsAre
    <2>. QED
      BY <2>2, <2>3, <2>4, <2>5
  <1>. QED
    BY <1>1, <1>3, <1>4, <1>5 DEF RingHolds

(* A fragment joined to the ring keeps what a ring under way is.           *)
LEMMA RingGoesOn ==
    ASSUME NEW Vertex, NEW fragments \in Seq(Seq(Vertex)), NEW all,
              all \subseteq Loose(fragments),
           NoEdgeTwice(fragments), NEW ring, NEW unused,
           RingHolds(Vertex, fragments, all, ring, unused), ~ClosedRing(ring),
           NEW i \in unused, Last(ring) \in Ends(fragments[i])
    PROVE  RingHolds(Vertex, fragments, all, Joined(ring, fragments[i]), unused \ {i})
  <1>1. /\ i \in DOMAIN fragments /\ fragments[i] \in Seq(Vertex)
               /\ i \in Loose(fragments) /\ i \in all
        /\ Len(fragments[i]) \in Nat /\ Len(fragments[i]) >= 2 /\ ~ClosedRing(fragments[i])
    <2>1. i \in Loose(fragments)
      BY DEF RingHolds
    <2>. QED
      BY <2>1, LooseIs DEF RingHolds
  <1>2. IsFiniteSet(unused) /\ all \subseteq DOMAIN fragments
    <2>1. unused \subseteq DOMAIN fragments /\ all \subseteq DOMAIN fragments
      BY DEF Loose, RingHolds
    <2>. QED
      BY <2>1, OverIs
  <1>3. ring \in Seq(Vertex) /\ Len(ring) \in Nat /\ Len(ring) >= 2
    BY DEF RingHolds
  <1>4. PICK joined, piece : joined = Joined(ring, piece) /\ piece = fragments[i]
    OBVIOUS
  <1>12. /\ piece \in Seq(Vertex) /\ Len(piece) >= 2 /\ ~ClosedRing(piece)
         /\ Last(ring) \in Ends(piece)
    BY <1>1, <1>4
  <1>13. /\ joined \in Seq(Vertex)
         /\ Len(joined) = Len(ring) + Len(piece) - 1
         /\ joined[1] = ring[1]
         /\ Ends(piece) = {Last(ring), Last(joined)}
         /\ Last(ring) # Last(joined)
         /\ \A s : Passes(joined, s) = Passes(ring, s) + Passes(piece, s)
    <2>1. ring \in Seq(Vertex) /\ Len(ring) >= 2
      BY <1>3
    <2>. QED
      BY <2>1, <1>12, <1>4, JoinedIs
  <1>5. /\ joined \in Seq(Vertex)
        /\ Len(joined) = Len(ring) + Len(fragments[i]) - 1
        /\ joined[1] = ring[1]
        /\ Ends(fragments[i]) = {Last(ring), Last(joined)}
        /\ Last(ring) # Last(joined)
        /\ \A s : Passes(joined, s) = Passes(ring, s) + Passes(fragments[i], s)
    BY <1>4, <1>13
  <1>6. Len(joined) >= 3
    BY <1>1, <1>3, <1>5
  <1>7. ASSUME NEW v
        PROVE  Odd(fragments, unused \ {i}, v) <=> ~ClosedRing(joined) /\ v \in Ends(joined)
    <2>1. Odd(fragments, unused \ {i}, v) <=> (Odd(fragments, unused,
              v) <=> v \notin {Last(ring), Last(joined)})
      BY <1>2, <1>5, OddAfterOne
    <2>2. Odd(fragments, unused, v) <=> v \in {ring[1], Last(ring)}
      BY DEF RingHolds, Ends
    <2>3. ring[1] # Last(ring)
      BY DEF ClosedRing
    <2>4. ClosedRing(joined) <=> ring[1] = Last(joined)
      BY <1>5 DEF ClosedRing
    <2>5. Ends(joined) = {ring[1], Last(joined)}
      BY <1>5 DEF Ends
    <2>. QED
      BY <1>5, <2>1, <2>2, <2>3, <2>4, <2>5
  <1>8. ClosedRing(joined) => Len(joined) >= 4
    <2>1. ASSUME ClosedRing(joined), Len(joined) = 3
          PROVE  FALSE
      <3>5. \A m, n \in Nat : m >= 2 /\ n >= 2 /\ (m + n) - 1 = 3 => m = 2 /\ n = 2
        OBVIOUS
      <3>1. Len(ring) = 2 /\ Len(fragments[i]) = 2
        <4>1. PICK m \in Nat, n \in Nat : m = Len(ring) /\ n = Len(fragments[i])
          BY <1>1, <1>3
        <4>2. m >= 2 /\ n >= 2 /\ (m + n) - 1 = 3
          BY <1>1, <1>3, <1>5, <2>1, <4>1
        <4>. QED
          BY <3>5, <4>1, <4>2
      <3>2. PICK j \in all \ unused : Len(fragments[j]) = 2 /\ Ends(fragments[j]) = Ends(ring)
        BY <3>1 DEF RingHolds
      <3>3. j \in Loose(fragments) /\ j # i
        BY <3>2
      <3>4. Ends(ring) = Ends(fragments[i])
        BY <1>5, <2>1 DEF Ends, ClosedRing
      <3>. QED
        BY <1>1, <3>1, <3>2, <3>3, <3>4 DEF NoEdgeTwice
    <2>. QED
      BY <1>1, <1>3, <1>5, <1>6, <2>1
  <1>9. ASSUME NEW s
        PROVE  Passes(joined, s) = Over(fragments, all \ (unused \ {i}), s)
    <2>1. all \ (unused \ {i}) = (all \ unused) \cup {i}
              /\ i \in DOMAIN fragments \ (all \ unused)
      BY <1>1
    <2>2. PICK used : used = all \ unused
      OBVIOUS
    <2>5. used \subseteq DOMAIN fragments /\ i \in DOMAIN fragments \ used
      BY <1>2, <2>1, <2>2
    <2>6. Over(fragments, used \cup {i}, s) = Over(fragments, used, s) + Passes(fragments[i], s)
      BY <2>5, OverIs
    <2>3. Over(fragments, (all \ unused) \cup {i}, s)
            = Over(fragments, all \ unused, s) + Passes(fragments[i], s)
      BY <2>2, <2>6
    <2>4. Passes(ring, s) = Over(fragments, all \ unused, s)
      BY DEF RingHolds
    <2>. QED
      BY <1>5, <2>1, <2>3, <2>4
  <1>10. unused \ {i} \subseteq all /\ Len(joined) >= 2 /\ Len(joined) # 2
    BY <1>5, <1>6 DEF RingHolds
  <1>11. RingHolds(Vertex, fragments, all, joined, unused \ {i})
    BY <1>5, <1>6, <1>7, <1>8, <1>9, <1>10 DEF RingHolds
  <1>. QED
    BY <1>4, <1>11

(* A round keeps that, and either the ring is whole or a fragment was used.*)
LEMMA RingRound ==
    ASSUME NEW Vertex, NEW fragments \in Seq(Seq(Vertex)), NEW all,
              all \subseteq Loose(fragments),
           NoEdgeTwice(fragments), NEW st, NEW k \in Nat,
           RingHolds(Vertex, fragments, all, st.ring, st.unused),
           IsWhole(st.ring) \/ Cardinality(st.unused) + k < Len(fragments)
    PROVE  LET next == Stitch(fragments, st)
           IN  /\ RingHolds(Vertex, fragments, all, next.ring, next.unused)
               /\ next.unused \subseteq st.unused
               /\ IsWhole(next.ring) \/ Cardinality(next.unused) + (k + 1) < Len(fragments)
  <1>. DEFINE next == Stitch(fragments, st)
              on   == GoesOn(fragments, st.unused, st.ring)
  <1>1. IsWhole(st.ring) <=> ClosedRing(st.ring)
    BY DEF IsWhole, RingHolds
  <1>2. CASE IsWhole(st.ring)
    <2>1. next = st
      BY <1>2 DEF Stitch
    <2>. QED
      BY <1>2, <2>1
  <1>3. CASE ~IsWhole(st.ring)
    <2>1. on # {} /\ \A i \in on : i \in st.unused /\ Last(st.ring) \in Ends(fragments[i])
      <3>1. Odd(fragments, st.unused, Last(st.ring))
        BY <1>1, <1>3 DEF RingHolds, Ends
      <3>2. \E i \in st.unused : Last(st.ring) \in Ends(fragments[i])
        BY <3>1, SomeEndsWhereOdd
      <3>. QED
        BY <3>2 DEF GoesOn
    <2>2. st.unused \subseteq DOMAIN fragments /\ IsFiniteSet(st.unused)
      <3>1. st.unused \subseteq DOMAIN fragments
        BY DEF RingHolds, Loose
      <3>. QED
        BY <3>1, OverIs
    <2>. HIDE DEF on
    <2>3. on \in SUBSET Nat
      <3>1. DOMAIN fragments \subseteq Nat
        OBVIOUS
      <3>. QED
        BY <2>1, <2>2, <3>1
    <2>4. PICK i : i = Min(on)
      OBVIOUS
    <2>5. i \in on
      BY <2>1, <2>3, <2>4, LeastIs
    <2>6. next = [ring |-> Joined(st.ring, fragments[i]), unused |-> st.unused \ {i}]
      BY <1>3, <2>1, <2>4 DEF Stitch, on
    <2>7. i \in st.unused /\ Last(st.ring) \in Ends(fragments[i]) /\ ~ClosedRing(st.ring)
      BY <1>1, <1>3, <2>1, <2>5
    <2>8. RingHolds(Vertex, fragments, all, Joined(st.ring, fragments[i]), st.unused \ {i})
      BY <2>7, RingGoesOn
    <2>9. Cardinality(st.unused \ {i}) = Cardinality(st.unused) - 1
              /\ Cardinality(st.unused) \in Nat
      BY <2>2, <2>7, FS_RemoveElement, FS_CardinalityType
    <2>10. Cardinality(st.unused \ {i}) + (k + 1) < Len(fragments)
      BY <1>3, <2>9
    <2>. QED
      BY <2>6, <2>8, <2>10
  <1>. QED
    BY <1>2, <1>3

(* What comes of a ring begun with a fragment of a set that ends evenly.   *)
Closes(Vertex, fragments, all, i, end) ==
    /\ end.ring \in Seq(Vertex) /\ IsWhole(end.ring)
    /\ end.unused \subseteq all \ {i}
    /\ EndsEvenly(fragments, end.unused)
    /\ \A s : Passes(end.ring, s) = Over(fragments, all \ end.unused, s)

(* Of fragments that end evenly everywhere, whichever is begun with comes  *)
(* round, and those that are left end evenly.                              *)
LEMMA RingCloses ==
    ASSUME NEW Vertex, NEW fragments \in Seq(Seq(Vertex)), NEW all,
              all \subseteq Loose(fragments),
           NoEdgeTwice(fragments), EndsEvenly(fragments, all), NEW i \in all,
           NEW start, start = [ring |-> fragments[i], unused |-> all \ {i}],
           NEW end, end = CloseRing(fragments, start)
    PROVE  Closes(Vertex, fragments, all, i, end)
  <1>1. PICK n \in Nat : n = Len(fragments)
    OBVIOUS
  <1>3. PICK f : /\ f[0] = start
                 /\ \A k \in 1..n : f[k] = Stitch(fragments, f[k - 1])
                 /\ CloseRing(fragments, start) = f[n]
    <2>1. Len(fragments) \in Nat
      BY <1>1
    <2>2. ASSUME NEW s
          PROVE  \E f :
                     /\ f[0] = s
                     /\ \A k \in 1..Len(fragments) : f[k] = Stitch(fragments, f[k - 1])
                     /\ CloseRing(fragments, s) = f[Len(fragments)]
      BY <2>1, CloseRingRounds, Zenon
    <2>. QED
      BY <1>1, <2>2, Zenon
  <1>. DEFINE Holds(st, k) ==
                /\ RingHolds(Vertex, fragments, all, st.ring, st.unused)
                /\ st.unused \subseteq all \ {i}
                /\ IsWhole(st.ring) \/ Cardinality(st.unused) + k < n
              Good == {k \in Nat : k <= n => Holds(f[k], k)}
  <1>4. Holds(start, 0)
    <2>1. start.ring = fragments[i] /\ start.unused = all \ {i}
      OBVIOUS
    <2>2. RingHolds(Vertex, fragments, all, fragments[i], all \ {i})
      BY RingStarts
    <2>3. Cardinality(all \ {i}) + 0 < n
      <3>1. all \subseteq 1..n /\ IsFiniteSet(1..n) /\ Cardinality(1..n) = n
        <4>1. DOMAIN fragments = 1..n
          BY <1>1
        <4>2. all \subseteq 1..n
          BY <4>1 DEF Loose
        <4>3. Cardinality(1..n) = n
          <5>1. 1 \in Int /\ n \in Int /\ ~(1 > n + 1) /\ (n - 1) + 1 = n
            OBVIOUS
          <5>. QED
            BY <5>1, FS_Interval
        <4>. QED
          BY <4>2, <4>3, FS_Interval
      <3>2. IsFiniteSet(all) /\ Cardinality(all) <= n
        BY <3>1, FS_Subset
      <3>3. Cardinality(all \ {i}) = Cardinality(all) - 1 /\ Cardinality(all) \in Nat
        BY <3>2, FS_RemoveElement, FS_CardinalityType
      <3>. QED
        BY <3>2, <3>3
    <2>. QED
      BY <2>1, <2>2, <2>3
  <1>5. ASSUME NEW k \in Nat, k \in Good
        PROVE  k + 1 \in Good
    <2>1. CASE ~(k + 1 <= n)
      BY <2>1
    <2>2. CASE k + 1 <= n
      <3>1. k <= n /\ k + 1 \in 1..n /\ (k + 1) - 1 = k
        BY <2>2
      <3>2. PICK st : st = f[k]
        OBVIOUS
      <3>3. Holds(st, k)
        BY <1>5, <3>1, <3>2
      <3>4. f[k + 1] = Stitch(fragments, st)
        BY <1>3, <3>1, <3>2
      <3>5. PICK next : next = Stitch(fragments, st)
        OBVIOUS
      <3>6. /\ RingHolds(Vertex, fragments, all, next.ring, next.unused)
            /\ next.unused \subseteq st.unused
            /\ IsWhole(next.ring) \/ Cardinality(next.unused) + (k + 1) < n
        BY <1>1, <3>3, <3>5, RingRound
      <3>7. Holds(next, k + 1)
        BY <3>3, <3>6
      <3>. QED
        BY <3>4, <3>5, <3>7
    <2>. QED
      BY <2>1, <2>2
  <1>6. 0 \in Good
    BY <1>3, <1>4
  <1>. HIDE DEF Good
  <1>7. n \in Good
    BY <1>5, <1>6, NumberInduction, Zenon
  <1>8. PICK last : last = f[n]
    OBVIOUS
  <1>9. Holds(last, n)
    BY <1>7, <1>8 DEF Good
  <1>10. IsWhole(last.ring)
    <2>1. Cardinality(last.unused) \in Nat
      <3>1. last.unused \subseteq DOMAIN fragments
        BY <1>9 DEF Loose
      <3>2. IsFiniteSet(last.unused)
        BY <3>1, OverIs
      <3>. QED
        BY <3>2, FS_CardinalityType
    <2>. QED
      BY <1>9, <2>1
  <1>11. ClosedRing(last.ring)
    BY <1>10 DEF IsWhole
  <1>12. /\ last.ring \in Seq(Vertex) /\ EndsEvenly(fragments, last.unused)
         /\ \A s : Passes(last.ring, s) = Over(fragments, all \ last.unused, s)
    BY <1>9, <1>11 DEF RingHolds, EndsEvenly
  <1>13. last = end
    BY <1>3, <1>8
  <1>. QED
    BY <1>9, <1>10, <1>12, <1>13 DEF Closes

(* The sum over two sets apart.                                            *)
LEMMA SumOfBoth ==
    ASSUME NEW S, IsFiniteSet(S), NEW T, IsFiniteSet(T), S \cap T = {}, NEW f,
           \A x \in S \cup T : f[x] \in Nat
    PROVE  SumFunctionOnSet(f, S \cup T) = SumFunctionOnSet(f, S) + SumFunctionOnSet(f, T)
  <1>1. IsFiniteSet(S \cup T)
    BY FS_Union
  <1>2. /\ SumFunctionOnSet(f, S) = Cardinality(Units(f, S)) /\ IsFiniteSet(Units(f, S))
        /\ SumFunctionOnSet(f, T) = Cardinality(Units(f, T)) /\ IsFiniteSet(Units(f, T))
    BY SumIsUnits, UnitsAreFinite
  <1>3. SumFunctionOnSet(f, S \cup T) = Cardinality(Units(f, S \cup T))
    BY <1>1, SumIsUnits
  <1>4. Units(f, S \cup T) = Units(f, S) \cup Units(f, T) /\ Units(f, S) \cap Units(f, T) = {}
    BY DEF Units
  <1>5. Cardinality(Units(f, S \cup T)) = Cardinality(Units(f, S)) + Cardinality(Units(f, T))
    BY <1>2, <1>4, DisjointUnion
  <1>. QED
    BY <1>2, <1>3, <1>5

(* The fragments of two sets apart.                                        *)
LEMMA OverBoth ==
    ASSUME NEW T, NEW lines \in Seq(Seq(T)), NEW A, A \subseteq DOMAIN lines,
           NEW B, B \subseteq DOMAIN lines, A \cap B = {}, NEW stretch
    PROVE  Over(lines, A \cup B, stretch) = Over(lines, A, stretch) + Over(lines, B, stretch)
  <1>1. IsFiniteSet(A) /\ IsFiniteSet(B)
    BY OverIs
  <1>2. PICK f : f = [i \in DOMAIN lines |-> Passes(lines[i], stretch)]
    OBVIOUS
  <1>3. ASSUME NEW i \in A \cup B
        PROVE  f[i] \in Nat
    <2>1. i \in DOMAIN lines /\ lines[i] \in Seq(T)
      OBVIOUS
    <2>. QED
      BY <1>2, <2>1, SpotsAre
  <1>4. SumFunctionOnSet(f, A \cup B) = SumFunctionOnSet(f, A) + SumFunctionOnSet(f, B)
    BY <1>1, <1>3, SumOfBoth
  <1>. QED
    BY <1>2, <1>4 DEF Over

(* All lines of a list.                                                    *)
LEMMA PassesOfIs ==
    ASSUME NEW lines, NEW stretch
    PROVE  PassesOf(lines, stretch) = Over(lines, DOMAIN lines, stretch)
  BY DEF PassesOf, Over

(* A line of fewer than two nodes passes over nothing.                     *)
LEMMA ShortPasses ==
    ASSUME NEW T, NEW line \in Seq(T), ~(Len(line) >= 2), NEW stretch
    PROVE  Passes(line, stretch) = 0
  <1>1. Spots(line, stretch) = {}
    <2>1. PICK n \in Nat : n = Len(line)
      OBVIOUS
    <2>2. 1..(n - 1) = {}
      BY <2>1
    <2>. QED
      BY <2>1, <2>2 DEF Spots
  <1>. QED
    BY <1>1, SpotsAre, FS_EmptySet

(* One more line at the end of the list.                                   *)
LEMMA PassesOfMore ==
    ASSUME NEW T, NEW lines \in Seq(Seq(T)), NEW line \in Seq(T), NEW stretch
    PROVE  PassesOf(Append(lines, line), stretch)
              = PassesOf(lines, stretch) + Passes(line, stretch)
  <1>1. PICK n \in Nat : n = Len(lines)
    OBVIOUS
  <1>2. PICK more : more = Append(lines, line)
    OBVIOUS
  <1>3. /\ more \in Seq(Seq(T)) /\ Len(more) = n + 1 /\ more[n + 1] = line
        /\ \A i \in 1..n : more[i] = lines[i]
    BY <1>1, <1>2
  <1>4. DOMAIN lines = 1..n /\ DOMAIN more = (1..n) \cup {n + 1} /\ n + 1 \notin 1..n
    <2>1. 1..(n + 1) = (1..n) \cup {n + 1}
      OBVIOUS
    <2>. QED
      BY <1>1, <1>3, <2>1
  <1>5. PICK f : f = [i \in DOMAIN lines |-> Passes(lines[i], stretch)]
    OBVIOUS
  <1>6. PICK g : g = [i \in DOMAIN more |-> Passes(more[i], stretch)]
    OBVIOUS
  <1>7. ASSUME NEW i \in 1..n
        PROVE  f[i] \in Nat /\ g[i] = f[i]
    <2>1. lines[i] \in Seq(T)
      BY <1>4
    <2>2. f[i] = Passes(lines[i], stretch) /\ g[i] = Passes(lines[i], stretch)
      BY <1>3, <1>4, <1>5, <1>6
    <2>. QED
      BY <2>1, <2>2, SpotsAre
  <1>8. g[n + 1] = Passes(line, stretch) /\ g[n + 1] \in Nat
    BY <1>3, <1>4, <1>6, SpotsAre
  <1>9. PICK S : S = 1..n /\ IsFiniteSet(S)
    BY FS_Interval
  <1>10. \A y \in S \cup {n + 1} : g[y] \in Nat
    BY <1>7, <1>8, <1>9
  <1>11. SumFunctionOnSet(g, S \cup {n + 1}) = SumFunctionOnSet(g, S) + g[n + 1]
    BY <1>4, <1>9, <1>10, SumOfMore
  <1>12. SumFunctionOnSet(g, S) = SumFunctionOnSet(f, S)
    BY <1>7, <1>9, SumOfSame
  <1>13. PassesOf(more, stretch) = SumFunctionOnSet(g, S \cup {n + 1})
    BY <1>4, <1>6, <1>9 DEF PassesOf
  <1>14. PassesOf(lines, stretch) = SumFunctionOnSet(f, S)
    BY <1>4, <1>5, <1>9 DEF PassesOf
  <1>. QED
    BY <1>2, <1>8, <1>11, <1>12, <1>13, <1>14

(* No line passes over anything.                                           *)
LEMMA PassesOfNone ==
    ASSUME NEW stretch
    PROVE  PassesOf(<<>>, stretch) = 0
  <1>1. DOMAIN <<>> = {}
    OBVIOUS
  <1>. QED
    BY <1>1, SumOfNothing DEF PassesOf

-----------------------------------------------------------------------------
(* The rings that need no stitching pass over what their fragments do, and *)
(* a fragment too short to be a line passes over nothing.                  *)
ClosedUpTo(Vertex, fragments, rings, k) ==
    /\ rings \in Seq(Seq(Vertex))
    /\ \A i \in DOMAIN rings : ClosedRing(rings[i])
    /\ \A s : PassesOf(rings, s) = Over(fragments, (1..k) \ Loose(fragments), s)

(* The rings there are before any is stitched.                             *)
LEMMA ClosedFragmentsAre ==
    ASSUME NEW Vertex, NEW fragments \in Seq(Seq(Vertex))
    PROVE  /\ ClosedFragments(fragments) \in Seq(Seq(Vertex))
           /\ \A i \in DOMAIN ClosedFragments(fragments) :
                  ClosedRing(ClosedFragments(fragments)[i])
           /\ \A s : PassesOf(ClosedFragments(fragments), s)
                        = Over(fragments, DOMAIN fragments \ Loose(fragments), s)
  <1>1. PICK n \in Nat : n = Len(fragments)
    OBVIOUS
  <1>2. PICK f : /\ f[0] = <<>>
                 /\ \A k \in 1..Len(fragments) : f[k] = WithClosed(f[k - 1], fragments[k])
                 /\ ClosedFragments(fragments) = f[Len(fragments)]
    <2>1. Len(fragments) \in Nat
      BY <1>1
    <2>. QED
      BY <2>1, ClosedFragmentsSteps
  <1>. DEFINE Good == {k \in Nat : k <= n => ClosedUpTo(Vertex, fragments, f[k], k)}
  <1>3. 0 \in Good
    <2>1. (1..0) \ Loose(fragments) = {} /\ {} \subseteq DOMAIN fragments
      OBVIOUS
    <2>2. ASSUME NEW s
          PROVE  PassesOf(<<>>, s) = Over(fragments, (1..0) \ Loose(fragments), s)
      BY <2>1, PassesOfNone, OverIs
    <2>3. <<>> \in Seq(Seq(Vertex)) /\ DOMAIN <<>> = {}
      OBVIOUS
    <2>4. ClosedUpTo(Vertex, fragments, <<>>, 0)
      BY <2>2, <2>3 DEF ClosedUpTo
    <2>. QED
      BY <1>2, <2>4
  <1>4. ASSUME NEW k \in Nat, k \in Good
        PROVE  k + 1 \in Good
    <2>1. CASE ~(k + 1 <= n)
      BY <2>1
    <2>2. CASE k + 1 <= n
      <3>1. k <= n /\ k + 1 \in 1..n /\ (k + 1) - 1 = k /\ k + 1 \in DOMAIN fragments
        BY <1>1, <2>2
      <3>2. PICK rings, line : rings = f[k] /\ line = fragments[k + 1]
        OBVIOUS
      <3>3. /\ rings \in Seq(Seq(Vertex))
            /\ \A i \in DOMAIN rings : ClosedRing(rings[i])
            /\ \A s : PassesOf(rings, s) = Over(fragments, (1..k) \ Loose(fragments), s)
        BY <1>4, <3>1, <3>2 DEF ClosedUpTo
      <3>4. line \in Seq(Vertex)
        BY <3>1, <3>2
      <3>5. f[k + 1] = IF IsLine(line) /\ ClosedRing(line) THEN Append(rings, line) ELSE rings
        BY <1>1, <1>2, <3>1, <3>2 DEF WithClosed
      <3>6. k + 1 \in Loose(fragments) <=> IsLine(line) /\ ~ClosedRing(line)
        BY <3>1, <3>2 DEF Loose
      <3>7. 1..(k + 1) = (1..k) \cup {k + 1} /\ k + 1 \notin 1..k
        OBVIOUS
      <3>8. PICK S : S = (1..k) \ Loose(fragments)
        OBVIOUS
      <3>9. S \subseteq DOMAIN fragments /\ k + 1 \in DOMAIN fragments \ S
        BY <1>1, <3>1, <3>7, <3>8
      <3>10. k + 1 \notin Loose(fragments) => (1..(k + 1)) \ Loose(fragments) = S \cup {k + 1}
        BY <3>7, <3>8
      <3>11. \A s : Over(fragments, S \cup {k + 1}, s) = Over(fragments, S, s) + Passes(line, s)
        BY <3>2, <3>9, OverIs
      <3>12. CASE IsLine(line) /\ ClosedRing(line)
        <4>1. PICK more : more = Append(rings, line)
          OBVIOUS
        <4>2. more \in Seq(Seq(Vertex))
          BY <3>3, <3>4, <4>1
        <4>3. \A i \in DOMAIN more : ClosedRing(more[i])
          <5>1. PICK m \in Nat : m = Len(rings)
            BY <3>3
          <5>2. DOMAIN more = 1..(m + 1) /\ more[m + 1] = line /\ \A i \in 1..m :
                    more[i] = rings[i]
            BY <3>3, <4>1, <5>1
          <5>3. \A i \in 1..(m + 1) : i \in 1..m \/ i = m + 1
            OBVIOUS
          <5>4. DOMAIN rings = 1..m
            BY <3>3, <5>1
          <5>. QED
            BY <3>3, <3>12, <5>2, <5>3, <5>4
        <4>4. ASSUME NEW s
              PROVE  PassesOf(more, s) = Over(fragments, (1..(k + 1)) \ Loose(fragments), s)
          <5>1. PassesOf(more, s) = PassesOf(rings, s) + Passes(line, s)
            BY <3>3, <3>4, <4>1, PassesOfMore
          <5>. QED
            BY <3>3, <3>6, <3>8, <3>10, <3>11, <3>12, <5>1
        <4>5. ClosedUpTo(Vertex, fragments, more, k + 1)
          BY <4>2, <4>3, <4>4 DEF ClosedUpTo
        <4>6. f[k + 1] = more
          BY <3>5, <3>12, <4>1
        <4>. QED
          BY <4>5, <4>6
      <3>13. CASE ~(IsLine(line) /\ ClosedRing(line))
        <4>1. ASSUME NEW s
              PROVE  PassesOf(rings, s) = Over(fragments, (1..(k + 1)) \ Loose(fragments), s)
          <5>1. CASE k + 1 \in Loose(fragments)
            <6>1. (1..(k + 1)) \ Loose(fragments) = S
              BY <3>7, <3>8, <5>1
            <6>. QED
              BY <3>3, <3>8, <6>1
          <5>2. CASE k + 1 \notin Loose(fragments)
            <6>1. Passes(line, s) = 0
              BY <3>4, <3>6, <3>13, <5>2, ShortPasses DEF IsLine
            <6>2. Over(fragments, S, s) \in Nat
              BY <3>9, OverIs
            <6>3. Over(fragments, S \cup {k + 1}, s) = Over(fragments, S, s)
              <7>1. PICK a \in Nat : a = Over(fragments, S, s)
                BY <6>2
              <7>2. Over(fragments, S \cup {k + 1}, s) = a + 0
                BY <3>11, <6>1, <7>1
              <7>. QED
                BY <7>1, <7>2
            <6>. QED
              BY <3>3, <3>8, <3>10, <5>2, <6>3
          <5>. QED
            BY <5>1, <5>2
        <4>2. ClosedUpTo(Vertex, fragments, rings, k + 1)
          BY <3>3, <4>1 DEF ClosedUpTo
        <4>3. f[k + 1] = rings
          BY <3>5, <3>13
        <4>. QED
          BY <4>2, <4>3
      <3>. QED
        BY <3>12, <3>13
    <2>. QED
      BY <2>1, <2>2
  <1>. HIDE DEF Good
  <1>5. n \in Good
    BY <1>3, <1>4, NumberInduction, Zenon
  <1>6. PICK rings : rings = f[n]
    OBVIOUS
  <1>7. ClosedUpTo(Vertex, fragments, rings, n)
    BY <1>5, <1>6 DEF Good
  <1>8. DOMAIN fragments = 1..n /\ ClosedFragments(fragments) = rings
    BY <1>1, <1>2, <1>6
  <1>. QED
    BY <1>7, <1>8 DEF ClosedUpTo

(* The rings made so far are closed and pass over what all fragments do    *)
(* but the unused; those still end evenly, and lie ahead.                  *)
RingsUpTo(Vertex, fragments, st, k) ==
    /\ st.rings \in Seq(Seq(Vertex))
    /\ \A i \in DOMAIN st.rings : ClosedRing(st.rings[i])
    /\ st.unused \subseteq Loose(fragments) \ (1..k)
    /\ EndsEvenly(fragments, st.unused)
    /\ \A s : PassesOf(st.rings, s) = Over(fragments, DOMAIN fragments \ st.unused, s)

(* One start of the loop of assemble_rings.                                *)
LEMMA RingAdded ==
    ASSUME NEW Vertex, NEW fragments \in Seq(Seq(Vertex)), NoEdgeTwice(fragments),
           NEW k \in Nat, k < Len(fragments), NEW st, RingsUpTo(Vertex, fragments, st, k)
    PROVE  RingsUpTo(Vertex, fragments, StartRing(fragments, k + 1, st), k + 1)
  <1>1. k + 1 \in DOMAIN fragments /\ 1..(k + 1) = (1..k) \cup {k + 1}
    OBVIOUS
  <1>2. CASE k + 1 \notin st.unused
    <2>1. StartRing(fragments, k + 1, st) = st
      BY <1>2 DEF StartRing
    <2>2. st.unused \subseteq Loose(fragments) \ (1..(k + 1))
      BY <1>1, <1>2 DEF RingsUpTo
    <2>. QED
      BY <2>1, <2>2 DEF RingsUpTo
  <1>3. CASE k + 1 \in st.unused
    <2>1. PICK all : all = st.unused
      OBVIOUS
    <2>2. /\ all \subseteq Loose(fragments) /\ all \subseteq DOMAIN fragments
          /\ k + 1 \in all /\ EndsEvenly(fragments, all)
          /\ all \subseteq Loose(fragments) \ (1..k)
      BY <1>3, <2>1 DEF RingsUpTo, Loose
    <2>3. PICK end : end = CloseRing(fragments, [ring |-> fragments[k + 1],
              unused |-> all \ {k + 1}])
      OBVIOUS
    <2>4. /\ end.ring \in Seq(Vertex) /\ IsWhole(end.ring)
          /\ end.unused \subseteq all \ {k + 1}
          /\ EndsEvenly(fragments, end.unused)
          /\ \A s : Passes(end.ring, s) = Over(fragments, all \ end.unused, s)
      <3>1. PICK i : i = k + 1
        OBVIOUS
      <3>5. PICK start : start = [ring |-> fragments[i], unused |-> all \ {i}]
        OBVIOUS
      <3>2. i \in all /\ end = CloseRing(fragments, start)
        BY <2>2, <2>3, <3>1, <3>5
      <3>3. all \subseteq Loose(fragments) /\ EndsEvenly(fragments, all)
        BY <2>2
      <3>4. Closes(Vertex, fragments, all, i, end)
        BY <3>2, <3>3, <3>5, RingCloses
      <3>. QED
        BY <3>1, <3>4 DEF Closes
    <2>5. PICK rings, more : rings = st.rings /\ more = Append(rings, end.ring)
      OBVIOUS
    <2>6. StartRing(fragments, k + 1, st) = [rings |-> more, unused |-> end.unused]
      BY <1>3, <2>1, <2>3, <2>4, <2>5 DEF StartRing, WithRing
    <2>7. /\ rings \in Seq(Seq(Vertex)) /\ \A i \in DOMAIN rings : ClosedRing(rings[i])
          /\ \A s : PassesOf(rings, s) = Over(fragments, DOMAIN fragments \ all, s)
      BY <2>1, <2>5 DEF RingsUpTo
    <2>8. more \in Seq(Seq(Vertex)) /\ \A i \in DOMAIN more : ClosedRing(more[i])
      <3>1. PICK m \in Nat : m = Len(rings)
        BY <2>7
      <3>2. PICK ring : ring = end.ring /\ ring \in Seq(Vertex) /\ ClosedRing(ring)
        BY <2>4 DEF IsWhole
      <3>3. /\ more \in Seq(Seq(Vertex)) /\ DOMAIN more = 1..(m + 1) /\ more[m + 1] = ring
            /\ \A i \in 1..m : more[i] = rings[i]
        BY <2>5, <2>7, <3>1, <3>2
      <3>4. \A i \in 1..(m + 1) : i \in 1..m \/ i = m + 1
        OBVIOUS
      <3>5. DOMAIN rings = 1..m
        BY <2>7, <3>1
      <3>. QED
        BY <2>7, <3>2, <3>3, <3>4, <3>5
    <2>9. ASSUME NEW s
          PROVE  PassesOf(more, s) = Over(fragments, DOMAIN fragments \ end.unused, s)
      <3>1. PassesOf(more, s) = PassesOf(rings, s) + Passes(end.ring, s)
        BY <2>4, <2>5, <2>7, PassesOfMore
      <3>2. PICK A, B : A = DOMAIN fragments \ all /\ B = all \ end.unused
        OBVIOUS
      <3>3. /\ A \subseteq DOMAIN fragments /\ B \subseteq DOMAIN fragments /\ A \cap B = {}
            /\ DOMAIN fragments \ end.unused = A \cup B
        BY <2>2, <2>4, <3>2
      <3>4. Over(fragments, A \cup B, s) = Over(fragments, A, s) + Over(fragments, B, s)
        BY <3>3, OverBoth
      <3>. QED
        BY <2>4, <2>7, <3>1, <3>2, <3>3, <3>4
    <2>10. end.unused \subseteq Loose(fragments) \ (1..(k + 1))
      BY <1>1, <2>2, <2>4
    <2>11. RingsUpTo(Vertex, fragments, [rings |-> more, unused |-> end.unused], k + 1)
      BY <2>4, <2>8, <2>9, <2>10 DEF RingsUpTo
    <2>. QED
      BY <2>6, <2>11
  <1>. QED
    BY <1>2, <1>3

(* assemble_rings makes whole rings of all the fragments it is given, each *)
(* used once, whenever they can be stitched at all.                        *)
THEOREM RingsAreWhole ==
    ASSUME NEW Vertex, NEW fragments \in Seq(Seq(Vertex)), ClosesUp(fragments)
    PROVE  /\ SameStretches(AssembleRings(fragments), fragments)
           /\ \A i \in DOMAIN AssembleRings(fragments) : ClosedRing(AssembleRings(fragments)[i])
  <1>1. PICK n \in Nat : n = Len(fragments)
    OBVIOUS
  <1>2. PICK f : /\ f[0] = [rings |-> ClosedFragments(fragments), unused |-> Loose(fragments)]
                 /\ \A k \in 1..Len(fragments) : f[k] = StartRing(fragments, k, f[k - 1])
                 /\ AssembleRings(fragments) = f[Len(fragments)].rings
    <2>1. Len(fragments) \in Nat
      BY <1>1
    <2>. QED
      BY <2>1, AssembleRingsSteps
  <1>3. NoEdgeTwice(fragments)
    BY DEF NoEdgeTwice, ClosesUp
  <1>4. ASSUME NEW v
        PROVE  ~Odd(fragments, Loose(fragments), v)
    <2>1. CASE v \in UNION {Ends(fragments[i]) : i \in Loose(fragments)}
      <3>1. Cardinality({i \in Loose(fragments) : v \in Ends(fragments[i])}) % 2 = 0
        BY <2>1 DEF ClosesUp
      <3>. QED
        BY <3>1 DEF Odd, EndingAt
    <2>2. CASE v \notin UNION {Ends(fragments[i]) : i \in Loose(fragments)}
      BY <2>2, SomeEndsWhereOdd
    <2>. QED
      BY <2>1, <2>2
  <1>. DEFINE Good == {k \in Nat : k <= n => RingsUpTo(Vertex, fragments, f[k], k)}
  <1>5. 0 \in Good
    <2>1. PICK st : st = f[0]
      OBVIOUS
    <2>2. st.rings = ClosedFragments(fragments) /\ st.unused = Loose(fragments)
      BY <1>2, <2>1
    <2>3. 1..0 = {}
      OBVIOUS
    <2>4. RingsUpTo(Vertex, fragments, st, 0)
      BY <1>4, <2>2, <2>3, ClosedFragmentsAre DEF RingsUpTo, EndsEvenly
    <2>. QED
      BY <2>1, <2>4
  <1>6. ASSUME NEW k \in Nat, k \in Good
        PROVE  k + 1 \in Good
    <2>1. CASE ~(k + 1 <= n)
      BY <2>1
    <2>2. CASE k + 1 <= n
      <3>1. k <= n /\ k < Len(fragments) /\ k + 1 \in 1..Len(fragments) /\ (k + 1) - 1 = k
        BY <1>1, <2>2
      <3>2. PICK st : st = f[k]
        OBVIOUS
      <3>3. RingsUpTo(Vertex, fragments, st, k)
        BY <1>6, <3>1, <3>2
      <3>4. f[k + 1] = StartRing(fragments, k + 1, st)
        BY <1>2, <3>1, <3>2
      <3>5. RingsUpTo(Vertex, fragments, StartRing(fragments, k + 1, st), k + 1)
        BY <1>3, <3>1, <3>3, RingAdded
      <3>. QED
        BY <3>4, <3>5
    <2>. QED
      BY <2>1, <2>2
  <1>. HIDE DEF Good
  <1>7. n \in Good
    BY <1>5, <1>6, NumberInduction, Zenon
  <1>8. PICK st : st = f[n]
    OBVIOUS
  <1>9. RingsUpTo(Vertex, fragments, st, n)
    BY <1>7, <1>8 DEF Good
  <1>10. st.unused = {} /\ AssembleRings(fragments) = st.rings
    <2>1. DOMAIN fragments = 1..n
      BY <1>1
    <2>2. st.unused \subseteq Loose(fragments) \ (1..n)
              /\ Loose(fragments) \subseteq DOMAIN fragments
      BY <1>9 DEF RingsUpTo, Loose
    <2>. QED
      BY <1>1, <1>2, <1>8, <2>1, <2>2
  <1>11. ASSUME NEW s
         PROVE  PassesOf(st.rings, s) = PassesOf(fragments, s)
    <2>1. DOMAIN fragments \ {} = DOMAIN fragments
      OBVIOUS
    <2>2. PassesOf(st.rings, s) = Over(fragments, DOMAIN fragments \ {}, s)
      BY <1>9, <1>10 DEF RingsUpTo
    <2>. QED
      BY <2>1, <2>2, PassesOfIs
  <1>12. SameStretches(st.rings, fragments)
    BY <1>11 DEF SameStretches
  <1>13. \A i \in DOMAIN st.rings : ClosedRing(st.rings[i])
    BY <1>9 DEF RingsUpTo
  <1>. QED
    BY <1>10, <1>12, <1>13

(* So every reachable state has it, of the fragments of that instance.     *)
THEOREM RingsHold == ExtractSpec => []RingsUseEveryFragment
  <1>1. RingsUseEveryFragment
    <2>. SUFFICES ASSUME NEW fragments \in FragmentLists, ClosesUp(fragments)
                  PROVE  /\ SameStretches(AssembleRings(fragments), fragments)
                         /\ \A i \in DOMAIN AssembleRings(fragments) :
                                ClosedRing(AssembleRings(fragments)[i])
      BY DEF RingsUseEveryFragment
    <2>1. fragments \in Seq(Seq(Nat))
      <3>. DEFINE edges == ((0..3) \X (0..3) \ {<<node, node>> : node \in 0..3})
                              \cup {<<0, 5, 1>>, <<2, 6, 0>>, <<1, 7, 1>>}
      <3>1. edges \subseteq Seq(Nat)
        <4>1. ASSUME NEW edge \in (0..3) \X (0..3)
              PROVE  edge \in Seq(Nat)
          <5>1. PICK a \in 0..3, b \in 0..3 : edge = <<a, b>>
            OBVIOUS
          <5>2. a \in Nat /\ b \in Nat
            OBVIOUS
          <5>. QED
            BY <5>1, <5>2
        <4>2. <<0, 5, 1>> \in Seq(Nat) /\ <<2, 6, 0>> \in Seq(Nat) /\ <<1, 7, 1>> \in Seq(Nat)
          OBVIOUS
        <4>. QED
          BY <4>1, <4>2
      <3>2. PICK n \in 3..4 : fragments \in [1..n -> edges]
        BY DEF FragmentLists
      <3>. HIDE DEF edges
      <3>3. n \in Nat /\ fragments \in Seq(edges)
        BY <3>2
      <3>. QED
        BY <3>1, <3>3
    <2>. QED
      BY <2>1, RingsAreWhole
  <1>. QED
    BY <1>1, PTL

-----------------------------------------------------------------------------
(* Strokes.                                                                *)

(* Lines that are too short pass over nothing together.                    *)
LEMMA OverShort ==
    ASSUME NEW T, NEW lines \in Seq(Seq(T)), NEW A, A \subseteq DOMAIN lines,
           \A i \in A : ~(Len(lines[i]) >= 2), NEW stretch
    PROVE  Over(lines, A, stretch) = 0
  <1>1. IsFiniteSet(A)
    BY OverIs
  <1>2. PICK f : f = [i \in DOMAIN lines |-> Passes(lines[i], stretch)]
    OBVIOUS
  <1>3. ASSUME NEW i \in A
        PROVE  f[i] = 0
    <2>1. i \in DOMAIN lines /\ lines[i] \in Seq(T)
      OBVIOUS
    <2>. QED
      BY <1>2, <2>1, ShortPasses
  <1>4. Units(f, A) = {}
    <2>1. 1..0 = {}
      OBVIOUS
    <2>. QED
      BY <1>3, <2>1 DEF Units
  <1>5. SumFunctionOnSet(f, A) = Cardinality(Units(f, A))
    BY <1>1, <1>3, SumIsUnits
  <1>. QED
    BY <1>2, <1>4, <1>5, FS_EmptySet DEF Over

(* A stroke under way is as long as the lines it has used together.        *)
StrokeHolds(T, lines, all, st) ==
    /\ st = [coords |-> st.coords, unused |-> st.unused]
    /\ st.coords \in Seq(T) /\ Len(st.coords) >= 2
    /\ st.unused \subseteq all
    /\ \A s : Passes(st.coords, s) = Over(lines, all \ st.unused, s)

(* A round keeps a stroke what it is: Extended joins a line at the node    *)
(* both share.                                                             *)
LEMMA StrokeGrows ==
    ASSUME NEW T, NEW lines \in Seq(Seq(T)), NEW all, all \subseteq Drawn(lines),
           NEW st, StrokeHolds(T, lines, all, st)
    PROVE  /\ StrokeHolds(T, lines, all, Grow(lines, st))
           /\ Grow(lines, st).unused \subseteq st.unused
  <1>. DEFINE best == BestBranches(lines, st.unused, st.coords)
  <1>1. CASE best = {}
    BY <1>1 DEF Grow
  <1>2. CASE best # {}
    <2>1. PICK b : b = CHOOSE c \in best : TRUE
      OBVIOUS
    <2>2. b \in BranchesAt(lines, st.unused, st.coords[Len(st.coords)])
      <3>1. b \in best
        BY <1>2, <2>1
      <3>. QED
        BY <1>2, <3>1 DEF BestBranches
    <2>3. b.line \in st.unused /\ b.isStart \in BOOLEAN
          /\ BranchNode(lines, b) = st.coords[Len(st.coords)]
      BY <2>2 DEF BranchesAt
    <2>4. PICK line : line = lines[b.line]
      OBVIOUS
    <2>5. b.line \in DOMAIN lines /\ b.line \in all /\ line \in Seq(T) /\ Len(line) >= 2
      BY <2>3, <2>4 DEF StrokeHolds, Drawn
    <2>6. PICK n \in Nat : n = Len(line) /\ n >= 2
      BY <2>5
    <2>7. PICK piece : piece = IF b.isStart THEN line ELSE Reverse(line)
      OBVIOUS
    <2>8. /\ Reverse(line) \in Seq(T) /\ Len(Reverse(line)) = n /\ Reverse(line)[1] = line[n]
      <3>1. \A i \in 1..n : Reverse(line)[i] = line[(n - i) + 1]
        BY <2>6 DEF Reverse
      <3>2. 1 \in 1..n /\ (n - 1) + 1 = n
        BY <2>6
      <3>. QED
        BY <2>5, <2>6, <3>1, <3>2 DEF Reverse
    <2>9. piece \in Seq(T) /\ Len(piece) = n /\ piece[1] = st.coords[Len(st.coords)]
      <3>1. CASE b.isStart
        BY <2>3, <2>4, <2>5, <2>6, <2>7, <3>1 DEF BranchNode
      <3>2. CASE ~b.isStart
        BY <2>3, <2>4, <2>5, <2>6, <2>7, <2>8, <3>2 DEF BranchNode, Last
      <3>. QED
        BY <3>1, <3>2
    <2>10. \A s : Passes(piece, s) = Passes(line, s)
      BY <2>5, <2>7, PassesTurned
    <2>11. PICK coords, longer : coords = st.coords /\ longer = coords \o Tail(piece)
      OBVIOUS
    <2>12. coords \in Seq(T) /\ Len(coords) >= 2
      BY <2>11 DEF StrokeHolds
    <2>13. ASSUME NEW s
           PROVE  /\ coords \o Tail(piece) \in Seq(T)
                  /\ Len(coords \o Tail(piece)) = Len(coords) + Len(piece) - 1
                  /\ (coords \o Tail(piece))[1] = coords[1]
                  /\ (coords \o Tail(piece))[Len(coords \o Tail(piece))] = piece[Len(piece)]
                  /\ Passes(coords \o Tail(piece), s) = Passes(coords, s) + Passes(piece, s)
      <3>1. Len(coords) > 0 /\ Len(piece) > 0 /\ coords[Len(coords)] = piece[1]
        BY <2>6, <2>9, <2>11, <2>12
      <3>2. coords \in Seq(T) /\ piece \in Seq(T)
        BY <2>9, <2>12
      <3>. QED
        BY <3>1, <3>2, PassesJoined
    <2>14. longer \in Seq(T) /\ Len(longer) >= 2
      <3>1. longer \in Seq(T) /\ Len(longer) = Len(coords) + n - 1
        BY <2>9, <2>11, <2>13
      <3>. QED
        BY <2>6, <2>12, <3>1
    <2>15. ASSUME NEW s
           PROVE  Passes(longer, s) = Over(lines, all \ (st.unused \ {b.line}), s)
      <3>1. Passes(longer, s) = Passes(coords, s) + Passes(line, s)
        BY <2>10, <2>11, <2>13
      <3>2. PICK used : used = all \ st.unused
        OBVIOUS
      <3>3. /\ used \subseteq DOMAIN lines /\ b.line \in DOMAIN lines \ used
            /\ all \ (st.unused \ {b.line}) = used \cup {b.line}
        BY <2>3, <2>5, <3>2 DEF Drawn
      <3>6. \A j \in DOMAIN lines \ used :
                Over(lines, used \cup {j}, s) = Over(lines, used, s) + Passes(lines[j], s)
        BY <3>3, OverIs
      <3>4. Over(lines, used \cup {b.line}, s) = Over(lines, used, s) + Passes(lines[b.line], s)
        BY <3>3, <3>6
      <3>5. Passes(coords, s) = Over(lines, used, s)
        BY <2>11, <3>2 DEF StrokeHolds
      <3>. QED
        BY <2>4, <3>1, <3>3, <3>4, <3>5
    <2>16. Grow(lines, st) = [coords |-> longer, unused |-> st.unused \ {b.line}]
      BY <1>2, <2>1, <2>4, <2>7, <2>11 DEF Grow, Extended
    <2>17. StrokeHolds(T, lines, all, [coords |-> longer, unused |-> st.unused \ {b.line}])
      BY <2>14, <2>15 DEF StrokeHolds
    <2>. QED
      BY <2>16, <2>17
  <1>. QED
    BY <1>1, <1>2

(* So do all the rounds at one end.                                        *)
LEMMA TailGrows ==
    ASSUME NEW T, NEW lines \in Seq(Seq(T)), NEW all, all \subseteq Drawn(lines),
           NEW start, StrokeHolds(T, lines, all, start)
    PROVE  /\ StrokeHolds(T, lines, all, GrowTail(lines, start))
           /\ GrowTail(lines, start).unused \subseteq start.unused
  <1>1. PICK n \in Nat : n = Len(lines)
    OBVIOUS
  <1>2. PICK f : /\ f[0] = start
                 /\ \A k \in 1..Len(lines) : f[k] = Grow(lines, f[k - 1])
                 /\ GrowTail(lines, start) = f[Len(lines)]
    <2>1. Len(lines) \in Nat
      BY <1>1
    <2>. QED
      BY <2>1, GrowTailRounds
  <1>. DEFINE Good == {k \in Nat : k <= n => /\ StrokeHolds(T, lines, all, f[k])
                                             /\ f[k].unused \subseteq start.unused}
  <1>3. 0 \in Good
    BY <1>2
  <1>4. ASSUME NEW k \in Nat, k \in Good
        PROVE  k + 1 \in Good
    <2>1. CASE ~(k + 1 <= n)
      BY <2>1
    <2>2. CASE k + 1 <= n
      <3>1. k <= n /\ k + 1 \in 1..Len(lines) /\ (k + 1) - 1 = k
        BY <1>1, <2>2
      <3>2. PICK st : st = f[k]
        OBVIOUS
      <3>3. StrokeHolds(T, lines, all, st) /\ st.unused \subseteq start.unused
        BY <1>4, <3>1, <3>2
      <3>4. f[k + 1] = Grow(lines, st)
        BY <1>2, <3>1, <3>2
      <3>5. StrokeHolds(T, lines, all, Grow(lines, st))
                /\ Grow(lines, st).unused \subseteq st.unused
        BY <3>3, StrokeGrows
      <3>. QED
        BY <3>3, <3>4, <3>5
    <2>. QED
      BY <2>1, <2>2
  <1>. HIDE DEF Good
  <1>5. n \in Good
    BY <1>3, <1>4, NumberInduction, Zenon
  <1>. QED
    BY <1>1, <1>2, <1>5 DEF Good

(* A stroke turned around is the same stroke.                              *)
LEMMA StrokeTurns ==
    ASSUME NEW T, NEW lines, NEW all, NEW st, StrokeHolds(T, lines, all, st)
    PROVE  StrokeHolds(T, lines, all, Turned(st)) /\ Turned(st).unused = st.unused
  <1>1. PICK coords : coords = st.coords /\ coords \in Seq(T) /\ Len(coords) >= 2
    BY DEF StrokeHolds
  <1>2. PICK back : back = Reverse(coords)
    OBVIOUS
  <1>3. back \in Seq(T) /\ Len(back) >= 2
    BY <1>1, <1>2 DEF Reverse
  <1>4. ASSUME NEW s
        PROVE  Passes(back, s) = Over(lines, all \ st.unused, s)
    <2>1. Passes(back, s) = Passes(coords, s)
      BY <1>1, <1>2, PassesTurned
    <2>. QED
      BY <1>1, <2>1 DEF StrokeHolds
  <1>5. Turned(st) = [coords |-> back, unused |-> st.unused]
    <2>1. PICK u : u = st.unused
      OBVIOUS
    <2>2. st = [coords |-> coords, unused |-> u]
      BY <1>1, <2>1 DEF StrokeHolds
    <2>. QED
      BY <1>2, <2>1, <2>2 DEF Turned
  <1>6. StrokeHolds(T, lines, all, [coords |-> back, unused |-> st.unused])
    BY <1>3, <1>4 DEF StrokeHolds
  <1>. QED
    BY <1>5, <1>6

(* And so does growing it at its other end.                                *)
LEMMA StrokeGrowsBothWays ==
    ASSUME NEW T, NEW lines \in Seq(Seq(T)), NEW all, all \subseteq Drawn(lines),
           NEW start, StrokeHolds(T, lines, all, start)
    PROVE  /\ StrokeHolds(T, lines, all, BothWays(lines, start))
           /\ BothWays(lines, start).unused \subseteq start.unused
  <1>1. PICK a : a = GrowTail(lines, start)
    OBVIOUS
  <1>2. StrokeHolds(T, lines, all, a) /\ a.unused \subseteq start.unused
    BY <1>1, TailGrows
  <1>3. PICK b : b = Turned(a)
    OBVIOUS
  <1>4. StrokeHolds(T, lines, all, b) /\ b.unused = a.unused
    BY <1>2, <1>3, StrokeTurns
  <1>5. PICK c : c = GrowTail(lines, b)
    OBVIOUS
  <1>6. StrokeHolds(T, lines, all, c) /\ c.unused \subseteq b.unused
    BY <1>4, <1>5, TailGrows
  <1>7. StrokeHolds(T, lines, all, Turned(c)) /\ Turned(c).unused = c.unused
    BY <1>6, StrokeTurns
  <1>8. BothWays(lines, start) = Turned(c)
    BY <1>1, <1>3, <1>5 DEF BothWays
  <1>. QED
    BY <1>2, <1>4, <1>6, <1>7, <1>8

-----------------------------------------------------------------------------

(* The strokes made so far pass over what the lines used up do.            *)
StrokesUpTo(T, lines, st, k) ==
    /\ st.strokes \in Seq(Seq(T))
    /\ st.unused \subseteq Drawn(lines) \ (1..k)
    /\ \A s : PassesOf(st.strokes, s) = Over(lines, Drawn(lines) \ st.unused, s)

(* One start of the loop of chain_group.                                   *)
LEMMA StrokeAdded ==
    ASSUME NEW T, NEW lines \in Seq(Seq(T)), NEW k \in Nat, k < Len(lines),
           NEW st, StrokesUpTo(T, lines, st, k)
    PROVE  StrokesUpTo(T, lines, Seed(lines, k + 1, st), k + 1)
  <1>1. PICK i : i = k + 1 /\ i \in DOMAIN lines /\ 1..(k + 1) = (1..k) \cup {i}
    OBVIOUS
  <1>2. CASE i \notin st.unused
    <2>1. Seed(lines, i, st) = st
      BY <1>2 DEF Seed
    <2>2. st.unused \subseteq Drawn(lines) \ (1..(k + 1))
      BY <1>1, <1>2 DEF StrokesUpTo
    <2>. QED
      BY <1>1, <2>1, <2>2 DEF StrokesUpTo
  <1>3. CASE i \in st.unused
    <2>1. PICK all : all = st.unused
      OBVIOUS
    <2>2. /\ all \subseteq Drawn(lines) /\ all \subseteq DOMAIN lines /\ i \in all
          /\ all \subseteq Drawn(lines) \ (1..k)
      BY <1>3, <2>1 DEF StrokesUpTo, Drawn
    <2>3. PICK start : start = [coords |-> lines[i], unused |-> all \ {i}]
      OBVIOUS
    <2>4. StrokeHolds(T, lines, all, start)
      <3>1. lines[i] \in Seq(T) /\ Len(lines[i]) >= 2
        BY <2>2 DEF Drawn
      <3>2. ASSUME NEW s
            PROVE  Passes(lines[i], s) = Over(lines, all \ (all \ {i}), s)
        <4>1. PICK none : none = {}
          OBVIOUS
        <4>2. none \subseteq DOMAIN lines /\ i \in DOMAIN lines \ none
          BY <2>2, <4>1
        <4>3. \A j \in DOMAIN lines \ none :
                  Over(lines, none \cup {j}, s) = Over(lines, none, s) + Passes(lines[j], s)
          BY <4>2, OverIs
        <4>4. Over(lines, none, s) = 0 /\ Passes(lines[i], s) \in Nat
          BY <3>1, <4>1, <4>2, OverIs, SpotsAre
        <4>5. all \ (all \ {i}) = none \cup {i}
          BY <2>2, <4>1
        <4>6. PICK p \in Nat : p = Passes(lines[i], s)
          BY <4>4
        <4>7. Over(lines, none \cup {i}, s) = 0 + p
          BY <4>2, <4>3, <4>4, <4>6
        <4>8. Over(lines, none \cup {i}, s) = Passes(lines[i], s)
          BY <4>6, <4>7
        <4>. QED
          BY <4>5, <4>8, Zenon
      <3>. QED
        BY <2>3, <3>1, <3>2 DEF StrokeHolds
    <2>5. PICK end : end = BothWays(lines, start)
      OBVIOUS
    <2>6. StrokeHolds(T, lines, all, end) /\ end.unused \subseteq all \ {i}
      <3>1. StrokeHolds(T, lines, all, end) /\ end.unused \subseteq start.unused
        BY <2>2, <2>4, <2>5, StrokeGrowsBothWays
      <3>. QED
        BY <2>3, <3>1
    <2>7. PICK strokes, more : strokes = st.strokes /\ more = Append(strokes, end.coords)
      OBVIOUS
    <2>8. Seed(lines, i, st) = [strokes |-> more, unused |-> end.unused]
      BY <1>3, <2>1, <2>3, <2>5, <2>7 DEF Seed
    <2>9. /\ strokes \in Seq(Seq(T))
          /\ \A s : PassesOf(strokes, s) = Over(lines, Drawn(lines) \ all, s)
      BY <2>1, <2>7 DEF StrokesUpTo
    <2>10. /\ end.coords \in Seq(T)
           /\ \A s : Passes(end.coords, s) = Over(lines, all \ end.unused, s)
      BY <2>6 DEF StrokeHolds
    <2>11. more \in Seq(Seq(T))
      BY <2>7, <2>9, <2>10
    <2>12. ASSUME NEW s
           PROVE  PassesOf(more, s) = Over(lines, Drawn(lines) \ end.unused, s)
      <3>1. PassesOf(more, s) = PassesOf(strokes, s) + Passes(end.coords, s)
        BY <2>7, <2>9, <2>10, PassesOfMore
      <3>2. PICK A, B : A = Drawn(lines) \ all /\ B = all \ end.unused
        OBVIOUS
      <3>3. /\ A \subseteq DOMAIN lines /\ B \subseteq DOMAIN lines /\ A \cap B = {}
            /\ Drawn(lines) \ end.unused = A \cup B
        BY <2>2, <2>6, <3>2 DEF Drawn
      <3>4. Over(lines, A \cup B, s) = Over(lines, A, s) + Over(lines, B, s)
        BY <3>3, OverBoth
      <3>. QED
        BY <2>9, <2>10, <3>1, <3>2, <3>3, <3>4
    <2>13. end.unused \subseteq Drawn(lines) \ (1..(k + 1))
      BY <1>1, <2>2, <2>6
    <2>14. StrokesUpTo(T, lines, [strokes |-> more, unused |-> end.unused], k + 1)
      BY <2>11, <2>12, <2>13 DEF StrokesUpTo
    <2>. QED
      BY <1>1, <2>8, <2>14
  <1>. QED
    BY <1>2, <1>3

(* chain_group only joins: whichever continuation it takes for the         *)
(* straightest, its strokes pass over the stretches of the lines and over  *)
(* nothing else, over each as often as they do.                            *)
THEOREM ChainsAreWhole ==
    ASSUME NEW T, NEW lines \in Seq(Seq(T))
    PROVE  SameStretches(ChainGroup(lines), lines)
  <1>1. PICK n \in Nat : n = Len(lines)
    OBVIOUS
  <1>2. PICK f : /\ f[0] = [strokes |-> <<>>, unused |-> Drawn(lines)]
                 /\ \A k \in 1..Len(lines) : f[k] = Seed(lines, k, f[k - 1])
                 /\ ChainGroup(lines) = f[Len(lines)].strokes
    <2>1. Len(lines) \in Nat
      BY <1>1
    <2>. QED
      BY <2>1, ChainGroupSteps
  <1>. DEFINE Good == {k \in Nat : k <= n => StrokesUpTo(T, lines, f[k], k)}
  <1>3. 0 \in Good
    <2>1. PICK st : st = f[0]
      OBVIOUS
    <2>2. st.strokes = <<>> /\ st.unused = Drawn(lines) /\ 1..0 = {}
      BY <1>2, <2>1 DEF Drawn
    <2>3. ASSUME NEW s
          PROVE  PassesOf(<<>>, s) = Over(lines, Drawn(lines) \ Drawn(lines), s)
      <3>1. PICK none : none = {}
        OBVIOUS
      <3>2. Drawn(lines) \ Drawn(lines) = none /\ none \subseteq DOMAIN lines
        BY <3>1
      <3>3. Over(lines, {}, s) = 0
        BY <3>2, OverIs
      <3>. QED
        BY <3>1, <3>2, <3>3, PassesOfNone
    <2>4. StrokesUpTo(T, lines, st, 0)
      <3>1. Drawn(lines) \subseteq Drawn(lines) \ (1..0) /\ <<>> \in Seq(Seq(T))
        BY <2>2
      <3>. QED
        BY <2>2, <2>3, <3>1 DEF StrokesUpTo
    <2>. QED
      BY <2>1, <2>4
  <1>4. ASSUME NEW k \in Nat, k \in Good
        PROVE  k + 1 \in Good
    <2>1. CASE ~(k + 1 <= n)
      BY <2>1
    <2>2. CASE k + 1 <= n
      <3>1. k <= n /\ k < Len(lines) /\ k + 1 \in 1..Len(lines) /\ (k + 1) - 1 = k
        BY <1>1, <2>2
      <3>2. PICK st : st = f[k]
        OBVIOUS
      <3>3. StrokesUpTo(T, lines, st, k)
        BY <1>4, <3>1, <3>2
      <3>4. f[k + 1] = Seed(lines, k + 1, st)
        BY <1>2, <3>1, <3>2
      <3>5. StrokesUpTo(T, lines, Seed(lines, k + 1, st), k + 1)
        BY <3>1, <3>3, StrokeAdded
      <3>. QED
        BY <3>4, <3>5
    <2>. QED
      BY <2>1, <2>2
  <1>. HIDE DEF Good
  <1>5. n \in Good
    BY <1>3, <1>4, NumberInduction, Zenon
  <1>6. PICK st : st = f[n]
    OBVIOUS
  <1>7. StrokesUpTo(T, lines, st, n)
    BY <1>5, <1>6 DEF Good
  <1>8. st.unused = {} /\ ChainGroup(lines) = st.strokes
    <2>1. DOMAIN lines = 1..n
      BY <1>1
    <2>2. st.unused \subseteq Drawn(lines) \ (1..n) /\ Drawn(lines) \subseteq DOMAIN lines
      BY <1>7 DEF StrokesUpTo, Drawn
    <2>. QED
      BY <1>1, <1>2, <1>6, <2>1, <2>2
  <1>9. ASSUME NEW s
        PROVE  PassesOf(st.strokes, s) = PassesOf(lines, s)
    <2>1. PICK A, B : A = Drawn(lines) /\ B = DOMAIN lines \ Drawn(lines)
      OBVIOUS
    <2>2. /\ A \subseteq DOMAIN lines /\ B \subseteq DOMAIN lines /\ A \cap B = {}
          /\ DOMAIN lines = A \cup B /\ Drawn(lines) \ {} = A
      BY <2>1 DEF Drawn
    <2>3. PassesOf(st.strokes, s) = Over(lines, A, s)
      BY <1>7, <1>8, <2>2 DEF StrokesUpTo
    <2>4. Over(lines, B, s) = 0
      <3>1. \A i \in B : ~(Len(lines[i]) >= 2)
        BY <2>1 DEF Drawn
      <3>. QED
        BY <2>2, <3>1, OverShort
    <2>5. Over(lines, A \cup B, s) = Over(lines, A, s) + Over(lines, B, s)
      BY <2>2, OverBoth
    <2>6. Over(lines, A, s) \in Nat
      BY <2>2, OverIs
    <2>7. PassesOf(lines, s) = Over(lines, A \cup B, s)
      BY <2>2, PassesOfIs
    <2>. QED
      BY <2>3, <2>4, <2>5, <2>6, <2>7
  <1>. QED
    BY <1>8, <1>9 DEF SameStretches

-----------------------------------------------------------------------------
(* Filters and classifiers.                                                *)

(* A text the classifier sees is the one of its id in the block's table.   *)
LEMMA WordIs ==
    ASSUME NEW strings, 0 \notin DOMAIN strings, NEW sid, Word(strings, sid) # EmptyText
    PROVE  sid = Sid(strings, Word(strings, sid)) /\ sid # NoSid
  <1>1. sid = Sid(strings, Text(strings, sid)) /\ Word(strings, sid) = Text(strings, sid)
    BY DEF Word
  <1>2. sid + 1 \in DOMAIN strings
    BY <1>1 DEF Text
  <1>3. ASSUME sid = NoSid
        PROVE  FALSE
    <2>1. sid + 1 = 0
      BY <1>3 DEF NoSid
    <2>. QED
      BY <1>2, <2>1
  <1>. QED
    BY <1>1, <1>3

(* A tag that says what a pair of a filter asks for is let through.        *)
LEMMA PairMatches ==
    ASSUME NEW strings, 0 \notin DOMAIN strings, NEW tags, NEW i \in DOMAIN tags,
           NEW filter, NEW f \in filter, NEW key, NEW values, <<key, values>> \in f,
           key # EmptyText, KeyOf(tags[i], strings) = key,
           values = {} \/ ValueOf(tags[i], strings) \in values \ {EmptyText}
    PROVE  Matches(GetSidFilter(filter, strings), tags)
  <1>. DEFINE Asked(g) == {p \in g : /\ Sid(strings, p[1]) # NoSid
                                     /\ p[2] = {} \/ \E v \in p[2] : Sid(strings, v) # NoSid}
              Pair(kv) == <<Sid(strings, kv[1]), {Sid(strings, v) : v \in kv[2]} \ {NoSid}>>
              Sids(g)  == {Pair(kv) : kv \in Asked(g)}
  <1>1. GetSidFilter(filter, strings) = {Sids(g) : g \in filter} \ {{}}
    BY DEF GetSidFilter
  <1>2. PICK tag, value : tag = tags[i] /\ value = ValueOf(tag, strings)
    OBVIOUS
  <1>3. tag.key = Sid(strings, key) /\ tag.key # NoSid
    <2>1. Word(strings, tag.key) = key
      BY <1>2 DEF KeyOf
    <2>. QED
      BY <2>1, WordIs
  <1>4. value # EmptyText => tag.value = Sid(strings, value) /\ tag.value # NoSid
    BY <1>2, WordIs DEF ValueOf
  <1>5. values = {} \/ (value \in values /\ value # EmptyText)
    BY <1>2
  <1>6. PICK kv : kv = <<key, values>>
    OBVIOUS
  <1>7. kv \in f /\ kv[1] = key /\ kv[2] = values
    BY <1>6
  <1>8. kv \in Asked(f)
    BY <1>3, <1>4, <1>5, <1>7
  <1>9. PICK pair : pair = Pair(kv)
    OBVIOUS
  <1>10. pair \in Sids(f) /\ Sids(f) \in GetSidFilter(filter, strings)
    <2>1. PICK sids : sids = Sids(f)
      OBVIOUS
    <2>2. pair \in sids
      BY <1>8, <1>9, <2>1
    <2>3. sids \in {Sids(g) : g \in filter}
      BY <2>1
    <2>. QED
      BY <1>1, <2>1, <2>2, <2>3
  <1>11. pair[1] = Sid(strings, key) /\ pair[2] = {Sid(strings, v) : v \in values} \ {NoSid}
    BY <1>7, <1>9
  <1>12. tag.key = pair[1] /\ (pair[2] = {} \/ tag.value \in pair[2])
    BY <1>3, <1>4, <1>5, <1>11
  <1>. QED
    BY <1>2, <1>10, <1>12 DEF Matches

(* What the tags of an area say.                                           *)
LEMMA AreaTags ==
    ASSUME NEW key, NEW value, AreaOfTag(key, value) # NotAKind
    PROVE  \/ key = "building"
           \/ key = "natural" /\ value \in {"water", "wood"}
           \/ key = "landuse" /\ value \in {"forest", "grass", "meadow"}
           \/ key = "leisure" /\ value \in {"park"}
  BY DEF AreaOfTag

(* What the tags of a classified way say.                                  *)
LEMMA WayTags ==
    ASSUME NEW key, NEW value, TagShape(key, value) # UnknownShape
    PROVE  \/ key = "highway"
           \/ key = "railway" /\ value \in {"rail", "light_rail", "narrow_gauge"}
           \/ AreaOfTag(key, value) # NotAKind
  BY DEF TagShape, RailwayKind

(* The coarse filter of the ways lets through whatever is classified,      *)
(* whatever the block's table and the way's tags.                          *)
THEOREM FilterKeepsWays ==
    ASSUME NEW strings, 0 \notin DOMAIN strings, NEW tags, ClassifyWay(tags,
              strings) # UnknownShape
    PROVE  Matches(GetSidFilter(WayTagFilter, strings), tags)
  <1>1. PICK i \in DOMAIN tags :
            TagShape(KeyOf(tags[i], strings), ValueOf(tags[i], strings)) # UnknownShape
    BY DEF ClassifyWay
  <1>2. PICK key, value : key = KeyOf(tags[i], strings) /\ value = ValueOf(tags[i], strings)
    OBVIOUS
  <1>3. ASSUME NEW k, NEW values, {<<k, values>>} \in WayTagFilter, key = k, k # EmptyText,
               values = {} \/ value \in values \ {EmptyText}
        PROVE  Matches(GetSidFilter(WayTagFilter, strings), tags)
    <2>1. PICK f : f = {<<k, values>>}
      OBVIOUS
    <2>2. f \in WayTagFilter /\ <<k, values>> \in f
      BY <1>3, <2>1
    <2>3. KeyOf(tags[i], strings) = k
              /\ (values = {} \/ ValueOf(tags[i], strings) \in values \ {EmptyText})
      BY <1>2, <1>3
    <2>. QED
      BY <1>3, <2>2, <2>3, PairMatches
  <1>4. \/ key = "highway"
        \/ key = "railway" /\ value \in {"rail", "light_rail", "narrow_gauge"}
        \/ key = "building"
        \/ key = "natural" /\ value \in {"water", "wood"}
        \/ key = "landuse" /\ value \in {"forest", "grass", "meadow"}
        \/ key = "leisure" /\ value \in {"park"}
    BY <1>1, <1>2, WayTags, AreaTags
  <1>5. CASE key = "highway"
    <2>1. {<<"highway", {}>>} \in WayTagFilter /\ "highway" # EmptyText
      BY DEF WayTagFilter, EmptyText
    <2>. QED
      BY <1>3, <1>5, <2>1
  <1>6. CASE key = "railway" /\ value \in {"rail", "light_rail", "narrow_gauge"}
    <2>1. /\ {<<"railway", {"rail", "light_rail", "narrow_gauge"}>>} \in WayTagFilter
          /\ "railway" # EmptyText /\ EmptyText \notin {"rail", "light_rail", "narrow_gauge"}
      BY DEF WayTagFilter, EmptyText
    <2>. QED
      BY <1>3, <1>6, <2>1
  <1>7. CASE key = "building"
    <2>1. {<<"building", {}>>} \in WayTagFilter /\ "building" # EmptyText
      BY DEF WayTagFilter, EmptyText
    <2>. QED
      BY <1>3, <1>7, <2>1
  <1>8. CASE key = "natural" /\ value \in {"water", "wood"}
    <2>1. /\ {<<"natural", {"water", "wood"}>>} \in WayTagFilter
          /\ "natural" # EmptyText /\ EmptyText \notin {"water", "wood"}
      BY DEF WayTagFilter, EmptyText
    <2>. QED
      BY <1>3, <1>8, <2>1
  <1>9. CASE key = "landuse" /\ value \in {"forest", "grass", "meadow"}
    <2>1. /\ {<<"landuse", {"forest", "grass", "meadow"}>>} \in WayTagFilter
          /\ "landuse" # EmptyText /\ EmptyText \notin {"forest", "grass", "meadow"}
      BY DEF WayTagFilter, EmptyText
    <2>. QED
      BY <1>3, <1>9, <2>1
  <1>10. CASE key = "leisure" /\ value \in {"park"}
    <2>1. /\ {<<"leisure", {"park"}>>} \in WayTagFilter
          /\ "leisure" # EmptyText /\ EmptyText \notin {"park"}
      BY DEF WayTagFilter, EmptyText
    <2>. QED
      BY <1>3, <1>10, <2>1
  <1>. QED
    BY <1>4, <1>5, <1>6, <1>7, <1>8, <1>9, <1>10

(* So does the relations' filter, with the areas and the borders: it is    *)
(* all the later passes, which do not look at it, can count on.            *)
THEOREM FilterKeepsRelations ==
    ASSUME NEW strings, 0 \notin DOMAIN strings, NEW tags,
           ClassifyRelation(tags, strings) # UnknownShape \/ ClaimsBorder(tags, strings)
    PROVE  Matches(GetSidFilter(RelationTagFilter, strings), tags)
  <1>1. ASSUME NEW i \in DOMAIN tags, NEW k, NEW values, NEW f \in RelationTagFilter,
               <<k, values>> \in f, KeyOf(tags[i], strings) = k, k # EmptyText,
               values = {} \/ ValueOf(tags[i], strings) \in values \ {EmptyText}
        PROVE  Matches(GetSidFilter(RelationTagFilter, strings), tags)
    BY <1>1, PairMatches
  <1>2. CASE ClassifyRelation(tags, strings) # UnknownShape
    <2>1. PICK i \in DOMAIN tags :
              AreaOfTag(KeyOf(tags[i], strings), ValueOf(tags[i], strings)) # NotAKind
      BY <1>2 DEF ClassifyRelation
    <2>2. PICK key, value : key = KeyOf(tags[i], strings) /\ value = ValueOf(tags[i], strings)
      OBVIOUS
    <2>3. \/ key = "building"
          \/ key = "natural" /\ value \in {"water", "wood"}
          \/ key = "landuse" /\ value \in {"forest", "grass", "meadow"}
          \/ key = "leisure" /\ value \in {"park"}
      BY <2>1, <2>2, AreaTags
    <2>4. PICK type : type = <<"type", {"multipolygon"}>>
      OBVIOUS
    <2>5. CASE key = "building"
      <3>1. {<<"building", {}>>, type} \in RelationTagFilter /\ "building" # EmptyText
        BY <2>4 DEF RelationTagFilter, EmptyText
      <3>. QED
        BY <1>1, <2>2, <2>5, <3>1
    <2>6. CASE key = "natural" /\ value \in {"water", "wood"}
      <3>1. /\ {<<"natural", {"water", "wood"}>>, type} \in RelationTagFilter
            /\ "natural" # EmptyText /\ EmptyText \notin {"water", "wood"}
        BY <2>4 DEF RelationTagFilter, EmptyText
      <3>2. PICK f, values : f = {<<"natural", values>>, type} /\ values = {"water", "wood"}
        OBVIOUS
      <3>3. /\ f \in RelationTagFilter /\ <<"natural", values>> \in f
            /\ KeyOf(tags[i], strings) = "natural"
            /\ ValueOf(tags[i], strings) \in values \ {EmptyText}
        BY <2>2, <2>6, <3>1, <3>2
      <3>. QED
        BY <1>1, <3>1, <3>3
    <2>7. CASE key = "landuse" /\ value \in {"forest", "grass", "meadow"}
      <3>1. /\ {<<"landuse", {"forest", "grass", "meadow"}>>, type} \in RelationTagFilter
            /\ "landuse" # EmptyText /\ EmptyText \notin {"forest", "grass", "meadow"}
        BY <2>4 DEF RelationTagFilter, EmptyText
      <3>2. PICK f, values : f = {<<"landuse", values>>, type}
                /\ values = {"forest", "grass", "meadow"}
        OBVIOUS
      <3>3. /\ f \in RelationTagFilter /\ <<"landuse", values>> \in f
            /\ KeyOf(tags[i], strings) = "landuse"
            /\ ValueOf(tags[i], strings) \in values \ {EmptyText}
        BY <2>2, <2>7, <3>1, <3>2
      <3>. QED
        BY <1>1, <3>1, <3>3
    <2>8. CASE key = "leisure" /\ value \in {"park"}
      <3>1. /\ {<<"leisure", {"park"}>>, type} \in RelationTagFilter
            /\ "leisure" # EmptyText /\ EmptyText \notin {"park"}
        BY <2>4 DEF RelationTagFilter, EmptyText
      <3>2. PICK f, values : f = {<<"leisure", values>>, type} /\ values = {"park"}
        OBVIOUS
      <3>3. /\ f \in RelationTagFilter /\ <<"leisure", values>> \in f
            /\ KeyOf(tags[i], strings) = "leisure"
            /\ ValueOf(tags[i], strings) \in values \ {EmptyText}
        BY <2>2, <2>8, <3>1, <3>2
      <3>. QED
        BY <1>1, <3>1, <3>3
    <2>. QED
      BY <2>3, <2>5, <2>6, <2>7, <2>8
  <1>3. CASE ClaimsBorder(tags, strings)
    <2>1. PICK i \in DOMAIN tags :
              KeyOf(tags[i], strings) = "admin_level" /\ ValueOf(tags[i], strings) = "2"
      BY <1>3 DEF ClaimsBorder, HasTag
    <2>2. /\ {<<"admin_level", {"2"}>>} \in RelationTagFilter
          /\ "admin_level" # EmptyText /\ "2" # EmptyText
      BY DEF RelationTagFilter, EmptyText
    <2>. QED
      BY <1>1, <2>1, <2>2
  <1>. QED
    BY <1>2, <1>3

(* What the run checks of the words of the filters and the classifiers.    *)
THEOREM FiltersHold == ExtractSpec => []FilterCoversClassifier
  <1>1. FilterCoversClassifier
    <2>. SUFFICES ASSUME NEW key, NEW value
                  PROVE  LET strings == <<EmptyText, key, value>>
                             tags    == <<Tag(Sid(strings, key), Sid(strings, value))>>
                             both    == <<EmptyText, "boundary", "administrative", key, value>>
                             boundary == <<Tag(1, 2), Tag(Sid(both, key), Sid(both, value))>>
                         IN  /\ ClassifyWay(tags, strings) # UnknownShape
                                 => Matches(GetSidFilter(WayTagFilter, strings), tags)
                             /\ ClassifyRelation(tags, strings) # UnknownShape
                                 => Matches(GetSidFilter(RelationTagFilter, strings), tags)
                             /\ ClaimsBorder(boundary, both)
                                 => Matches(GetSidFilter(RelationTagFilter, both), boundary)
      BY DEF FilterCoversClassifier
    <2>1. PICK strings : strings = <<EmptyText, key, value>>
      OBVIOUS
    <2>2. PICK both : both = <<EmptyText, "boundary", "administrative", key, value>>
      OBVIOUS
    <2>3. 0 \notin DOMAIN strings /\ 0 \notin DOMAIN both
      BY <2>1, <2>2
    <2>4. PICK tags : tags = <<Tag(Sid(strings, key), Sid(strings, value))>>
      OBVIOUS
    <2>5. PICK boundary : boundary = <<Tag(1, 2), Tag(Sid(both, key), Sid(both, value))>>
      OBVIOUS
    <2>6. ClassifyWay(tags, strings) # UnknownShape
              => Matches(GetSidFilter(WayTagFilter, strings), tags)
      BY <2>3, FilterKeepsWays
    <2>7. ClassifyRelation(tags, strings) # UnknownShape
              => Matches(GetSidFilter(RelationTagFilter, strings), tags)
      BY <2>3, FilterKeepsRelations
    <2>8. ClaimsBorder(boundary, both)
              => Matches(GetSidFilter(RelationTagFilter, both), boundary)
      BY <2>3, FilterKeepsRelations
    <2>. QED
      BY <2>1, <2>2, <2>4, <2>5, <2>6, <2>7, <2>8
  <1>. QED
    BY <1>1, PTL

-----------------------------------------------------------------------------
(* The passes: what each leaves to the later ones.                         *)

(* The passes before which something is not there yet.                     *)
UpToRescan == {"index", "scan", "rescan"}
UpToBitset == {"index", "scan", "rescan", "bitset"}
UpToStore  == {"index", "scan", "rescan", "bitset", "store"}

(* What a pass owes to a block it has finished.                            *)
Scanned(b) ==
    \A r \in Range(RelationsIn(b)) : RelationPasses(b, r)
              => MemberIds(r, "Way") \subseteq relationWays

Kept(b) ==
    \A w \in Range(WaysIn(b)) : KeepsNodes(b, w) => Range(w.refs) \subseteq DOMAIN stored

Placed(b) ==
    \A n \in Range(NodesIn(b)) : n.id \in DOMAIN stored =>
        \E c \in NodeSection(index) : \E m \in Range(NodesIn(c)) :
            m.id = n.id /\ stored[n.id] = Packed(m)

(* What is left to do is of the section; what is not left is done.         *)
TodoHolds == pass # "index" => todo \subseteq SectionOf(pass, index)

ScanHolds ==
    pass # "index" =>
        \A b \in RelationSection(index) : (pass = "scan" => b \notin todo) => Scanned(b)

SlotsHold ==
    pass \notin UpToRescan =>
        \A b \in WaySection(index) : (pass = "bitset" => b \notin todo) => Kept(b)

PlacesHold ==
    pass \notin UpToBitset =>
        \A b \in NodeSection(index) : (pass = "store" => b \notin todo) => Placed(b)

(* The ways the later passes find are ways whose nodes have slots.         *)
MembersHold == \A id \in DOMAIN memberWays : Range(memberWays[id]) \subseteq DOMAIN stored

(* A border claimed is made of ways the relation passes found, and those   *)
(* resolved have slots.                                                    *)
BordersHold ==
    /\ \A group \in Groups("borders") : group \subseteq relationWays
    /\ pass \in UpToRescan => DOMAIN resolved = {}
    /\ \A id \in relationWays \cap DOMAIN resolved :
           Range(resolved[id].refs) \subseteq DOMAIN stored

(* The invariant of the passes.                                            *)
PassesHold ==
    /\ TodoHolds
    /\ ScanHolds
    /\ SlotsHold
    /\ PlacesHold
    /\ MembersHold
    /\ BordersHold

(* The sections of the passes, by name.                                    *)
LEMMA Sections ==
    ASSUME NEW idx
    PROVE  /\ SectionOf("scan", idx) = RelationSection(idx)
           /\ SectionOf("rescan", idx) = RelationSection(idx)
           /\ SectionOf("bitset", idx) = WaySection(idx)
           /\ SectionOf("store", idx) = NodeSection(idx)
           /\ SectionOf("members", idx) = WaySection(idx)
           /\ SectionOf("claims", idx) = RelationSection(idx)
           /\ SectionOf("resolve", idx) = WaySection(idx)
           /\ SectionOf("routes", idx) = {}
           /\ SectionOf("borders", idx) = {}
           /\ SectionOf("done", idx) = {}
  BY DEF SectionOf

(* The strings of a block that is read are a sequence, which has no place  *)
(* 0.                                                                      *)
LEMMA SectionStrings ==
    ASSUME NEW idx, NEW b \in RelationSection(idx)
    PROVE  0 \notin DOMAIN Strings(b)
  <1>1. b \in DOMAIN OsmFile.blobs /\ OsmFile.blobs[b].type = "OSMData"
    BY DEF RelationSection, IterBlocks, DataBlobs
  <1>2. Strings(b) \in Seq(STRING)
    BY <1>1, ExtractAssumption
  <1>. QED
    BY <1>2

(* What was found by a block stays found while the sets grow.              *)
LEMMA ScannedStays ==
    ASSUME NEW b, Scanned(b), relationWays \subseteq relationWays'
    PROVE  Scanned(b)'
  BY DEF Scanned, RelationPasses, RelationsIn, Strings, MemberIds

LEMMA KeptStays ==
    ASSUME NEW b, Kept(b), relationWays' = relationWays, DOMAIN stored \subseteq DOMAIN stored'
    PROVE  Kept(b)'
  BY DEF Kept, KeepsNodes, WayPasses, WayShape, WaysIn, Strings

LEMMA PlacedStays ==
    ASSUME NEW b, Placed(b), stored' = stored, index' = index
    PROVE  Placed(b)'
  BY DEF Placed, NodesIn, NodeSection

-----------------------------------------------------------------------------
(* A step that touches none of this, in a pass that does not either.       *)
LEMMA QuietStep ==
    ASSUME PassesHold, pass'
              = pass, todo' \subseteq todo, pass \notin {"scan", "bitset", "store"},
           index' = index, relationWays' = relationWays, stored' = stored,
           memberWays' = memberWays, claimed' = claimed, resolved' = resolved
    PROVE  PassesHold'
  <1>1. TodoHolds'
    BY DEF PassesHold, TodoHolds, SectionOf
  <1>2. ScanHolds'
    <2>. SUFFICES ASSUME pass # "index", NEW b \in RelationSection(index)
                  PROVE  Scanned(b)'
      BY DEF ScanHolds, RelationSection
    <2>1. Scanned(b)
      BY DEF PassesHold, ScanHolds
    <2>. QED
      BY <2>1, ScannedStays
  <1>3. SlotsHold'
    <2>. SUFFICES ASSUME pass \notin UpToRescan, NEW b \in WaySection(index)
                  PROVE  Kept(b)'
      BY DEF SlotsHold, WaySection, UpToRescan
    <2>1. Kept(b)
      BY DEF PassesHold, SlotsHold
    <2>. QED
      BY <2>1, KeptStays
  <1>4. PlacesHold'
    <2>. SUFFICES ASSUME pass \notin UpToBitset, NEW b \in NodeSection(index)
                  PROVE  Placed(b)'
      BY DEF PlacesHold, NodeSection, UpToBitset
    <2>1. Placed(b)
      BY DEF PassesHold, PlacesHold
    <2>. QED
      BY <2>1, PlacedStays
  <1>5. MembersHold' /\ BordersHold'
    BY DEF PassesHold, MembersHold, BordersHold, Groups, UpToRescan
  <1>. QED
    BY <1>1, <1>2, <1>3, <1>4, <1>5 DEF PassesHold

(* While the index is made nothing is found yet.                           *)
LEMMA IndexStep ==
    ASSUME PassesHold, pass = "index", pass' \in {"index", "scan"},
           pass' = "scan" => todo' = SectionOf("scan", index'),
           relationWays' = relationWays, stored' = stored,
           memberWays' = memberWays, claimed' = claimed, resolved' = resolved
    PROVE  PassesHold'
  <1>1. TodoHolds'
    BY DEF TodoHolds, SectionOf, NodeSection, WaySection, RelationSection
  <1>2. ScanHolds'
    <2>. SUFFICES ASSUME pass' = "scan", NEW b \in RelationSection(index')
                  PROVE  b \in todo'
      BY DEF ScanHolds, RelationSection
    <2>. QED
      BY Sections
  <1>3. SlotsHold' /\ PlacesHold'
    BY DEF SlotsHold, PlacesHold, UpToRescan, UpToBitset
  <1>4. MembersHold' /\ BordersHold'
    BY DEF PassesHold, MembersHold, BordersHold, Groups, UpToRescan
  <1>. QED
    BY <1>1, <1>2, <1>3, <1>4 DEF PassesHold

(* The order of the first passes.                                          *)
LEMMA Passages ==
    ASSUME Join
    PROVE  /\ pass # "index" /\ pass' \notin {"index", "scan"}
           /\ pass' = "rescan" => pass = "scan"
           /\ pass' = "bitset" => pass = "rescan"
           /\ pass' = "store" => pass = "bitset"
           /\ pass = "scan" => pass' = "rescan"
           /\ pass = "rescan" => pass' = "bitset"
           /\ pass = "bitset" => pass' = "store"
  BY DEF Join, GoOn, PassAfter

(* From pass to pass: what a pass owed to the blocks left it owes to none. *)
LEMMA JoinStep ==
    ASSUME PassesHold, Join
    PROVE  PassesHold'
  <1>1. /\ todo = {} /\ todo' = SectionOf(pass', index) /\ index' = index
        /\ relationWays' = relationWays /\ stored' = stored /\ memberWays' = memberWays
        /\ claimed' = claimed /\ resolved' = resolved
    BY DEF Join, GoOn, scan, features
  <1>2. TodoHolds'
    BY <1>1 DEF TodoHolds, SectionOf, NodeSection, WaySection, RelationSection
  <1>3. ScanHolds'
    <2>. SUFFICES ASSUME NEW b \in RelationSection(index)
                  PROVE  Scanned(b)'
      BY <1>1, Passages DEF ScanHolds, RelationSection
    <2>1. Scanned(b)
      BY <1>1, Passages DEF PassesHold, ScanHolds
    <2>. QED
      BY <1>1, <2>1, ScannedStays
  <1>4. SlotsHold'
    <2>. SUFFICES ASSUME pass' \notin UpToRescan, NEW b \in WaySection(index), pass'
              = "bitset" => b \notin todo'
                  PROVE  Kept(b)'
      BY <1>1 DEF SlotsHold, WaySection, UpToRescan
    <2>1. pass' # "bitset"
      BY <1>1, Sections
    <2>2. pass \notin UpToRescan
      BY <2>1, Passages DEF UpToRescan
    <2>3. Kept(b)
      BY <1>1, <2>2 DEF PassesHold, SlotsHold
    <2>. QED
      BY <1>1, <2>3, KeptStays
  <1>5. PlacesHold'
    <2>. SUFFICES ASSUME pass' \notin UpToBitset, NEW b \in NodeSection(index), pass'
              = "store" => b \notin todo'
                  PROVE  Placed(b)'
      BY <1>1 DEF PlacesHold, NodeSection, UpToBitset
    <2>1. pass' # "store"
      BY <1>1, Sections
    <2>2. pass \notin UpToBitset
      BY <2>1, Passages DEF UpToBitset
    <2>3. Placed(b)
      BY <1>1, <2>2 DEF PassesHold, PlacesHold
    <2>. QED
      BY <1>1, <2>3, PlacedStays
  <1>6. MembersHold' /\ BordersHold'
    <2>1. pass' \in UpToRescan => pass \in UpToRescan
      BY Passages DEF UpToRescan
    <2>. QED
      BY <1>1, <2>1 DEF PassesHold, MembersHold, BordersHold, Groups
  <1>. QED
    BY <1>2, <1>3, <1>4, <1>5, <1>6 DEF PassesHold

(* A block of a pass is finished: the rest is left.                        *)
LEMMA Finishes ==
    ASSUME PassesHold, NEW p, p # "index", NEW b, Finish(p, b)
    PROVE  /\ pass = p /\ pass' = p /\ todo' = todo \ {b}
           /\ b \in SectionOf(p, index) /\ todo' \subseteq SectionOf(p, index)
  BY DEF PassesHold, TodoHolds, Finish

(* A block scanned adds the ways of its relations.                         *)
LEMMA ScanStep ==
    ASSUME PassesHold, NEW b, ScanBlock(b)
    PROVE  PassesHold'
  <1>1. /\ pass = "scan" /\ pass' = "scan" /\ todo' = todo \ {b}
               /\ todo' \subseteq SectionOf("scan", index)
        /\ index' = index /\ stored' = stored /\ memberWays' = memberWays
        /\ claimed' = claimed /\ resolved' = resolved
    <2>1. Finish("scan", b)
      BY DEF ScanBlock
    <2>. QED
      BY <2>1, Finishes DEF ScanBlock, features
  <1>2. relationWays \subseteq relationWays'
        /\ \A r \in Range(RelationsIn(b)) : RelationPasses(b, r)
               => MemberIds(r, "Way") \subseteq relationWays'
    BY DEF ScanBlock
  <1>3. TodoHolds'
    BY <1>1, Sections DEF TodoHolds, SectionOf, RelationSection
  <1>4. ScanHolds'
    <2>. SUFFICES ASSUME NEW c \in RelationSection(index), c \notin todo'
                  PROVE  Scanned(c)'
      BY <1>1 DEF ScanHolds, RelationSection
    <2>1. CASE c = b
      BY <1>2, <2>1 DEF Scanned, RelationPasses, RelationsIn, Strings, MemberIds
    <2>2. CASE c # b
      <3>1. Scanned(c)
        BY <1>1, <2>2 DEF PassesHold, ScanHolds
      <3>. QED
        BY <1>2, <3>1, ScannedStays
    <2>. QED
      BY <2>1, <2>2
  <1>5. SlotsHold' /\ PlacesHold'
    BY <1>1 DEF SlotsHold, PlacesHold, UpToRescan, UpToBitset
  <1>6. MembersHold' /\ BordersHold'
    <2>1. DOMAIN resolved = {}
      BY <1>1 DEF PassesHold, BordersHold, UpToRescan
    <2>. QED
      BY <1>1, <1>2, <2>1 DEF PassesHold, MembersHold, BordersHold, Groups
  <1>. QED
    BY <1>3, <1>4, <1>5, <1>6 DEF PassesHold

(* A block scanned again adds ways as well.                                *)
LEMMA RescanStep ==
    ASSUME PassesHold, NEW b, RescanBlock(b)
    PROVE  PassesHold'
  <1>1. /\ pass = "rescan" /\ pass' = "rescan" /\ todo' \subseteq SectionOf("rescan", index)
        /\ index' = index /\ stored' = stored /\ memberWays' = memberWays
        /\ claimed' = claimed /\ resolved' = resolved
    <2>1. Finish("rescan", b)
      BY DEF RescanBlock
    <2>. QED
      BY <2>1, Finishes DEF RescanBlock, features
  <1>2. relationWays \subseteq relationWays'
    BY DEF RescanBlock
  <1>3. TodoHolds'
    BY <1>1, Sections DEF TodoHolds, SectionOf, RelationSection
  <1>4. ScanHolds'
    <2>. SUFFICES ASSUME NEW c \in RelationSection(index)
                  PROVE  Scanned(c)'
      BY <1>1 DEF ScanHolds, RelationSection
    <2>1. Scanned(c)
      BY <1>1 DEF PassesHold, ScanHolds
    <2>. QED
      BY <1>2, <2>1, ScannedStays
  <1>5. SlotsHold' /\ PlacesHold'
    BY <1>1 DEF SlotsHold, PlacesHold, UpToRescan, UpToBitset
  <1>6. MembersHold' /\ BordersHold'
    <2>1. DOMAIN resolved = {}
      BY <1>1 DEF PassesHold, BordersHold, UpToRescan
    <2>. QED
      BY <1>1, <1>2, <2>1 DEF PassesHold, MembersHold, BordersHold, Groups
  <1>. QED
    BY <1>3, <1>4, <1>5, <1>6 DEF PassesHold

(* A block of ways makes slots for the nodes of those that are kept.       *)
LEMMA BitsetStep ==
    ASSUME PassesHold, NEW b, BitsetBlock(b)
    PROVE  PassesHold'
  <1>1. /\ pass = "bitset" /\ pass' = "bitset" /\ todo' = todo \ {b}
        /\ todo' \subseteq SectionOf("bitset", index)
        /\ index' = index /\ relationWays' = relationWays /\ memberWays' = memberWays
        /\ claimed' = claimed /\ resolved' = resolved
    <2>1. Finish("bitset", b)
      BY DEF BitsetBlock
    <2>. QED
      BY <2>1, Finishes DEF BitsetBlock, features, scan
  <1>2. /\ DOMAIN stored \subseteq DOMAIN stored'
        /\ \A w \in Range(WaysIn(b)) : KeepsNodes(b, w) => Range(w.refs) \subseteq DOMAIN stored'
    BY DEF BitsetBlock
  <1>3. TodoHolds'
    BY <1>1, Sections DEF TodoHolds, SectionOf, WaySection
  <1>4. ScanHolds'
    <2>. SUFFICES ASSUME NEW c \in RelationSection(index)
                  PROVE  Scanned(c)'
      BY <1>1 DEF ScanHolds, RelationSection
    <2>1. Scanned(c)
      BY <1>1 DEF PassesHold, ScanHolds
    <2>. QED
      BY <1>1, <2>1, ScannedStays
  <1>5. SlotsHold'
    <2>. SUFFICES ASSUME NEW c \in WaySection(index), c \notin todo'
                  PROVE  Kept(c)'
      BY <1>1 DEF SlotsHold, WaySection
    <2>1. CASE c = b
      BY <1>1, <1>2, <2>1 DEF Kept, KeepsNodes, WayPasses, WayShape, WaysIn, Strings
    <2>2. CASE c # b
      <3>1. Kept(c)
        BY <1>1, <2>2 DEF PassesHold, SlotsHold, UpToRescan
      <3>. QED
        BY <1>1, <1>2, <3>1, KeptStays
    <2>. QED
      BY <2>1, <2>2
  <1>6. PlacesHold'
    BY <1>1 DEF PlacesHold, UpToBitset
  <1>7. MembersHold' /\ BordersHold'
    BY <1>1, <1>2 DEF PassesHold, MembersHold, BordersHold, Groups, UpToRescan
  <1>. QED
    BY <1>3, <1>4, <1>5, <1>6, <1>7 DEF PassesHold

(* A block of nodes fills slots, and leaves their set alone.               *)
LEMMA StoreStep ==
    ASSUME PassesHold, NEW b, StoreBlock(b)
    PROVE  PassesHold'
  <1>1. /\ pass = "store" /\ pass' = "store" /\ todo' = todo \ {b}
        /\ todo' \subseteq SectionOf("store", index) /\ b \in NodeSection(index)
        /\ index' = index /\ relationWays' = relationWays /\ memberWays' = memberWays
        /\ claimed' = claimed /\ resolved' = resolved
    <2>1. Finish("store", b)
      BY DEF StoreBlock
    <2>. QED
      BY <2>1, Finishes, Sections DEF StoreBlock, features, scan
  <1>. DEFINE found == {n \in Range(NodesIn(b)) : n.id \in DOMAIN stored}
  <1>2. stored' = [id \in DOMAIN stored |->
            IF \E n \in found : n.id = id THEN Packed(CHOOSE n \in found : n.id = id)
                      ELSE stored[id]]
    BY DEF StoreBlock
  <1>3. DOMAIN stored' = DOMAIN stored
    BY <1>2
  <1>4. TodoHolds'
    BY <1>1, Sections DEF TodoHolds, SectionOf, NodeSection
  <1>5. ScanHolds'
    <2>. SUFFICES ASSUME NEW c \in RelationSection(index)
                  PROVE  Scanned(c)'
      BY <1>1 DEF ScanHolds, RelationSection
    <2>1. Scanned(c)
      BY <1>1 DEF PassesHold, ScanHolds
    <2>. QED
      BY <1>1, <2>1, ScannedStays
  <1>6. SlotsHold'
    <2>. SUFFICES ASSUME NEW c \in WaySection(index)
                  PROVE  Kept(c)'
      BY <1>1 DEF SlotsHold, WaySection
    <2>1. Kept(c)
      BY <1>1 DEF PassesHold, SlotsHold, UpToRescan
    <2>. QED
      BY <1>1, <1>3, <2>1, KeptStays
  <1>7. PlacesHold'
    <2>. SUFFICES ASSUME NEW c \in NodeSection(index), c \notin todo',
                         NEW n \in Range(NodesIn(c)), n.id \in DOMAIN stored
                  PROVE  \E d \in NodeSection(index) : \E m \in Range(NodesIn(d)) :
                             m.id = n.id /\ stored'[n.id] = Packed(m)
      BY <1>1, <1>3 DEF PlacesHold, Placed, NodeSection, NodesIn
    <2>1. CASE \E m \in found : m.id = n.id
      <3>1. PICK m : m = CHOOSE x \in found : x.id = n.id
        OBVIOUS
      <3>2. m \in found /\ m.id = n.id
        BY <2>1, <3>1
      <3>3. stored'[n.id] = Packed(m)
        BY <1>2, <2>1, <3>1
      <3>4. m \in Range(NodesIn(b))
        BY <3>2
      <3>. QED
        BY <1>1, <3>2, <3>3, <3>4
    <2>2. CASE ~\E m \in found : m.id = n.id
      <3>1. stored'[n.id] = stored[n.id]
        BY <1>2, <2>2
      <3>2. c # b
        BY <2>2
      <3>3. Placed(c)
        BY <1>1, <3>2 DEF PassesHold, PlacesHold, UpToBitset
      <3>. QED
        BY <3>1, <3>3 DEF Placed
    <2>. QED
      BY <2>1, <2>2
  <1>8. MembersHold' /\ BordersHold'
    BY <1>1, <1>3 DEF PassesHold, MembersHold, BordersHold, Groups, UpToRescan
  <1>. QED
    BY <1>4, <1>5, <1>6, <1>7, <1>8 DEF PassesHold

(* A way of the filtered relations, in a pass after the bit set's.         *)
LEMMA RelationWayStored ==
    ASSUME PassesHold, pass \notin {"index", "scan", "rescan", "bitset"},
           NEW b \in WaySection(index), NEW w \in Range(WaysIn(b)), w.id \in relationWays
    PROVE  Range(w.refs) \subseteq DOMAIN stored
  <1>1. Kept(b)
    BY DEF PassesHold, SlotsHold, UpToRescan
  <1>. QED
    BY <1>1 DEF Kept, KeepsNodes

(* What the first passes left behind is there in the later ones.           *)
LEMMA FoundStays ==
    ASSUME PassesHold, pass \notin UpToStore,
           pass' \notin UpToStore,
           index' = index, relationWays' = relationWays, stored' = stored
    PROVE  ScanHolds' /\ SlotsHold' /\ PlacesHold'
  <1>. USE DEF UpToStore
  <1>1. ScanHolds'
    <2>. SUFFICES ASSUME NEW c \in RelationSection(index)
                  PROVE  Scanned(c)'
      BY DEF ScanHolds, RelationSection
    <2>1. Scanned(c)
      BY DEF PassesHold, ScanHolds
    <2>. QED
      BY <2>1, ScannedStays
  <1>2. SlotsHold'
    <2>. SUFFICES ASSUME NEW c \in WaySection(index)
                  PROVE  Kept(c)'
      BY DEF SlotsHold, WaySection
    <2>1. Kept(c)
      BY DEF PassesHold, SlotsHold, UpToRescan
    <2>. QED
      BY <2>1, KeptStays
  <1>3. PlacesHold'
    <2>. SUFFICES ASSUME NEW c \in NodeSection(index)
                  PROVE  Placed(c)'
      BY DEF PlacesHold, NodeSection
    <2>1. Placed(c)
      BY DEF PassesHold, PlacesHold, UpToBitset
    <2>. QED
      BY <2>1, PlacedStays
  <1>. QED
    BY <1>1, <1>2, <1>3

(* The member ways found have slots: they were kept for being members.     *)
LEMMA MembersStep ==
    ASSUME PassesHold, NEW b, MembersBlock(b)
    PROVE  PassesHold'
  <1>1. /\ pass = "members" /\ pass' = "members" /\ todo' = todo \ {b} /\ b \in WaySection(index)
        /\ index' = index /\ relationWays' = relationWays /\ stored' = stored
        /\ claimed' = claimed /\ resolved' = resolved
    <2>1. Finish("members", b)
      BY DEF MembersBlock
    <2>. QED
      BY <2>1, Finishes, Sections DEF MembersBlock, features, scan
  <1>. DEFINE found == {w \in Range(WaysIn(b)) : w.id \in relationWays}
  <1>2. memberWays' = [id \in {w.id : w \in found} \cup DOMAIN memberWays |->
            IF \E w \in found : w.id = id THEN (CHOOSE w \in found : w.id = id).refs
            ELSE memberWays[id]]
    BY DEF MembersBlock
  <1>3. TodoHolds' /\ ScanHolds' /\ SlotsHold' /\ PlacesHold'
    <2>1. TodoHolds'
      BY <1>1 DEF PassesHold, TodoHolds, SectionOf
    <2>2. ScanHolds' /\ SlotsHold' /\ PlacesHold'
      BY <1>1, FoundStays DEF UpToStore
    <2>. QED
      BY <2>1, <2>2
  <1>4. MembersHold'
    <2>. SUFFICES ASSUME NEW id \in DOMAIN memberWays'
                  PROVE  Range(memberWays'[id]) \subseteq DOMAIN stored
      BY <1>1 DEF MembersHold
    <2>1. CASE \E w \in found : w.id = id
      <3>1. PICK w : w = CHOOSE x \in found : x.id = id
        OBVIOUS
      <3>2. w \in found
        BY <2>1, <3>1
      <3>3. Range(w.refs) \subseteq DOMAIN stored
        BY <1>1, <3>2, RelationWayStored
      <3>4. memberWays'[id] = w.refs
        BY <1>2, <2>1, <3>1
      <3>. QED
        BY <3>3, <3>4
    <2>2. CASE ~\E w \in found : w.id = id
      <3>1. id \in DOMAIN memberWays /\ memberWays'[id] = memberWays[id]
        BY <1>2, <2>2
      <3>. QED
        BY <3>1 DEF PassesHold, MembersHold
    <2>. QED
      BY <2>1, <2>2
  <1>5. BordersHold'
    BY <1>1 DEF PassesHold, BordersHold, Groups, UpToRescan
  <1>. QED
    BY <1>3, <1>4, <1>5 DEF PassesHold

(* A border claimed is a relation the first pass kept, so its ways are     *)
(* known.                                                                  *)
LEMMA ClaimsStep ==
    ASSUME PassesHold, NEW b, ClaimsBlock(b)
    PROVE  PassesHold'
  <1>1. /\ pass = "claims" /\ pass' = "claims" /\ todo' = todo \ {b}
               /\ b \in RelationSection(index)
        /\ index' = index /\ relationWays' = relationWays /\ stored' = stored
        /\ memberWays' = memberWays /\ resolved' = resolved
    <2>1. Finish("claims", b)
      BY DEF ClaimsBlock
    <2>. QED
      BY <2>1, Finishes, Sections DEF ClaimsBlock, scan
  <1>2. TodoHolds' /\ ScanHolds' /\ SlotsHold' /\ PlacesHold' /\ MembersHold'
    <2>1. TodoHolds' /\ MembersHold'
      BY <1>1 DEF PassesHold, TodoHolds, SectionOf, MembersHold
    <2>2. ScanHolds' /\ SlotsHold' /\ PlacesHold'
      BY <1>1, FoundStays DEF UpToStore
    <2>. QED
      BY <2>1, <2>2
  <1>3. ASSUME NEW r \in Range(RelationsIn(b)), ClaimsBorder(r.tags, Strings(b))
        PROVE  MemberIds(r, "Way") \subseteq relationWays
    <2>1. PICK strings : strings = Strings(b)
      OBVIOUS
    <2>2. PICK tags : tags = r.tags
      OBVIOUS
    <2>3. 0 \notin DOMAIN strings
      BY <1>1, <2>1, SectionStrings
    <2>4. Matches(GetSidFilter(RelationTagFilter, strings), tags)
      BY <1>3, <2>1, <2>2, <2>3, FilterKeepsRelations
    <2>5. RelationPasses(b, r)
      BY <2>1, <2>2, <2>4 DEF RelationPasses
    <2>6. Scanned(b)
      BY <1>1 DEF PassesHold, ScanHolds
    <2>. QED
      BY <2>5, <2>6 DEF Scanned
  <1>4. \A d \in claimed' : d[1] = "borders" => d \in claimed \/ d[2] \subseteq relationWays
    <2>. DEFINE withWays == {r \in Range(RelationsIn(b)) : MemberIds(r, "Way") # {}}
    <2>1. claimed' = claimed
            \cup {<<"routes", MemberIds(r, "Way")>> :
                    r \in {q \in withWays : ClaimsRoute(q.tags, Strings(b))}}
            \cup {<<"borders", MemberIds(r, "Way")>> :
                    r \in {q \in withWays : ClaimsBorder(q.tags, Strings(b))}}
      BY DEF ClaimsBlock
    <2>. SUFFICES ASSUME NEW d \in claimed', d[1] = "borders", d \notin claimed
                  PROVE  d[2] \subseteq relationWays
      OBVIOUS
    <2>2. \/ \E r \in withWays : d = <<"routes", MemberIds(r, "Way")>>
          \/ \E r \in withWays : ClaimsBorder(r.tags, Strings(b))
                    /\ d = <<"borders", MemberIds(r, "Way")>>
      BY <2>1
    <2>3. PICK r \in withWays :
              ClaimsBorder(r.tags, Strings(b)) /\ d = <<"borders", MemberIds(r, "Way")>>
      BY <2>2
    <2>. QED
      BY <1>3, <2>3
  <1>5. BordersHold'
    <2>1. \A group \in Groups("borders") : group \subseteq relationWays
      BY DEF PassesHold, BordersHold
    <2>2. ASSUME NEW group \in Groups("borders")'
          PROVE  group \subseteq relationWays'
      <3>1. PICK d \in claimed' : d[1] = "borders" /\ group = d[2]
        BY DEF Groups
      <3>2. CASE d \in claimed
        <4>1. group \in Groups("borders")
          BY <3>1, <3>2 DEF Groups
        <4>. QED
          BY <1>1, <2>1, <4>1
      <3>. QED
        BY <1>1, <1>4, <3>1, <3>2
    <2>3. \A id \in relationWays \cap DOMAIN resolved :
              Range(resolved[id].refs) \subseteq DOMAIN stored
      BY DEF PassesHold, BordersHold
    <2>. QED
      BY <1>1, <2>2, <2>3 DEF BordersHold, UpToRescan
  <1>. QED
    BY <1>2, <1>5 DEF PassesHold

(* The border ways resolved have slots for being members.                  *)
LEMMA ResolveStep ==
    ASSUME PassesHold, NEW b, ResolveBlock(b)
    PROVE  PassesHold'
  <1>1. /\ pass = "resolve" /\ pass' = "resolve" /\ todo' = todo \ {b} /\ b \in WaySection(index)
        /\ index' = index /\ relationWays' = relationWays /\ stored' = stored
        /\ memberWays' = memberWays /\ claimed' = claimed
    <2>1. Finish("resolve", b)
      BY DEF ResolveBlock
    <2>. QED
      BY <2>1, Finishes, Sections DEF ResolveBlock, scan
  <1>2. TodoHolds' /\ ScanHolds' /\ SlotsHold' /\ PlacesHold' /\ MembersHold'
    <2>1. TodoHolds' /\ MembersHold'
      BY <1>1 DEF PassesHold, TodoHolds, SectionOf, MembersHold
    <2>2. ScanHolds' /\ SlotsHold' /\ PlacesHold'
      BY <1>1, FoundStays DEF UpToStore
    <2>. QED
      BY <2>1, <2>2
  <1>. DEFINE found == {w \in Range(WaysIn(b)) : w.id \in UNION {c[2] : c \in claimed}}
              New(id) == CHOOSE w \in found : w.id = id
  <1>3. resolved' = [id \in {w.id : w \in found} \cup DOMAIN resolved |->
            IF \E w \in found : w.id = id
            THEN [refs |-> New(id).refs, class |-> WayShape(b, New(id))]
            ELSE resolved[id]]
    BY DEF ResolveBlock
  <1>4. ASSUME NEW id \in relationWays \cap DOMAIN resolved'
        PROVE  Range(resolved'[id].refs) \subseteq DOMAIN stored
    <2>1. CASE \E w \in found : w.id = id
      <3>1. PICK w : w = New(id)
        OBVIOUS
      <3>2. w \in found /\ w.id = id
        BY <2>1, <3>1
      <3>3. Range(w.refs) \subseteq DOMAIN stored
        BY <1>1, <1>4, <3>2, RelationWayStored
      <3>4. resolved'[id].refs = w.refs
        BY <1>3, <1>4, <2>1, <3>1
      <3>. QED
        BY <3>3, <3>4
    <2>2. CASE ~\E w \in found : w.id = id
      <3>1. id \in DOMAIN resolved /\ resolved'[id] = resolved[id]
        BY <1>3, <1>4, <2>2
      <3>. QED
        BY <1>4, <3>1 DEF PassesHold, BordersHold
    <2>. QED
      BY <2>1, <2>2
  <1>5. BordersHold'
    <2>1. \A group \in Groups("borders") : group \subseteq relationWays
      BY DEF PassesHold, BordersHold
    <2>. QED
      BY <1>1, <1>4, <2>1 DEF BordersHold, UpToRescan, Groups
  <1>. QED
    BY <1>2, <1>5 DEF PassesHold

(* The last passes find nothing more.                                      *)
LEMMA BuildStep ==
    ASSUME PassesHold, pass \in {"routes", "borders"}, pass' \in {"borders", "done"}, todo'
              = todo,
           index' = index, relationWays' = relationWays, stored' = stored,
           memberWays' = memberWays, claimed' = claimed, resolved' = resolved
    PROVE  PassesHold'
  <1>1. TodoHolds'
    <2>1. todo \subseteq {}
      BY Sections DEF PassesHold, TodoHolds
    <2>. QED
      BY <2>1 DEF TodoHolds
  <1>2. ScanHolds' /\ SlotsHold' /\ PlacesHold'
    BY FoundStays DEF UpToStore
  <1>3. MembersHold' /\ BordersHold'
    BY DEF PassesHold, MembersHold, BordersHold, Groups, UpToRescan
  <1>. QED
    BY <1>1, <1>2, <1>3 DEF PassesHold

(* Before the first pass nothing is owed and nothing is found.             *)
LEMMA PassesInit == ExtractInit => PassesHold
  <1>. SUFFICES ASSUME ExtractInit PROVE PassesHold
    OBVIOUS
  <1>1. /\ pass = "index" /\ stored = <<>> /\ memberWays = <<>> /\ claimed = {} /\ resolved = <<>>
    BY DEF ExtractInit
  <1>2. TodoHolds /\ ScanHolds /\ SlotsHold /\ PlacesHold
    BY <1>1 DEF TodoHolds, ScanHolds, SlotsHold, PlacesHold, UpToRescan, UpToBitset
  <1>3. MembersHold
    BY <1>1 DEF MembersHold
  <1>4. Groups("borders") = {} /\ DOMAIN resolved = {}
    BY <1>1 DEF Groups
  <1>5. BordersHold
    BY <1>4 DEF BordersHold
  <1>. QED
    BY <1>2, <1>3, <1>5 DEF PassesHold

(* Every step of every pass.                                               *)
LEMMA PassesStep == PassesHold /\ [ExtractNext]_extractVars => PassesHold'
  <1>. SUFFICES ASSUME PassesHold, [ExtractNext]_extractVars
                PROVE  PassesHold'
    OBVIOUS
  <1>1. CASE OpenIndex
    BY <1>1, IndexStep DEF OpenIndex, GoOn, scan, features
  <1>2. CASE WriteIndex
    BY <1>2, IndexStep DEF WriteIndex, GoOn, scan, features
  <1>3. CASE Join
    BY <1>3, JoinStep
  <1>4. CASE Connect
    <2>1. /\ pass = "connect" /\ pass' = pass /\ todo' = todo /\ index' = index
          /\ relationWays' = relationWays /\ stored' = stored /\ memberWays' = memberWays
          /\ claimed' = claimed /\ resolved' = resolved
      BY <1>4 DEF Connect, scan, features
    <2>. QED
      BY <2>1, QuietStep
  <1>5. ASSUME NEW b \in todo, IndexBlock(b)
        PROVE  PassesHold'
    BY <1>5, IndexStep DEF IndexBlock, Finish, scan, features
  <1>6. ASSUME NEW b \in todo, ScanBlock(b) \/ RescanBlock(b) \/ BitsetBlock(b) \/ StoreBlock(b)
        PROVE  PassesHold'
    BY <1>6, ScanStep, RescanStep, BitsetStep, StoreStep
  <1>7. ASSUME NEW b \in todo, WaysBlock(b) \/ RelationsBlock(b) \/ PlacesBlock(b) \/ PushWater(b)
        PROVE  PassesHold'
    <2>1. /\ pass \in {"ways", "relations", "places", "water"} /\ pass' = pass
                 /\ todo' \subseteq todo
          /\ index' = index /\ relationWays' = relationWays /\ stored' = stored
          /\ memberWays' = memberWays /\ claimed' = claimed /\ resolved' = resolved
      BY <1>7 DEF WaysBlock, RelationsBlock, PlacesBlock, PushWater, Finish, scan, features
    <2>. QED
      BY <2>1, QuietStep
  <1>8. ASSUME NEW b \in todo, MembersBlock(b) \/ ClaimsBlock(b) \/ ResolveBlock(b)
        PROVE  PassesHold'
    BY <1>8, MembersStep, ClaimsStep, ResolveStep
  <1>9. CASE BuildRoutes \/ BuildBorders
    <2>1. /\ pass \in {"routes", "borders"} /\ pass' \in {"borders", "done"} /\ todo' = todo
          /\ index' = index /\ relationWays' = relationWays /\ stored' = stored
          /\ memberWays' = memberWays /\ claimed' = claimed /\ resolved' = resolved
      BY <1>9 DEF BuildRoutes, BuildBorders, scan, features
    <2>. QED
      BY <2>1, BuildStep
  <1>10. CASE UNCHANGED extractVars
    <2>1. /\ pass' = pass /\ todo' = todo /\ index' = index
          /\ relationWays' = relationWays /\ stored' = stored /\ memberWays' = memberWays
          /\ claimed' = claimed /\ resolved' = resolved
      BY <1>10 DEF extractVars, scan, features
    <2>. QED
      BY <2>1 DEF PassesHold, TodoHolds, SectionOf, ScanHolds, SlotsHold, PlacesHold, MembersHold,
                  BordersHold, NodeSection, WaySection, RelationSection, Scanned, Kept, Placed,
                  RelationPasses, RelationsIn, Strings, MemberIds, KeepsNodes, WayPasses,
                            WayShape,
                  WaysIn, NodesIn, Groups
  <1>. QED
    BY <1>1, <1>2, <1>3, <1>4, <1>5, <1>6, <1>7, <1>8, <1>9, <1>10 DEF ExtractNext, Extracted

(* Whatever the workers' order, what will be drawn has its nodes stored.   *)
THEOREM NodesAreKept == ExtractSpec => []NodesAreStored
  <1>1. PassesHold => NodesAreStored
    <2>. SUFFICES ASSUME PassesHold PROVE NodesAreStored
      OBVIOUS
    <2>1. ASSUME pass \notin {"index", "scan", "rescan", "bitset"}, NEW b \in WaySection(index),
                 NEW w \in Range(WaysIn(b)), WayPasses(b, w), WayShape(b, w) # UnknownShape
          PROVE  Range(w.refs) \subseteq DOMAIN stored
      <3>1. Kept(b)
        BY <2>1 DEF PassesHold, SlotsHold, UpToRescan
      <3>. QED
        BY <2>1, <3>1 DEF Kept, KeepsNodes
    <2>2. \A id \in DOMAIN memberWays : Range(memberWays[id]) \subseteq DOMAIN stored
      BY DEF PassesHold, MembersHold
    <2>3. \A group \in Groups("borders") : \A id \in group \cap DOMAIN resolved :
              Range(resolved[id].refs) \subseteq DOMAIN stored
      BY DEF PassesHold, BordersHold
    <2>4. ASSUME pass \notin {"index", "scan", "rescan", "bitset", "store"},
              NEW b \in NodeSection(index)
          PROVE  Placed(b)
      BY <2>4 DEF PassesHold, PlacesHold, UpToBitset
    <2>. QED
      BY <2>1, <2>2, <2>3, <2>4 DEF NodesAreStored, Placed
  <1>. QED
    BY <1>1, PassesInit, PassesStep, PTL DEF ExtractSpec

-----------------------------------------------------------------------------
(* The connectivity pass among the others.                                 *)

(* No pass but the connectivity pass touches what that one works on.       *)
LEMMA ConnectivityStep == [ExtractNext]_extractVars => [Next]_vars
  <1>. SUFFICES ASSUME [ExtractNext]_extractVars PROVE [Next]_vars
    OBVIOUS
  <1>1. CASE Connect
    BY <1>1 DEF Connect, Next
  <1>2. CASE OpenIndex \/ WriteIndex \/ Join \/ BuildRoutes \/ BuildBorders \/ Extracted
    BY <1>2 DEF OpenIndex, WriteIndex, Join, BuildRoutes, BuildBorders, Extracted,
                extractVars, connectivity, vars
  <1>3. ASSUME NEW b \in todo, IndexBlock(b) \/ ScanBlock(b) \/ RescanBlock(b)
        PROVE  UNCHANGED vars
    BY <1>3 DEF IndexBlock, ScanBlock, RescanBlock, Finish, connectivity, vars
  <1>4. ASSUME NEW b \in todo, BitsetBlock(b) \/ StoreBlock(b) \/ WaysBlock(b)
        PROVE  UNCHANGED vars
    BY <1>4 DEF BitsetBlock, StoreBlock, WaysBlock, Finish, connectivity, vars
  <1>5. ASSUME NEW b \in todo, MembersBlock(b) \/ RelationsBlock(b) \/ PlacesBlock(b)
        PROVE  UNCHANGED vars
    BY <1>5 DEF MembersBlock, RelationsBlock, PlacesBlock, Finish, connectivity, vars
  <1>6. ASSUME NEW b \in todo, PushWater(b) \/ ClaimsBlock(b) \/ ResolveBlock(b)
        PROVE  UNCHANGED vars
    BY <1>6 DEF PushWater, ClaimsBlock, ResolveBlock, Finish, connectivity, vars
  <1>7. CASE UNCHANGED extractVars
    BY <1>7 DEF extractVars, connectivity, vars
  <1>. QED
    BY <1>1, <1>2, <1>3, <1>4, <1>5, <1>6, <1>7 DEF ExtractNext

(* The passes around it leave the connectivity pass the machine it is.     *)
THEOREM ExtractConnects == ExtractSpec => Spec
  <1>1. ExtractInit => Init
    BY DEF ExtractInit
  <1>. QED
    BY <1>1, ConnectivityStep, PTL DEF ExtractSpec, Spec

(* So of the whole extraction: whatever the workers of every pass do and   *)
(* whichever index they started from, a node is marked as a junction when  *)
(* two references of roads to it were tested, and when the pass has ended  *)
(* exactly then; and rank counts.                                          *)
THEOREM JunctionsOfExtract == ExtractSpec
          => [](TypeOK /\ SharedMeansTwice /\ JunctionsExact /\ RankIsCount)
  BY ExtractConnects, TypeCorrect, SharedIsTwice, JunctionsAreExact, RankIsACount, PTL
=============================================================================
