--------------------------- MODULE PmTilesProofs ----------------------------
(***************************************************************************)
(* Theorems of PmTiles and of the codec it rests on, for every archive,    *)
(* leaf size, cache capacity, merge gap, number of readers and place       *)
(* where the file is cut off, with their proofs.                           *)
(*                                                                         *)
(* Ids.  hilbert takes the bits from the highest down and turns what is    *)
(* left with n, the side of the whole level, not of the square at hand.    *)
(* So the induction goes from the lowest bit up, over functions of all     *)
(* points that look at the low bits only (IsCurve), and a turn is read     *)
(* modulo the side of the square (TurnOfLow).                              *)
(*                                                                         *)
(* Directories.  A number comes back from its digits (HoldsMore), a list   *)
(* from its numbers (HoldsList), a directory from its five columns         *)
(* (ParseSerialize); cut into leaves, it leads every id to where it was    *)
(* (TwoLevels, DirectoriesAreGood).                                        *)
(*                                                                         *)
(* Runs.  Entries of consecutive ids and one content become one run; the   *)
(* ids that find something are the same before and after (RunsFind).       *)
(*                                                                         *)
(* The writer stores every content once (StoredIn); finish sorts the       *)
(* entries (SortedIsLaidOut), copies the contents and moves the offsets    *)
(* (ClusteredIs), joins the runs (RunsAnswer) and puts the file together   *)
(* (ArchiveIsRight).                                                       *)
(*                                                                         *)
(* The readers.  What a task found, fetched and cached is that of one      *)
(* archive, the one finish made, of which the file may be a front only     *)
(* (IInv).  The refinement of TileSource follows from it step by step      *)
(* (StepIsSource).                                                         *)
(***************************************************************************)
EXTENDS PmTiles, FiniteSums, SequenceTheorems

-----------------------------------------------------------------------------
(* The provers know no powers; the subsets of a finite set count them.     *)
LEMMA TwiceTheSubsets ==
    ASSUME NEW A, IsFiniteSet(A), NEW e, e \notin A
    PROVE  Cardinality(SUBSET (A \cup {e})) = Cardinality(SUBSET A) + Cardinality(SUBSET A)
  <1>. DEFINE Old == SUBSET A
              New == {a \cup {e} : a \in Old}
              more == [a \in Old |-> a \cup {e}]
  <1>1. IsFiniteSet(Old)
    BY FS_SUBSET
  <1>2. SUBSET (A \cup {e}) = Old \cup New
    <2>1. ASSUME NEW b \in SUBSET (A \cup {e}), b \notin Old
          PROVE  b \in New
      <3>1. b = (b \ {e}) \cup {e} /\ b \ {e} \in Old
        BY <2>1
      <3>. QED
        BY <3>1
    <2>2. Old \subseteq SUBSET (A \cup {e})
      OBVIOUS
    <2>3. New \subseteq SUBSET (A \cup {e})
      OBVIOUS
    <2>4. SUBSET (A \cup {e}) \subseteq Old \cup New
      BY <2>1, Zenon
    <2>. HIDE DEF Old, New
    <2>. QED
      BY <2>2, <2>3, <2>4, Zenon
  <1>3. Old \cap New = {}
    OBVIOUS
  <1>4. more \in [Old -> New] /\ \A a \in Old : more[a] = a \cup {e}
    BY Zenon
  <1>5. \A a \in Old : a = (a \cup {e}) \ {e}
    OBVIOUS
  <1>6. \A a, b \in Old : more[a] = more[b] => a = b
    BY <1>4, <1>5, Zenon
  <1>7. \A b \in New : \E a \in Old : more[a] = b
    BY Zenon
  <1>. HIDE DEF Old, New, more
  <1>8. ExistsBijection(Old, New)
    BY <1>4, <1>6, <1>7 DEF ExistsBijection, Bijection, Injection, Surjection, IsInjective
  <1>9. IsFiniteSet(New) /\ Cardinality(New) = Cardinality(Old)
    BY <1>1, <1>8, FS_Bijection, Zenon
  <1>10. Cardinality(Old \cup New) = Cardinality(Old) + Cardinality(New)
    BY <1>1, <1>3, <1>9, DisjointUnion, Zenon
  <1>. QED
    BY <1>2, <1>9, <1>10 DEF Old

(* A power of two is twice the one before.                                 *)
LEMMA TwoTimes ==
    ASSUME NEW n \in Nat
    PROVE  2^n \in Nat \ {0} /\ 2^(n + 1) = 2 * 2^n
  <1>1. IsFiniteSet(1..n) /\ Cardinality(1..n) = n
    BY FS_Interval
  <1>2. n + 1 \notin 1..n /\ 1..(n + 1) = (1..n) \cup {n + 1}
    OBVIOUS
  <1>3. IsFiniteSet(1..(n + 1)) /\ Cardinality(1..(n + 1)) = n + 1
    BY FS_Interval
  <1>4. 2^n = Cardinality(SUBSET (1..n)) /\ 2^(n + 1) = Cardinality(SUBSET (1..(n + 1)))
    BY <1>1, <1>3, FS_SUBSET, Zenon
  <1>5. PICK c : c = Cardinality(SUBSET (1..n))
    OBVIOUS
  <1>6. 2^n = c /\ 2^(n + 1) = c + c
    BY <1>1, <1>2, <1>4, <1>5, TwiceTheSubsets, Zenon
  <1>7. c \in Nat \ {0}
    <2>1. IsFiniteSet(SUBSET (1..n)) /\ SUBSET (1..n) # {}
      BY <1>1, FS_SUBSET
    <2>2. Cardinality(SUBSET (1..n)) \in Nat /\ Cardinality(SUBSET (1..n)) # 0
      BY <2>1, FS_CardinalityType, FS_EmptySet, Zenon
    <2>. QED
      BY <1>5, <2>2
  <1>8. c + c = 2 * c
    BY <1>7
  <1>. QED
    BY <1>6, <1>7, <1>8, Zenon

(* A division is unique.                                                   *)
LEMMA DivisionIs ==
    \A d \in Nat \ {0}, q, x \in Int : \A r \in 0..(d - 1) :
        x = d * q + r => x \div d = q /\ x % d = r
  BY SMT

LEMMA Division ==
    ASSUME NEW x \in Int, NEW d \in Nat \ {0}
    PROVE  x \div d \in Int /\ x % d \in 0..(d - 1) /\ x = d * (x \div d) + (x % d)
  BY SMT

(* The low digits of a coordinate, and of the one it is flipped to.        *)
LEMMA LowBits ==
    ASSUME NEW x \in Int, NEW s \in Nat \ {0}
    PROVE  /\ (x \div s) % 2 \in {0, 1}
           /\ x % s \in 0..(s - 1)
           /\ x % (2 * s) = IF (x \div s) % 2 = 0 THEN x % s ELSE s + (x % s)
  <1>. DEFINE q == x \div s
              r == x % s
              c == q \div 2
              b == q % 2
  <1>1. q \in Int /\ r \in 0..(s - 1) /\ x = s * q + r
    BY Division, Zenon
  <1>2. c \in Int /\ b \in 0..1 /\ q = 2 * c + b
    BY <1>1
  <1>. HIDE DEF q, r, c, b
  <1>3. x = (2 * s) * c + (s * b + r)
    BY <1>1, <1>2, SMT
  <1>4. s * b = IF b = 0 THEN 0 ELSE s
    BY <1>2
  <1>5. s * b + r \in 0..(2 * s - 1) /\ 2 * s \in Nat \ {0}
    BY <1>1, <1>2, <1>4
  <1>6. x % (2 * s) = s * b + r
    <2>1. PICK d, l : d = 2 * s /\ l = s * b + r /\ d \in Nat \ {0} /\ l \in 0..(d - 1)
      BY <1>5
    <2>2. x = d * c + l
      BY <1>3, <2>1
    <2>3. x % d = l
      BY <1>2, <2>1, <2>2, DivisionIs, Zenon
    <2>. QED
      BY <2>1, <2>3
  <1>7. b \in {0, 1} /\ s * b + r = IF b = 0 THEN r ELSE s + r
    BY <1>1, <1>2, <1>4
  <1>. QED
    BY <1>1, <1>6, <1>7 DEF q, r, c, b

(* n - 1 - x of a level whose side the square's divides.                   *)
LEMMA Flipped ==
    ASSUME NEW s \in Nat \ {0}, NEW a \in Int, NEW n \in Int, n = s * a, NEW x \in Int
    PROVE  (n - 1 - x) % s = s - 1 - (x % s)
  <1>. DEFINE q == x \div s
              r == x % s
  <1>1. q \in Int /\ r \in 0..(s - 1) /\ x = s * q + r
    BY Division, Zenon
  <1>. HIDE DEF q, r
  <1>2. n - 1 - x = s * (a - q - 1) + (s - 1 - r)
    BY <1>1, SMT
  <1>3. a - q - 1 \in Int /\ s - 1 - r \in 0..(s - 1) /\ n - 1 - x \in Int
    BY <1>1
  <1>4. (n - 1 - x) % s = s - 1 - r
    <2>1. PICK y \in Int, c \in Int, l \in 0..(s - 1) :
              y = n - 1 - x /\ c = a - q - 1 /\ l = s - 1 - r
      BY <1>3
    <2>2. y = s * c + l
      BY <1>2, <2>1
    <2>3. y % s = l
      BY <2>2, DivisionIs, Zenon
    <2>. QED
      BY <2>1, <2>3
  <1>. QED
    BY <1>4 DEF r

-----------------------------------------------------------------------------
Points == Int \X Int

Divides(s, n) == \E a \in Int : n = s * a

(* Where a point is in its square of side s.                               *)
Low(s, p) == <<p[1] % s, p[2] % s>>

Bit(s, c) == (c \div s) % 2

(* A turn, read within the square of side s: the bits above do not matter. *)
LEMMA TurnOfLow ==
    ASSUME NEW s \in Nat \ {0}, NEW n \in Int, Divides(s, n), NEW p \in Points
    PROVE  /\ Turned(n, s, p) \in Points
           /\ Bit(s, p[1]) \in {0, 1} /\ Bit(s, p[2]) \in {0, 1}
           /\ Low(s, Turned(n, s, p)) =
                 IF Bit(s, p[2]) = 1 THEN Low(s, p)
                 ELSE IF Bit(s, p[1]) = 0 THEN <<p[2] % s, p[1] % s>>
                 ELSE <<s - 1 - (p[2] % s), s - 1 - (p[1] % s)>>
  <1>1. PICK x \in Int, y \in Int : p = <<x, y>>
    BY DEF Points
  <1>2. p[1] = x /\ p[2] = y
    BY <1>1
  <1>3. Bit(s, x) \in {0, 1} /\ Bit(s, y) \in {0, 1}
    BY LowBits DEF Bit
  <1>4. (n - 1 - x) % s = s - 1 - (x % s) /\ (n - 1 - y) % s = s - 1 - (y % s)
    BY Flipped DEF Divides
  <1>5. n - 1 - x \in Int /\ n - 1 - y \in Int
    OBVIOUS
  <1>6. CASE Bit(s, y) = 1
    BY <1>1, <1>2, <1>3, <1>6 DEF Turned, Bit, Low, Points
  <1>7. CASE Bit(s, y) = 0
    BY <1>1, <1>2, <1>3, <1>4, <1>5, <1>7 DEF Turned, Bit, Low, Points
  <1>. QED
    BY <1>2, <1>3, <1>6, <1>7

(* The square of twice the side sees one bit more.                         *)
LEMMA LowOfTwice ==
    ASSUME NEW s \in Nat \ {0}, NEW p \in Points
    PROVE  /\ p[1] % s \in 0..(s - 1) /\ p[2] % s \in 0..(s - 1)
           /\ Low(2 * s, p) = <<IF Bit(s, p[1]) = 0 THEN p[1] % s ELSE s + (p[1] % s),
                                IF Bit(s, p[2]) = 0 THEN p[2] % s ELSE s + (p[2] % s)>>
  BY LowBits DEF Bit, Low, Points

Near(a, b) == <<b[1] - a[1], b[2] - a[2]>> \in {<<0, 1>>, <<0, -1>>, <<1, 0>>, <<-1, 0>>}

(* A function on the points that counts along a curve over each square of  *)
(* side s: it takes each value below the area at one place of the square,  *)
(* goes from each place to a neighbour, and from corner to corner along    *)
(* the first axis.                                                         *)
IsCurve(h, s) ==
    /\ \A p \in Points : h[p] \in 0..(s * s - 1)
    /\ \A p, q \in Points : h[p] = h[q] <=> Low(s, p) = Low(s, q)
    /\ \A d \in 0..(s * s - 1) : \E x, y \in 0..(s - 1) : h[<<x, y>>] = d
    /\ \A p, q \in Points : h[q] = h[p] + 1 => Near(Low(s, p), Low(s, q))
    /\ \A p \in Points : h[p] = 0 => Low(s, p) = <<0, 0>>
    /\ \A p \in Points : h[p] = s * s - 1 => Low(s, p) = <<s - 1, 0>>

(* (3 * rx) ^ ry: the quadrant along the curve.                            *)
LEMMA QuadrantIs ==
    ASSUME NEW s \in Nat \ {0}, NEW p \in Points
    PROVE  /\ Bit(s, p[1]) \in {0, 1} /\ Bit(s, p[2]) \in {0, 1}
           /\ Quadrant(s, p) = IF Bit(s, p[1]) = 0 THEN Bit(s, p[2]) ELSE 3 - Bit(s, p[2])
  BY LowBits DEF Quadrant, Bit, Points

(* Where a place of the curve through a quadrant is in the square of twice *)
(* the side.                                                               *)
Unturned(s, k, w) ==
    CASE k = 0 -> <<w[2], w[1]>>
      [] k = 1 -> <<w[1], s + w[2]>>
      [] k = 2 -> <<s + w[1], s + w[2]>>
      [] k = 3 -> <<2 * s - 1 - w[2], s - 1 - w[1]>>

Square(s) == (0..(s - 1)) \X (0..(s - 1))

(* A place of the square is its own low bits.                              *)
LEMMA LowOfPlace ==
    ASSUME NEW s \in Nat \ {0}, NEW x \in 0..(s - 1), NEW y \in 0..(s - 1)
    PROVE  <<x, y>> \in Square(s) /\ <<x, y>> \in Points /\ Low(s, <<x, y>>) = <<x, y>>
  <1>1. x % s = x /\ y % s = y
    OBVIOUS
  <1>. QED
    BY <1>1 DEF Square, Points, Low

(* Each point is where its quadrant and its turned low bits say.           *)
LEMMA PlaceOf ==
    ASSUME NEW s \in Nat \ {0}, NEW n \in Int, Divides(s, n), NEW p \in Points
    PROVE  /\ Low(s, Turned(n, s, p)) \in Square(s)
           /\ Low(2 * s, p) = Unturned(s, Quadrant(s, p), Low(s, Turned(n, s, p)))
  <1>1. PICK b, c : /\ b = Bit(s, p[1]) /\ c = Bit(s, p[2])
                    /\ b \in {0, 1} /\ c \in {0, 1}
    BY QuadrantIs
  <1>2. PICK x, y : /\ x = p[1] % s /\ y = p[2] % s
                    /\ x \in 0..(s - 1) /\ y \in 0..(s - 1)
    BY LowOfTwice
  <1>3. PICK k : k = Quadrant(s, p) /\ k = IF b = 0 THEN c ELSE 3 - c
    BY <1>1, QuadrantIs
  <1>4. PICK w : /\ w = Low(s, Turned(n, s, p))
                 /\ w = IF c = 1 THEN <<x, y>>
                        ELSE IF b = 0 THEN <<y, x>>
                        ELSE <<s - 1 - y, s - 1 - x>>
    BY <1>1, <1>2, TurnOfLow DEF Low
  <1>5. Low(2 * s, p) = <<IF b = 0 THEN x ELSE s + x, IF c = 0 THEN y ELSE s + y>>
    BY <1>1, <1>2, LowOfTwice
  <1>6. w \in Square(s)
    BY <1>1, <1>2, <1>4 DEF Square
  <1>7. <<IF b = 0 THEN x ELSE s + x, IF c = 0 THEN y ELSE s + y>> = Unturned(s, k, w)
    BY <1>1, <1>2, <1>3, <1>4 DEF Unturned
  <1>. QED
    BY <1>3, <1>4, <1>5, <1>6, <1>7, Zenon

LEMMA NearIs ==
    \A a, b, c, d \in Int :
        Near(<<a, b>>, <<c, d>>) <=>
            \/ c = a /\ (d = b + 1 \/ d = b - 1)
            \/ d = b /\ (c = a + 1 \/ c = a - 1)
  <1>. SUFFICES ASSUME NEW a \in Int, NEW b \in Int, NEW c \in Int, NEW d \in Int
                PROVE  Near(<<a, b>>, <<c, d>>) <=>
                           \/ c = a /\ (d = b + 1 \/ d = b - 1)
                           \/ d = b /\ (c = a + 1 \/ c = a - 1)
    OBVIOUS
  <1>1. Near(<<a, b>>, <<c, d>>) <=>
            \/ c - a = 0 /\ d - b = 1
            \/ c - a = 0 /\ d - b = -1
            \/ c - a = 1 /\ d - b = 0
            \/ c - a = -1 /\ d - b = 0
    BY DEF Near
  <1>. QED
    BY <1>1

LEMMA UnturnedType ==
    ASSUME NEW s \in Nat \ {0}, NEW k \in 0..3, NEW w \in Square(s)
    PROVE  Unturned(s, k, w) \in Square(2 * s)
  BY DEF Unturned, Square

(* Distinct places stay distinct.                                          *)
LEMMA UnturnedIsOne ==
    ASSUME NEW s \in Nat \ {0}, NEW j \in 0..3, NEW k \in 0..3,
           NEW v \in Square(s), NEW w \in Square(s), Unturned(s, j, v) = Unturned(s, k, w)
    PROVE  j = k /\ v = w
  <1>1. PICK a \in 0..(s - 1), b \in 0..(s - 1) : v = <<a, b>>
    BY DEF Square
  <1>2. PICK c \in 0..(s - 1), d \in 0..(s - 1) : w = <<c, d>>
    BY DEF Square
  <1>. QED
    BY <1>1, <1>2 DEF Unturned

(* Neighbours stay neighbours.                                             *)
LEMMA UnturnedIsNear ==
    ASSUME NEW s \in Nat \ {0}, NEW k \in 0..3,
           NEW v \in Square(s), NEW w \in Square(s), Near(v, w)
    PROVE  Near(Unturned(s, k, v), Unturned(s, k, w))
  <1>1. PICK a \in 0..(s - 1), b \in 0..(s - 1) : v = <<a, b>>
    BY DEF Square
  <1>2. PICK c \in 0..(s - 1), d \in 0..(s - 1) : w = <<c, d>>
    BY DEF Square
  <1>3. \/ c = a /\ (d = b + 1 \/ d = b - 1)
        \/ d = b /\ (c = a + 1 \/ c = a - 1)
    BY <1>1, <1>2, NearIs
  <1>4. CASE k = 0
    <2>1. Unturned(s, k, v) = <<b, a>> /\ Unturned(s, k, w) = <<d, c>>
      BY <1>1, <1>2, <1>4 DEF Unturned
    <2>. QED
      BY <1>3, <2>1, NearIs
  <1>5. CASE k = 1
    <2>1. Unturned(s, k, v) = <<a, s + b>> /\ Unturned(s, k, w) = <<c, s + d>>
      BY <1>1, <1>2, <1>5 DEF Unturned
    <2>. QED
      BY <1>3, <2>1, NearIs
  <1>6. CASE k = 2
    <2>1. Unturned(s, k, v) = <<s + a, s + b>> /\ Unturned(s, k, w) = <<s + c, s + d>>
      BY <1>1, <1>2, <1>6 DEF Unturned
    <2>. QED
      BY <1>3, <2>1, NearIs
  <1>7. CASE k = 3
    <2>1. /\ Unturned(s, k, v) = <<2 * s - 1 - b, s - 1 - a>>
          /\ Unturned(s, k, w) = <<2 * s - 1 - d, s - 1 - c>>
      BY <1>1, <1>2, <1>7 DEF Unturned
    <2>. QED
      BY <1>3, <2>1, NearIs
  <1>. QED
    BY <1>4, <1>5, <1>6, <1>7

(* The curve of one quadrant ends next to where that of the next starts.   *)
LEMMA UnturnedJoins ==
    ASSUME NEW s \in Nat \ {0}
    PROVE  /\ \A j, k \in 0..3 : k = j + 1 =>
                  Near(Unturned(s, j, <<s - 1, 0>>), Unturned(s, k, <<0, 0>>))
           /\ Unturned(s, 0, <<0, 0>>) = <<0, 0>>
           /\ Unturned(s, 3, <<s - 1, 0>>) = <<2 * s - 1, 0>>
  BY DEF Unturned, Near

(* An index and its quadrant.                                              *)
LEMMA QuarterType ==
    ASSUME NEW m \in Nat \ {0}, NEW k \in 0..3, NEW e \in 0..(m - 1)
    PROVE  /\ m * k + e \in 0..(4 * m - 1)
           /\ m * k + e = 0 => k = 0 /\ e = 0
           /\ m * k + e = 4 * m - 1 => k = 3 /\ e = m - 1
  <1>1. k \in {0, 1, 2, 3}
    OBVIOUS
  <1>2. m * 0 = 0 /\ m * 1 = m /\ m * 2 = m + m /\ m * 3 = m + m + m /\ 4 * m = m + m + m + m
    OBVIOUS
  <1>. QED
    BY <1>1, <1>2

(* The number after the last of a quadrant is the first of the next.       *)
LEMMA NextQuarter ==
    ASSUME NEW m \in Nat \ {0}, NEW j \in 0..3, NEW k \in 0..3,
           NEW d \in 0..(m - 1), NEW e \in 0..(m - 1)
    PROVE  /\ m * j + d = m * k + e => j = k /\ d = e
           /\ m * k + e = m * j + d + 1 =>
                  \/ k = j /\ e = d + 1
                  \/ k = j + 1 /\ d = m - 1 /\ e = 0
  <1>1. j \in {0, 1, 2, 3} /\ k \in {0, 1, 2, 3}
    OBVIOUS
  <1>2. m * 0 = 0 /\ m * 1 = m /\ m * 2 = m + m /\ m * 3 = m + m + m
    OBVIOUS
  <1>. QED
    BY <1>1, <1>2

LEMMA QuarterOf ==
    ASSUME NEW m \in Nat \ {0}, NEW i \in 0..(4 * m - 1)
    PROVE  \E k \in 0..3, e \in 0..(m - 1) : i = m * k + e
  <1>1. CASE i < m
    <2>1. i = m * 0 + i /\ i \in 0..(m - 1)
      BY <1>1
    <2>. QED
      BY <2>1
  <1>2. CASE m <= i /\ i < 2 * m
    <2>1. i = m * 1 + (i - m) /\ i - m \in 0..(m - 1)
      BY <1>2
    <2>. QED
      BY <2>1
  <1>3. CASE 2 * m <= i /\ i < 3 * m
    <2>1. i = m * 2 + (i - 2 * m) /\ i - 2 * m \in 0..(m - 1)
      BY <1>3
    <2>. QED
      BY <2>1
  <1>4. CASE 3 * m <= i
    <2>1. i = m * 3 + (i - 3 * m) /\ i - 3 * m \in 0..(m - 1)
      BY <1>4
    <2>. QED
      BY <2>1
  <1>. QED
    BY <1>1, <1>2, <1>3, <1>4

(* What the index of a point adds up to at bit s, and where the point is.  *)
LEMMA IndexAtBit ==
    ASSUME NEW s \in Nat \ {0}, NEW n \in Int, Divides(s, n),
           NEW h, IsCurve(h, s), NEW p \in Points
    PROVE  \E k \in 0..3, t \in Points :
               /\ AtBit(n, s, h)[p] = s * s * k + h[t]
               /\ h[t] \in 0..(s * s - 1)
               /\ Low(s, t) \in Square(s)
               /\ Low(2 * s, p) = Unturned(s, k, Low(s, t))
  <1>1. Turned(n, s, p) \in Points
    BY TurnOfLow, Zenon
  <1>2. h[Turned(n, s, p)] \in 0..(s * s - 1)
    BY <1>1, Zenon DEF IsCurve
  <1>3. AtBit(n, s, h)[p] = s * s * Quadrant(s, p) + h[Turned(n, s, p)]
    BY Zenon DEF AtBit, Points
  <1>4. Quadrant(s, p) \in 0..3
    BY QuadrantIs
  <1>5. /\ Low(s, Turned(n, s, p)) \in Square(s)
        /\ Low(2 * s, p) = Unturned(s, Quadrant(s, p), Low(s, Turned(n, s, p)))
    BY PlaceOf, Zenon
  <1>. QED
    BY <1>1, <1>2, <1>3, <1>4, <1>5, Zenon

(* One more bit makes a curve over squares of twice the side: the curves   *)
(* through the four quadrants, turned so that they join.                   *)
LEMMA CurveOfTwice ==
    ASSUME NEW s \in Nat \ {0}, NEW n \in Int, Divides(s, n),
           NEW h, IsCurve(h, s)
    PROVE  IsCurve(AtBit(n, s, h), 2 * s)
  <1>1. PICK m \in Nat \ {0} : m = s * s
    BY SMT
  <1>2. (2 * s) * (2 * s) = 4 * m
    BY <1>1
  <1>3. PICK g : g = AtBit(n, s, h)
    OBVIOUS
  <1>4. ASSUME NEW p \in Points
        PROVE  \E k \in 0..3, t \in Points, e \in 0..(m - 1), w \in Square(s) :
                   /\ g[p] = m * k + e /\ h[t] = e
                   /\ w = Low(s, t) /\ Low(2 * s, p) = Unturned(s, k, w)
    <2>1. \E k \in 0..3, t \in Points :
              /\ g[p] = s * s * k + h[t]
              /\ h[t] \in 0..(s * s - 1)
              /\ Low(s, t) \in Square(s)
              /\ Low(2 * s, p) = Unturned(s, k, Low(s, t))
      BY <1>3, IndexAtBit, SMT
    <2>. QED
      BY <1>1, <2>1, Zenon
  <1>5. \A p \in Points : g[p] \in 0..(4 * m - 1)
    BY <1>4, QuarterType, SMT
  <1>6. ASSUME NEW p \in Points, NEW q \in Points
        PROVE  /\ g[p] = g[q] => Low(2 * s, p) = Low(2 * s, q)
               /\ Low(2 * s, p) = Low(2 * s, q) => g[p] = g[q]
               /\ g[q] = g[p] + 1 => Near(Low(2 * s, p), Low(2 * s, q))
    <2>1. PICK j \in 0..3, t \in Points, d \in 0..(m - 1), v \in Square(s) :
              /\ g[p] = m * j + d /\ h[t] = d
              /\ v = Low(s, t) /\ Low(2 * s, p) = Unturned(s, j, v)
      BY <1>4, Zenon
    <2>2. PICK k \in 0..3, u \in Points, e \in 0..(m - 1), w \in Square(s) :
              /\ g[q] = m * k + e /\ h[u] = e
              /\ w = Low(s, u) /\ Low(2 * s, q) = Unturned(s, k, w)
      BY <1>4, Zenon
    <2>3. d = e <=> v = w
      BY <2>1, <2>2, Zenon DEF IsCurve
    <2>4. ASSUME g[p] = g[q]
          PROVE  Low(2 * s, p) = Low(2 * s, q)
      <3>1. j = k /\ d = e
        BY <2>1, <2>2, <2>4, NextQuarter, SMT
      <3>. QED
        BY <2>1, <2>2, <2>3, <3>1, Zenon
    <2>5. ASSUME Low(2 * s, p) = Low(2 * s, q)
          PROVE  g[p] = g[q]
      <3>1. j = k /\ v = w
        BY <2>1, <2>2, <2>5, UnturnedIsOne, SMT
      <3>. QED
        BY <2>1, <2>2, <2>3, <3>1, Zenon
    <2>6. ASSUME g[q] = g[p] + 1
          PROVE  Near(Low(2 * s, p), Low(2 * s, q))
      <3>1. m * k + e = m * j + d + 1
        BY <2>1, <2>2, <2>6, Zenon
      <3>2. \/ k = j /\ e = d + 1
            \/ k = j + 1 /\ d = m - 1 /\ e = 0
        BY <3>1, NextQuarter, SMT
      <3>3. CASE k = j /\ e = d + 1
        <4>1. Near(v, w)
          BY <2>1, <2>2, <3>3, Zenon DEF IsCurve
        <4>. QED
          BY <2>1, <2>2, <3>3, <4>1, UnturnedIsNear, Zenon
      <3>4. CASE k = j + 1 /\ d = m - 1 /\ e = 0
        <4>1. v = <<s - 1, 0>> /\ w = <<0, 0>>
          BY <1>1, <2>1, <2>2, <3>4, Zenon DEF IsCurve
        <4>. QED
          BY <2>1, <2>2, <3>4, <4>1, UnturnedJoins, Zenon
      <3>. QED
        BY <3>2, <3>3, <3>4
    <2>. QED
      BY <2>4, <2>5, <2>6, Zenon
  <1>7. ASSUME NEW d \in 0..(4 * m - 1)
        PROVE  \E x, y \in 0..(2 * s - 1) : g[<<x, y>>] = d
    <2>1. PICK k \in 0..3, e \in 0..(m - 1) : d = m * k + e
      BY <1>7, QuarterOf, Zenon
    <2>2. PICK x \in 0..(s - 1), y \in 0..(s - 1) : h[<<x, y>>] = e
      BY <1>1, <2>1, Zenon DEF IsCurve
    <2>3. PICK w : w = <<x, y>> /\ w \in Square(s) /\ w \in Points /\ Low(s, w) = w
      BY LowOfPlace
    <2>4. PICK o \in 0..(2 * s - 1), r \in 0..(2 * s - 1) : Unturned(s, k, w) = <<o, r>>
      <3>1. Unturned(s, k, w) \in Square(2 * s)
        BY <2>3, UnturnedType, SMT
      <3>. QED
        BY <3>1 DEF Square
    <2>5. PICK p : p = <<o, r>> /\ p \in Points /\ Low(2 * s, p) = p
      <3>1. 2 * s \in Nat \ {0}
        OBVIOUS
      <3>. QED
        BY <3>1, LowOfPlace, Zenon
    <2>6. PICK j \in 0..3, t \in Points, c \in 0..(m - 1), v \in Square(s) :
              /\ g[p] = m * j + c /\ h[t] = c
              /\ v = Low(s, t) /\ Low(2 * s, p) = Unturned(s, j, v)
      BY <1>4, <2>5, SMT
    <2>7. j = k /\ v = w
      <3>1. Unturned(s, j, v) = Unturned(s, k, w)
        BY <2>4, <2>5, <2>6, Zenon
      <3>. QED
        BY <2>3, <3>1, UnturnedIsOne, SMT
    <2>8. c = e
      BY <2>2, <2>3, <2>6, <2>7, Zenon DEF IsCurve
    <2>. QED
      BY <2>1, <2>5, <2>6, <2>7, <2>8, Zenon
  <1>8. ASSUME NEW p \in Points
        PROVE  /\ g[p] = 0 => Low(2 * s, p) = <<0, 0>>
               /\ g[p] = 4 * m - 1 => Low(2 * s, p) = <<2 * s - 1, 0>>
    <2>1. PICK j \in 0..3, t \in Points, d \in 0..(m - 1), v \in Square(s) :
              /\ g[p] = m * j + d /\ h[t] = d
              /\ v = Low(s, t) /\ Low(2 * s, p) = Unturned(s, j, v)
      BY <1>4, Zenon
    <2>2. ASSUME g[p] = 0
          PROVE  Low(2 * s, p) = <<0, 0>>
      <3>1. j = 0 /\ d = 0
        BY <2>1, <2>2, QuarterType, SMT
      <3>2. v = <<0, 0>>
        BY <2>1, <3>1, Zenon DEF IsCurve
      <3>. QED
        BY <2>1, <3>1, <3>2, UnturnedJoins, Zenon
    <2>3. ASSUME g[p] = 4 * m - 1
          PROVE  Low(2 * s, p) = <<2 * s - 1, 0>>
      <3>1. j = 3 /\ d = m - 1
        BY <2>1, <2>3, QuarterType, SMT
      <3>2. v = <<s - 1, 0>>
        BY <1>1, <2>1, <3>1, Zenon DEF IsCurve
      <3>. QED
        BY <2>1, <3>1, <3>2, UnturnedJoins, Zenon
    <2>. QED
      BY <2>2, <2>3, Zenon
  <1>. QED
    BY <1>2, <1>3, <1>5, <1>6, <1>7, <1>8, Zenon DEF IsCurve

-----------------------------------------------------------------------------
(* The recursion of hilbert halves the bit: it defines a function.         *)
Flat == [p \in Int \X Int |-> 0]

CurveTo(n) ==
    LET Index[s \in Nat] == IF s = 0 THEN Flat ELSE AtBit(n, s, Index[s \div 2])
    IN  Index

Upto(n, f, m) == f[0] = Flat /\ \A s \in 1..m : f[s] = AtBit(n, s, f[s \div 2])

LEMMA HalfIsLess ==
    \A s \in Nat : s # 0 => s \div 2 \in 0..(s - 1)
  OBVIOUS

(* Up to any bit there is a function that satisfies the recursion,         *)
LEMMA UptoExists ==
    ASSUME NEW n
    PROVE  \A m \in Nat : \E f : Upto(n, f, m)
  <1>. DEFINE Good == {m \in Nat : \E f : Upto(n, f, m)}
  <1>1. 0 \in Good
    <2>1. Upto(n, [i \in {0} |-> Flat], 0)
      BY DEF Upto
    <2>. QED
      BY <2>1
  <1>2. ASSUME NEW m \in Nat, m \in Good
        PROVE  m + 1 \in Good
    <2>1. PICK f : Upto(n, f, m)
      BY <1>2
    <2>2. PICK x : x = AtBit(n, m + 1, f[(m + 1) \div 2])
      OBVIOUS
    <2>3. PICK g : g = [i \in 0..(m + 1) |-> IF i = m + 1 THEN x ELSE f[i]]
      OBVIOUS
    <2>4. g[m + 1] = x /\ \A i \in 0..m : g[i] = f[i]
      BY <2>3
    <2>5. g[0] = Flat
      BY <2>1, <2>4 DEF Upto
    <2>6. ASSUME NEW s \in 1..(m + 1)
          PROVE  g[s] = AtBit(n, s, g[s \div 2])
      <3>1. s \div 2 \in 0..m
        BY HalfIsLess
      <3>2. g[s \div 2] = f[s \div 2]
        BY <2>4, <3>1, Zenon
      <3>3. CASE s = m + 1
        BY <2>2, <2>4, <3>2, <3>3, Zenon
      <3>4. CASE s # m + 1
        <4>1. s \in 1..m /\ s \in 0..m
          BY <3>4
        <4>. QED
          BY <2>1, <2>4, <3>2, <4>1, Zenon DEF Upto
      <3>. QED
        BY <3>3, <3>4
    <2>7. Upto(n, g, m + 1)
      BY <2>5, <2>6 DEF Upto
    <2>. QED
      BY <2>7
  <1>. HIDE DEF Good
  <1>3. \A m \in Nat : m \in Good
    BY <1>1, <1>2, NumberInduction, Zenon
  <1>. QED
    BY <1>3 DEF Good

(* and no more than one.                                                   *)
LEMMA UptoIsOne ==
    ASSUME NEW n, NEW f, NEW g, NEW l \in Nat, NEW m \in Nat, Upto(n, f, l), Upto(n, g, m)
    PROVE  \A s \in Nat : s <= l /\ s <= m => f[s] = g[s]
  <1>. DEFINE Good == {k \in Nat : \A s \in 0..k : s <= l /\ s <= m => f[s] = g[s]}
  <1>1. 0 \in Good
    BY DEF Upto
  <1>2. ASSUME NEW k \in Nat, k \in Good
        PROVE  k + 1 \in Good
    <2>. SUFFICES ASSUME NEW s \in 0..(k + 1), s <= l, s <= m
                  PROVE  f[s] = g[s]
      OBVIOUS
    <2>1. CASE s = k + 1
      <3>1. s \in Nat /\ s # 0
        BY <2>1
      <3>2. s \in 1..l /\ s \in 1..m /\ s \div 2 \in 0..k /\ s \div 2 <= l /\ s \div 2 <= m
        BY <2>1, <3>1, HalfIsLess
      <3>3. f[s \div 2] = g[s \div 2]
        BY <1>2, <3>2
      <3>. QED
        BY <3>2, <3>3, Zenon DEF Upto
    <2>2. CASE s # k + 1
      <3>1. s \in 0..k
        BY <2>2
      <3>. QED
        BY <1>2, <3>1
    <2>. QED
      BY <2>1, <2>2
  <1>. HIDE DEF Good
  <1>3. \A k \in Nat : k \in Good
    BY <1>1, <1>2, NumberInduction, Zenon
  <1>. QED
    BY <1>3 DEF Good

(* So the function that hilbert's recursion defines satisfies it.          *)
LEMMA CurveSteps ==
    ASSUME NEW n
    PROVE  /\ CurveTo(n)[0] = Flat
           /\ \A s \in Nat : s # 0 => CurveTo(n)[s] = AtBit(n, s, CurveTo(n)[s \div 2])
  <1>. DEFINE Part(s) == CHOOSE f : Upto(n, f, s)
              Next1(f) == [s \in Nat |-> IF s = 0 THEN Flat ELSE AtBit(n, s, f[s \div 2])]
  <1>1. \A s \in Nat : Upto(n, Part(s), s)
    BY UptoExists, Zenon
  <1>. HIDE DEF Part
  <1>2. PICK whole : whole = Next1(whole)
    <2>1. PICK w : w = [s \in Nat |-> Part(s)[s]]
      OBVIOUS
    <2>2. ASSUME NEW s \in Nat, s = 0
          PROVE  Part(s)[s] = Flat
      BY <1>1, <2>2, Zenon DEF Upto
    <2>3. ASSUME NEW s \in Nat, s # 0
          PROVE  Part(s)[s] = AtBit(n, s, w[s \div 2])
      <3>1. s \in 1..s
        BY <2>3
      <3>2. PICK h : h = s \div 2 /\ h \in Nat /\ h <= s /\ h <= h
        BY <2>3, HalfIsLess
      <3>3. PICK f, g : /\ f = Part(s) /\ Upto(n, f, s)
                        /\ g = Part(h) /\ Upto(n, g, h)
        BY <1>1, <3>2
      <3>4. f[s] = AtBit(n, s, f[h])
        BY <3>1, <3>2, <3>3, Zenon DEF Upto
      <3>5. f[h] = g[h]
        <4>1. \A i \in Nat : i <= s /\ i <= h => f[i] = g[i]
          BY <3>2, <3>3, UptoIsOne
        <4>. QED
          BY <3>2, <4>1
      <3>6. w[h] = g[h]
        BY <2>1, <3>2, <3>3, Zenon
      <3>. QED
        BY <3>2, <3>3, <3>4, <3>5, <3>6, Zenon
    <2>4. \A s \in Nat : w[s] = IF s = 0 THEN Flat ELSE AtBit(n, s, w[s \div 2])
      <3>. SUFFICES ASSUME NEW s \in Nat
                    PROVE  w[s] = IF s = 0 THEN Flat ELSE AtBit(n, s, w[s \div 2])
        OBVIOUS
      <3>1. w[s] = Part(s)[s]
        BY <2>1, Zenon
      <3>2. CASE s = 0
        BY <2>2, <3>1, <3>2, Zenon
      <3>3. CASE s # 0
        BY <2>3, <3>1, <3>3, Zenon
      <3>. QED
        BY <3>2, <3>3
    <2>5. w = [s \in Nat |-> w[s]]
      BY <2>1
    <2>6. w = Next1(w)
      BY <2>4, <2>5
    <2>. QED
      BY <2>6
  <1>3. CurveTo(n) = CHOOSE f : f = Next1(f)
    BY DEF CurveTo
  <1>4. CurveTo(n) = Next1(CurveTo(n))
    BY <1>2, <1>3, Zenon
  <1>5. \A s \in Nat : CurveTo(n)[s] = IF s = 0 THEN Flat ELSE AtBit(n, s, CurveTo(n)[s \div 2])
    <2>. DEFINE c == CurveTo(n)
    <2>1. c = [s \in Nat |-> IF s = 0 THEN Flat ELSE AtBit(n, s, c[s \div 2])]
      BY <1>4, Zenon
    <2>. HIDE DEF c
    <2>2. \A s \in Nat : c[s] = IF s = 0 THEN Flat ELSE AtBit(n, s, c[s \div 2])
      BY <2>1, Zenon
    <2>. QED
      BY <2>2 DEF c
  <1>. QED
    BY <1>5, Zenon

-----------------------------------------------------------------------------
(* The side of a square divides that of the level.                         *)
LEMMA PowersDivide ==
    ASSUME NEW k \in Nat
    PROVE  \A d \in Nat : Divides(2^k, 2^(k + d))
  <1>. DEFINE Good == {d \in Nat : Divides(2^k, 2^(k + d))}
  <1>0. 2^k \in Nat \ {0}
    BY TwoTimes
  <1>1. 0 \in Good
    <2>1. k + 0 = k
      OBVIOUS
    <2>2. PICK s \in Nat : s = 2^k
      BY <1>0
    <2>3. Divides(s, s)
      <3>1. s = s * 1
        BY <2>2
      <3>. QED
        BY <3>1 DEF Divides
    <2>. QED
      BY <2>1, <2>2, <2>3
  <1>2. ASSUME NEW d \in Nat, d \in Good
        PROVE  d + 1 \in Good
    <2>1. PICK s \in Nat, n \in Nat : s = 2^k /\ n = 2^(k + d)
      BY <1>0, TwoTimes
    <2>2. PICK a \in Int : n = s * a
      BY <1>2, <2>1 DEF Divides
    <2>3. 2^(k + (d + 1)) = 2 * n
      <3>1. k + d \in Nat /\ k + (d + 1) = (k + d) + 1
        OBVIOUS
      <3>2. 2^((k + d) + 1) = 2 * 2^(k + d)
        BY <3>1, TwoTimes, Zenon
      <3>. QED
        BY <2>1, <3>1, <3>2, Zenon
    <2>4. 2 * n = s * (2 * a) /\ 2 * a \in Int
      BY <2>1, <2>2
    <2>5. Divides(s, 2 * n)
      BY <2>4 DEF Divides
    <2>. QED
      BY <2>1, <2>3, <2>5
  <1>. HIDE DEF Good
  <1>3. \A d \in Nat : d \in Good
    BY <1>1, <1>2, NumberInduction, Zenon
  <1>. QED
    BY <1>3 DEF Good

LEMMA Areas ==
    \A k \in Nat : 2^k \in Nat \ {0} /\ 2^(2 * k) = 2^k * 2^k
  <1>. DEFINE Good == {k \in Nat : 2^(2 * k) = 2^k * 2^k}
  <1>0. \A k \in Nat : 2^k \in Nat \ {0}
    BY TwoTimes
  <1>1. 0 \in Good
    <2>1. 2 * 0 = 0 /\ 2^0 = 1
      OBVIOUS
    <2>. QED
      BY <2>1
  <1>2. ASSUME NEW k \in Nat, k \in Good
        PROVE  k + 1 \in Good
    <2>1. PICK s \in Nat, m \in Nat : s = 2^k /\ m = 2^(2 * k)
      BY <1>0
    <2>2. m = s * s
      BY <1>2, <2>1
    <2>3. 2^(k + 1) = 2 * s
      BY <2>1, TwoTimes
    <2>4. 2^(2 * (k + 1)) = 2 * (2 * m)
      <3>1. PICK i \in Nat : i = 2 * k
        OBVIOUS
      <3>2. 2 * (k + 1) = (i + 1) + 1 /\ i + 1 \in Nat
        BY <3>1
      <3>3. 2^(i + 1) = 2 * 2^i
        BY TwoTimes, Zenon
      <3>4. 2^((i + 1) + 1) = 2 * 2^(i + 1)
        BY <3>2, TwoTimes, Zenon
      <3>. QED
        BY <2>1, <3>1, <3>2, <3>3, <3>4, Zenon
    <2>5. 2 * (2 * m) = (2 * s) * (2 * s)
      BY <2>2
    <2>6. 2^(2 * (k + 1)) = 2^(k + 1) * 2^(k + 1)
      BY <2>3, <2>4, <2>5, Zenon
    <2>. QED
      BY <2>6
  <1>. HIDE DEF Good
  <1>3. \A k \in Nat : k \in Good
    BY <1>1, <1>2, NumberInduction, Zenon
  <1>. QED
    BY <1>0, <1>3 DEF Good

LEMMA FlatIsCurve == IsCurve(Flat, 1)
  <1>1. 1 * 1 = 1 /\ \A x \in Int : x % 1 = 0
    OBVIOUS
  <1>2. \A p \in Points : Flat[p] = 0 /\ Low(1, p) = <<0, 0>>
    BY <1>1 DEF Flat, Low, Points
  <1>3. \A x, y \in 0..(1 - 1) : <<x, y>> \in Points
    BY DEF Points
  <1>4. 0 \in 0..(1 - 1) /\ \A d \in 0..(1 - 1) : d = 0
    OBVIOUS
  <1>5. 1 - 1 = 0
    OBVIOUS
  <1>. QED
    BY <1>1, <1>2, <1>3, <1>4, <1>5 DEF IsCurve

(* At every level the index counts along a curve.                          *)
LEMMA IndexIsCurve ==
    ASSUME NEW z \in Nat
    PROVE  IsCurve(CurveTo(2^z)[2^z \div 2], 2^z)
  <1>. DEFINE Good == {k \in Nat : k <= z => IsCurve(CurveTo(2^z)[2^k \div 2], 2^k)}
  <1>1. 0 \in Good
    <2>1. 2^0 = 1 /\ 1 \div 2 = 0
      OBVIOUS
    <2>. QED
      BY <2>1, FlatIsCurve, CurveSteps, Zenon
  <1>2. ASSUME NEW k \in Nat, k \in Good
        PROVE  k + 1 \in Good
    <2>. SUFFICES ASSUME k + 1 <= z
                  PROVE  IsCurve(CurveTo(2^z)[2^(k + 1) \div 2], 2^(k + 1))
      OBVIOUS
    <2>1. PICK s, n : s = 2^k /\ n = 2^z /\ s \in Nat \ {0} /\ n \in Nat
      BY TwoTimes
    <2>2. 2^(k + 1) = 2 * s /\ (2 * s) \div 2 = s
      BY <2>1, TwoTimes
    <2>3. PICK h : h = CurveTo(n)[s \div 2]
      OBVIOUS
    <2>4. IsCurve(h, s)
      BY <1>2, <2>1, <2>3
    <2>5. Divides(s, n)
      <3>1. PICK d \in Nat : z = k + d
        <4>1. z - k \in Nat /\ z = k + (z - k)
          OBVIOUS
        <4>. QED
          BY <4>1
      <3>. QED
        BY <2>1, <3>1, PowersDivide
    <2>6. CurveTo(n)[s] = AtBit(n, s, h)
      BY <2>1, <2>3, CurveSteps
    <2>7. IsCurve(AtBit(n, s, h), 2 * s)
      BY <2>1, <2>4, <2>5, CurveOfTwice
    <2>. QED
      BY <2>1, <2>2, <2>6, <2>7, Zenon
  <1>. HIDE DEF Good
  <1>3. \A k \in Nat : k \in Good
    BY <1>1, <1>2, NumberInduction, Zenon
  <1>4. z <= z
    OBVIOUS
  <1>. QED
    BY <1>3, <1>4 DEF Good

-----------------------------------------------------------------------------
(* hilbert numbers the tiles of a level, whatever the level, without gaps  *)
(* or doubles along a path from each tile to one next to it.               *)
THEOREM HilbertNumbersTheLevel ==
    ASSUME NEW z \in Nat
    PROVE  /\ {Hilbert(t) : t \in Level(z)} = 0..(2^(2 * z) - 1)
           /\ \A t, u \in Level(z) : Hilbert(t) = Hilbert(u) => t = u
           /\ \A t, u \in Level(z) : Hilbert(u) = Hilbert(t) + 1 =>
                  <<u.x - t.x, u.y - t.y>> \in {<<0, 1>>, <<0, -1>>, <<1, 0>>, <<-1, 0>>}
  <1>1. PICK n : n = 2^z /\ n \in Nat \ {0} /\ 2^(2 * z) = n * n
    BY Areas
  <1>2. PICK h : h = CurveTo(n)[n \div 2] /\ IsCurve(h, n)
    BY <1>1, IndexIsCurve
  <1>3. ASSUME NEW t \in Level(z)
        PROVE  /\ Hilbert(t) = h[<<t.x, t.y>>]
               /\ t.x \in 0..(n - 1) /\ t.y \in 0..(n - 1)
               /\ t = [z |-> z, x |-> t.x, y |-> t.y]
    <2>1. /\ t.z = z /\ t.x \in 0..(n - 1) /\ t.y \in 0..(n - 1)
          /\ t = [z |-> z, x |-> t.x, y |-> t.y]
      BY <1>1 DEF Level
    <2>2. Hilbert(t) = CurveTo(2^t.z)[2^t.z \div 2][<<t.x, t.y>>]
      BY DEF Hilbert, CurveTo, Flat
    <2>. QED
      BY <1>1, <1>2, <2>1, <2>2, Zenon
  <1>4. ASSUME NEW t \in Level(z)
        PROVE  <<t.x, t.y>> \in Points /\ Low(n, <<t.x, t.y>>) = <<t.x, t.y>>
    BY <1>1, <1>3, LowOfPlace
  <1>5. {Hilbert(t) : t \in Level(z)} = 0..(n * n - 1)
    <2>1. ASSUME NEW t \in Level(z)
          PROVE  Hilbert(t) \in 0..(n * n - 1)
      BY <1>2, <1>3, <1>4, Zenon DEF IsCurve
    <2>2. ASSUME NEW d \in 0..(n * n - 1)
          PROVE  \E t \in Level(z) : Hilbert(t) = d
      <3>1. PICK x \in 0..(n - 1), y \in 0..(n - 1) : h[<<x, y>>] = d
        BY <1>2, Zenon DEF IsCurve
      <3>2. PICK t : t = [z |-> z, x |-> x, y |-> y]
        OBVIOUS
      <3>3. t \in Level(z) /\ t.x = x /\ t.y = y
        BY <1>1, <3>2 DEF Level
      <3>. QED
        BY <1>3, <3>1, <3>3
    <2>. QED
      BY <2>1, <2>2
  <1>6. ASSUME NEW t \in Level(z), NEW u \in Level(z), Hilbert(t) = Hilbert(u)
        PROVE  t = u
    <2>1. <<t.x, t.y>> = <<u.x, u.y>>
      <3>1. h[<<t.x, t.y>>] = h[<<u.x, u.y>>]
        BY <1>3, <1>6, Zenon
      <3>2. Low(n, <<t.x, t.y>>) = Low(n, <<u.x, u.y>>)
        BY <1>2, <1>4, <3>1, Zenon DEF IsCurve
      <3>. QED
        BY <1>4, <3>2, Zenon
    <2>. QED
      BY <1>3, <2>1
  <1>7. ASSUME NEW t \in Level(z), NEW u \in Level(z), Hilbert(u) = Hilbert(t) + 1
        PROVE  <<u.x - t.x, u.y - t.y>> \in {<<0, 1>>, <<0, -1>>, <<1, 0>>, <<-1, 0>>}
    <2>1. Near(<<t.x, t.y>>, <<u.x, u.y>>)
      <3>1. h[<<u.x, u.y>>] = h[<<t.x, t.y>>] + 1
        BY <1>3, <1>7
      <3>2. Near(Low(n, <<t.x, t.y>>), Low(n, <<u.x, u.y>>))
        BY <1>2, <1>4, <3>1, Zenon DEF IsCurve
      <3>. QED
        BY <1>4, <3>2
    <2>. QED
      BY <2>1 DEF Near
  <1>. QED
    BY <1>1, <1>5, <1>6, <1>7, Zenon

-----------------------------------------------------------------------------
(* How many tiles the levels above have.                                   *)
Above(z) == (2^(2 * z) - 1) \div 3

LEMMA AboveIs ==
    \A z \in Nat : Above(z) \in Nat /\ 2^(2 * z) = 3 * Above(z) + 1
  <1>. DEFINE Good == {z \in Nat : \E c \in Nat : 2^(2 * z) = 3 * c + 1}
  <1>0. \A z \in Nat : 2^(2 * z) \in Nat
    BY TwoTimes
  <1>1. 0 \in Good
    <2>1. 2 * 0 = 0 /\ 2^0 = 3 * 0 + 1
      OBVIOUS
    <2>. QED
      BY <2>1
  <1>2. ASSUME NEW z \in Nat, z \in Good
        PROVE  z + 1 \in Good
    <2>1. PICK c \in Nat : 2^(2 * z) = 3 * c + 1
      BY <1>2
    <2>2. PICK s \in Nat : s = 2^z /\ s * s = 3 * c + 1 /\ 2^(z + 1) = 2 * s
      BY <2>1, Areas, TwoTimes
    <2>3. 2^(2 * (z + 1)) = (2 * s) * (2 * s)
      <3>1. 2^(2 * (z + 1)) = 2^(z + 1) * 2^(z + 1)
        BY z + 1 \in Nat, Areas, Zenon
      <3>. QED
        BY <2>2, <3>1, Zenon
    <2>4. (2 * s) * (2 * s) = 4 * (s * s)
      OBVIOUS
    <2>5. 2^(2 * (z + 1)) = 3 * (4 * c + 1) + 1 /\ 4 * c + 1 \in Nat
      BY <2>2, <2>3, <2>4
    <2>6. \E a \in Nat : 2^(2 * (z + 1)) = 3 * a + 1
      BY <2>5, Zenon
    <2>. QED
      BY <2>6
  <1>. HIDE DEF Good
  <1>3. \A z \in Nat : z \in Good
    BY <1>1, <1>2, NumberInduction, Zenon
  <1>4. \A c \in Nat : ((3 * c + 1) - 1) \div 3 = c
    OBVIOUS
  <1>. QED
    BY <1>3, <1>4 DEF Good, Above

(* The ids of a level end before those of the next begin.                  *)
LEMMA AboveGrows ==
    ASSUME NEW z \in Nat
    PROVE  \A d \in Nat : Above(z) + 2^(2 * z) <= Above(z + 1 + d)
  <1>. DEFINE Good == {d \in Nat : Above(z) + 2^(2 * z) <= Above(z + 1 + d)}
  <1>1. ASSUME NEW y \in Nat
        PROVE  Above(y + 1) = Above(y) + 2^(2 * y)
    <2>1. PICK s \in Nat : s = 2^y /\ 2^(2 * y) = s * s /\ 2^(y + 1) = 2 * s
      BY Areas, TwoTimes
    <2>2. 2^(2 * (y + 1)) = (2 * s) * (2 * s)
      BY <2>1, Areas
    <2>3. (2 * s) * (2 * s) = 4 * (s * s)
      OBVIOUS
    <2>4. PICK a \in Nat, b \in Nat, m \in Nat :
              /\ a = Above(y) /\ b = Above(y + 1) /\ m = s * s
              /\ m = 3 * a + 1 /\ 4 * m = 3 * b + 1
      BY <2>1, <2>2, <2>3, AboveIs
    <2>5. b = a + m
      <3>1. \A i, j, k \in Nat : k = 3 * i + 1 /\ 4 * k = 3 * j + 1 => j = i + k
        OBVIOUS
      <3>. QED
        BY <2>4, <3>1, Zenon
    <2>. QED
      BY <2>1, <2>4, <2>5
  <1>2. 0 \in Good
    <2>1. z + 1 + 0 = z + 1 /\ Above(z) \in Nat /\ 2^(2 * z) \in Nat
      BY AboveIs, TwoTimes
    <2>. QED
      BY <1>1, <2>1
  <1>3. ASSUME NEW d \in Nat, d \in Good
        PROVE  d + 1 \in Good
    <2>1. PICK y \in Nat : y = z + 1 + d /\ z + 1 + (d + 1) = y + 1
      OBVIOUS
    <2>2. /\ Above(y + 1) = Above(y) + 2^(2 * y)
          /\ Above(y) \in Nat /\ 2^(2 * y) \in Nat /\ Above(z) \in Nat /\ 2^(2 * z) \in Nat
      BY <1>1, AboveIs, TwoTimes
    <2>3. Above(z) + 2^(2 * z) <= Above(y)
      BY <1>3, <2>1
    <2>. QED
      BY <2>1, <2>2, <2>3
  <1>. HIDE DEF Good
  <1>4. \A d \in Nat : d \in Good
    BY <1>2, <1>3, NumberInduction, Zenon
  <1>. QED
    BY <1>4 DEF Good

LEMMA LevelsAreApart ==
    ASSUME NEW y \in Nat, NEW z \in Nat, y < z, NEW t \in Level(y), NEW u \in Level(z)
    PROVE  TileId(t) < TileId(u)
  <1>1. PICK d \in Nat : z = y + 1 + d
    <2>1. z - y - 1 \in Nat /\ z = y + 1 + (z - y - 1)
      OBVIOUS
    <2>. QED
      BY <2>1
  <1>2. Hilbert(t) \in 0..(2^(2 * y) - 1) /\ Hilbert(u) \in 0..(2^(2 * z) - 1)
    BY HilbertNumbersTheLevel
  <1>3. Above(y) + 2^(2 * y) <= Above(z)
    BY <1>1, AboveGrows
  <1>4. TileId(t) = Above(y) + Hilbert(t) /\ TileId(u) = Above(z) + Hilbert(u)
    BY DEF TileId, Above, Level
  <1>5. /\ Above(y) \in Nat /\ Above(z) \in Nat
        /\ 2^(2 * y) \in Nat /\ 2^(2 * z) \in Nat
    BY AboveIs, TwoTimes
  <1>. QED
    BY <1>2, <1>3, <1>4, <1>5

(* No two tiles have one id, and those of the levels above come first.     *)
THEOREM IdsAreDistinct ==
    ASSUME NEW t \in Tiles, NEW u \in Tiles
    PROVE  /\ TileId(t) \in Nat
           /\ TileId(t) = TileId(u) => t = u
           /\ t.z < u.z => TileId(t) < TileId(u)
  <1>1. t.z \in Nat /\ u.z \in Nat /\ t \in Level(t.z) /\ u \in Level(u.z)
    BY TwoTimes DEF Tiles, Level
  <1>2. /\ TileId(t) = Above(t.z) + Hilbert(t) /\ Above(t.z) \in Nat
        /\ TileId(u) = Above(u.z) + Hilbert(u) /\ Above(u.z) \in Nat
    BY <1>1, AboveIs DEF TileId, Above
  <1>3. Hilbert(t) \in Nat /\ Hilbert(u) \in Nat
    <2>1. \A z \in Nat : \A v \in Level(z) : Hilbert(v) \in 0..(2^(2 * z) - 1)
      BY HilbertNumbersTheLevel
    <2>. QED
      BY <1>1, <2>1
  <1>4. t.z < u.z => TileId(t) < TileId(u)
    BY <1>1, LevelsAreApart
  <1>5. u.z < t.z => TileId(u) < TileId(t)
    BY <1>1, LevelsAreApart
  <1>6. t.z = u.z /\ TileId(t) = TileId(u) => t = u
    <2>. SUFFICES ASSUME t.z = u.z, TileId(t) = TileId(u)
                  PROVE  t = u
      OBVIOUS
    <2>1. Hilbert(t) = Hilbert(u)
      <3>1. PICK a \in Nat : a = Above(t.z) /\ a = Above(u.z)
        BY <1>2
      <3>2. a + Hilbert(t) = a + Hilbert(u)
        BY <1>2, <3>1, Zenon
      <3>. QED
        BY <1>3, <3>1, <3>2
    <2>2. PICK z \in Nat : z = t.z /\ t \in Level(z) /\ u \in Level(z)
      BY <1>1
    <2>. QED
      BY <2>1, <2>2, HilbertNumbersTheLevel
  <1>. QED
    BY <1>1, <1>2, <1>3, <1>4, <1>5, <1>6

LEMMA DepthsAre ==
    \A z : z \in Depths <=>
        \/ \E b \in Batches : \E t \in Range(b) : z = t.z
        \/ \E a \in Archives : \E t \in DOMAIN a : z = t.z
  <1>1. \A z : z \in UNION {{t.z : t \in Range(b)} : b \in Batches} <=>
                   \E b \in Batches : \E t \in Range(b) : z = t.z
    OBVIOUS
  <1>2. \A z : z \in UNION {{t.z : t \in DOMAIN a} : a \in Archives} <=>
                   \E a \in Archives : \E t \in DOMAIN a : z = t.z
    OBVIOUS
  <1>. QED
    BY <1>1, <1>2, Zenon DEF Depths

LEMMA DepthsAreLevels == Depths \subseteq Nat
  <1>1. ASSUME NEW b \in Batches, NEW t \in Range(b)
        PROVE  t.z \in Nat
    <2>1. t \in Tiles
      BY PmTilesAssumption DEF Range
    <2>. QED
      BY <2>1 DEF Tiles
  <1>2. \A a \in Archives : \A t \in DOMAIN a : t.z \in Nat
    BY PmTilesAssumption DEF Tiles
  <1>. QED
    BY <1>1, <1>2, DepthsAre, Zenon

(* HilbertIsAPath (tile_id, hilbert of util/src/pmtiles.rs): whatever      *)
(* levels are written or asked for, however deep, their ids are a path     *)
(* over all their tiles that goes from each to a neighbour.                *)
THEOREM IdsAreAPath == Spec => []HilbertIsAPath
  <1>1. ASSUME tiles \in Archives
        PROVE  HilbertIsAPath
    <2>1. Levels \subseteq Depths
      BY <1>1, DepthsAre, Zenon DEF Levels
    <2>2. ASSUME NEW z \in Depths
          PROVE  IdsArePath[z]
      <3>1. z \in Nat
        BY DepthsAreLevels
      <3>. QED
        BY <3>1, HilbertNumbersTheLevel, Zenon DEF IdsArePath
    <2>. QED
      BY <2>1, <2>2 DEF HilbertIsAPath
  <1>2. Init => tiles \in Archives
    BY DEF Init
  <1>3. tiles \in Archives /\ [Next]_vars => (tiles \in Archives)'
    <2>. SUFFICES ASSUME tiles \in Archives, [Next]_vars
                  PROVE  tiles' = tiles
      OBVIOUS
    <2>1. ASSUME NEW t \in DOMAIN tiles, Write(t)
          PROVE  tiles' = tiles
      BY <2>1 DEF Write
    <2>2. CASE Finish
      BY <2>2 DEF Finish
    <2>3. CASE Open
      BY <2>3 DEF Open
    <2>4. ASSUME NEW k \in Readers, Locate(k) \/ Resume(k) \/ \E b \in Batches : Ask(k, b)
          PROVE  tiles' = tiles
      BY <2>4 DEF Locate, Resume, Ask, ReadLeaf, InsertLeaf, FetchData, ReadFails, Return
    <2>5. CASE UNCHANGED vars
      BY <2>5 DEF vars
    <2>. QED
      BY <2>1, <2>2, <2>3, <2>4, <2>5 DEF Next
  <1>. QED
    BY <1>1, <1>2, <1>3, PTL DEF Spec

-----------------------------------------------------------------------------
(* Up to n, f has the sequences of ss joined.                              *)
Joins(ss, f, n) == \A i \in 1..n : f[i] = IF i = 1 THEN ss[i] ELSE f[i - 1] \o ss[i]

(* Sequences can be joined one after the other, as many as there are.      *)
LEMMA JoinsExist ==
    ASSUME NEW ss
    PROVE  \A n \in Nat : \E f : f = [i \in 1..n |-> f[i]] /\ Joins(ss, f, n)
  <1>. DEFINE Good == {n \in Nat : \E f : f = [i \in 1..n |-> f[i]] /\ Joins(ss, f, n)}
  <1>1. 0 \in Good
    <2>1. PICK f : f = [i \in 1..0 |-> 0]
      OBVIOUS
    <2>2. f = [i \in 1..0 |-> f[i]] /\ Joins(ss, f, 0)
      BY <2>1 DEF Joins
    <2>. QED
      BY <2>2
  <1>2. ASSUME NEW n \in Nat, n \in Good
        PROVE  n + 1 \in Good
    <2>1. PICK f : f = [i \in 1..n |-> f[i]] /\ Joins(ss, f, n)
      BY <1>2
    <2>2. PICK x : x = IF n + 1 = 1 THEN ss[n + 1] ELSE f[n] \o ss[n + 1]
      OBVIOUS
    <2>3. PICK g : g = [i \in 1..(n + 1) |-> IF i = n + 1 THEN x ELSE f[i]]
      OBVIOUS
    <2>4. g[n + 1] = x /\ \A i \in 1..n : g[i] = f[i]
      BY <2>3
    <2>5. g = [i \in 1..(n + 1) |-> g[i]]
      BY <2>3
    <2>6. ASSUME NEW i \in 1..(n + 1)
          PROVE  g[i] = IF i = 1 THEN ss[i] ELSE g[i - 1] \o ss[i]
      <3>1. CASE i = n + 1
        <4>1. i # 1 => i - 1 = n /\ n \in 1..n
          BY <3>1
        <4>2. i # 1 => g[i - 1] = f[n]
          BY <4>1, <2>4, Zenon
        <4>. QED
          BY <2>2, <2>4, <3>1, <4>2
      <3>2. CASE i # n + 1
        <4>1. i \in 1..n /\ (i # 1 => i - 1 \in 1..n)
          BY <3>2
        <4>2. f[i] = IF i = 1 THEN ss[i] ELSE f[i - 1] \o ss[i]
          BY <2>1, <4>1 DEF Joins
        <4>. QED
          BY <2>4, <4>1, <4>2
      <3>. QED
        BY <3>1, <3>2
    <2>7. Joins(ss, g, n + 1)
      BY <2>6 DEF Joins
    <2>. QED
      BY <2>5, <2>7
  <1>. HIDE DEF Good
  <1>3. \A n \in Nat : n \in Good
    BY <1>1, <1>2, NumberInduction, Zenon
  <1>. QED
    BY <1>3 DEF Good

(* s and t are the same up to m.                                           *)
Agree(s, t, m) == \A i \in 1..m : s[i] = t[i]

(* What is joined is told by what there is to join.                        *)
LEMMA JoinsAreOne ==
    ASSUME NEW ss, NEW tt, NEW f, NEW g, NEW n \in Nat, Joins(ss, f, n),
           NEW m \in 0..n, Joins(tt, g, m), Agree(tt, ss, m)
    PROVE  Agree(g, f, m)
  <1>. DEFINE Good == {i \in Nat : i + 1 \in 1..m => g[i + 1] = f[i + 1]}
  <1>1. 0 \in Good
    BY DEF Joins, Agree
  <1>2. ASSUME NEW i \in Nat, i \in Good
        PROVE  i + 1 \in Good
    <2>. SUFFICES ASSUME (i + 1) + 1 \in 1..m
                  PROVE  g[(i + 1) + 1] = f[(i + 1) + 1]
      OBVIOUS
    <2>1. PICK j : j = (i + 1) + 1 /\ j - 1 = i + 1
      OBVIOUS
    <2>2. j \in 1..m /\ j \in 1..n /\ j # 1 /\ i + 1 \in 1..m
      BY <2>1
    <2>3. g[j] = g[i + 1] \o tt[j]
      BY <2>1, <2>2 DEF Joins
    <2>4. f[j] = f[i + 1] \o ss[j]
      BY <2>1, <2>2 DEF Joins
    <2>5. g[i + 1] = f[i + 1] /\ tt[j] = ss[j]
      BY <1>2, <2>2 DEF Agree
    <2>. QED
      BY <2>1, <2>3, <2>4, <2>5, Zenon
  <1>. HIDE DEF Good
  <1>3. \A i \in Nat : i \in Good
    BY <1>1, <1>2, NumberInduction, Zenon
  <1>4. ASSUME NEW i \in 1..m
        PROVE  g[i] = f[i]
    <2>1. i - 1 \in Nat /\ (i - 1) + 1 = i
      OBVIOUS
    <2>2. i - 1 \in Good
      BY <2>1, <1>3
    <2>. QED
      BY <2>1, <2>2 DEF Good
  <1>. QED
    BY <1>4 DEF Agree

(* FlattenSeq joins the sequences one after the other.                     *)
LEMMA FlattenIs ==
    ASSUME NEW ss, Len(ss) \in Nat, Len(ss) # 0
    PROVE  \E f : Joins(ss, f, Len(ss)) /\ FlattenSeq(ss) = f[Len(ss)]
  <1>. DEFINE n == Len(ss)
              Again(f) == [i \in 1..n |-> IF i = 1 THEN ss[i] ELSE f[i - 1] \o ss[i]]
              flat == CHOOSE f : f = Again(f)
  <1>1. \E f : f = Again(f)
    <2>1. PICK f : f = [i \in 1..n |-> f[i]] /\ Joins(ss, f, n)
      BY JoinsExist
    <2>2. f = Again(f)
      <3>1. \A i \in 1..n : f[i] = IF i = 1 THEN ss[i] ELSE f[i - 1] \o ss[i]
        BY <2>1 DEF Joins
      <3>. QED
        BY <2>1, <3>1
    <2>. QED
      BY <2>2
  <1>2. flat = Again(flat)
    BY <1>1, Zenon
  <1>3. FlattenSeq(ss) = flat[n]
    BY DEF FlattenSeq
  <1>4. \A i \in 1..n : Again(flat)[i] = IF i = 1 THEN ss[i] ELSE flat[i - 1] \o ss[i]
    BY Zenon
  <1>. HIDE DEF flat
  <1>5. Joins(ss, flat, n)
    BY <1>2, <1>4 DEF Joins
  <1>. QED
    BY <1>3, <1>5
(* What the first c sequences flatten to.                                  *)
Leading(ss, c) == FlattenSeq(SubSeq(ss, 1, c))

(* Leading(ss, c) is the first c of the sequences joined: each adds one.   *)
LEMMA FrontSteps ==
    ASSUME NEW S, NEW ss \in Seq(Seq(S))
    PROVE  /\ Leading(ss, 0) = <<>>
           /\ \A c \in 1..Len(ss) : Leading(ss, c) = Leading(ss, c - 1) \o ss[c]
           /\ \A c \in 0..Len(ss) : Leading(ss, c) \in Seq(S)
           /\ Leading(ss, Len(ss)) = FlattenSeq(ss)
  <1>. DEFINE n == Len(ss)
  <1>0. n \in Nat /\ \A c \in 1..n : ss[c] \in Seq(S)
    OBVIOUS
  <1>1. Leading(ss, 0) = <<>>
    <2>1. SubSeq(ss, 1, 0) = <<>> /\ Len(SubSeq(ss, 1, 0)) = 0
      OBVIOUS
    <2>. QED
      BY <2>1 DEF Leading, FlattenSeq
  <1>2. Leading(ss, n) = FlattenSeq(ss)
    <2>1. SubSeq(ss, 1, n) = ss
      OBVIOUS
    <2>. QED
      BY <2>1 DEF Leading
  <1>3. ASSUME n # 0
        PROVE  \E f : Joins(ss, f, n) /\ \A c \in 1..n : Leading(ss, c) = f[c]
    <2>1. PICK f : Joins(ss, f, n)
      BY <1>0, <1>3, JoinsExist
    <2>2. ASSUME NEW c \in 1..n
          PROVE  Leading(ss, c) = f[c]
      <3>1. PICK tt : tt = SubSeq(ss, 1, c)
        OBVIOUS
      <3>2. Len(tt) = c /\ \A i \in 1..c : tt[i] = ss[i]
        BY <3>1
      <3>3. c \in Nat /\ c # 0 /\ c \in 0..n /\ c \in 1..c
        OBVIOUS
      <3>4. PICK g : Joins(tt, g, c) /\ FlattenSeq(tt) = g[c]
        BY <3>2, <3>3, FlattenIs
      <3>5. Agree(g, f, c)
        <4>1. Agree(tt, ss, c)
          BY <3>2 DEF Agree
        <4>. QED
          BY <1>0, <2>1, <3>3, <3>4, <4>1, JoinsAreOne
      <3>. QED
        BY <3>1, <3>3, <3>4, <3>5 DEF Leading, Agree
    <2>. QED
      BY <2>1, <2>2
  <1>4. ASSUME NEW c \in 1..n
        PROVE  Leading(ss, c) = Leading(ss, c - 1) \o ss[c]
    <2>1. PICK f : Joins(ss, f, n) /\ \A i \in 1..n : Leading(ss, i) = f[i]
      BY <1>3
    <2>2. f[c] = IF c = 1 THEN ss[c] ELSE f[c - 1] \o ss[c]
      BY <2>1 DEF Joins
    <2>3. CASE c = 1
      <3>1. Leading(ss, c) = ss[c] /\ c - 1 = 0
        BY <2>1, <2>2, <2>3
      <3>2. <<>> \o ss[c] = ss[c]
        BY <1>0
      <3>. QED
        BY <1>1, <3>1, <3>2
    <2>4. CASE c # 1
      <3>1. c - 1 \in 1..n
        BY <2>4
      <3>. QED
        BY <2>1, <2>2, <2>4, <3>1
    <2>. QED
      BY <2>3, <2>4
  <1>5. \A c \in 0..n : Leading(ss, c) \in Seq(S)
    <2>. DEFINE Good == {c \in Nat : c <= n => Leading(ss, c) \in Seq(S)}
    <2>1. 0 \in Good
      <3>1. <<>> \in Seq(S)
        OBVIOUS
      <3>. QED
        BY <1>1, <3>1
    <2>2. ASSUME NEW c \in Nat, c \in Good
          PROVE  c + 1 \in Good
      <3>. SUFFICES ASSUME c + 1 <= n
                    PROVE  Leading(ss, c + 1) \in Seq(S)
        OBVIOUS
      <3>1. c + 1 \in 1..n /\ (c + 1) - 1 = c /\ c <= n
        OBVIOUS
      <3>2. Leading(ss, c + 1) = Leading(ss, c) \o ss[c + 1]
        BY <1>4, <3>1
      <3>3. PICK u \in Seq(S), v \in Seq(S) : u = Leading(ss, c) /\ v = ss[c + 1]
        BY <1>0, <2>2, <3>1
      <3>4. u \o v \in Seq(S)
        OBVIOUS
      <3>. QED
        BY <3>2, <3>3, <3>4
    <2>. HIDE DEF Good
    <2>3. \A c \in Nat : c \in Good
      BY <2>1, <2>2, NumberInduction, Zenon
    <2>. QED
      BY <1>0, <2>3 DEF Good
  <1>. QED
    BY <1>1, <1>2, <1>4, <1>5

(* Sequences over S join to a sequence over S.                             *)
LEMMA Flattened ==
    ASSUME NEW S, NEW ss \in Seq(Seq(S))
    PROVE  FlattenSeq(ss) \in Seq(S)
  <1>1. Len(ss) \in 0..Len(ss)
    OBVIOUS
  <1>. QED
    BY <1>1, FrontSteps

(* Each of the sequences is where those before it end.                     *)
LEMMA Slices ==
    ASSUME NEW S, NEW ss \in Seq(Seq(S)), NEW c \in 1..Len(ss)
    PROVE  LET a == Len(Leading(ss, c - 1)) IN
           /\ a \in Nat /\ Len(ss[c]) \in Nat
           /\ \A d \in c..Len(ss) : /\ a + Len(ss[c]) <= Len(Leading(ss, d))
                                    /\ SubSeq(Leading(ss, d), a + 1, a + Len(ss[c])) = ss[c]
           /\ a + Len(ss[c]) <= Len(FlattenSeq(ss))
           /\ SubSeq(FlattenSeq(ss), a + 1, a + Len(ss[c])) = ss[c]
  <1>. DEFINE n == Len(ss)
              a == Len(Leading(ss, c - 1))
              l == Len(ss[c])
              Ok(d) == /\ a + l <= Len(Leading(ss, d))
                       /\ SubSeq(Leading(ss, d), a + 1, a + l) = ss[c]
              Good == {d \in Nat : c + d <= n => Ok(c + d)}
  <1>1. n \in Nat /\ \A i \in 1..n : ss[i] \in Seq(S)
    OBVIOUS
  <1>2. \A i \in 0..n : Leading(ss, i) \in Seq(S)
    BY FrontSteps
  <1>3. c - 1 \in 0..n /\ c \in 0..n /\ c \in 1..n
    OBVIOUS
  <1>4. a \in Nat /\ l \in Nat
    BY <1>1, <1>2, <1>3
  <1>5. 0 \in Good
    <2>1. Leading(ss, c) = Leading(ss, c - 1) \o ss[c]
      BY FrontSteps
    <2>2. c + 0 = c
      OBVIOUS
    <2>3. PICK u \in Seq(S), v \in Seq(S) : u = Leading(ss, c - 1) /\ v = ss[c]
      BY <1>1, <1>2, <1>3
    <2>4. Len(u) + Len(v) <= Len(u \o v) /\ SubSeq(u \o v, Len(u) + 1, Len(u) + Len(v)) = v
      OBVIOUS
    <2>5. Ok(c)
      BY <2>1, <2>3, <2>4
    <2>. QED
      BY <2>2, <2>5
  <1>6. ASSUME NEW d \in Nat, d \in Good
        PROVE  d + 1 \in Good
    <2>. SUFFICES ASSUME c + (d + 1) <= n
                  PROVE  Ok(c + (d + 1))
      <3>. HIDE DEF Ok
      <3>. QED
        OBVIOUS
    <2>1. PICK e \in Nat : e = c + d /\ c + (d + 1) = e + 1 /\ e + 1 \in 1..n /\ e \in 0..n
                          /\ (e + 1) - 1 = e
      OBVIOUS
    <2>2. Ok(e)
      <3>. HIDE DEF Ok
      <3>. QED
        BY <1>6, <2>1
    <2>3. Leading(ss, e + 1) = Leading(ss, e) \o ss[e + 1]
      BY <2>1, FrontSteps
    <2>4. PICK u \in Seq(S), v \in Seq(S) : u = Leading(ss, e) /\ v = ss[e + 1]
      BY <1>1, <1>2, <2>1
    <2>. HIDE DEF a, l
    <2>5. a + l <= Len(u) /\ SubSeq(u, a + 1, a + l) = ss[c]
      BY <2>2, <2>4
    <2>6. a + l <= Len(u \o v) /\ SubSeq(u \o v, a + 1, a + l) = SubSeq(u, a + 1, a + l)
      BY <1>4, <2>5
    <2>. QED
      BY <2>1, <2>3, <2>4, <2>5, <2>6
  <1>. HIDE DEF Good
  <1>7. \A d \in Nat : d \in Good
    BY <1>5, <1>6, NumberInduction, Zenon
  <1>8. ASSUME NEW d \in c..n
        PROVE  Ok(d)
    <2>1. d - c \in Nat /\ c + (d - c) = d /\ d <= n
      OBVIOUS
    <2>2. d - c \in Good
      BY <1>7, <2>1
    <2>. QED
      BY <2>1, <2>2 DEF Good
  <1>9. n \in c..n /\ Leading(ss, n) = FlattenSeq(ss)
    <2>1. n \in c..n
      OBVIOUS
    <2>. QED
      BY <2>1, FrontSteps
  <1>10. Ok(n)
    BY <1>8, <1>9
  <1>. HIDE DEF n
  <1>. QED
    BY <1>4, <1>8, <1>9, <1>10 DEF n

-----------------------------------------------------------------------------
(* The elements of a lower key than x.                                     *)
Lower(S, key, x) == {y \in S : key[y] < key[x]}

(* Distinct keys: an element's rank is its own.                            *)
LEMMA Ranks ==
    ASSUME NEW S, IsFiniteSet(S), NEW key \in [S -> Int],
           \A x, y \in S : key[x] = key[y] => x = y
    PROVE  /\ \A x \in S : Cardinality(Lower(S, key, x)) \in 0..(Cardinality(S) - 1)
           /\ \A x, y \in S : key[x] < key[y] =>
                  Cardinality(Lower(S, key, x)) < Cardinality(Lower(S, key, y))
           /\ \A n \in 0..(Cardinality(S) - 1) : \E x \in S : Cardinality(Lower(S, key, x)) = n
  <1>. DEFINE Rank(x) == Cardinality(Lower(S, key, x))
              N == Cardinality(S)
  <1>1. N \in Nat
    BY FS_CardinalityType
  <1>2. ASSUME NEW x \in S
        PROVE  Lower(S, key, x) \in SUBSET S /\ IsFiniteSet(Lower(S, key, x)) /\ Rank(x) \in Nat
    <2>1. Lower(S, key, x) \in SUBSET S
      BY DEF Lower
    <2>2. IsFiniteSet(Lower(S, key, x))
      BY <2>1, FS_Subset
    <2>. QED
      BY <2>1, <2>2, FS_CardinalityType
  <1>3. ASSUME NEW T \in SUBSET S, NEW x \in S, x \notin T
        PROVE  Cardinality(T) < N /\ Cardinality(T) \in Nat
    <2>1. IsFiniteSet(T) /\ Cardinality(T) <= N /\ (N = Cardinality(T) => S = T)
      BY FS_Subset
    <2>2. Cardinality(T) \in Nat
      BY <2>1, FS_CardinalityType
    <2>3. N # Cardinality(T)
      BY <1>3, <2>1
    <2>. QED
      BY <1>1, <2>1, <2>2, <2>3
  <1>4. ASSUME NEW x \in S
        PROVE  Rank(x) \in 0..(N - 1)
    <2>1. x \notin Lower(S, key, x)
      BY DEF Lower
    <2>2. Rank(x) < N /\ Rank(x) \in Nat
      BY <1>2, <1>3, <2>1
    <2>. QED
      BY <1>1, <2>2
  <1>5. ASSUME NEW x \in S, NEW y \in S, key[x] < key[y]
        PROVE  Rank(x) < Rank(y)
    <2>1. Lower(S, key, x) \in SUBSET Lower(S, key, y)
      BY <1>5 DEF Lower
    <2>2. x \in Lower(S, key, y) /\ x \notin Lower(S, key, x)
      BY <1>5 DEF Lower
    <2>3. /\ Rank(x) <= Rank(y)
          /\ Rank(y) = Rank(x) => Lower(S, key, y) = Lower(S, key, x)
      BY <1>2, <2>1, FS_Subset
    <2>4. Rank(y) # Rank(x)
      BY <2>2, <2>3
    <2>5. Rank(x) \in Nat /\ Rank(y) \in Nat
      BY <1>2
    <2>. QED
      BY <2>3, <2>4, <2>5
  <1>6. ASSUME NEW n \in 0..(N - 1)
        PROVE  \E x \in S : Rank(x) = n
    <2>1. PICK r : r = [x \in S |-> Rank(x)]
      OBVIOUS
    <2>. DEFINE T == 0..(N - 1)
    <2>2. r \in [S -> T]
      BY <1>4, <2>1
    <2>3. ASSUME NEW x \in S, NEW y \in S, r[x] = r[y]
          PROVE  x = y
      <3>1. key[x] \in Int /\ key[y] \in Int
        OBVIOUS
      <3>2. Rank(x) \in Nat /\ Rank(y) \in Nat /\ Rank(x) = Rank(y)
        BY <1>2, <2>1, <2>3
      <3>3. ~(key[x] < key[y]) /\ ~(key[y] < key[x])
        BY <1>5, <3>2
      <3>. QED
        BY <3>1, <3>3
    <2>4. IsFiniteSet(T) /\ Cardinality(T) = N
      <3>1. N - 1 \in Int /\ 0 \in Int
        BY <1>1
      <3>2. IsFiniteSet(0..(N - 1)) /\ Cardinality(0..(N - 1)) = IF 0 > N - 1 THEN 0 ELSE (N - 1) - 0 + 1
        BY <3>1, FS_Interval
      <3>. QED
        BY <1>1, <3>2
    <2>5. r \in Injection(S, T)
      BY <2>2, <2>3 DEF Injection, IsInjective
    <2>6. r \in Surjection(S, T)
      BY <2>4, <2>5, FS_Injection
    <2>7. \A t \in T : \E x \in S : r[x] = t
      BY <2>6 DEF Surjection
    <2>8. n \in T
      OBVIOUS
    <2>9. PICK x \in S : r[x] = n
      BY <2>7, <2>8, Zenon
    <2>. QED
      BY <2>1, <2>9
  <1>. QED
    BY <1>4, <1>5, <1>6, Zenon

(* The sort by distinct keys, which the model writes as InOrder: it has    *)
(* every element once and the keys rise.                                   *)
LEMMA InOrderIs ==
    ASSUME NEW S, IsFiniteSet(S), NEW key \in [S -> Int],
           \A x, y \in S : key[x] = key[y] => x = y
    PROVE  /\ Cardinality(S) \in Nat
           /\ InOrder(S, key) \in Seq(S) /\ Len(InOrder(S, key)) = Cardinality(S)
           /\ \A n \in 1..Cardinality(S) : Cardinality(Lower(S, key, InOrder(S, key)[n])) = n - 1
           /\ \A n \in 1..Cardinality(S) : \A x \in S :
                  Cardinality(Lower(S, key, x)) = n - 1 => InOrder(S, key)[n] = x
           /\ \A x \in S : \E n \in 1..Cardinality(S) : InOrder(S, key)[n] = x
           /\ \A m, n \in 1..Cardinality(S) :
                  m < n => key[InOrder(S, key)[m]] < key[InOrder(S, key)[n]]
  <1>. DEFINE N == Cardinality(S)
              Rank(x) == Cardinality(Lower(S, key, x))
              o == InOrder(S, key)
  <1>0. N \in Nat
    BY FS_CardinalityType
  <1>1. /\ \A x \in S : Rank(x) \in 0..(N - 1)
        /\ \A x, y \in S : key[x] < key[y] => Rank(x) < Rank(y)
        /\ \A n \in 0..(N - 1) : \E x \in S : Rank(x) = n
    BY Ranks
  <1>. HIDE DEF N
  <1>2. o = [n \in 1..N |-> CHOOSE x \in S : Rank(x) = n - 1]
    BY DEF InOrder, Lower, N
  <1>. HIDE DEF o, Rank
  <1>3. ASSUME NEW n \in 1..N
        PROVE  o[n] \in S /\ Rank(o[n]) = n - 1
    <2>1. n - 1 \in 0..(N - 1)
      BY <1>0
    <2>2. \E x \in S : Rank(x) = n - 1
      BY <1>1, <2>1
    <2>3. o[n] = CHOOSE x \in S : Rank(x) = n - 1
      BY <1>2
    <2>. QED
      BY <2>2, <2>3, Zenon
  <1>4. o \in [1..N -> S]
    BY <1>2, <1>3
  <1>5. o \in Seq(S) /\ Len(o) = N
    <2>1. o \in Seq(S) /\ DOMAIN o = 1..N
      BY <1>0, <1>4, SeqDef
    <2>. QED
      BY <1>0, <2>1
  <1>6. ASSUME NEW x \in S, NEW y \in S, Rank(x) = Rank(y)
        PROVE  x = y
    <2>1. key[x] \in Int /\ key[y] \in Int
      OBVIOUS
    <2>2. Rank(x) \in Int /\ Rank(y) \in Int
      BY <1>1
    <2>3. ~(key[x] < key[y]) /\ ~(key[y] < key[x])
      BY <1>1, <1>6, <2>2
    <2>. QED
      BY <2>1, <2>3
  <1>7. ASSUME NEW n \in 1..N, NEW x \in S, Rank(x) = n - 1
        PROVE  o[n] = x
    BY <1>3, <1>6, <1>7
  <1>8. ASSUME NEW x \in S
        PROVE  \E n \in 1..N : o[n] = x
    <2>1. PICK n : n = Rank(x) + 1
      OBVIOUS
    <2>2. n \in 1..N /\ Rank(x) = n - 1
      BY <1>0, <1>1, <2>1
    <2>. QED
      BY <1>7, <2>2
  <1>9. ASSUME NEW m \in 1..N, NEW n \in 1..N, m < n
        PROVE  key[o[m]] < key[o[n]]
    <2>1. o[m] \in S /\ o[n] \in S /\ Rank(o[m]) = m - 1 /\ Rank(o[n]) = n - 1
      BY <1>3
    <2>2. key[o[m]] \in Int /\ key[o[n]] \in Int
      BY <2>1
    <2>3. ~(key[o[n]] < key[o[m]]) /\ key[o[m]] # key[o[n]]
      <3>1. Rank(o[m]) < Rank(o[n]) /\ ~(Rank(o[n]) < Rank(o[m]))
        BY <1>0, <1>9, <2>1
      <3>2. o[m] # o[n]
        BY <1>0, <1>9, <2>1
      <3>. QED
        BY <1>1, <2>1, <3>1, <3>2
    <2>. QED
      BY <2>2, <2>3
  <1>. QED
    BY <1>0, <1>3, <1>5, <1>7, <1>8, <1>9, Zenon DEF o, N, Rank

-----------------------------------------------------------------------------
(* Powers of two multiply.                                                 *)
LEMMA PowersAdd ==
    ASSUME NEW m \in Nat
    PROVE  \A n \in Nat : 2^(m + n) = 2^m * 2^n
  <1>. DEFINE Good == {n \in Nat : 2^(m + n) = 2^m * 2^n}
  <1>0. 2^m \in Nat
    BY TwoTimes
  <1>1. 0 \in Good
    <2>1. m + 0 = m /\ 2^0 = 1
      OBVIOUS
    <2>2. PICK a \in Nat : a = 2^m
      BY <1>0
    <2>3. a * 1 = a
      OBVIOUS
    <2>. QED
      BY <2>1, <2>2, <2>3
  <1>2. ASSUME NEW n \in Nat, n \in Good
        PROVE  n + 1 \in Good
    <2>1. PICK k \in Nat : k = m + n /\ m + (n + 1) = k + 1
      OBVIOUS
    <2>2. 2^(k + 1) = 2 * 2^k /\ 2^(n + 1) = 2 * 2^n /\ 2^n \in Nat
      BY <2>1, TwoTimes
    <2>3. PICK a \in Nat, b \in Nat : a = 2^m /\ b = 2^n
      BY <1>0, <2>2
    <2>4. 2^k = a * b
      BY <1>2, <2>1, <2>3
    <2>5. 2^(k + 1) = 2 * (a * b) /\ 2^(n + 1) = 2 * b
      BY <2>2, <2>3, <2>4
    <2>6. 2 * (a * b) = a * (2 * b)
      BY SMT
    <2>7. 2^(m + (n + 1)) = 2^m * 2^(n + 1)
      BY <2>1, <2>3, <2>5, <2>6, Zenon
    <2>. QED
      BY <2>7
  <1>. HIDE DEF Good
  <1>3. \A n \in Nat : n \in Good
    BY <1>1, <1>2, NumberInduction, Zenon
  <1>. QED
    BY <1>3 DEF Good

(* A varint byte carries at least one bit of the number.                   *)
LEMMA BaseIs == VarintBase \in Nat /\ VarintBase > 1
  <1>1. VarintBits - 1 \in Nat /\ (VarintBits - 1) + 1 = VarintBits
    BY CodecAssumption
  <1>2. PICK n \in Nat : n = VarintBits - 1 /\ n + 1 = VarintBits
    BY <1>1
  <1>3. 2^(n + 1) = 2 * 2^n /\ 2^n \in Nat \ {0}
    BY TwoTimes
  <1>4. PICK a \in Nat \ {0} : a = 2^n /\ VarintBase = 2 * a
    BY <1>2, <1>3 DEF VarintBase
  <1>. QED
    BY <1>4

(* The weight of a digit.                                                  *)
Weight(i) == 2^(VarintBits * i)

(* The weight of a digit is a power of the base.                           *)
LEMMA WeightIs ==
    /\ Weight(0) = 1
    /\ \A i \in Nat : Weight(i) \in Nat \ {0} /\ Weight(i + 1) = Weight(i) * VarintBase
  <1>0. VarintBits \in Nat
    BY CodecAssumption
  <1>1. Weight(0) = 1
    <2>1. VarintBits * 0 = 0 /\ 2^0 = 1
      BY <1>0
    <2>. QED
      BY <2>1 DEF Weight
  <1>2. ASSUME NEW i \in Nat
        PROVE  Weight(i) \in Nat \ {0} /\ Weight(i + 1) = Weight(i) * VarintBase
    <2>1. PICK m \in Nat : m = VarintBits * i /\ VarintBits * (i + 1) = m + VarintBits
      BY <1>0, SMT
    <2>2. 2^(m + VarintBits) = 2^m * 2^VarintBits
      BY <1>0, PowersAdd
    <2>3. 2^m \in Nat \ {0}
      BY TwoTimes
    <2>. QED
      BY <2>1, <2>2, <2>3 DEF Weight, VarintBase
  <1>. QED
    BY <1>1, <1>2

-----------------------------------------------------------------------------
(* The recursion of write_uvarint ends.                                    *)
Spelled(v, f) == IF v < VarintBase THEN <<v>>
                 ELSE <<VarintBase + (v % VarintBase)>> \o f[v \div VarintBase]

(* f spells the numbers up to m as Uvarint does.                           *)
SpellsUpto(f, m) == \A v \in 0..m : f[v] = Spelled(v, f)

(* write_uvarint (util/src/varint.rs) shifts a number until it is below    *)
(* the base: it comes to an end.                                           *)
LEMMA DigitsEnd ==
    \A v \in Nat : ~(v < VarintBase) => v \div VarintBase \in Nat /\ v \div VarintBase < v
  <1>. SUFFICES ASSUME NEW v \in Nat, ~(v < VarintBase)
                PROVE  v \div VarintBase \in Nat /\ v \div VarintBase < v
    OBVIOUS
  <1>1. PICK b \in Nat : b = VarintBase /\ b > 1
    BY BaseIs
  <1>2. v \div b \in Int /\ v % b \in 0..(b - 1) /\ v = b * (v \div b) + (v % b)
    BY <1>1, Division
  <1>3. PICK q \in Int, r \in 0..(b - 1) : q = v \div b /\ v = b * q + r
    BY <1>2
  <1>4. q >= 0
    <2>1. q < 0 => b * q <= -b
      BY <1>1, SMT
    <2>. QED
      BY <1>1, <1>3, <2>1
  <1>5. q = 0 => v < b
    BY <1>3
  <1>6. q > 0 => b * q >= q + q
    BY <1>1, <1>3, SMT
  <1>. QED
    BY <1>1, <1>3, <1>4, <1>5, <1>6

(* So there is a function that spells as many numbers as wanted.           *)
LEMMA SpellingsExist ==
    \A m \in Nat : \E f : SpellsUpto(f, m)
  <1>. DEFINE Good == {m \in Nat : \E f : SpellsUpto(f, m)}
  <1>1. 0 \in Good
    <2>1. PICK f : f = [i \in {0} |-> <<0>>]
      OBVIOUS
    <2>2. \A v \in 0..0 : v = 0 /\ v < VarintBase
      BY BaseIs
    <2>3. SpellsUpto(f, 0)
      BY <2>1, <2>2 DEF SpellsUpto, Spelled
    <2>. QED
      BY <2>3
  <1>2. ASSUME NEW m \in Nat, m \in Good
        PROVE  m + 1 \in Good
    <2>1. PICK f : SpellsUpto(f, m)
      BY <1>2
    <2>2. PICK g : g = [v \in 0..(m + 1) |-> IF v = m + 1 THEN Spelled(m + 1, f) ELSE f[v]]
      OBVIOUS
    <2>3. g[m + 1] = Spelled(m + 1, f) /\ \A v \in 0..m : g[v] = f[v]
      BY <2>2
    <2>4. ASSUME NEW v \in 0..(m + 1)
          PROVE  Spelled(v, g) = Spelled(v, f)
      <3>1. CASE v < VarintBase
        BY <3>1 DEF Spelled
      <3>2. CASE ~(v < VarintBase)
        <4>1. v \div VarintBase \in 0..m
          BY <3>2, DigitsEnd
        <4>. QED
          BY <2>3, <3>2, <4>1 DEF Spelled
      <3>. QED
        BY <3>1, <3>2
    <2>5. ASSUME NEW v \in 0..(m + 1)
          PROVE  g[v] = Spelled(v, g)
      <3>1. CASE v = m + 1
        BY <2>3, <2>4, <3>1, Zenon
      <3>2. CASE v # m + 1
        <4>1. v \in 0..m
          BY <3>2
        <4>. QED
          BY <2>1, <2>3, <2>4, <4>1 DEF SpellsUpto
      <3>. QED
        BY <3>1, <3>2
    <2>6. SpellsUpto(g, m + 1)
      BY <2>5 DEF SpellsUpto
    <2>. QED
      BY <2>6
  <1>. HIDE DEF Good
  <1>3. \A m \in Nat : m \in Good
    BY <1>1, <1>2, NumberInduction, Zenon
  <1>. QED
    BY <1>3 DEF Good

(* And there is only one.                                                  *)
LEMMA SpellingsAreOne ==
    ASSUME NEW f, NEW g, NEW m \in Nat, NEW n \in Nat, SpellsUpto(f, m), SpellsUpto(g, n)
    PROVE  \A v \in Nat : v <= m /\ v <= n => f[v] = g[v]
  <1>. DEFINE Good == {k \in Nat : \A v \in 0..k : v <= m /\ v <= n => f[v] = g[v]}
  <1>0. ASSUME NEW v \in 0..m, v \in 0..n, v < VarintBase \/ f[v \div VarintBase] = g[v \div VarintBase]
        PROVE  f[v] = g[v]
    BY <1>0 DEF SpellsUpto, Spelled
  <1>1. 0 \in Good
    <2>1. 0 < VarintBase
      BY BaseIs
    <2>. QED
      BY <1>0, <2>1
  <1>2. ASSUME NEW k \in Nat, k \in Good
        PROVE  k + 1 \in Good
    <2>. SUFFICES ASSUME NEW v \in 0..(k + 1), v <= m, v <= n
                  PROVE  f[v] = g[v]
      OBVIOUS
    <2>1. ~(v < VarintBase) => f[v \div VarintBase] = g[v \div VarintBase]
      <3>. SUFFICES ASSUME ~(v < VarintBase)
                    PROVE  f[v \div VarintBase] = g[v \div VarintBase]
        OBVIOUS
      <3>1. PICK q \in Nat : q = v \div VarintBase /\ q < v
        BY DigitsEnd
      <3>2. q \in 0..k /\ q <= m /\ q <= n
        BY <3>1
      <3>. QED
        BY <1>2, <3>1, <3>2
    <2>. QED
      BY <1>0, <2>1
  <1>. HIDE DEF Good
  <1>3. \A k \in Nat : k \in Good
    BY <1>1, <1>2, NumberInduction, Zenon
  <1>. QED
    BY <1>3 DEF Good

(* Uvarint of every number is the one byte, or the low digit in front of   *)
(* what is left.                                                           *)
LEMMA UvarintSteps ==
    \A v \in Nat : Uvarint[v] = Spelled(v, Uvarint)
  <1>. DEFINE Part(v) == CHOOSE f : SpellsUpto(f, v)
              Again(f) == [v \in Nat |-> Spelled(v, f)]
  <1>1. \A v \in Nat : SpellsUpto(Part(v), v)
    BY SpellingsExist, Zenon
  <1>. HIDE DEF Part
  <1>2. PICK whole : whole = Again(whole)
    <2>1. PICK w : w = [v \in Nat |-> Part(v)[v]]
      OBVIOUS
    <2>2. ASSUME NEW v \in Nat
          PROVE  w[v] = Spelled(v, w)
      <3>1. w[v] = Spelled(v, Part(v))
        BY <1>1, <2>1 DEF SpellsUpto
      <3>2. ~(v < VarintBase) => Part(v)[v \div VarintBase] = w[v \div VarintBase]
        <4>. SUFFICES ASSUME ~(v < VarintBase)
                      PROVE  Part(v)[v \div VarintBase] = w[v \div VarintBase]
          OBVIOUS
        <4>1. PICK q \in Nat : q = v \div VarintBase /\ q < v /\ q <= v /\ q <= q
          BY DigitsEnd
        <4>2. PICK f, g : f = Part(v) /\ g = Part(q) /\ SpellsUpto(f, v) /\ SpellsUpto(g, q)
          BY <1>1
        <4>3. \A i \in Nat : i <= v /\ i <= q => f[i] = g[i]
          BY <4>2, SpellingsAreOne
        <4>4. w[q] = g[q]
          BY <2>1, <4>2, Zenon
        <4>. QED
          BY <4>1, <4>2, <4>3, <4>4
      <3>. QED
        BY <3>1, <3>2 DEF Spelled
    <2>3. w = [v \in Nat |-> w[v]]
      BY <2>1
    <2>4. w = Again(w)
      BY <2>2, <2>3
    <2>. QED
      BY <2>4
  <1>3. Uvarint = CHOOSE f : f = Again(f)
    BY DEF Uvarint, Spelled
  <1>4. Uvarint = Again(Uvarint)
    BY <1>2, <1>3, Zenon
  <1>. QED
    BY <1>4, Zenon

-----------------------------------------------------------------------------
(* u are the digits that v leaves when it is divided again and again.      *)
DigitsOf(v, u, q) ==
    LET n == Len(u) IN
    /\ u \in Seq(Nat) /\ n > 0
    /\ \A i \in 1..n : u[i] < VarintBase <=> i = n
    /\ q[0] = v /\ q[n] = 0
    /\ \A i \in 0..n : q[i] \in Nat
    /\ \A i \in 1..n : q[i] = q[i - 1] \div VarintBase /\ u[i] % VarintBase = q[i - 1] % VarintBase

(* write_uvarint writes the digits of the number and marks all but the     *)
(* last as continued.                                                      *)
LEMMA UvarintDigits ==
    \A v \in Nat : \E q : DigitsOf(v, Uvarint[v], q)
  <1>. DEFINE Good == {m \in Nat : \A v \in 0..m : \E q : DigitsOf(v, Uvarint[v], q)}
  <1>0. PICK b \in Nat : b = VarintBase /\ b > 1
    BY BaseIs
  <1>1. ASSUME NEW v \in Nat, v < b
        PROVE  \E q : DigitsOf(v, Uvarint[v], q)
    <2>1. Uvarint[v] = <<v>>
      BY <1>0, <1>1, UvarintSteps DEF Spelled
    <2>2. PICK q : q = [i \in 0..1 |-> IF i = 0 THEN v ELSE 0]
      OBVIOUS
    <2>3. q[0] = v /\ q[1] = 0
      BY <2>2
    <2>4. v \div b = 0 /\ v % b = v
      BY <1>0, <1>1
    <2>5. <<v>> \in Seq(Nat) /\ Len(<<v>>) = 1 /\ <<v>>[1] = v
      OBVIOUS
    <2>6. DigitsOf(v, <<v>>, q)
      BY <1>0, <1>1, <2>3, <2>4, <2>5 DEF DigitsOf
    <2>. QED
      BY <2>1, <2>6
  <1>2. ASSUME NEW v \in Nat, ~(v < b), NEW d \in Nat, d = v \div b,
               \E q : DigitsOf(d, Uvarint[d], q)
        PROVE  \E q : DigitsOf(v, Uvarint[v], q)
    <2>1. PICK w, p : w = Uvarint[d] /\ DigitsOf(d, w, p)
      BY <1>2
    <2>2. PICK n \in Nat : n = Len(w) /\ n > 0 /\ w \in Seq(Nat)
      BY <2>1 DEF DigitsOf
    <2>3. /\ \A i \in 1..n : w[i] < b <=> i = n
          /\ p[0] = d /\ p[n] = 0
          /\ \A i \in 0..n : p[i] \in Nat
          /\ \A i \in 1..n : p[i] = p[i - 1] \div b /\ w[i] % b = p[i - 1] % b
      BY <1>0, <2>1, <2>2 DEF DigitsOf
    <2>4. PICK r \in Nat : r = v % b /\ r < b
      <3>1. v % b \in 0..(b - 1)
        BY <1>0, Division
      <3>. QED
        BY <1>0, <3>1
    <2>5. PICK u : u = <<b + r>> \o w /\ u = Uvarint[v]
      BY <1>0, <1>2, <2>1, <2>4, UvarintSteps DEF Spelled
    <2>6. /\ u \in Seq(Nat) /\ Len(u) = n + 1 /\ u[1] = b + r
          /\ \A i \in 2..(n + 1) : u[i] = w[i - 1]
      BY <1>0, <2>2, <2>4, <2>5
    <2>7. PICK q : q = [i \in 0..(n + 1) |-> IF i = 0 THEN v ELSE p[i - 1]]
      OBVIOUS
    <2>8. q[0] = v /\ \A i \in 1..(n + 1) : q[i] = p[i - 1]
      BY <2>7
    <2>9. \A i \in 1..(n + 1) : u[i] < b <=> i = n + 1
      <3>. SUFFICES ASSUME NEW i \in 1..(n + 1)
                    PROVE  u[i] < b <=> i = n + 1
        OBVIOUS
      <3>1. CASE i = 1
        BY <1>0, <2>2, <2>4, <2>6, <3>1
      <3>2. CASE i # 1
        <4>1. i \in 2..(n + 1) /\ i - 1 \in 1..n
          BY <3>2
        <4>2. u[i] = w[i - 1] /\ (w[i - 1] < b <=> i - 1 = n)
          BY <2>3, <2>6, <4>1
        <4>. QED
          BY <4>1, <4>2
      <3>. QED
        BY <3>1, <3>2
    <2>10. q[n + 1] = 0 /\ \A i \in 0..(n + 1) : q[i] \in Nat
      <3>1. n + 1 \in 1..(n + 1) /\ (n + 1) - 1 = n
        OBVIOUS
      <3>2. \A i \in 1..(n + 1) : i - 1 \in 0..n
        OBVIOUS
      <3>. QED
        BY <2>3, <2>8, <3>1, <3>2
    <2>11. ASSUME NEW i \in 1..(n + 1)
           PROVE  q[i] = q[i - 1] \div b /\ u[i] % b = q[i - 1] % b
      <3>1. CASE i = 1
        <4>1. q[1] = d /\ q[0] = v
          BY <2>3, <2>8
        <4>2. (b + r) % b = r
          BY <1>0, <2>4
        <4>3. q[i] = d /\ q[i - 1] = v /\ u[i] = b + r
          BY <2>6, <3>1, <4>1
        <4>4. q[i - 1] \div b = d /\ q[i - 1] % b = r
          BY <1>2, <2>4, <4>3
        <4>. QED
          BY <4>2, <4>3, <4>4
      <3>2. CASE i # 1
        <4>1. PICK j : j = i - 1 /\ j \in 1..n /\ i \in 2..(n + 1) /\ j \in 1..(n + 1)
          BY <3>2
        <4>2. q[i] = p[j] /\ q[j] = p[j - 1] /\ u[i] = w[j]
          BY <2>6, <2>8, <4>1
        <4>3. p[j] = p[j - 1] \div b /\ w[j] % b = p[j - 1] % b
          BY <2>3, <4>1
        <4>4. q[i - 1] = q[j]
          BY <4>1
        <4>. QED
          BY <4>2, <4>3, <4>4
      <3>. QED
        BY <3>1, <3>2
    <2>12. DigitsOf(v, u, q)
      BY <1>0, <2>6, <2>8, <2>9, <2>10, <2>11 DEF DigitsOf
    <2>. QED
      BY <2>5, <2>12
  <1>3. 0 \in Good
    <2>1. ASSUME NEW v \in 0..0
          PROVE  \E q : DigitsOf(v, Uvarint[v], q)
      <3>1. v \in Nat /\ v < b
        BY <1>0
      <3>. QED
        BY <1>1, <3>1
    <2>. QED
      BY <2>1
  <1>4. ASSUME NEW m \in Nat, m \in Good
        PROVE  m + 1 \in Good
    <2>. SUFFICES ASSUME NEW v \in 0..(m + 1)
                  PROVE  \E q : DigitsOf(v, Uvarint[v], q)
      OBVIOUS
    <2>1. CASE v < b
      BY <1>1, <2>1
    <2>2. CASE ~(v < b)
      <3>1. PICK d \in Nat : d = v \div b /\ d < v
        BY <1>0, <2>2, DigitsEnd
      <3>2. d \in 0..m
        BY <3>1
      <3>3. \E q : DigitsOf(d, Uvarint[d], q)
        BY <1>4, <3>2
      <3>. QED
        BY <1>2, <2>2, <3>1, <3>3
    <2>. QED
      BY <2>1, <2>2
  <1>. HIDE DEF Good
  <1>5. \A m \in Nat : m \in Good
    BY <1>3, <1>4, NumberInduction, Zenon
  <1>6. ASSUME NEW v \in Nat
        PROVE  \E q : DigitsOf(v, Uvarint[v], q)
    <2>1. v \in Good /\ v \in 0..v
      BY <1>5
    <2>. QED
      BY <2>1 DEF Good
  <1>. QED
    BY <1>6

(* write_uvarint and read_uvarint: the digits have the number's value.     *)
LEMMA UvarintValue ==
    ASSUME NEW v \in Nat
    PROVE  /\ Uvarint[v] \in Seq(Nat) /\ Len(Uvarint[v]) > 0
           /\ \A i \in 1..Len(Uvarint[v]) : Uvarint[v][i] < VarintBase <=> i = Len(Uvarint[v])
           /\ Value(Uvarint[v]) = v
  <1>0. PICK b \in Nat : b = VarintBase /\ b > 1
    BY BaseIs
  <1>1. PICK u, q : u = Uvarint[v] /\ DigitsOf(v, u, q)
    BY UvarintDigits
  <1>2. PICK n \in Nat : n = Len(u) /\ n > 0 /\ u \in Seq(Nat) /\ DOMAIN u = 1..n
    BY <1>1 DEF DigitsOf
  <1>3. /\ \A i \in 1..n : u[i] < b <=> i = n
        /\ q[0] = v /\ q[n] = 0
        /\ \A i \in 0..n : q[i] \in Nat
        /\ \A i \in 1..n : q[i] = q[i - 1] \div b /\ u[i] % b = q[i - 1] % b
    BY <1>0, <1>1, <1>2 DEF DigitsOf
  <1>4. PICK f : f = [i \in 1..n |-> (u[i] % b) * Weight(i - 1)]
    OBVIOUS
  <1>5. Value(u) = SumFunctionOnSet(f, 1..n)
    <2>1. DOMAIN f = 1..n
      BY <1>4
    <2>2. Value(u) = SumFunction(f)
      BY <1>0, <1>2, <1>4 DEF Value, Weight
    <2>. QED
      BY <2>1, <2>2 DEF SumFunction
  <1>6. ASSUME NEW i \in 1..n
        PROVE  /\ f[i] \in Nat
               /\ Weight(i - 1) * q[i - 1] = f[i] + Weight(i) * q[i]
    <2>1. i - 1 \in 0..n /\ i \in 0..n /\ i - 1 \in Nat /\ (i - 1) + 1 = i
      OBVIOUS
    <2>2. PICK p \in Nat, d \in Nat : p = q[i - 1] /\ d = q[i]
      BY <1>3, <2>1
    <2>3. PICK r \in 0..(b - 1) : r = p % b /\ d = p \div b /\ p = b * d + r /\ r = u[i] % b
      <3>1. p % b \in 0..(b - 1) /\ p = b * (p \div b) + (p % b)
        BY <1>0, Division
      <3>. QED
        BY <1>3, <2>2, <3>1
    <2>4. PICK w \in Nat : w = Weight(i - 1) /\ Weight(i) = w * b
      BY <1>0, <2>1, WeightIs
    <2>5. f[i] = r * w
      BY <1>4, <2>3, <2>4
    <2>6. r * w \in Nat /\ w * (b * d + r) = r * w + (w * b) * d
      <3>1. r \in Nat
        BY <1>0
      <3>2. \A x, y \in Nat : x * y \in Nat
        OBVIOUS
      <3>3. \A x, y, z, t \in Nat : x * (y * z + t) = t * x + (x * y) * z
        BY SMT
      <3>. QED
        BY <3>1, <3>2, <3>3
    <2>. QED
      BY <2>2, <2>3, <2>4, <2>5, <2>6
  <1>. DEFINE Good == {k \in Nat : k <= n =>
                          /\ SumFunctionOnSet(f, 1..k) \in Nat
                          /\ SumFunctionOnSet(f, 1..k) + Weight(k) * q[k] = v}
  <1>7. 0 \in Good
    <2>1. 1..0 = {} /\ v * 1 = v /\ 0 + v = v /\ 1 * v = v
      OBVIOUS
    <2>. QED
      BY <1>3, <2>1, WeightIs, SumOfNothing
  <1>8. ASSUME NEW k \in Nat, k \in Good
        PROVE  k + 1 \in Good
    <2>. SUFFICES ASSUME k + 1 <= n
                  PROVE  /\ SumFunctionOnSet(f, 1..(k + 1)) \in Nat
                         /\ SumFunctionOnSet(f, 1..(k + 1)) + Weight(k + 1) * q[k + 1] = v
      OBVIOUS
    <2>1. k + 1 \in 1..n /\ (k + 1) - 1 = k /\ k <= n /\ k + 1 \in 0..n /\ k \in 0..n
      OBVIOUS
    <2>2. 1..(k + 1) = (1..k) \cup {k + 1} /\ k + 1 \notin 1..k
      OBVIOUS
    <2>3. IsFiniteSet(1..k) /\ \A i \in (1..k) \cup {k + 1} : f[i] \in Nat
      BY <1>6, <2>1, FS_Interval
    <2>4. SumFunctionOnSet(f, (1..k) \cup {k + 1}) = SumFunctionOnSet(f, 1..k) + f[k + 1]
      <3>1. PICK T, x : T = 1..k /\ x = k + 1
        OBVIOUS
      <3>2. IsFiniteSet(T) /\ x \notin T /\ \A i \in T \cup {x} : f[i] \in Nat
        BY <2>2, <2>3, <3>1
      <3>3. SumFunctionOnSet(f, T \cup {x}) = SumFunctionOnSet(f, T) + f[x]
        BY <3>2, SumOfMore
      <3>. QED
        BY <3>1, <3>3
    <2>5. PICK s \in Nat, g \in Nat : s = SumFunctionOnSet(f, 1..k) /\ g = f[k + 1]
      BY <1>6, <1>8, <2>1
    <2>6. PICK x, y : /\ x = Weight(k) * q[k] /\ y = Weight(k + 1) * q[k + 1]
                      /\ x = g + y
      BY <1>6, <2>1, <2>5
    <2>7. y \in Nat
      <3>1. Weight(k + 1) \in Nat /\ q[k + 1] \in Nat
        BY <1>3, <2>1, WeightIs
      <3>2. \A i, j \in Nat : i * j \in Nat
        OBVIOUS
      <3>. QED
        BY <2>6, <3>1, <3>2
    <2>8. s + x = v
      BY <1>8, <2>1, <2>5, <2>6
    <2>9. PICK t : t = SumFunctionOnSet(f, 1..(k + 1)) /\ t = s + g
      BY <2>2, <2>4, <2>5, Zenon
    <2>10. t \in Nat /\ t + y = v
      <3>. \A c, d, e, m \in Nat : m = c + d => m \in Nat /\ (c + (d + e) = v => m + e = v)
        OBVIOUS
      <3>1. s \in Nat /\ g \in Nat /\ y \in Nat /\ s + (g + y) = v
        BY <2>5, <2>6, <2>7, <2>8
      <3>2. s + g \in Nat
        BY <3>1
      <3>. QED
        BY <2>9, <3>1, <3>2
    <2>. QED
      BY <2>6, <2>9, <2>10, Zenon
  <1>. HIDE DEF Good
  <1>9. \A k \in Nat : k \in Good
    BY <1>7, <1>8, NumberInduction, Zenon
  <1>10. SumFunctionOnSet(f, 1..n) = v
    <2>1. /\ SumFunctionOnSet(f, 1..n) \in Nat
          /\ SumFunctionOnSet(f, 1..n) + Weight(n) * q[n] = v
      BY <1>9 DEF Good
    <2>2. Weight(n) * 0 = 0
      <3>1. Weight(n) \in Nat
        BY WeightIs
      <3>. QED
        BY <3>1
    <2>. QED
      BY <1>3, <2>1, <2>2
  <1>. QED
    BY <1>0, <1>1, <1>2, <1>3, <1>5, <1>10

-----------------------------------------------------------------------------
(* The parts of a joined sequence.                                         *)
LEMMA PartsOf ==
    ASSUME NEW S, NEW s \in Seq(S), NEW t \in Seq(S)
    PROVE  /\ SubSeq(s \o t, Len(s) + 1, Len(s) + Len(t)) = t
           /\ \A a \in 1..(Len(s) + 1), z \in 0..Len(s) : SubSeq(s \o t, a, z) = SubSeq(s, a, z)
  <1>1. SubSeq(s \o t, Len(s) + 1, Len(s) + Len(t)) = t
    OBVIOUS
  <1>2. ASSUME NEW a \in 1..(Len(s) + 1), NEW z \in 0..Len(s)
        PROVE  SubSeq(s \o t, a, z) = SubSeq(s, a, z)
    BY SubSeqOfConcat1
  <1>. QED
    BY <1>1, <1>2

(* What InOrder takes: a finite set, and keys no two elements share.       *)
Keyed(S, key) ==
    IsFiniteSet(S) /\ key \in [S -> Int] /\ \A x, y \in S : key[x] = key[y] => x = y

(* s has elements of S by rising keys.                                     *)
Rising(S, key, s) ==
    s \in Seq(S) /\ \A m, n \in 1..Len(s) : m < n => key[s[m]] < key[s[n]]

(* InOrderIs, in the words the lemmas below use.                           *)
LEMMA InOrderRises ==
    ASSUME NEW S, NEW key, Keyed(S, key)
    PROVE  /\ Rising(S, key, InOrder(S, key))
           /\ Cardinality(S) \in Nat /\ Len(InOrder(S, key)) = Cardinality(S)
           /\ \A x \in S : \E n \in 1..Cardinality(S) : InOrder(S, key)[n] = x
  <1>1. /\ IsFiniteSet(S) /\ key \in [S -> Int]
        /\ \A x, y \in S : key[x] = key[y] => x = y
    BY DEF Keyed
  <1>. QED
    BY <1>1, InOrderIs DEF Rising

(* The elements in the order of their keys are what InOrder gives.         *)
LEMMA InOrderIsOne ==
    ASSUME NEW S, NEW key, Keyed(S, key),
           NEW s, Rising(S, key, s), Len(s) = Cardinality(S)
    PROVE  s = InOrder(S, key)
  <1>. DEFINE Rank(x) == Cardinality(Lower(S, key, x))
  <1>0. /\ IsFiniteSet(S) /\ key \in [S -> Int]
        /\ \A x, y \in S : key[x] = key[y] => x = y
    BY DEF Keyed
  <1>1. PICK N \in Nat : N = Cardinality(S)
    BY <1>0, FS_CardinalityType
  <1>2. /\ s \in Seq(S) /\ Len(s) = N /\ \A n \in 1..N : s[n] \in S
        /\ \A m, n \in 1..N : m < n => key[s[m]] < key[s[n]]
    BY <1>1 DEF Rising
  <1>3. /\ InOrder(S, key) \in Seq(S) /\ Len(InOrder(S, key)) = N
        /\ \A n \in 1..N : \A x \in S : Rank(x) = n - 1 => InOrder(S, key)[n] = x
    BY <1>0, <1>1, InOrderIs
  <1>4. \A m, n \in 1..N : key[s[m]] < key[s[n]] <=> m < n
    <2>1. ASSUME NEW m \in 1..N, NEW n \in 1..N
          PROVE  key[s[m]] < key[s[n]] <=> m < n
      <3>1. key[s[m]] \in Int /\ key[s[n]] \in Int
        BY <1>0, <1>2
      <3>2. /\ m < n => key[s[m]] < key[s[n]]
            /\ n < m => key[s[n]] < key[s[m]]
            /\ m = n => key[s[n]] = key[s[m]]
        BY <1>2
      <3>. QED
        BY <3>1, <3>2
    <2>. QED
      BY <2>1
  <1>5. \A x \in S : \E n \in 1..N : s[n] = x
    <2>1. s \in [1..N -> S]
      BY <1>2
    <2>2. \A m, n \in 1..N : s[m] = s[n] => m = n
      <3>1. ASSUME NEW m \in 1..N, NEW n \in 1..N, s[m] = s[n]
            PROVE  m = n
        <4>1. ~(key[s[m]] < key[s[n]]) /\ ~(key[s[n]] < key[s[m]])
          BY <1>0, <1>2, <3>1
        <4>2. ~(m < n) /\ ~(n < m)
          BY <1>4, <4>1
        <4>. QED
          BY <1>1, <4>2
      <3>. QED
        BY <3>1
    <2>3. IsFiniteSet(1..N) /\ Cardinality(1..N) = Cardinality(S)
      BY <1>1, FS_Interval
    <2>4. s \in Injection(1..N, S)
      BY <2>1, <2>2 DEF Injection, IsInjective
    <2>5. s \in Surjection(1..N, S)
      BY <1>0, <2>3, <2>4, FS_Injection
    <2>. QED
      BY <2>5 DEF Surjection
  <1>6. ASSUME NEW n \in 1..N
        PROVE  Rank(s[n]) = n - 1
    <2>1. Lower(S, key, s[n]) = {s[m] : m \in 1..(n - 1)}
      <3>1. ASSUME NEW x \in Lower(S, key, s[n])
            PROVE  x \in {s[m] : m \in 1..(n - 1)}
        <4>1. x \in S /\ key[x] < key[s[n]]
          BY DEF Lower
        <4>2. PICK m \in 1..N : s[m] = x
          BY <1>5, <4>1
        <4>3. m < n
          BY <1>4, <4>1, <4>2
        <4>. QED
          BY <4>2, <4>3
      <3>2. ASSUME NEW m \in 1..(n - 1)
            PROVE  s[m] \in Lower(S, key, s[n])
        <4>1. m \in 1..N /\ m < n
          BY <1>1
        <4>. QED
          BY <1>2, <4>1 DEF Lower
      <3>. QED
        BY <3>1, <3>2
    <2>2. PICK g : g = [m \in 1..(n - 1) |-> s[m]]
      OBVIOUS
    <2>3. g \in Bijection(1..(n - 1), Lower(S, key, s[n]))
      <3>1. g \in [1..(n - 1) -> Lower(S, key, s[n])]
        BY <2>1, <2>2
      <3>2. \A x \in Lower(S, key, s[n]) : \E m \in 1..(n - 1) : g[m] = x
        BY <2>1, <2>2
      <3>3. \A m, j \in 1..(n - 1) : g[m] = g[j] => m = j
        <4>1. ASSUME NEW m \in 1..(n - 1), NEW j \in 1..(n - 1), g[m] = g[j]
              PROVE  m = j
          <5>1. m \in 1..N /\ j \in 1..N /\ s[m] = s[j]
            BY <1>1, <2>2, <4>1
          <5>2. key[s[m]] \in Int /\ ~(key[s[m]] < key[s[j]]) /\ ~(key[s[j]] < key[s[m]])
            BY <1>0, <1>2, <5>1
          <5>. QED
            BY <1>4, <5>1, <5>2
        <4>. QED
          BY <4>1
      <3>4. g \in Surjection(1..(n - 1), Lower(S, key, s[n]))
        BY <3>1, <3>2 DEF Surjection
      <3>5. g \in Injection(1..(n - 1), Lower(S, key, s[n]))
        BY <3>1, <3>3 DEF Injection, IsInjective
      <3>. QED
        BY <3>4, <3>5 DEF Bijection
    <2>4. IsFiniteSet(1..(n - 1)) /\ Cardinality(1..(n - 1)) = n - 1
      <3>1. n - 1 \in Nat
        OBVIOUS
      <3>. QED
        BY <3>1, FS_Interval
    <2>5. ExistsBijection(1..(n - 1), Lower(S, key, s[n]))
      BY <2>3 DEF ExistsBijection
    <2>6. Cardinality(Lower(S, key, s[n])) = Cardinality(1..(n - 1))
      BY <2>4, <2>5, FS_Bijection
    <2>. QED
      BY <2>4, <2>6
  <1>7. \A n \in 1..N : s[n] = InOrder(S, key)[n]
    BY <1>2, <1>3, <1>6
  <1>. QED
    BY <1>1, <1>2, <1>3, <1>7

(* One more element after all the others.                                  *)
AddsLast(S, low, x, key) == \A y \in S : key[y] = low[y] /\ key[y] < key[x]

(* t is s with x behind it.                                                *)
OneLonger(s, t, x) ==
    /\ Len(t) = Len(s) + 1 /\ t[Len(t)] = x
    /\ \A n \in 1..Len(s) : t[n] = s[n]

(* An element of the highest key comes behind all others.                  *)
LEMMA InOrderOfMore ==
    ASSUME NEW S, NEW low, Keyed(S, low), NEW x, NEW T, T = S \cup {x},
           NEW key, Keyed(T, key), AddsLast(S, low, x, key)
    PROVE  OneLonger(InOrder(S, low), InOrder(T, key), x)
  <1>. DEFINE o == InOrder(S, low)
  <1>0. x \notin S /\ key \in [T -> Int] /\ IsFiniteSet(S)
    BY DEF Keyed, AddsLast
  <1>1. PICK N \in Nat : /\ N = Cardinality(S) /\ Len(o) = N /\ o \in Seq(S)
                         /\ \A n \in 1..N : o[n] \in S
                         /\ \A m, n \in 1..N : m < n => low[o[m]] < low[o[n]]
    <2>1. Rising(S, low, o) /\ Cardinality(S) \in Nat /\ Len(o) = Cardinality(S)
      BY InOrderRises
    <2>. QED
      BY <2>1 DEF Rising
  <1>2. Cardinality(T) = N + 1
    BY <1>0, <1>1, FS_AddElement
  <1>. HIDE DEF o
  <1>3. PICK s : s = Append(o, x)
    OBVIOUS
  <1>4. s \in Seq(T) /\ Len(s) = N + 1 /\ s[N + 1] = x /\ \A n \in 1..N : s[n] = o[n]
    BY <1>1, <1>3
  <1>5. ASSUME NEW m \in 1..(N + 1), NEW n \in 1..(N + 1), m < n
        PROVE  key[s[m]] < key[s[n]]
    <2>1. m \in 1..N /\ s[m] = o[m] /\ o[m] \in S
      BY <1>1, <1>4, <1>5
    <2>2. CASE n = N + 1
      BY <1>4, <2>1, <2>2 DEF AddsLast
    <2>3. CASE n # N + 1
      <3>1. n \in 1..N /\ s[n] = o[n] /\ o[n] \in S
        BY <1>1, <1>4, <2>3
      <3>2. low[o[m]] < low[o[n]]
        BY <1>1, <1>5, <2>1, <3>1
      <3>. QED
        BY <2>1, <3>1, <3>2 DEF AddsLast
    <2>. QED
      BY <2>2, <2>3
  <1>6. Rising(T, key, s)
    BY <1>4, <1>5 DEF Rising
  <1>7. Len(s) = Cardinality(T)
    BY <1>2, <1>4
  <1>8. s = InOrder(T, key)
    BY <1>6, <1>7, InOrderIsOne
  <1>. QED
    BY <1>1, <1>4, <1>8 DEF o, OneLonger

-----------------------------------------------------------------------------
(* A buffer no number is cut off in, and the bytes of one number.          *)
Ended(buf) == buf \in Seq(Nat) /\ (Len(buf) > 0 => buf[Len(buf)] < VarintBase)

(* The bytes of one number: all but the last are continued.                *)
Spelling(u) ==
    u \in Seq(Nat) /\ Len(u) > 0 /\ \A i \in 1..Len(u) : u[i] < VarintBase <=> i = Len(u)

(* Where in buf the numbers end, in the order of the file.                 *)
EndsOf(buf) == InOrder(Ends(buf), [i \in Ends(buf) |-> i])

(* A reader that runs through buf meets every end once, in order.          *)
LEMMA EndsAre ==
    ASSUME NEW buf \in Seq(Nat)
    PROVE  /\ Keyed(Ends(buf), [i \in Ends(buf) |-> i])
           /\ EndsOf(buf) \in Seq(Ends(buf)) /\ Len(EndsOf(buf)) = Cardinality(Ends(buf))
           /\ Ends(buf) \subseteq 1..Len(buf)
           /\ \A m, n \in 1..Len(EndsOf(buf)) : m < n => EndsOf(buf)[m] < EndsOf(buf)[n]
           /\ \A i \in Ends(buf) : \E n \in 1..Len(EndsOf(buf)) : EndsOf(buf)[n] = i
  <1>. DEFINE E == Ends(buf)
              id == [i \in Ends(buf) |-> i]
  <1>1. E \subseteq 1..Len(buf)
    BY DEF Ends
  <1>2. IsFiniteSet(E)
    <2>1. IsFiniteSet(1..Len(buf))
      BY FS_Interval
    <2>. QED
      BY <1>1, <2>1, FS_Subset
  <1>3. Keyed(E, id)
    BY <1>1, <1>2 DEF Keyed
  <1>. HIDE DEF E, id
  <1>4. Rising(E, id, InOrder(E, id))
        /\ Len(InOrder(E, id)) = Cardinality(E)
        /\ \A x \in E : \E n \in 1..Cardinality(E) : InOrder(E, id)[n] = x
    BY <1>3, InOrderRises
  <1>5. \A m, n \in 1..Len(InOrder(E, id)) : m < n => InOrder(E, id)[m] < InOrder(E, id)[n]
    <2>1. PICK o : o = InOrder(E, id)
      OBVIOUS
    <2>2. o \in Seq(E) /\ \A m, n \in 1..Len(o) : m < n => id[o[m]] < id[o[n]]
      BY <1>4, <2>1 DEF Rising
    <2>3. \A m \in 1..Len(o) : o[m] \in E
      BY <2>2
    <2>4. \A x \in E : id[x] = x
      BY DEF id, E
    <2>. QED
      BY <2>1, <2>2, <2>3, <2>4
  <1>. QED
    BY <1>1, <1>3, <1>4, <1>5 DEF Rising, E, id, EndsOf

(* Where the j-th number of buf starts.                                    *)
StartIn(buf, j) == IF j = 1 THEN 1 ELSE EndsOf(buf)[j - 1] + 1

(* The j-th number a reader finds is the one spelled between two ends.     *)
LEMMA NumbersAre ==
    ASSUME NEW buf \in Seq(Nat)
    PROVE  Numbers(buf) = [j \in 1..Len(EndsOf(buf)) |->
                              Value(SubSeq(buf, StartIn(buf, j), EndsOf(buf)[j]))]
  <1>1. DOMAIN EndsOf(buf) = 1..Len(EndsOf(buf))
    BY EndsAre
  <1>. QED
    BY <1>1 DEF Numbers, EndsOf, StartIn

(* Reading one number more.                                                *)
LEMMA NumbersOfMore ==
    ASSUME NEW buf, Ended(buf), NEW u, Spelling(u)
    PROVE  /\ Ended(buf \o u)
           /\ Len(Numbers(buf)) \in Nat
           /\ Numbers(buf) = [j \in 1..Len(Numbers(buf)) |-> Numbers(buf)[j]]
           /\ Numbers(buf \o u) = [j \in 1..(Len(Numbers(buf)) + 1) |->
                  IF j <= Len(Numbers(buf)) THEN Numbers(buf)[j] ELSE Value(u)]
  <1>1. PICK m \in Nat, l \in Nat :
            /\ m = Len(buf) /\ l = Len(u) /\ l > 0 /\ buf \in Seq(Nat) /\ u \in Seq(Nat)
            /\ m > 0 => buf[m] < VarintBase
            /\ \A i \in 1..l : u[i] < VarintBase <=> i = l
    BY DEF Ended, Spelling
  <1>2. PICK both : both = buf \o u
    OBVIOUS
  <1>3. /\ both \in Seq(Nat) /\ Len(both) = m + l
        /\ \A i \in 1..m : both[i] = buf[i]
        /\ \A i \in 1..l : both[m + i] = u[i]
    BY <1>1, <1>2
  <1>4. both[m + l] = u[l] /\ both[m + l] < VarintBase
    BY <1>1, <1>3
  <1>5. Ended(both)
    BY <1>3, <1>4 DEF Ended
  <1>6. Ends(both) = Ends(buf) \cup {m + l}
    <2>1. ASSUME NEW i \in 1..(m + l)
          PROVE  i \in Ends(both) <=> i \in Ends(buf) \/ i = m + l
      <3>1. CASE i <= m
        BY <1>1, <1>3, <3>1 DEF Ends
      <3>2. CASE i > m
        <4>1. PICK j \in 1..l : i = m + j
          <5>1. i - m \in 1..l /\ i = m + (i - m)
            BY <3>2
          <5>. QED
            BY <5>1
        <4>2. both[i] < VarintBase <=> j = l
          BY <1>1, <1>3, <4>1
        <4>3. i \in Ends(both) <=> j = l
          BY <1>3, <4>2 DEF Ends
        <4>4. i \notin Ends(buf)
          BY <1>1, <3>2 DEF Ends
        <4>. QED
          BY <4>1, <4>3, <4>4
      <3>. QED
        BY <3>1, <3>2
    <2>2. Ends(both) \subseteq 1..(m + l) /\ Ends(buf) \subseteq 1..(m + l) /\ m + l \in 1..(m + l)
      BY <1>1, <1>3 DEF Ends
    <2>. QED
      BY <2>1, <2>2
  <1>. DEFINE E == Ends(buf)
              id == [i \in E |-> i]
              all == [i \in Ends(both) |-> i]
              e == EndsOf(buf)
  <1>7. /\ Keyed(E, id) /\ e \in Seq(E) /\ Len(e) = Cardinality(E) /\ E \subseteq 1..m
        /\ \A i, j \in 1..Len(e) : i < j => e[i] < e[j]
        /\ \A i \in E : \E n \in 1..Len(e) : e[n] = i
    BY <1>1, EndsAre
  <1>8. PICK N \in Nat : N = Len(e)
    BY <1>7
  <1>9. /\ Len(EndsOf(both)) = N + 1 /\ EndsOf(both)[N + 1] = m + l
        /\ \A j \in 1..N : EndsOf(both)[j] = e[j]
    <2>1. Keyed(Ends(both), all)
      BY <1>3, EndsAre
    <2>2. \A y \in E : all[y] = id[y] /\ all[y] < all[m + l]
      BY <1>1, <1>6, <1>7
    <2>3. Keyed(E \cup {m + l}, all)
      BY <1>6, <2>1
    <2>. HIDE DEF E, id, all, e
    <2>4. /\ Len(EndsOf(both)) = N + 1 /\ EndsOf(both)[N + 1] = m + l
          /\ \A j \in 1..N : EndsOf(both)[j] = e[j]
      <3>1. PICK x, k, h, T : x = m + l /\ k = all /\ h = id /\ T = E \cup {x}
        OBVIOUS
      <3>2. Keyed(E, h)
        BY <1>7, <3>1
      <3>3. Keyed(T, k)
        BY <2>3, <3>1
      <3>4. AddsLast(E, h, x, k)
        BY <2>2, <3>1 DEF AddsLast
      <3>5. OneLonger(InOrder(E, h), InOrder(T, k), x)
        BY <3>1, <3>2, <3>3, <3>4, InOrderOfMore
      <3>6. T = Ends(both) /\ InOrder(T, k) = EndsOf(both) /\ InOrder(E, h) = e
        BY <1>6, <3>1 DEF EndsOf, all, id, E, e
      <3>. QED
        BY <1>8, <3>1, <3>5, <3>6 DEF OneLonger
    <2>. QED
      BY <2>4
  <1>. HIDE DEF E, id, all, e
  <1>10. PICK f : f = EndsOf(both)
    OBVIOUS
  <1>11. /\ Len(f) = N + 1 /\ f[N + 1] = m + l
         /\ \A j \in 1..N : f[j] = e[j] /\ e[j] \in 1..m
    <2>1. \A j \in 1..N : e[j] \in E
      BY <1>7, <1>8
    <2>. QED
      BY <1>7, <1>9, <1>10, <2>1
  <1>12. N > 0 => e[N] = m
    <2>. SUFFICES ASSUME N > 0
                  PROVE  e[N] = m
      OBVIOUS
    <2>1. N \in 1..N /\ e[N] \in 1..m
      BY <1>11
    <2>2. m > 0
      BY <2>1
    <2>3. m \in E
      BY <1>1, <2>2 DEF Ends, E
    <2>4. PICK n \in 1..N : e[n] = m
      BY <1>7, <1>8, <2>3
    <2>5. n < N => e[n] < e[N]
      BY <1>7, <1>8, <2>1
    <2>. QED
      BY <2>1, <2>4, <2>5
  <1>13. N = 0 => m = 0
    <2>. SUFFICES ASSUME N = 0, m > 0
                  PROVE  FALSE
      OBVIOUS
    <2>1. m \in E
      BY <1>1 DEF Ends, E
    <2>. QED
      BY <1>7, <1>8, <2>1
  <1>14. StartIn(both, N + 1) = m + 1
    <2>1. CASE N = 0
      BY <1>13, <2>1 DEF StartIn
    <2>2. CASE N # 0
      <3>1. N + 1 # 1 /\ (N + 1) - 1 = N /\ N \in 1..N
        BY <2>2
      <3>2. StartIn(both, N + 1) = f[N] + 1
        BY <1>10, <3>1 DEF StartIn
      <3>. QED
        BY <1>11, <1>12, <3>1, <3>2
    <2>. QED
      BY <2>1, <2>2
  <1>15. ASSUME NEW j \in 1..N
         PROVE  /\ StartIn(both, j) = StartIn(buf, j) /\ StartIn(buf, j) \in 1..(m + 1)
                /\ SubSeq(both, StartIn(both, j), f[j]) = SubSeq(buf, StartIn(buf, j), e[j])
    <2>1. StartIn(both, j) = StartIn(buf, j) /\ StartIn(buf, j) \in 1..(m + 1)
      <3>1. CASE j = 1
        BY <3>1 DEF StartIn
      <3>2. CASE j # 1
        <4>1. j - 1 \in 1..N
          BY <3>2
        <4>2. f[j - 1] = e[j - 1] /\ e[j - 1] \in 1..m
          BY <1>11, <4>1
        <4>. QED
          BY <1>10, <3>2, <4>2 DEF StartIn, e
      <3>. QED
        BY <3>1, <3>2
    <2>2. PICK a \in 1..(m + 1), z \in 1..m : a = StartIn(buf, j) /\ z = e[j] /\ f[j] = z
      BY <1>11, <2>1
    <2>3. SubSeq(both, a, z) = SubSeq(buf, a, z)
      <3>1. a \in 1..(Len(buf) + 1) /\ z \in 0..Len(buf) /\ buf \in Seq(Nat) /\ u \in Seq(Nat)
        BY <1>1
      <3>. QED
        BY <1>2, <3>1, PartsOf
    <2>. QED
      BY <2>1, <2>2, <2>3
  <1>16. SubSeq(both, m + 1, m + l) = u
    BY <1>1, <1>2, PartsOf
  <1>17. Numbers(buf) = [j \in 1..N |-> Value(SubSeq(buf, StartIn(buf, j), e[j]))]
    BY <1>1, <1>8, NumbersAre DEF e
  <1>18. Numbers(both) = [j \in 1..(N + 1) |-> Value(SubSeq(both, StartIn(both, j), f[j]))]
    BY <1>3, <1>10, <1>11, NumbersAre
  <1>19. PICK nb : nb = Numbers(buf)
    OBVIOUS
  <1>20. nb = [j \in 1..N |-> nb[j]] /\ Len(nb) = N
    <2>1. nb = [j \in 1..N |-> nb[j]]
      BY <1>17, <1>19
    <2>. QED
      BY <2>1
  <1>21. ASSUME NEW j \in 1..(N + 1)
         PROVE  Value(SubSeq(both, StartIn(both, j), f[j])) = IF j <= N THEN nb[j] ELSE Value(u)
    <2>1. CASE j <= N
      <3>1. j \in 1..N
        BY <2>1
      <3>2. nb[j] = Value(SubSeq(buf, StartIn(buf, j), e[j]))
        BY <1>17, <1>19, <3>1
      <3>3. SubSeq(both, StartIn(both, j), f[j]) = SubSeq(buf, StartIn(buf, j), e[j])
        BY <1>15, <3>1
      <3>. QED
        BY <2>1, <3>2, <3>3
    <2>2. CASE ~(j <= N)
      <3>1. j = N + 1
        BY <2>2
      <3>2. SubSeq(both, StartIn(both, j), f[j]) = u
        BY <1>11, <1>14, <1>16, <3>1
      <3>. QED
        BY <2>2, <3>2
    <2>. QED
      BY <2>1, <2>2
  <1>22. Numbers(both) = [j \in 1..(N + 1) |-> IF j <= N THEN nb[j] ELSE Value(u)]
    BY <1>18, <1>21
  <1>. QED
    BY <1>2, <1>5, <1>19, <1>20, <1>22

-----------------------------------------------------------------------------
(* The numbers ns are what a reader finds in buf.                          *)
Holds(buf, ns) == Ended(buf) /\ ns \in Seq(Nat) /\ Numbers(buf) = ns

(* Nothing holds no number.                                                *)
LEMMA HoldsNothing == Holds(<<>>, <<>>)
  <1>1. <<>> \in Seq(Nat) /\ Len(<<>>) = 0
    OBVIOUS
  <1>2. Ended(<<>>)
    BY <1>1 DEF Ended
  <1>3. Len(EndsOf(<<>>)) = 0
    <2>1. Ends(<<>>) = {}
      BY DEF Ends
    <2>2. EndsOf(<<>>) \in Seq(Ends(<<>>)) /\ Len(EndsOf(<<>>)) = Cardinality({})
      BY <1>1, <2>1, EndsAre
    <2>. QED
      BY <2>2, FS_EmptySet
  <1>4. Numbers(<<>>) = [j \in 1..0 |-> Value(SubSeq(<<>>, StartIn(<<>>, j), EndsOf(<<>>)[j]))]
    BY <1>1, <1>3, NumbersAre
  <1>5. Numbers(<<>>) = <<>>
    BY <1>4
  <1>. QED
    BY <1>1, <1>2, <1>5 DEF Holds

(* A number written behind others is read behind them (read_uvarint of     *)
(* what write_uvarint wrote).                                              *)
LEMMA HoldsMore ==
    ASSUME NEW buf, NEW ns, Holds(buf, ns), NEW v \in Nat
    PROVE  Holds(buf \o Uvarint[v], ns \o <<v>>)
  <1>1. PICK u : u = Uvarint[v] /\ Spelling(u) /\ Value(u) = v
    BY UvarintValue DEF Spelling
  <1>2. Ended(buf) /\ ns \in Seq(Nat) /\ Numbers(buf) = ns
    BY DEF Holds
  <1>3. /\ Ended(buf \o u)
        /\ Numbers(buf \o u) = [j \in 1..(Len(ns) + 1) |-> IF j <= Len(ns) THEN ns[j] ELSE v]
    <2>1. Ended(buf) /\ Spelling(u)
      BY <1>1, <1>2
    <2>2. Ended(buf \o u)
      BY <2>1, NumbersOfMore
    <2>3. Numbers(buf \o u) = [j \in 1..(Len(Numbers(buf)) + 1) |->
                                  IF j <= Len(Numbers(buf)) THEN Numbers(buf)[j] ELSE Value(u)]
      BY <2>1, NumbersOfMore
    <2>. QED
      BY <1>1, <1>2, <2>2, <2>3
  <1>4. ns \o <<v>> \in Seq(Nat)
        /\ ns \o <<v>> = [j \in 1..(Len(ns) + 1) |-> IF j <= Len(ns) THEN ns[j] ELSE v]
    BY <1>2
  <1>. QED
    BY <1>1, <1>3, <1>4 DEF Holds

(* us are the spellings of the numbers vs.                                 *)
Spellings(us, vs) ==
    /\ us \in Seq(Seq(Nat)) /\ vs \in Seq(Nat) /\ Len(us) = Len(vs)
    /\ \A i \in 1..Len(vs) : us[i] = Uvarint[vs[i]]

(* A number behind two lists.                                              *)
LEMMA OneMore ==
    \A s, p \in Seq(Nat), v \in Nat : (s \o p) \o <<v>> = s \o (p \o <<v>>)
  OBVIOUS

(* The same of a list of numbers.                                          *)
LEMMA HoldsList ==
    ASSUME NEW buf, NEW ns, Holds(buf, ns), NEW us, NEW vs, Spellings(us, vs)
    PROVE  Holds(buf \o FlattenSeq(us), ns \o vs)
  <1>. DEFINE Ok(c) == Holds(buf \o Leading(us, c), ns \o SubSeq(vs, 1, c))
              Good == {c \in Nat : c <= Len(vs) => Ok(c)}
  <1>0. /\ buf \in Seq(Nat) /\ ns \in Seq(Nat) /\ us \in Seq(Seq(Nat)) /\ vs \in Seq(Nat)
        /\ Len(us) = Len(vs) /\ Len(vs) \in Nat
        /\ \A i \in 1..Len(vs) : us[i] = Uvarint[vs[i]]
    BY DEF Holds, Ended, Spellings
  <1>1. /\ Leading(us, 0) = <<>> /\ Leading(us, Len(us)) = FlattenSeq(us)
        /\ \A c \in 1..Len(us) : Leading(us, c) = Leading(us, c - 1) \o us[c]
        /\ \A c \in 0..Len(us) : Leading(us, c) \in Seq(Nat)
    BY <1>0, FrontSteps
  <1>2. 0 \in Good
    <2>1. buf \o <<>> = buf /\ ns \o SubSeq(vs, 1, 0) = ns
      BY <1>0
    <2>2. Ok(0)
      BY <1>1, <2>1
    <2>. QED
      BY <2>2
  <1>3. ASSUME NEW c \in Nat, c \in Good
        PROVE  c + 1 \in Good
    <2>. SUFFICES ASSUME c + 1 <= Len(vs)
                  PROVE  Ok(c + 1)
      OBVIOUS
    <2>1. c + 1 \in 1..Len(vs) /\ (c + 1) - 1 = c /\ c \in 0..Len(vs) /\ c <= Len(vs)
      <3>1. PICK n \in Nat : n = Len(vs)
        BY <1>0
      <3>2. c + 1 \in 1..n /\ (c + 1) - 1 = c /\ c \in 0..n /\ c <= n
        BY <3>1
      <3>. QED
        BY <3>1, <3>2
    <2>2. Ok(c)
      BY <1>3, <2>1
    <2>3. PICK w \in Seq(Nat), v \in Nat : w = Leading(us, c) /\ v = vs[c + 1]
      BY <1>0, <1>1, <2>1
    <2>4. PICK u \in Seq(Nat) : u = Uvarint[v] /\ u = us[c + 1]
      BY <1>0, <2>1, <2>3
    <2>5. Leading(us, c + 1) = w \o u
      BY <1>0, <1>1, <2>1, <2>3, <2>4
    <2>6. Holds((buf \o w) \o u, (ns \o SubSeq(vs, 1, c)) \o <<v>>)
      BY <2>2, <2>3, <2>4, HoldsMore
    <2>7. (buf \o w) \o u = buf \o (w \o u)
      <3>1. buf \in Seq(Nat) /\ w \in Seq(Nat) /\ u \in Seq(Nat)
        BY <1>0
      <3>. QED
        BY <3>1
    <2>8. (ns \o SubSeq(vs, 1, c)) \o <<v>> = ns \o SubSeq(vs, 1, c + 1)
      <3>1. SubSeq(vs, 1, c) \in Seq(Nat) /\ SubSeq(vs, 1, c + 1) = SubSeq(vs, 1, c) \o <<v>>
        <4>1. vs \in Seq(Nat) /\ 1 \in 1..Len(vs) /\ c + 1 \in 1..Len(vs) /\ v = vs[c + 1]
          BY <1>0, <2>1, <2>3
        <4>2. SubSeq(vs, 1, c + 1) = SubSeq(vs, 1, (c + 1) - 1) \o <<vs[c + 1]>>
          BY <4>1, SubSeqRecursiveSecond
        <4>. QED
          BY <2>1, <4>1, <4>2
      <3>2. PICK p \in Seq(Nat) : p = SubSeq(vs, 1, c) /\ SubSeq(vs, 1, c + 1) = p \o <<v>>
        BY <3>1
      <3>3. PICK s : s = ns /\ s \in Seq(Nat)
        BY <1>0
      <3>4. (s \o p) \o <<v>> = s \o (p \o <<v>>)
        BY <3>3, OneMore
      <3>. QED
        BY <3>2, <3>3, <3>4
    <2>. QED
      BY <2>5, <2>6, <2>7, <2>8
  <1>. HIDE DEF Good
  <1>4. \A c \in Nat : c \in Good
    BY <1>2, <1>3, NumberInduction, Zenon
  <1>5. Ok(Len(vs))
    BY <1>0, <1>4 DEF Good
  <1>6. SubSeq(vs, 1, Len(vs)) = vs
    BY <1>0
  <1>. QED
    BY <1>0, <1>1, <1>5, <1>6

-----------------------------------------------------------------------------
(* Entries as find_entry and the id deltas need them: by tile id.          *)
SortedDir(es) ==
    /\ es \in Seq(DirEntries)
    /\ \A i, j \in 1..Len(es) : i < j => es[i].tile_id < es[j].tile_id

(* The columns serialize_directory writes.                                 *)
Deltas(es) == [i \in 1..Len(es) |->
    es[i].tile_id - (IF i = 1 THEN 0 ELSE es[i - 1].tile_id)]
RunLengths(es) == [i \in 1..Len(es) |-> es[i].run_length]
Lengths(es) == [i \in 1..Len(es) |-> es[i].length]
Offsets(es) == [i \in 1..Len(es) |-> IF Follows(es, i) THEN 0 ELSE es[i].offset + 1]

AllOf(n, d, r, l, o) == (((<<n>> \o d) \o r) \o l) \o o

AllNumbers(es) == AllOf(Len(es), Deltas(es), RunLengths(es), Lengths(es), Offsets(es))

(* A column is spelled number by number.                                   *)
LEMMA SpellingsOf ==
    ASSUME NEW n \in Nat, NEW f \in [1..n -> Nat]
    PROVE  Spellings([i \in 1..n |-> Uvarint[f[i]]], f)
  <1>1. PICK us : us = [i \in 1..n |-> Uvarint[f[i]]]
    OBVIOUS
  <1>2. f \in Seq(Nat) /\ Len(f) = n
    BY SeqDef
  <1>3. \A i \in 1..n : us[i] = Uvarint[f[i]]
    BY <1>1
  <1>4. \A i \in 1..n : us[i] \in Seq(Nat)
    <2>1. ASSUME NEW i \in 1..n
          PROVE  us[i] \in Seq(Nat)
      <3>1. PICK v \in Nat : v = f[i]
        OBVIOUS
      <3>2. Uvarint[v] \in Seq(Nat)
        BY UvarintValue
      <3>. QED
        BY <1>3, <3>1, <3>2
    <2>. QED
      BY <2>1
  <1>5. us \in Seq(Seq(Nat)) /\ Len(us) = n
    <2>1. us \in [1..n -> Seq(Nat)]
      BY <1>1, <1>4
    <2>2. us \in Seq(Seq(Nat))
      BY <2>1, SeqDef
    <2>3. Len(us) = n
      BY <2>1
    <2>. QED
      BY <2>2, <2>3
  <1>. QED
    BY <1>1, <1>2, <1>3, <1>5 DEF Spellings

(* The columns of a sorted directory are numbers: no tile id is below the  *)
(* one before.                                                             *)
LEMMA ColumnTypes ==
    ASSUME NEW es, SortedDir(es)
    PROVE  /\ Len(es) \in Nat
           /\ Deltas(es) \in [1..Len(es) -> Nat] /\ RunLengths(es) \in [1..Len(es) -> Nat]
           /\ Lengths(es) \in [1..Len(es) -> Nat] /\ Offsets(es) \in [1..Len(es) -> Nat]
  <1>0. PICK n \in Nat : n = Len(es)
    BY DEF SortedDir
  <1>1. /\ \A i \in 1..n : /\ es[i].tile_id \in Nat /\ es[i].offset \in Nat
                           /\ es[i].length \in Nat /\ es[i].run_length \in Nat
        /\ \A i, j \in 1..n : i < j => es[i].tile_id < es[j].tile_id
    <2>1. es \in Seq(DirEntries)
      BY DEF SortedDir
    <2>2. \A i \in 1..n : es[i] \in DirEntries
      BY <1>0, <2>1
    <2>3. \A i, j \in 1..n : i < j => es[i].tile_id < es[j].tile_id
      BY <1>0 DEF SortedDir
    <2>. QED
      BY <2>2, <2>3 DEF DirEntries
  <1>2. ASSUME NEW i \in 1..n
        PROVE  es[i].tile_id - (IF i = 1 THEN 0 ELSE es[i - 1].tile_id) \in Nat
    <2>1. CASE i = 1
      BY <1>1, <2>1
    <2>2. CASE i # 1
      <3>1. i - 1 \in 1..n /\ i - 1 < i
        BY <2>2
      <3>2. es[i - 1].tile_id < es[i].tile_id
        BY <1>1, <3>1
      <3>. QED
        BY <1>1, <2>2, <3>1, <3>2
    <2>. QED
      BY <2>1, <2>2
  <1>3. Deltas(es) \in [1..n -> Nat]
    BY <1>0, <1>2 DEF Deltas
  <1>. QED
    BY <1>0, <1>1, <1>3 DEF RunLengths, Lengths, Offsets

(* serialize_directory writes the number of entries and then, column by    *)
(* column, all there is of them.                                           *)
LEMMA SerializeHolds ==
    ASSUME NEW es, SortedDir(es)
    PROVE  Holds(Serialize(es), AllNumbers(es))
  <1>0. PICK n \in Nat : n = Len(es) /\ DOMAIN es = 1..n
    BY DEF SortedDir
  <1>1. PICK d, r, l, o : /\ d = Deltas(es) /\ r = RunLengths(es) /\ l = Lengths(es) /\ o = Offsets(es)
                          /\ d \in [1..n -> Nat] /\ r \in [1..n -> Nat]
                          /\ l \in [1..n -> Nat] /\ o \in [1..n -> Nat]
    BY <1>0, ColumnTypes
  <1>. DEFINE U(f) == [i \in 1..n |-> Uvarint[f[i]]]
  <1>2. Holds(Uvarint[n], <<n>>)
    <2>1. Holds(<<>> \o Uvarint[n], <<>> \o <<n>>)
      BY HoldsNothing, HoldsMore
    <2>2. Uvarint[n] \in Seq(Nat)
      BY UvarintValue
    <2>3. <<>> \o Uvarint[n] = Uvarint[n] /\ <<>> \o <<n>> = <<n>>
      BY <2>2
    <2>. QED
      BY <2>1, <2>3
  <1>3. /\ Spellings(U(d), d) /\ Spellings(U(r), r) /\ Spellings(U(l), l) /\ Spellings(U(o), o)
    BY <1>1, SpellingsOf
  <1>4. Serialize(es) =
            (((Uvarint[n] \o FlattenSeq(U(d))) \o FlattenSeq(U(r))) \o FlattenSeq(U(l)))
                \o FlattenSeq(U(o))
    <2>1. U(d) = [i \in 1..n |-> Uvarint[es[i].tile_id - (IF i = 1 THEN 0 ELSE es[i - 1].tile_id)]]
      BY <1>0, <1>1 DEF Deltas
    <2>2. U(r) = [i \in 1..n |-> Uvarint[es[i].run_length]]
      BY <1>0, <1>1 DEF RunLengths
    <2>3. U(l) = [i \in 1..n |-> Uvarint[es[i].length]]
      BY <1>0, <1>1 DEF Lengths
    <2>4. U(o) = [i \in 1..n |-> Uvarint[IF Follows(es, i) THEN 0 ELSE es[i].offset + 1]]
      BY <1>0, <1>1 DEF Offsets
    <2>. HIDE DEF U
    <2>. QED
      BY <1>0, <2>1, <2>2, <2>3, <2>4 DEF Serialize
  <1>. HIDE DEF U
  <1>5. PICK ud, ur, ul, uo : ud = U(d) /\ ur = U(r) /\ ul = U(l) /\ uo = U(o)
    OBVIOUS
  <1>6. PICK b1, m1 : b1 = Uvarint[n] \o FlattenSeq(ud) /\ m1 = <<n>> \o d /\ Holds(b1, m1)
    BY <1>2, <1>3, <1>5, HoldsList
  <1>7. PICK b2, m2 : b2 = b1 \o FlattenSeq(ur) /\ m2 = m1 \o r /\ Holds(b2, m2)
    BY <1>3, <1>5, <1>6, HoldsList
  <1>8. PICK b3, m3 : b3 = b2 \o FlattenSeq(ul) /\ m3 = m2 \o l /\ Holds(b3, m3)
    BY <1>3, <1>5, <1>7, HoldsList
  <1>9. PICK b4, m4 : b4 = b3 \o FlattenSeq(uo) /\ m4 = m3 \o o /\ Holds(b4, m4)
    BY <1>3, <1>5, <1>8, HoldsList
  <1>10. m4 = AllNumbers(es)
    BY <1>0, <1>1, <1>6, <1>7, <1>8, <1>9 DEF AllNumbers, AllOf
  <1>11. b4 = Serialize(es)
    BY <1>4, <1>5, <1>6, <1>7, <1>8, <1>9
  <1>. QED
    BY <1>9, <1>10, <1>11

(* u has s and then t.                                                     *)
Joined(s, t, u) ==
    /\ Len(u) = Len(s) + Len(t)
    /\ \A i \in 1..Len(s) : u[i] = s[i]
    /\ \A i \in 1..Len(t) : u[Len(s) + i] = t[i]

(* So has s \o t.                                                          *)
LEMMA JoinedIs ==
    ASSUME NEW S, NEW s \in Seq(S), NEW t \in Seq(S), NEW u, u = s \o t
    PROVE  u \in Seq(S) /\ Joined(s, t, u)
  BY DEF Joined

(* Where each column is among the numbers.                                 *)
ColumnsAt(n, d, r, l, o, v) ==
    /\ Len(v) = 1 + 4 * n /\ v[1] = n
    /\ \A i \in 1..n : /\ v[1 + i] = d[i] /\ v[1 + n + i] = r[i]
                       /\ v[1 + 2 * n + i] = l[i] /\ v[1 + 3 * n + i] = o[i]

(* Where in the numbers the columns are.                                   *)
LEMMA ColumnsAre ==
    ASSUME NEW n \in Nat, NEW d \in [1..n -> Nat], NEW r \in [1..n -> Nat],
           NEW l \in [1..n -> Nat], NEW o \in [1..n -> Nat],
           NEW v, v = AllOf(n, d, r, l, o)
    PROVE  ColumnsAt(n, d, r, l, o, v)
  <1>1. /\ d \in Seq(Nat) /\ r \in Seq(Nat) /\ l \in Seq(Nat) /\ o \in Seq(Nat)
        /\ Len(d) = n /\ Len(r) = n /\ Len(l) = n /\ Len(o) = n
    BY SeqDef
  <1>2. PICK h : h = <<n>> /\ h \in Seq(Nat) /\ Len(h) = 1 /\ h[1] = n
    <2>1. <<n>> \in Seq(Nat) /\ Len(<<n>>) = 1 /\ <<n>>[1] = n
      OBVIOUS
    <2>. QED
      BY <2>1, Zenon
  <1>3. PICK a : a = h \o d /\ a \in Seq(Nat) /\ Joined(h, d, a)
    BY <1>1, <1>2, JoinedIs
  <1>4. PICK b : b = a \o r /\ b \in Seq(Nat) /\ Joined(a, r, b)
    BY <1>1, <1>3, JoinedIs
  <1>5. PICK c : c = b \o l /\ c \in Seq(Nat) /\ Joined(b, l, c)
    BY <1>1, <1>4, JoinedIs
  <1>6. v = c \o o /\ Joined(c, o, v)
    <2>1. v = c \o o
      BY <1>2, <1>3, <1>4, <1>5 DEF AllOf
    <2>. QED
      BY <1>1, <1>5, <2>1, JoinedIs
  <1>. DEFINE Cols == Joined(h, d, a) /\ Joined(a, r, b) /\ Joined(b, l, c) /\ Joined(c, o, v)
              Sizes == Len(h) = 1 /\ Len(d) = n /\ Len(r) = n /\ Len(l) = n /\ Len(o) = n
  <1>. HIDE DEF Cols, Sizes
  <1>0. Cols /\ Sizes
    BY <1>1, <1>2, <1>3, <1>4, <1>5, <1>6 DEF Cols, Sizes
  <1>7. /\ Len(a) = 1 + n /\ Len(b) = 1 + 2 * n /\ Len(c) = 1 + 3 * n /\ Len(v) = 1 + 4 * n
    BY <1>0 DEF Joined, Cols, Sizes
  <1>8. /\ \A i \in 1..(1 + 3 * n) : v[i] = c[i]
        /\ \A i \in 1..(1 + 2 * n) : c[i] = b[i]
        /\ \A i \in 1..(1 + n) : b[i] = a[i]
        /\ a[1] = n
    BY <1>2, <1>3, <1>4, <1>5, <1>6, <1>7 DEF Joined
  <1>9. ASSUME NEW i \in 1..n
        PROVE  /\ a[1 + i] = d[i] /\ b[(1 + n) + i] = r[i]
               /\ c[(1 + 2 * n) + i] = l[i] /\ v[(1 + 3 * n) + i] = o[i]
    BY <1>0, <1>7 DEF Joined, Cols, Sizes
  <1>10. ASSUME NEW i \in 1..n
         PROVE  /\ v[1 + i] = d[i] /\ v[1 + n + i] = r[i] /\ v[1 + 2 * n + i] = l[i]
    <2>1. 1 + i \in 1..(1 + n) /\ 1 + i \in 1..(1 + 2 * n) /\ 1 + i \in 1..(1 + 3 * n)
      OBVIOUS
    <2>2. v[1 + i] = a[1 + i]
      BY <1>8, <2>1
    <2>3. PICK j : j = (1 + n) + i /\ j = 1 + n + i /\ j \in 1..(1 + 2 * n) /\ j \in 1..(1 + 3 * n)
      OBVIOUS
    <2>4. v[j] = b[j]
      BY <1>8, <2>3
    <2>5. PICK m : m = (1 + 2 * n) + i /\ m = 1 + 2 * n + i /\ m \in 1..(1 + 3 * n)
      OBVIOUS
    <2>6. v[m] = c[m]
      BY <1>8, <2>5
    <2>. QED
      BY <1>9, <2>2, <2>3, <2>4, <2>5, <2>6
  <1>11. v[1] = n
    BY <1>7, <1>8
  <1>. QED
    BY <1>7, <1>9, <1>10, <1>11 DEF ColumnsAt

-----------------------------------------------------------------------------
(* What parse_directory computes of the ids and offsets, each from the one *)
(* before.                                                                 *)
IdsAgain(n, v, f) == [i \in 0..n |-> IF i = 0 THEN 0 ELSE f[i - 1] + v[1 + i]]
OffsetsAgain(n, v, f) ==
    [i \in 1..n |-> IF v[1 + 3 * n + i] = 0 THEN f[i - 1] + v[1 + 2 * n + (i - 1)]
                    ELSE v[1 + 3 * n + i] - 1]
IdsOf(n, v) == CHOOSE f : f = IdsAgain(n, v, f)
OffsetsOf(n, v) == CHOOSE f : f = OffsetsAgain(n, v, f)

(* parse_directory in these words.                                         *)
LEMMA ColumnsIs ==
    ASSUME NEW n, NEW v
    PROVE  Columns(n, v) = [i \in 1..n |->
               Entry(IdsOf(n, v)[i], OffsetsOf(n, v)[i], v[1 + 2 * n + i], v[1 + n + i])]
  BY DEF Columns, IdsOf, IdsAgain, OffsetsOf, OffsetsAgain

(* The numbers of the entries es are the sequence v.                       *)
NumbersOfDir(es, n, v) ==
    /\ n \in Nat /\ Len(v) = 1 + 4 * n /\ v[1] = n
    /\ \A i \in 1..n : /\ v[1 + i] = es[i].tile_id - (IF i = 1 THEN 0 ELSE es[i - 1].tile_id)
                       /\ v[1 + n + i] = es[i].run_length
                       /\ v[1 + 2 * n + i] = es[i].length
                       /\ v[1 + 3 * n + i] = IF Follows(es, i) THEN 0 ELSE es[i].offset + 1

(* What there is in the numbers of a directory, by its entries.            *)
LEMMA NumbersOfDirAre ==
    ASSUME NEW es, SortedDir(es)
    PROVE  NumbersOfDir(es, Len(es), AllNumbers(es))
  <1>1. PICK n, d, r, l, o : /\ n = Len(es) /\ n \in Nat
                          /\ d = Deltas(es) /\ r = RunLengths(es) /\ l = Lengths(es) /\ o = Offsets(es)
                          /\ d \in [1..n -> Nat] /\ r \in [1..n -> Nat]
                          /\ l \in [1..n -> Nat] /\ o \in [1..n -> Nat]
    BY ColumnTypes
  <1>2. PICK v : v = AllNumbers(es) /\ v = AllOf(n, d, r, l, o)
    BY <1>1 DEF AllNumbers
  <1>3. /\ Len(v) = 1 + 4 * n /\ v[1] = n
        /\ \A i \in 1..n : /\ v[1 + i] = d[i] /\ v[1 + n + i] = r[i]
                           /\ v[1 + 2 * n + i] = l[i] /\ v[1 + 3 * n + i] = o[i]
    <2>1. ColumnsAt(n, d, r, l, o, v)
      BY <1>1, <1>2, ColumnsAre
    <2>. QED
      BY <2>1 DEF ColumnsAt
  <1>4. \A i \in 1..n : /\ d[i] = es[i].tile_id - (IF i = 1 THEN 0 ELSE es[i - 1].tile_id)
                        /\ r[i] = es[i].run_length /\ l[i] = es[i].length
                        /\ o[i] = IF Follows(es, i) THEN 0 ELSE es[i].offset + 1
    BY <1>1 DEF Deltas, RunLengths, Lengths, Offsets
  <1>5. \A i \in 1..n : /\ v[1 + i] = es[i].tile_id - (IF i = 1 THEN 0 ELSE es[i - 1].tile_id)
                        /\ v[1 + n + i] = es[i].run_length /\ v[1 + 2 * n + i] = es[i].length
                        /\ v[1 + 3 * n + i] = IF Follows(es, i) THEN 0 ELSE es[i].offset + 1
    <2>. SUFFICES ASSUME NEW i \in 1..n
                  PROVE  /\ v[1 + i] = es[i].tile_id - (IF i = 1 THEN 0 ELSE es[i - 1].tile_id)
                         /\ v[1 + n + i] = es[i].run_length /\ v[1 + 2 * n + i] = es[i].length
                         /\ v[1 + 3 * n + i] = IF Follows(es, i) THEN 0 ELSE es[i].offset + 1
      OBVIOUS
    <2>1. /\ v[1 + i] = d[i] /\ v[1 + n + i] = r[i]
          /\ v[1 + 2 * n + i] = l[i] /\ v[1 + 3 * n + i] = o[i]
      BY <1>3, Zenon
    <2>2. /\ d[i] = es[i].tile_id - (IF i = 1 THEN 0 ELSE es[i - 1].tile_id)
          /\ r[i] = es[i].run_length /\ l[i] = es[i].length
          /\ o[i] = IF Follows(es, i) THEN 0 ELSE es[i].offset + 1
      BY <1>4, Zenon
    <2>. QED
      BY <2>1, <2>2, Zenon
  <1>6. NumbersOfDir(es, n, v)
    BY <1>1, <1>3, <1>5, Zenon DEF NumbersOfDir
  <1>. QED
    BY <1>1, <1>2, <1>6

(* The deltas add up to the ids.                                           *)
LEMMA IdsAreRead ==
    ASSUME NEW es, SortedDir(es), NEW n, n = Len(es), NEW v, NumbersOfDir(es, n, v)
    PROVE  \A i \in 1..n : IdsOf(n, v)[i] = es[i].tile_id
  <1>. DEFINE w == [i \in 0..n |-> IF i = 0 THEN 0 ELSE es[i].tile_id]
  <1>0. /\ n \in Nat /\ \A i \in 1..n : es[i].tile_id \in Nat
        /\ \A i \in 1..n : v[1 + i] = es[i].tile_id - (IF i = 1 THEN 0 ELSE es[i - 1].tile_id)
    <2>1. es \in Seq(DirEntries) /\ n \in Nat
      BY DEF SortedDir, NumbersOfDir
    <2>2. \A i \in 1..n : es[i] \in DirEntries
      BY <2>1
    <2>. QED
      BY <2>1, <2>2 DEF NumbersOfDir, DirEntries
  <1>1. ASSUME NEW i \in 0..n
        PROVE  w[i] = IF i = 0 THEN 0 ELSE w[i - 1] + v[1 + i]
    <2>1. CASE i = 0
      BY <2>1
    <2>2. CASE i = 1
      <3>1. 1 \in 1..n /\ w[0] = 0 /\ w[1] = es[1].tile_id
        BY <2>2
      <3>2. v[1 + 1] = es[1].tile_id - 0
        BY <1>0, <3>1
      <3>. QED
        BY <1>0, <2>2, <3>1, <3>2
    <2>3. CASE i # 0 /\ i # 1
      <3>1. i \in 1..n /\ i - 1 \in 1..n /\ i - 1 # 0
        BY <1>0, <2>3
      <3>2. w[i] = es[i].tile_id /\ w[i - 1] = es[i - 1].tile_id
        BY <3>1
      <3>3. v[1 + i] = es[i].tile_id - es[i - 1].tile_id
        BY <1>0, <2>3, <3>1
      <3>. QED
        BY <1>0, <2>3, <3>1, <3>2, <3>3
    <2>. QED
      BY <2>1, <2>2, <2>3
  <1>2. w = IdsAgain(n, v, w)
    BY <1>1 DEF IdsAgain
  <1>3. PICK f : f = IdsOf(n, v) /\ f = IdsAgain(n, v, f)
    BY <1>2, Zenon DEF IdsOf
  <1>4. \A i \in 0..n : f[i] = IF i = 0 THEN 0 ELSE f[i - 1] + v[1 + i]
    BY <1>3 DEF IdsAgain
  <1>5. w[0] = 0 /\ \A i \in 1..n : w[i] = es[i].tile_id
    BY <1>0
  <1>. HIDE DEF w
  <1>. DEFINE Good == {i \in Nat : i <= n => f[i] = w[i]}
  <1>6. 0 \in Good
    BY <1>0, <1>4, <1>5
  <1>7. ASSUME NEW i \in Nat, i \in Good
        PROVE  i + 1 \in Good
    <2>. SUFFICES ASSUME i + 1 <= n
                  PROVE  f[i + 1] = w[i + 1]
      OBVIOUS
    <2>1. i + 1 \in 0..n /\ i + 1 # 0 /\ (i + 1) - 1 = i /\ i <= n
      BY <1>0
    <2>2. f[i + 1] = f[i] + v[1 + (i + 1)]
      BY <1>4, <2>1
    <2>3. w[i + 1] = w[i] + v[1 + (i + 1)]
      BY <1>1, <2>1
    <2>. QED
      BY <1>7, <2>1, <2>2, <2>3
  <1>. HIDE DEF Good
  <1>8. \A i \in Nat : i \in Good
    BY <1>6, <1>7, NumberInduction, Zenon
  <1>. QED
    BY <1>3, <1>5, <1>8 DEF Good

(* Zero stands for an entry right behind the one before: the offsets come  *)
(* out as they went in.                                                    *)
LEMMA OffsetsAreRead ==
    ASSUME NEW es, SortedDir(es), NEW n, n = Len(es), NEW v, NumbersOfDir(es, n, v)
    PROVE  \A i \in 1..n : OffsetsOf(n, v)[i] = es[i].offset
  <1>. DEFINE w == [i \in 1..n |-> es[i].offset]
              Z(i) == v[1 + 3 * n + i]
              L(i) == v[1 + 2 * n + i]
  <1>0. /\ n \in Nat /\ \A i \in 1..n : es[i].offset \in Nat /\ es[i].length \in Nat
        /\ \A i \in 1..n : L(i) = es[i].length
        /\ \A i \in 1..n : Z(i) = IF Follows(es, i) THEN 0 ELSE es[i].offset + 1
    <2>1. es \in Seq(DirEntries) /\ n \in Nat
      BY DEF SortedDir, NumbersOfDir
    <2>2. \A i \in 1..n : es[i] \in DirEntries
      BY <2>1
    <2>. QED
      BY <2>1, <2>2 DEF NumbersOfDir, DirEntries
  <1>. HIDE DEF Z, L
  <1>1. ASSUME NEW i \in 1..n
        PROVE  IF Z(i) = 0 THEN /\ i # 1 /\ i - 1 \in 1..n
                                /\ es[i].offset = es[i - 1].offset + L(i - 1)
               ELSE es[i].offset = Z(i) - 1
    <2>1. CASE Follows(es, i)
      <3>1. i # 1 /\ i - 1 \in 1..n /\ es[i].offset = es[i - 1].offset + es[i - 1].length
        BY <1>0, <2>1 DEF Follows
      <3>. QED
        BY <1>0, <2>1, <3>1
    <2>2. CASE ~Follows(es, i)
      <3>1. es[i].offset \in Nat /\ Z(i) = es[i].offset + 1
        BY <1>0, <2>2
      <3>. QED
        BY <3>1
    <2>. QED
      BY <2>1, <2>2
  <1>2. w = OffsetsAgain(n, v, w)
    <2>1. ASSUME NEW i \in 1..n
          PROVE  es[i].offset = IF Z(i) = 0 THEN w[i - 1] + L(i - 1) ELSE Z(i) - 1
      BY <1>1
    <2>2. \A i \in 1..n : es[i].offset = IF Z(i) = 0 THEN w[i - 1] + L(i - 1) ELSE Z(i) - 1
      BY <2>1
    <2>3. w = [i \in 1..n |-> IF Z(i) = 0 THEN w[i - 1] + L(i - 1) ELSE Z(i) - 1]
      BY <2>2
    <2>. QED
      BY <2>3, Zenon DEF OffsetsAgain, Z, L
  <1>3. PICK f : f = OffsetsOf(n, v) /\ f = OffsetsAgain(n, v, f)
    BY <1>2, Zenon DEF OffsetsOf
  <1>4. \A i \in 1..n : f[i] = IF Z(i) = 0 THEN f[i - 1] + L(i - 1) ELSE Z(i) - 1
    BY <1>3 DEF OffsetsAgain, Z, L
  <1>. DEFINE Good == {i \in Nat : i + 1 <= n => f[i + 1] = es[i + 1].offset}
  <1>6. 0 \in Good
    <2>. SUFFICES ASSUME 1 <= n
                  PROVE  f[1] = es[1].offset
      OBVIOUS
    <2>1. 1 \in 1..n
      BY <1>0
    <2>2. Z(1) # 0 /\ es[1].offset = Z(1) - 1
      BY <1>1, <2>1
    <2>. QED
      BY <1>4, <2>1, <2>2
  <1>7. ASSUME NEW i \in Nat, i \in Good
        PROVE  i + 1 \in Good
    <2>. SUFFICES ASSUME (i + 1) + 1 <= n
                  PROVE  f[(i + 1) + 1] = es[(i + 1) + 1].offset
      OBVIOUS
    <2>1. PICK j \in 1..n : j = (i + 1) + 1 /\ j - 1 = i + 1 /\ i + 1 <= n
      BY <1>0
    <2>2. f[j - 1] = es[j - 1].offset
      BY <1>7, <2>1
    <2>. QED
      BY <1>1, <1>4, <2>1, <2>2
  <1>. HIDE DEF Good
  <1>8. \A i \in Nat : i \in Good
    BY <1>6, <1>7, NumberInduction, Zenon
  <1>9. ASSUME NEW i \in 1..n
        PROVE  f[i] = es[i].offset
    <2>1. i - 1 \in Nat /\ (i - 1) + 1 = i /\ i <= n
      BY <1>0
    <2>2. i - 1 \in Good
      BY <1>8, <2>1
    <2>. QED
      BY <2>1, <2>2 DEF Good
  <1>. QED
    BY <1>3, <1>9

(* parse_directory undoes serialize_directory (util/src/pmtiles.rs).        *)
THEOREM ParseSerialize ==
    ASSUME NEW es, SortedDir(es)
    PROVE  ParseDirectory(Serialize(es)) = es /\ Serialize(es) \in Seq(Nat)
  <1>1. PICK n, v : n = Len(es) /\ v = AllNumbers(es) /\ NumbersOfDir(es, n, v)
    BY NumbersOfDirAre
  <1>2. Numbers(Serialize(es)) = v /\ v \in Seq(Nat) /\ Serialize(es) \in Seq(Nat)
    BY <1>1, SerializeHolds DEF Holds, Ended
  <1>3. n \in Nat /\ Len(v) = 1 + 4 * n /\ v[1] = n
    BY <1>1 DEF NumbersOfDir
  <1>4. v # <<>>
    BY <1>2, <1>3
  <1>5. ParseDirectory(Serialize(es)) = Columns(n, v)
    BY <1>2, <1>3, <1>4 DEF ParseDirectory, Parsed
  <1>6. es \in Seq(DirEntries) /\ \A i \in 1..n : es[i] \in DirEntries
    BY <1>1, <1>3 DEF SortedDir
  <1>7. ASSUME NEW i \in 1..n
        PROVE  Entry(IdsOf(n, v)[i], OffsetsOf(n, v)[i], v[1 + 2 * n + i], v[1 + n + i]) = es[i]
    <2>1. v[1 + 2 * n + i] = es[i].length /\ v[1 + n + i] = es[i].run_length
      BY <1>1 DEF NumbersOfDir
    <2>2. IdsOf(n, v)[i] = es[i].tile_id /\ OffsetsOf(n, v)[i] = es[i].offset
      BY <1>1, IdsAreRead, OffsetsAreRead
    <2>3. PICK e \in DirEntries : e = es[i]
      BY <1>6
    <2>4. e = Entry(e.tile_id, e.offset, e.length, e.run_length)
      BY DEF Entry, DirEntries
    <2>. QED
      BY <2>1, <2>2, <2>3, <2>4
  <1>8. Columns(n, v) = [i \in 1..n |-> es[i]]
    BY <1>7, ColumnsIs
  <1>9. es = [i \in 1..n |-> es[i]]
    BY <1>1, <1>6
  <1>. QED
    BY <1>2, <1>5, <1>8, <1>9

-----------------------------------------------------------------------------
(* Max of a finite set of numbers is one of them and below none.           *)
LEMMA GreatestIs ==
    ASSUME NEW S \in SUBSET Int, S # {}, IsFiniteSet(S)
    PROVE  Max(S) \in S /\ \A y \in S : Max(S) >= y
  <1>. DEFINE Good == {T \in SUBSET S : T # {} => \E x \in T : \A y \in T : x >= y}
  <1>1. {} \in Good
    OBVIOUS
  <1>2. ASSUME NEW T \in SUBSET S, T # {}, \A x \in T : T \ {x} \in Good
        PROVE  T \in Good
    <2>1. PICK z : z \in T
      BY <1>2
    <2>2. CASE T \ {z} = {}
      <3>1. \A y \in T : z >= y
        BY <2>1, <2>2
      <3>. QED
        BY <2>1, <3>1
    <2>3. CASE T \ {z} # {}
      <3>1. PICK x \in T \ {z} : \A y \in T \ {z} : x >= y
        BY <1>2, <2>1, <2>3
      <3>2. x \in Int /\ z \in Int
        BY <2>1
      <3>3. CASE x >= z
        <4>1. \A y \in T : x >= y
          BY <3>1, <3>3
        <4>. QED
          BY <4>1
      <3>4. CASE ~(x >= z)
        <4>1. \A y \in T : z >= y
          BY <3>1, <3>2, <3>4
        <4>. QED
          BY <2>1, <4>1
      <3>. QED
        BY <3>3, <3>4
    <2>. QED
      BY <2>2, <2>3
  <1>. HIDE DEF Good
  <1>3. \A T \in SUBSET S : T \in Good
    BY <1>1, <1>2, SetInduction, Zenon
  <1>4. S \in SUBSET S
    OBVIOUS
  <1>5. \E x \in S : \A y \in S : x >= y
    BY <1>3, <1>4 DEF Good
  <1>. QED
    BY <1>5 DEF Max

(* A power of two is no less than its exponent.                            *)
LEMMA PowersGrow ==
    \A n \in Nat : 2^n \in Nat \ {0} /\ n <= 2^n
  <1>. DEFINE Good == {n \in Nat : n <= 2^n}
  <1>0. \A n \in Nat : 2^n \in Nat \ {0} /\ 2^(n + 1) = 2 * 2^n
    BY TwoTimes
  <1>1. 0 \in Good
    BY <1>0
  <1>2. ASSUME NEW n \in Nat, n \in Good
        PROVE  n + 1 \in Good
    <2>1. PICK p \in Nat \ {0} : p = 2^n /\ 2^(n + 1) = 2 * p
      BY <1>0
    <2>. QED
      BY <1>2, <2>1
  <1>. HIDE DEF Good
  <1>3. \A n \in Nat : n \in Good
    BY <1>1, <1>2, NumberInduction, Zenon
  <1>. QED
    BY <1>0, <1>3 DEF Good

(* A quotient and a rest exist.                                            *)
LEMMA DivisionOfNat ==
    ASSUME NEW m \in Nat, NEW s \in Nat \ {0}
    PROVE  \E q \in Nat, r \in 0..(s - 1) : q = m \div s /\ m = s * q + r
  <1>1. PICK q \in Int, r \in 0..(s - 1) : q = m \div s /\ m = s * q + r
    <2>1. m \in Int
      OBVIOUS
    <2>. QED
      BY <2>1, Division
  <1>2. q >= 0
    <2>1. \A x \in Nat \ {0}, y \in Int : y < 0 => x * y <= 0 - x
      BY SMT
    <2>2. PICK p \in Int : p = s * q
      OBVIOUS
    <2>3. q < 0 => p <= 0 - s
      BY <2>1, <2>2
    <2>. QED
      BY <1>1, <2>2, <2>3
  <1>3. q \in Nat
    BY <1>2
  <1>. QED
    BY <1>1, <1>3, Zenon

(* The chunks cut the entries after lo[c], up to hi[c].                    *)
CutsAt(n, lo, hi, N) ==
    /\ n \in Nat
    /\ \A c \in 1..n : lo[c] \in 0..N /\ hi[c] \in 1..N /\ lo[c] < hi[c]
    /\ \A c, d \in 1..n : c < d => hi[c] <= lo[d]
    /\ \A i \in 1..N : \E c \in 1..n : lo[c] < i /\ i <= hi[c]

(* es.chunks(s) cuts the entries into parts that follow each other and     *)
(* that leave none out; up to s of them make one part at most.             *)
LEMMA ChunksAre ==
    ASSUME NEW es, NEW N \in Nat, N = Len(es), NEW s \in Nat \ {0}
    PROVE  \E n, lo, hi : /\ CutsAt(n, lo, hi, N)
                          /\ Chunks(es, s) = [c \in 1..n |-> SubSeq(es, lo[c] + 1, hi[c])]
                          /\ N <= s => n <= 1
  <1>1. PICK n \in Nat, r \in 0..(s - 1) : n = (N + s - 1) \div s /\ N + s - 1 = s * n + r
    <2>1. N + s - 1 \in Nat /\ s \in Nat /\ s > 0
      OBVIOUS
    <2>2. PICK m \in Nat : m = N + s - 1
      BY <2>1
    <2>3. \E q \in Nat, r \in 0..(s - 1) : q = m \div s /\ m = s * q + r
      BY DivisionOfNat
    <2>. QED
      BY <2>2, <2>3
  <1>2. PICK lo, hi : /\ lo = [c \in 1..n |-> (c - 1) * s]
                      /\ hi = [c \in 1..n |-> IF c * s < N THEN c * s ELSE N]
    OBVIOUS
  <1>3. ASSUME NEW c \in 1..n
        PROVE  (c - 1) * s \in Nat /\ (c - 1) * s < N /\ c * s = (c - 1) * s + s /\ c * s \in Nat
    <2>1. PICK d \in Nat : d = c - 1 /\ c = d + 1 /\ d + 1 <= n
      OBVIOUS
    <2>2. \A x, y \in Nat : x * y \in Nat /\ (x + 1) * y = x * y + y
      BY SMT
    <2>3. \A x, y, z \in Nat : x <= y => z * x <= z * y
      BY SMT
    <2>4. \A x, y \in Nat : x * y = y * x
      OBVIOUS
    <2>5. PICK p \in Nat, q \in Nat, t \in Nat : p = d * s /\ q = (d + 1) * s /\ t = s * n /\ q = p + s
      BY <2>2, <2>4
    <2>6. q <= t
      <3>1. s * (d + 1) <= s * n
        BY <2>1, <2>3
      <3>. QED
        BY <2>4, <2>5, <3>1
    <2>7. p < N
      BY <1>1, <2>5, <2>6
    <2>. QED
      BY <2>1, <2>5, <2>7
  <1>4. \A c \in 1..n : lo[c] \in 0..N /\ hi[c] \in 1..N /\ lo[c] < hi[c]
    <2>1. ASSUME NEW c \in 1..n
          PROVE  lo[c] \in 0..N /\ hi[c] \in 1..N /\ lo[c] < hi[c]
      <3>1. PICK p \in Nat, q \in Nat : p = (c - 1) * s /\ q = c * s /\ p < N /\ q = p + s
        BY <1>3
      <3>2. lo[c] = p /\ hi[c] = IF q < N THEN q ELSE N
        BY <1>2, <3>1
      <3>. QED
        BY <3>1, <3>2
    <2>. QED
      BY <2>1
  <1>5. ASSUME NEW c \in 1..n, NEW d \in 1..n, c < d
        PROVE  hi[c] <= lo[d]
    <2>1. PICK x \in Nat, y \in Nat : x = c * s /\ y = (d - 1) * s
      BY <1>3
    <2>2. x <= y
      <3>1. \A i, j, k \in Nat : i <= j => i * k <= j * k
        BY SMT
      <3>2. c \in Nat /\ d - 1 \in Nat /\ c <= d - 1
        BY <1>5
      <3>. QED
        BY <2>1, <3>1, <3>2
    <2>3. hi[c] <= x /\ lo[d] = y /\ hi[c] \in Nat
      BY <1>2, <2>1
    <2>. QED
      BY <2>1, <2>2, <2>3
  <1>6. ASSUME NEW i \in 1..N
        PROVE  \E c \in 1..n : lo[c] < i /\ i <= hi[c]
    <2>1. PICK m \in Nat : m = i - 1
      OBVIOUS
    <2>2. PICK d \in Nat, t \in 0..(s - 1) : m = s * d + t
      <3>1. \E q \in Nat, p \in 0..(s - 1) : q = m \div s /\ m = s * q + p
        BY DivisionOfNat
      <3>. QED
        BY <3>1
    <2>3. PICK p \in Nat : p = s * d
      <3>1. \A x, y \in Nat : x * y \in Nat
        OBVIOUS
      <3>. QED
        BY <3>1
    <2>4. d * s = p /\ (d + 1) * s = p + s /\ s * (d + 1) = p + s
      <3>1. \A x, y \in Nat : x * y = y * x /\ (x + 1) * y = x * y + y
        BY SMT
      <3>. QED
        BY <2>3, <3>1
    <2>5. d + 1 <= n
      <3>. SUFFICES ASSUME n <= d
                    PROVE  FALSE
        OBVIOUS
      <3>1. PICK q \in Nat : q = s * n
        <4>1. \A x, y \in Nat : x * y \in Nat
          OBVIOUS
        <4>. QED
          BY <4>1
      <3>2. q <= p
        <4>1. \A x, y, z \in Nat : x <= y => z * x <= z * y
          BY SMT
        <4>. QED
          BY <2>3, <3>1, <4>1
      <3>. QED
        BY <1>1, <2>1, <2>2, <2>3, <3>1, <3>2
    <2>6. PICK c \in 1..n : c = d + 1 /\ c - 1 = d
      BY <2>5
    <2>7. lo[c] = p /\ hi[c] = IF p + s < N THEN p + s ELSE N
      BY <1>2, <2>4, <2>6
    <2>. QED
      BY <2>1, <2>2, <2>3, <2>7
  <1>7. CutsAt(n, lo, hi, N)
    BY <1>4, <1>5, <1>6 DEF CutsAt
  <1>8. Chunks(es, s) = [c \in 1..n |-> SubSeq(es, lo[c] + 1, hi[c])]
    BY <1>1, <1>2 DEF Chunks
  <1>9. N <= s => n <= 1
    <2>. SUFFICES ASSUME N <= s, n > 1
                  PROVE  FALSE
      OBVIOUS
    <2>1. \A x, y, z \in Nat : x <= y => z * x <= z * y
      BY SMT
    <2>2. s * 2 <= s * n
      BY <2>1
    <2>3. PICK q \in Nat : q = s * n
      <3>1. \A x, y \in Nat : x * y \in Nat
        OBVIOUS
      <3>. QED
        BY <3>1
    <2>. QED
      BY <1>1, <2>2, <2>3
  <1>. QED
    BY <1>7, <1>8, <1>9

-----------------------------------------------------------------------------
(* The entries behind the i-th start behind id.                            *)
After(es, i, id) == \A j \in 1..Len(es) : j > i => id < es[j].tile_id

(* What find_entry says of the last entry that starts at id or before.     *)
Answer(e, id) == IF IsLeaf(e) \/ id < e.tile_id + e.run_length THEN e ELSE None

(* What sorted entries are.                                                *)
LEMMA SortedTypes ==
    ASSUME NEW es, SortedDir(es)
    PROVE  /\ Len(es) \in Nat /\ es \in Seq(DirEntries) /\ DOMAIN es = 1..Len(es)
           /\ \A i \in 1..Len(es) : /\ es[i] \in DirEntries /\ es[i].tile_id \in Nat
                                    /\ es[i].run_length \in Nat /\ es[i].offset \in Nat
                                    /\ es[i].length \in Nat
           /\ \A i, j \in 1..Len(es) : i < j => es[i].tile_id < es[j].tile_id
           /\ \A i, j \in 1..Len(es) : es[i].tile_id <= es[j].tile_id => i <= j
  <1>1. PICK n \in Nat : n = Len(es) /\ es \in Seq(DirEntries) /\ DOMAIN es = 1..n
    BY DEF SortedDir
  <1>2. \A i \in 1..n : es[i] \in DirEntries
    BY <1>1
  <1>3. \A i \in 1..n : /\ es[i] \in DirEntries /\ es[i].tile_id \in Nat
                        /\ es[i].run_length \in Nat /\ es[i].offset \in Nat /\ es[i].length \in Nat
    BY <1>2 DEF DirEntries
  <1>4. \A i, j \in 1..n : i < j => es[i].tile_id < es[j].tile_id
    BY <1>1 DEF SortedDir
  <1>5. \A i, j \in 1..n : es[i].tile_id <= es[j].tile_id => i <= j
    <2>1. ASSUME NEW i \in 1..n, NEW j \in 1..n, es[i].tile_id <= es[j].tile_id, ~(i <= j)
          PROVE  FALSE
      <3>1. es[j].tile_id < es[i].tile_id
        BY <1>4, <2>1
      <3>. QED
        BY <1>3, <2>1, <3>1
    <2>. QED
      BY <2>1
  <1>. QED
    BY <1>1, <1>3, <1>4, <1>5

(* find_entry looks at the last entry that starts at id or before.         *)
LEMMA FindAt ==
    ASSUME NEW es, SortedDir(es), NEW id \in Nat, NEW i \in 1..Len(es),
           es[i].tile_id <= id, After(es, i, id)
    PROVE  FindEntry(es, id) = Answer(es[i], id)
  <1>. DEFINE upTo == {j \in DOMAIN es : es[j].tile_id <= id}
  <1>1. PICK n \in Nat : /\ n = Len(es) /\ DOMAIN es = 1..n
                         /\ \A j \in 1..n : es[j].tile_id \in Nat
    BY SortedTypes
  <1>2. upTo \subseteq 1..n /\ i \in upTo /\ i \in 1..n
    BY <1>1
  <1>3. \A j \in upTo : j <= i
    BY <1>1, <1>2 DEF After
  <1>. HIDE DEF upTo
  <1>4. Max(upTo) = i
    <2>1. upTo \in SUBSET Int /\ upTo # {} /\ IsFiniteSet(upTo)
      <3>1. IsFiniteSet(1..n)
        BY FS_Interval
      <3>2. IsFiniteSet(upTo)
        BY <1>2, <3>1, FS_Subset
      <3>. QED
        BY <1>2, <3>2
    <2>2. PICK m : m = Max(upTo) /\ m \in upTo /\ m >= i
      BY <1>2, <2>1, GreatestIs
    <2>3. m <= i /\ m \in Int
      BY <1>2, <1>3, <2>2
    <2>. QED
      BY <2>2, <2>3
  <1>5. FindEntry(es, id) = IF upTo # {} /\ (IsLeaf(es[i]) \/ id < es[i].tile_id + es[i].run_length)
                            THEN es[i] ELSE None
    BY <1>4 DEF FindEntry, upTo
  <1>. QED
    BY <1>2, <1>5 DEF Answer

(* There may be none.                                                      *)
LEMMA FindNone ==
    ASSUME NEW es, SortedDir(es), NEW id \in Nat, After(es, 0, id)
    PROVE  FindEntry(es, id) = None
  <1>1. /\ Len(es) \in Nat /\ DOMAIN es = 1..Len(es)
        /\ \A j \in 1..Len(es) : es[j].tile_id \in Nat
    BY SortedTypes
  <1>2. {j \in DOMAIN es : es[j].tile_id <= id} = {}
    BY <1>1 DEF After
  <1>. QED
    BY <1>2 DEF FindEntry

(* It is one or the other.                                                 *)
LEMMA FindCases ==
    ASSUME NEW es, SortedDir(es), NEW id \in Nat
    PROVE  \/ After(es, 0, id)
           \/ \E i \in 1..Len(es) : es[i].tile_id <= id /\ After(es, i, id)
  <1>. DEFINE upTo == {j \in 1..Len(es) : es[j].tile_id <= id}
  <1>1. Len(es) \in Nat /\ \A j \in 1..Len(es) : es[j].tile_id \in Nat
    BY SortedTypes
  <1>2. CASE upTo = {}
    BY <1>1, <1>2 DEF After
  <1>3. CASE upTo # {}
    <2>1. upTo \in SUBSET Int /\ IsFiniteSet(upTo)
      <3>1. IsFiniteSet(1..Len(es)) /\ upTo \subseteq 1..Len(es)
        BY <1>1, FS_Interval
      <3>2. IsFiniteSet(upTo)
        BY <3>1, FS_Subset
      <3>. QED
        BY <3>1, <3>2
    <2>. HIDE DEF upTo
    <2>2. PICK i : i \in upTo /\ \A y \in upTo : i >= y
      BY <1>3, <2>1, GreatestIs
    <2>3. i \in 1..Len(es) /\ es[i].tile_id <= id
      BY <2>2 DEF upTo
    <2>4. After(es, i, id)
      BY <1>1, <2>2, <2>3 DEF After, upTo
    <2>. QED
      BY <2>3, <2>4
  <1>. QED
    BY <1>2, <1>3

(* A part of a sorted directory is sorted.                                 *)
LEMMA ChunkIs ==
    ASSUME NEW es, SortedDir(es), NEW a \in 0..Len(es), NEW z \in 1..Len(es), a < z
    PROVE  /\ SortedDir(SubSeq(es, a + 1, z)) /\ Len(SubSeq(es, a + 1, z)) = z - a
           /\ \A j \in 1..(z - a) : SubSeq(es, a + 1, z)[j] = es[a + j]
  <1>1. PICK n \in Nat : n = Len(es) /\ es \in Seq(DirEntries)
                         /\ \A i, j \in 1..n : i < j => es[i].tile_id < es[j].tile_id
    BY SortedTypes
  <1>2. PICK s : s = SubSeq(es, a + 1, z)
    OBVIOUS
  <1>3. s \in Seq(DirEntries) /\ Len(s) = z - a /\ \A j \in 1..(z - a) : s[j] = es[a + j]
    BY <1>1, <1>2
  <1>4. ASSUME NEW i \in 1..(z - a), NEW j \in 1..(z - a), i < j
        PROVE  s[i].tile_id < s[j].tile_id
    <2>1. a + i \in 1..n /\ a + j \in 1..n /\ a + i < a + j
      BY <1>1, <1>4
    <2>2. es[a + i].tile_id < es[a + j].tile_id
      BY <1>1, <2>1
    <2>. QED
      BY <1>3, <2>2
  <1>. QED
    BY <1>2, <1>3, <1>4 DEF SortedDir

(* A root over the chunks of es.                                           *)
RootOf(R, es, n, lo, hi) ==
    /\ SortedDir(R) /\ Len(R) = n
    /\ \A c \in 1..n : R[c].run_length = 0 /\ R[c].tile_id = es[lo[c] + 1].tile_id

(* split_directory: a root with an entry for each part leads every id to   *)
(* the part that has its entry, or says that there is none.                *)
LEMMA TwoLevels ==
    ASSUME NEW es, SortedDir(es), NEW n, NEW lo, NEW hi, CutsAt(n, lo, hi, Len(es)),
           NEW R, RootOf(R, es, n, lo, hi), NEW id \in Nat
    PROVE  \/ FindEntry(R, id) = None /\ FindEntry(es, id) = None
           \/ \E c \in 1..n : /\ FindEntry(R, id) = R[c]
                              /\ FindEntry(SubSeq(es, lo[c] + 1, hi[c]), id) = FindEntry(es, id)
  <1>0. PICK N \in Nat : /\ N = Len(es) /\ \A i \in 1..N : es[i].tile_id \in Nat
                         /\ \A i, j \in 1..N : i < j => es[i].tile_id < es[j].tile_id
    BY SortedTypes
  <1>1. /\ n \in Nat
        /\ \A c \in 1..n : lo[c] \in 0..N /\ hi[c] \in 1..N /\ lo[c] < hi[c]
        /\ \A c, d \in 1..n : c < d => hi[c] <= lo[d]
        /\ \A i \in 1..N : \E c \in 1..n : lo[c] < i /\ i <= hi[c]
    BY <1>0 DEF CutsAt
  <1>2. /\ SortedDir(R) /\ Len(R) = n
        /\ \A c \in 1..n : R[c].run_length = 0 /\ R[c].tile_id = es[lo[c] + 1].tile_id
    BY DEF RootOf
  <1>3. \A c \in 1..n : lo[c] + 1 \in 1..N
    <2>. SUFFICES ASSUME NEW c \in 1..n
                  PROVE  lo[c] + 1 \in 1..N
      OBVIOUS
    <2>1. PICK a \in 0..N, z \in 1..N : a = lo[c] /\ z = hi[c] /\ a < z
      BY <1>1
    <2>2. a + 1 \in 1..N
      BY <1>0, <2>1
    <2>. QED
      BY <2>1, <2>2
  <1>4. CASE After(es, 0, id)
    <2>1. After(R, 0, id)
      BY <1>0, <1>2, <1>3, <1>4 DEF After
    <2>. QED
      BY <1>2, <1>4, <2>1, FindNone
  <1>5. ASSUME NEW i \in 1..N, es[i].tile_id <= id, After(es, i, id)
        PROVE  \E c \in 1..n : /\ FindEntry(R, id) = R[c]
                               /\ FindEntry(SubSeq(es, lo[c] + 1, hi[c]), id) = FindEntry(es, id)
    <2>1. PICK c \in 1..n : lo[c] < i /\ i <= hi[c]
      BY <1>1
    <2>2. PICK a \in 0..N, z \in 1..N : a = lo[c] /\ z = hi[c] /\ a < i /\ i <= z
      BY <1>1, <2>1
    <2>3. R[c].tile_id <= id
      <3>1. a + 1 \in 1..N /\ (a + 1 < i \/ a + 1 = i)
        BY <2>2
      <3>2. es[a + 1].tile_id <= es[i].tile_id
        BY <1>0, <3>1
      <3>3. es[a + 1].tile_id \in Nat /\ es[i].tile_id \in Nat
        BY <1>0, <3>1
      <3>4. R[c].tile_id = es[a + 1].tile_id
        BY <1>2, <2>2
      <3>5. es[i].tile_id <= id
        BY <1>5
      <3>. QED
        BY <3>2, <3>3, <3>4, <3>5
    <2>4. After(R, c, id)
      <3>. SUFFICES ASSUME NEW d \in 1..n, d > c
                    PROVE  id < R[d].tile_id
        BY <1>2 DEF After
      <3>1. z <= lo[d] /\ lo[d] + 1 \in 1..N
        BY <1>1, <1>3, <2>2
      <3>2. lo[d] + 1 > i
        <4>1. PICK p \in 0..N : p = lo[d]
          BY <1>1
        <4>2. z <= p /\ i <= z
          BY <2>2, <3>1, <4>1
        <4>3. p + 1 > i
          BY <4>2
        <4>. QED
          BY <4>1, <4>3
      <3>3. id < es[lo[d] + 1].tile_id
        BY <1>0, <1>5, <3>1, <3>2 DEF After
      <3>. QED
        BY <1>2, <3>3
    <2>5. FindEntry(R, id) = R[c]
      <3>1. FindEntry(R, id) = Answer(R[c], id)
        BY <1>2, <2>3, <2>4, FindAt
      <3>2. IsLeaf(R[c])
        BY <1>2 DEF IsLeaf
      <3>. QED
        BY <3>1, <3>2 DEF Answer
    <2>6. PICK s : s = SubSeq(es, a + 1, z)
      OBVIOUS
    <2>7. SortedDir(s) /\ Len(s) = z - a /\ \A j \in 1..(z - a) : s[j] = es[a + j]
      <3>1. a \in 0..Len(es) /\ z \in 1..Len(es) /\ a < z
        BY <1>0, <2>2
      <3>. QED
        BY <2>6, <3>1, ChunkIs
    <2>8. PICK j \in 1..(z - a) : i = a + j /\ s[j] = es[i]
      <3>1. i - a \in 1..(z - a) /\ a + (i - a) = i
        BY <2>2
      <3>. QED
        BY <2>7, <3>1
    <2>9. After(s, j, id)
      <3>. SUFFICES ASSUME NEW m \in 1..(z - a), m > j
                    PROVE  id < s[m].tile_id
        BY <2>7 DEF After
      <3>1. a + m \in 1..N /\ a + m > i
        <4>1. i = a + j /\ a \in Nat /\ z \in Nat /\ z <= N
          BY <2>8
        <4>. QED
          BY <4>1
      <3>2. id < es[a + m].tile_id
        BY <1>0, <1>5, <3>1 DEF After
      <3>. QED
        BY <2>7, <3>2
    <2>10. FindEntry(s, id) = Answer(es[i], id)
      BY <1>5, <2>7, <2>8, <2>9, FindAt
    <2>11. FindEntry(es, id) = Answer(es[i], id)
      BY <1>0, <1>5, FindAt
    <2>. QED
      BY <2>2, <2>5, <2>6, <2>10, <2>11
  <1>. QED
    BY <1>0, <1>4, <1>5, FindCases

-----------------------------------------------------------------------------
(* The directory of a leaf in the leaves' bytes L.                         *)
LeafOf(L, e) == ParseDirectory(SubSeq(L, e.offset + 1, e.offset + e.length))

(* Entries of tiles, none of a leaf.                                       *)
TileDir(es) == SortedDir(es) /\ \A i \in 1..Len(es) : es[i].run_length # 0

(* The leaf e points to is in L, starts with the id e has and has entries  *)
(* of tiles only.                                                          *)
LeafIsGood(L, e) ==
    /\ e.offset + e.length <= Len(L)
    /\ TileDir(LeafOf(L, e)) /\ LeafOf(L, e)[1].tile_id = e.tile_id

(* Through the root R and the leaves L an id finds what it finds in es.    *)
Leads(L, R, es, id) ==
    IF InLeaf(FindEntry(R, id)) THEN FindEntry(LeafOf(L, FindEntry(R, id)), id) = FindEntry(es, id)
    ELSE FindEntry(R, id) = FindEntry(es, id)

(* A root directory and leaves that answer what the entries do.            *)
GoodDirs(es, r, L) ==
    /\ r \in Seq(Nat) /\ L \in Seq(Nat) /\ SortedDir(ParseDirectory(r))
    /\ \A c \in 1..Len(ParseDirectory(r)) :
           IsLeaf(ParseDirectory(r)[c]) => LeafIsGood(L, ParseDirectory(r)[c])
    /\ \A c, d \in 1..Len(ParseDirectory(r)) :
           IsLeaf(ParseDirectory(r)[c]) /\ c < d =>
               ParseDirectory(r)[c].offset < ParseDirectory(r)[d].offset
    /\ \A id \in Nat : Leads(L, ParseDirectory(r), es, id)

(* What find_entry returns is an entry of the directory.                   *)
LEMMA FoundIsThere ==
    ASSUME NEW es, SortedDir(es), NEW id \in Nat
    PROVE  FindEntry(es, id) = None \/ \E i \in 1..Len(es) : FindEntry(es, id) = es[i]
  <1>1. CASE After(es, 0, id)
    BY <1>1, FindNone
  <1>2. ASSUME NEW i \in 1..Len(es), es[i].tile_id <= id, After(es, i, id)
        PROVE  FindEntry(es, id) = None \/ \E j \in 1..Len(es) : FindEntry(es, id) = es[j]
    <2>1. FindEntry(es, id) = Answer(es[i], id)
      BY <1>2, FindAt
    <2>. QED
      BY <2>1 DEF Answer
  <1>. QED
    BY <1>1, <1>2, FindCases

(* Entries of tiles lead to no leaf.                                       *)
LEMMA NoneInLeaf ==
    ASSUME NEW es, TileDir(es), NEW id \in Nat
    PROVE  ~InLeaf(FindEntry(es, id))
  <1>1. SortedDir(es) /\ \A i \in 1..Len(es) : es[i].run_length # 0
    BY DEF TileDir
  <1>2. FindEntry(es, id) = None \/ \E i \in 1..Len(es) : FindEntry(es, id) = es[i]
    BY <1>1, FoundIsThere
  <1>. QED
    BY <1>1, <1>2 DEF InLeaf, IsLeaf

(* A directory in one piece finds what its entries do.                     *)
LEMMA WholeIsGood ==
    ASSUME NEW es, TileDir(es)
    PROVE  GoodDirs(es, Serialize(es), <<>>)
  <1>1. SortedDir(es) /\ \A i \in 1..Len(es) : es[i].run_length # 0
    BY DEF TileDir
  <1>2. PICK r : r = Serialize(es) /\ ParseDirectory(r) = es /\ r \in Seq(Nat)
    BY <1>1, ParseSerialize
  <1>3. \A id \in Nat : Leads(<<>>, es, es, id)
    BY NoneInLeaf DEF Leads
  <1>4. \A c \in 1..Len(es) : ~IsLeaf(es[c])
    BY <1>1 DEF IsLeaf
  <1>5. <<>> \in Seq(Nat)
    OBVIOUS
  <1>. QED
    BY <1>1, <1>2, <1>3, <1>4, <1>5 DEF GoodDirs

(* A directory has bytes, even one without an entry.                       *)
LEMMA SerializeIsNotEmpty ==
    ASSUME NEW es, SortedDir(es)
    PROVE  Serialize(es) \in Seq(Nat) /\ Len(Serialize(es)) \in Nat \ {0}
  <1>1. Holds(Serialize(es), AllNumbers(es)) /\ NumbersOfDir(es, Len(es), AllNumbers(es))
    BY SerializeHolds, NumbersOfDirAre
  <1>2. Serialize(es) \in Seq(Nat) /\ Len(es) \in Nat
    BY <1>1 DEF Holds, Ended, NumbersOfDir
  <1>3. Serialize(es) # <<>>
    <2>. SUFFICES ASSUME Serialize(es) = <<>>
                  PROVE  FALSE
      OBVIOUS
    <2>1. AllNumbers(es) = <<>>
      BY <1>1, HoldsNothing DEF Holds
    <2>2. Len(AllNumbers(es)) = 0
      BY <2>1
    <2>. QED
      BY <1>1, <1>2, <2>2 DEF NumbersOfDir
  <1>. QED
    BY <1>2, <1>3

(* So does one cut into leaves of any size.                                *)
LEMMA SplitIsGood ==
    ASSUME NEW es, TileDir(es), NEW s \in Nat \ {0}
    PROVE  /\ GoodDirs(es, Split(es, s).root, Split(es, s).leaves)
           /\ Len(es) <= s => Split(es, s).count <= 1
  <1>0. SortedDir(es) /\ \A i \in 1..Len(es) : es[i].run_length # 0
    BY DEF TileDir
  <1>1. PICK N \in Nat : /\ N = Len(es) /\ \A i \in 1..N : es[i].tile_id \in Nat
                         /\ \A i, j \in 1..N : i < j => es[i].tile_id < es[j].tile_id
    BY <1>0, SortedTypes
  <1>2. PICK n, lo, hi : /\ CutsAt(n, lo, hi, N)
                         /\ Chunks(es, s) = [c \in 1..n |-> SubSeq(es, lo[c] + 1, hi[c])]
                         /\ N <= s => n <= 1
    BY <1>1, ChunksAre
  <1>3. /\ n \in Nat
        /\ \A c \in 1..n : lo[c] \in 0..N /\ hi[c] \in 1..N /\ lo[c] < hi[c]
        /\ \A c, d \in 1..n : c < d => hi[c] <= lo[d]
    BY <1>2 DEF CutsAt
  <1>4. PICK chunks : chunks = Chunks(es, s) /\ chunks = [c \in 1..n |-> SubSeq(es, lo[c] + 1, hi[c])]
    BY <1>2
  <1>5. ASSUME NEW c \in 1..n
        PROVE  /\ TileDir(chunks[c]) /\ chunks[c][1].tile_id = es[lo[c] + 1].tile_id
               /\ lo[c] + 1 \in 1..N
    <2>1. PICK a \in 0..N, z \in 1..N : a = lo[c] /\ z = hi[c] /\ a < z
      BY <1>3
    <2>2. PICK u : u = chunks[c] /\ u = SubSeq(es, a + 1, z)
      BY <1>4, <2>1
    <2>3. SortedDir(u) /\ Len(u) = z - a /\ \A j \in 1..(z - a) : u[j] = es[a + j]
      <3>1. a \in 0..Len(es) /\ z \in 1..Len(es) /\ a < z
        BY <1>1, <2>1
      <3>. QED
        BY <1>0, <2>2, <3>1, ChunkIs
    <2>4. \A j \in 1..(z - a) : a + j \in 1..N
      BY <2>1
    <2>5. TileDir(u)
      BY <1>0, <1>1, <2>3, <2>4 DEF TileDir
    <2>6. 1 \in 1..(z - a)
      BY <2>1
    <2>. QED
      BY <2>1, <2>2, <2>3, <2>4, <2>5, <2>6
  <1>6. PICK ls : ls = [c \in 1..n |-> Serialize(chunks[c])]
    OBVIOUS
  <1>7. /\ ls \in Seq(Seq(Nat)) /\ Len(ls) = n
        /\ \A c \in 1..n : Len(ls[c]) \in Nat \ {0} /\ ParseDirectory(ls[c]) = chunks[c]
    <2>1. \A c \in 1..n : SortedDir(chunks[c])
      BY <1>5 DEF TileDir
    <2>2. \A c \in 1..n : ls[c] = Serialize(chunks[c])
      BY <1>6
    <2>3. \A c \in 1..n : /\ ls[c] \in Seq(Nat) /\ Len(ls[c]) \in Nat \ {0}
                          /\ ParseDirectory(ls[c]) = chunks[c]
      BY <2>1, <2>2, ParseSerialize, SerializeIsNotEmpty
    <2>4. ls \in [1..n -> Seq(Nat)]
      BY <1>6, <2>3
    <2>5. ls \in Seq(Seq(Nat))
      BY <1>3, <2>4, SeqDef
    <2>6. Len(ls) = n
      BY <1>3, <2>4
    <2>. QED
      BY <2>3, <2>5, <2>6
  <1>8. PICK at : at = [c \in 1..n |-> Len(Leading(ls, c - 1))]
    OBVIOUS
  <1>9. ASSUME NEW c \in 1..n
        PROVE  /\ at[c] \in Nat
               /\ at[c] + Len(ls[c]) <= Len(FlattenSeq(ls))
               /\ SubSeq(FlattenSeq(ls), at[c] + 1, at[c] + Len(ls[c])) = ls[c]
               /\ \A d \in 1..n : c < d => at[c] < at[d]
    <2>1. c \in 1..Len(ls)
      BY <1>7
    <2>2. PICK a, l : a = at[c] /\ l = Len(ls[c]) /\ a = Len(Leading(ls, c - 1))
      BY <1>8
    <2>3. /\ a \in Nat
          /\ \A d \in c..Len(ls) : a + l <= Len(Leading(ls, d))
          /\ a + l <= Len(FlattenSeq(ls))
          /\ SubSeq(FlattenSeq(ls), a + 1, a + l) = ls[c]
      BY <1>7, <2>1, <2>2, Slices
    <2>4. ASSUME NEW d \in 1..n, c < d
          PROVE  a < at[d]
      <3>1. d - 1 \in c..n /\ d - 1 \in 0..n
        BY <1>3, <2>4
      <3>2. a + l <= Len(Leading(ls, d - 1))
        BY <1>7, <2>3, <3>1
      <3>3. at[d] = Len(Leading(ls, d - 1)) /\ Len(Leading(ls, d - 1)) \in Nat
        <4>1. Leading(ls, d - 1) \in Seq(Nat)
          BY <1>7, <3>1, FrontSteps
        <4>. QED
          BY <1>8, <4>1
      <3>4. l \in Nat \ {0}
        BY <1>7, <2>2
      <3>. QED
        BY <2>3, <3>2, <3>3, <3>4
    <2>. QED
      BY <2>2, <2>3, <2>4
  <1>10. PICK P : P = [c \in 1..n |-> Entry(es[lo[c] + 1].tile_id, at[c], Len(ls[c]), 0)]
    OBVIOUS
  <1>11. ASSUME NEW c \in 1..n
         PROVE  /\ P[c] \in DirEntries /\ P[c].run_length = 0 /\ P[c].offset = at[c]
                /\ P[c].length = Len(ls[c]) /\ P[c].tile_id = es[lo[c] + 1].tile_id
    <2>1. es[lo[c] + 1].tile_id \in Nat /\ at[c] \in Nat /\ Len(ls[c]) \in Nat
      BY <1>1, <1>5, <1>7, <1>9
    <2>. QED
      BY <1>10, <2>1 DEF Entry, DirEntries
  <1>12. SortedDir(P) /\ Len(P) = n
    <2>1. P \in [1..n -> DirEntries]
      BY <1>10, <1>11
    <2>2. P \in Seq(DirEntries)
      BY <1>3, <2>1, SeqDef
    <2>3. Len(P) = n
      BY <1>3, <2>1
    <2>4. ASSUME NEW c \in 1..n, NEW d \in 1..n, c < d
          PROVE  P[c].tile_id < P[d].tile_id
      <3>1. lo[c] + 1 \in 1..N /\ lo[d] + 1 \in 1..N /\ lo[c] + 1 < lo[d] + 1
        BY <1>3, <2>4
      <3>. QED
        BY <1>1, <1>11, <3>1
    <2>. QED
      BY <2>2, <2>3, <2>4 DEF SortedDir
  <1>13. PICK dirs : /\ dirs = Split(es, s) /\ dirs.root = Serialize(P)
                     /\ dirs.leaves = FlattenSeq(ls) /\ dirs.count = n
    <2>1. DOMAIN chunks = 1..n /\ Len(chunks) = n
      BY <1>3, <1>4
    <2>2. Split(es, s) = Pack(chunks, ls)
      BY <1>4, <1>6, <2>1 DEF Split
    <2>3. \A c \in 1..n : Entry(chunks[c][1].tile_id, Len(FlattenSeq(SubSeq(ls, 1, c - 1))), Len(ls[c]), 0)
                              = P[c]
      BY <1>5, <1>8, <1>10 DEF Leading
    <2>4. [c \in 1..n |-> Entry(chunks[c][1].tile_id, Len(FlattenSeq(SubSeq(ls, 1, c - 1))), Len(ls[c]), 0)]
              = P
      BY <1>10, <2>3
    <2>5. Pack(chunks, ls) = [root |-> Serialize(P), leaves |-> FlattenSeq(ls), count |-> n]
      BY <2>1, <2>4 DEF Pack
    <2>. QED
      BY <2>2, <2>5
  <1>14. PICK L : L = FlattenSeq(ls) /\ L \in Seq(Nat)
    BY <1>7, Flattened
  <1>15. PICK r : r = Serialize(P) /\ r \in Seq(Nat) /\ ParseDirectory(r) = P
    BY <1>12, ParseSerialize
  <1>16. ASSUME NEW c \in 1..n
         PROVE  LeafIsGood(L, P[c]) /\ LeafOf(L, P[c]) = chunks[c]
    <2>1. PICK e : /\ e = P[c] /\ e.offset = at[c] /\ e.length = Len(ls[c])
                   /\ e.tile_id = es[lo[c] + 1].tile_id
      BY <1>11
    <2>2. SubSeq(L, e.offset + 1, e.offset + e.length) = ls[c] /\ e.offset + e.length <= Len(L)
      BY <1>9, <1>14, <2>1
    <2>3. LeafOf(L, e) = chunks[c]
      BY <1>7, <2>2 DEF LeafOf
    <2>. QED
      BY <1>5, <2>1, <2>2, <2>3 DEF LeafIsGood
  <1>17. RootOf(P, es, n, lo, hi)
    BY <1>11, <1>12 DEF RootOf
  <1>18. ASSUME NEW id \in Nat
         PROVE  Leads(L, P, es, id)
    <2>1. \/ FindEntry(P, id) = None /\ FindEntry(es, id) = None
          \/ \E c \in 1..n : /\ FindEntry(P, id) = P[c]
                             /\ FindEntry(SubSeq(es, lo[c] + 1, hi[c]), id) = FindEntry(es, id)
      BY <1>0, <1>1, <1>2, <1>17, TwoLevels
    <2>2. CASE FindEntry(P, id) = None /\ FindEntry(es, id) = None
      BY <2>2 DEF Leads, InLeaf
    <2>3. ASSUME NEW c \in 1..n, FindEntry(P, id) = P[c],
                 FindEntry(SubSeq(es, lo[c] + 1, hi[c]), id) = FindEntry(es, id)
          PROVE  Leads(L, P, es, id)
      <3>1. InLeaf(P[c])
        BY <1>11, CodecAssumption DEF InLeaf, IsLeaf
      <3>2. LeafOf(L, P[c]) = SubSeq(es, lo[c] + 1, hi[c])
        BY <1>4, <1>16
      <3>. QED
        BY <2>3, <3>1, <3>2 DEF Leads
    <2>. QED
      BY <2>1, <2>2, <2>3
  <1>19. \A c, d \in 1..n : c < d => P[c].offset < P[d].offset
    BY <1>9, <1>11
  <1>20. GoodDirs(es, r, L)
    BY <1>12, <1>14, <1>15, <1>16, <1>18, <1>19 DEF GoodDirs
  <1>. QED
    BY <1>1, <1>2, <1>13, <1>14, <1>15, <1>20

(* The leaves of the first size tried are not empty.                       *)
LEMMA LeafSizeIs ==
    ASSUME NEW es, TileDir(es)
    PROVE  LeafSize(es) \in Nat \ {0}
  <1>0. PICK N \in Nat : N = Len(es)
    BY SortedTypes DEF TileDir
  <1>1. PICK F \in Nat \ {0} : F = FirstLeafSize(es)
    <2>1. N \div LeafShare \in Nat /\ MinLeaf \in Nat \ {0}
      BY CodecAssumption, DivisionOfNat
    <2>. QED
      BY <1>0, <2>1 DEF FirstLeafSize
  <1>. DEFINE Ks == {k \in 0..N : Fits(Split(es, F * 2^k))}
  <1>2. \A k \in Nat : 2^k \in Nat \ {0} /\ k <= 2^k
    BY PowersGrow
  <1>3. \A x, y \in Nat \ {0} : x * y \in Nat \ {0} /\ y <= x * y
    BY SMT
  <1>4. N \in Ks
    <2>1. PICK p \in Nat \ {0} : p = 2^N /\ N <= p
      BY <1>2
    <2>2. PICK q \in Nat \ {0} : q = F * p /\ p <= q
      BY <1>3
    <2>3. Split(es, q).count <= 1
      BY <1>0, <2>1, <2>2, SplitIsGood
    <2>4. Fits(Split(es, F * 2^N))
      BY <2>1, <2>2, <2>3 DEF Fits
    <2>. QED
      BY <2>4
  <1>5. Min(Ks) \in Ks
    <2>1. Ks \in SUBSET Nat /\ Ks # {}
      BY <1>4
    <2>. HIDE DEF Ks
    <2>. QED
      BY <2>1, LeastIs
  <1>6. PICK k \in Nat : k = Min(Ks)
    BY <1>5
  <1>7. LeafSize(es) = F * 2^k
    BY <1>0, <1>1, <1>6 DEF LeafSize
  <1>. QED
    BY <1>2, <1>3, <1>7

(* build_directories (util/src/pmtiles.rs): the root alone, or the root    *)
(* and the leaves it leads to, answer every id as the entries do, whatever *)
(* leaf size the root fits with.                                           *)
THEOREM DirectoriesAreGood ==
    ASSUME NEW es, TileDir(es)
    PROVE  GoodDirs(es, Directories(es).root, Directories(es).leaves)
  <1>1. CASE Len(Serialize(es)) <= RootMax
    <2>1. Directories(es) = [root |-> Serialize(es), leaves |-> <<>>, count |-> 0]
      BY <1>1 DEF Directories
    <2>. QED
      BY <2>1, WholeIsGood
  <1>2. CASE ~(Len(Serialize(es)) <= RootMax)
    <2>1. Directories(es) = Split(es, LeafSize(es))
      BY <1>2 DEF Directories
    <2>. QED
      BY <2>1, LeafSizeIs, SplitIsGood
  <1>. QED
    BY <1>1, <1>2

-----------------------------------------------------------------------------
(* What an entry does to the runs so far.                                  *)
Absorb(runs, e) ==
    IF runs # <<>> /\ Extends(Last(runs), e)
    THEN [runs EXCEPT ![Len(runs)].run_length = @ + 1]
    ELSE Append(runs, e)

(* g has the runs of the first entries, one entry after the other.         *)
RunsIter(es, S, g) ==
    g = [s \in SUBSET S |-> IF s = {} THEN <<>> ELSE Absorb(g[s \ {Max(s)}], es[Max(s)])]

(* Runs is the fold over the entries.                                      *)
LEMMA RunsIterIs ==
    ASSUME NEW es
    PROVE  Runs(es) = (CHOOSE g : RunsIter(es, DOMAIN es, g))[DOMAIN es]
  BY Zenon DEF Runs, FoldLeft, MapThenFoldSet, RunsIter, Absorb

(* The fold exists for as many entries as there are.                       *)
LEMMA RunsIterExists ==
    ASSUME NEW es, NEW S, S \subseteq Int, IsFiniteSet(S)
    PROVE  \E g : RunsIter(es, S, g)
  <1>. DEFINE Good == {s \in SUBSET S : \E g : RunsIter(es, s, g)}
  <1>1. {} \in Good
    <2>1. PICK g : g = [s \in SUBSET {} |-> <<>>]
      OBVIOUS
    <2>2. SUBSET {} = {{}}
      OBVIOUS
    <2>3. RunsIter(es, {}, g)
      BY <2>1, <2>2 DEF RunsIter
    <2>. QED
      BY <2>3
  <1>2. ASSUME NEW s \in SUBSET S, s # {}, \A x \in s : s \ {x} \in Good
        PROVE  s \in Good
    <2>1. PICK m : m = Max(s) /\ m \in s /\ \A y \in s : m >= y
      <3>1. s \in SUBSET Int /\ IsFiniteSet(s)
        BY FS_Subset
      <3>. QED
        BY <1>2, <3>1, GreatestIs
    <2>2. PICK g : RunsIter(es, s \ {m}, g)
      BY <1>2, <2>1
    <2>3. PICK f : f = [u \in SUBSET s |-> IF m \in u THEN Absorb(g[u \ {m}], es[m]) ELSE g[u]]
      OBVIOUS
    <2>4. ASSUME NEW u \in SUBSET s
          PROVE  f[u] = IF u = {} THEN <<>> ELSE Absorb(f[u \ {Max(u)}], es[Max(u)])
      <3>1. CASE m \in u
        <4>1. Max(u) = m
          <5>1. u \in SUBSET Int /\ IsFiniteSet(u) /\ u # {}
            BY <3>1, FS_Subset
          <5>2. PICK x : x = Max(u) /\ x \in u /\ x >= m
            BY <3>1, <5>1, GreatestIs
          <5>3. m >= x /\ m \in Int /\ x \in Int
            BY <2>1, <5>1, <5>2
          <5>. QED
            BY <5>2, <5>3
        <4>2. u \ {m} \in SUBSET s /\ m \notin u \ {m}
          OBVIOUS
        <4>3. f[u \ {m}] = g[u \ {m}]
          BY <2>3, <4>2
        <4>4. f[u] = Absorb(g[u \ {m}], es[m])
          BY <2>3, <3>1
        <4>. QED
          BY <3>1, <4>1, <4>3, <4>4
      <3>2. CASE m \notin u
        <4>1. u \in SUBSET (s \ {m}) /\ u \ {Max(u)} \in SUBSET s /\ m \notin u \ {Max(u)}
          BY <3>2
        <4>2. f[u] = g[u] /\ f[u \ {Max(u)}] = g[u \ {Max(u)}]
          BY <2>3, <3>2, <4>1
        <4>3. g[u] = IF u = {} THEN <<>> ELSE Absorb(g[u \ {Max(u)}], es[Max(u)])
          BY <2>2, <4>1, Zenon DEF RunsIter
        <4>. QED
          BY <4>2, <4>3
      <3>. QED
        BY <3>1, <3>2
    <2>5. f = [u \in SUBSET s |-> f[u]]
      BY <2>3
    <2>6. f = [u \in SUBSET s |-> IF u = {} THEN <<>> ELSE Absorb(f[u \ {Max(u)}], es[Max(u)])]
      BY <2>4, <2>5
    <2>7. RunsIter(es, s, f)
      BY <2>6 DEF RunsIter
    <2>. QED
      BY <2>7
  <1>. HIDE DEF Good
  <1>3. \A s \in SUBSET S : s \in Good
    BY <1>1, <1>2, SetInduction, Zenon
  <1>4. S \in SUBSET S
    OBVIOUS
  <1>. QED
    BY <1>3, <1>4 DEF Good

(* The runs after each of the entries.                                     *)
Absorbs(es, n, R) == R[0] = <<>> /\ \A k \in 1..n : R[k] = Absorb(R[k - 1], es[k])

(* The runs of the first k entries, each from those of k - 1.              *)
LEMMA RunsUpto ==
    ASSUME NEW es, NEW n \in Nat, DOMAIN es = 1..n
    PROVE  \E R : Absorbs(es, n, R) /\ Runs(es) = R[n]
  <1>1. PICK g : RunsIter(es, 1..n, g) /\ Runs(es) = g[1..n]
    <2>1. IsFiniteSet(1..n) /\ 1..n \subseteq Int
      BY FS_Interval
    <2>2. \E g : RunsIter(es, 1..n, g)
      BY <2>1, RunsIterExists
    <2>3. Runs(es) = (CHOOSE g : RunsIter(es, 1..n, g))[1..n]
      BY RunsIterIs
    <2>. QED
      BY <2>2, <2>3, Zenon
  <1>2. PICK R : R = [k \in 0..n |-> g[1..k]]
    OBVIOUS
  <1>3. R[0] = <<>> /\ R[n] = Runs(es)
    <2>1. 1..0 = {} /\ {} \in SUBSET (1..n) /\ 0 \in 0..n /\ n \in 0..n
      OBVIOUS
    <2>2. g[{}] = <<>>
      BY <1>1, <2>1, Zenon DEF RunsIter
    <2>. QED
      BY <1>1, <1>2, <2>1, <2>2
  <1>4. ASSUME NEW k \in 1..n
        PROVE  R[k] = Absorb(R[k - 1], es[k])
    <2>1. 1..k \in SUBSET (1..n) /\ 1..k # {} /\ (1..k) \ {k} = 1..(k - 1) /\ k \in 1..k
      OBVIOUS
    <2>2. Max(1..k) = k
      <3>1. IsFiniteSet(1..k) /\ 1..k \in SUBSET Int
        BY FS_Interval
      <3>2. PICK m : m = Max(1..k) /\ m \in 1..k /\ m >= k
        BY <2>1, <3>1, GreatestIs
      <3>. QED
        BY <3>2
    <2>3. g[1..k] = Absorb(g[(1..k) \ {Max(1..k)}], es[Max(1..k)])
      BY <1>1, <2>1, Zenon DEF RunsIter
    <2>4. g[1..k] = Absorb(g[1..(k - 1)], es[k])
      BY <2>1, <2>2, <2>3
    <2>5. k \in 0..n /\ k - 1 \in 0..n
      OBVIOUS
    <2>. QED
      BY <1>2, <2>4, <2>5
  <1>. QED
    BY <1>3, <1>4 DEF Absorbs

-----------------------------------------------------------------------------
(* Entries of one tile each, with one length for each offset.              *)
Plain(es) ==
    /\ SortedDir(es)
    /\ \A i \in 1..Len(es) : es[i].run_length = 1
    /\ \A i, j \in 1..Len(es) : es[i].offset = es[j].offset => es[i].length = es[j].length

(* id is one of the ids of the run r.                                      *)
InRun(r, id) == r.tile_id <= id /\ id < r.tile_id + r.run_length

(* The runs of the first k entries.                                        *)
RunsTyped(rs) == rs \in Seq(DirEntries) /\ \A r \in 1..Len(rs) : rs[r].run_length # 0

(* No id is of two runs.                                                   *)
RunsApart(rs) ==
    \A r, q \in 1..Len(rs) : r < q => rs[r].tile_id + rs[r].run_length <= rs[q].tile_id

(* Each of the first k entries is in a run of its content.                 *)
RunsHave(es, k, rs) ==
    \A i \in 1..k : \E r \in 1..Len(rs) : /\ InRun(rs[r], es[i].tile_id)
                                        /\ rs[r].offset = es[i].offset /\ rs[r].length = es[i].length

(* The runs have no other id.                                              *)
RunsOnly(es, k, rs) ==
    \A r \in 1..Len(rs) : \A id \in Nat : InRun(rs[r], id) => \E i \in 1..k : es[i].tile_id = id

(* The last run ends with the k-th entry.                                  *)
RunsEnd(es, k, rs) ==
    IF k = 0 THEN rs = <<>>
    ELSE /\ Len(rs) > 0 /\ rs[Len(rs)].offset = es[k].offset /\ rs[Len(rs)].length = es[k].length
         /\ rs[Len(rs)].tile_id + rs[Len(rs)].run_length = es[k].tile_id + 1

(* All of it: what the loop of finish (build_tiles/src/tiler/pmtiles.rs)   *)
(* keeps true of the runs.                                                 *)
RunsAre(es, k, rs) ==
    /\ RunsTyped(rs) /\ RunsApart(rs) /\ RunsHave(es, k, rs)
    /\ RunsOnly(es, k, rs) /\ RunsEnd(es, k, rs)

(* An entry whose id does not come next after the previous one's, or whose *)
(* offset is another, starts a run.                                        *)
Continues(es, k) == k > 1 /\ es[k - 1].offset = es[k].offset /\ es[k - 1].tile_id + 1 = es[k].tile_id

(* What the entries are before they are joined to runs.                    *)
LEMMA PlainTypes ==
    ASSUME NEW es, Plain(es), NEW k \in 1..Len(es)
    PROVE  /\ es[k] \in DirEntries /\ es[k].tile_id \in Nat /\ es[k].offset \in Nat
           /\ es[k].length \in Nat /\ es[k].run_length = 1
           /\ \A i \in 1..Len(es) : i < k => es[i].tile_id \in Nat /\ es[i].tile_id < es[k].tile_id
           /\ \A i \in 1..Len(es) : es[i].offset = es[k].offset => es[i].length = es[k].length
  BY SortedTypes DEF Plain

(* An entry joins the last run if it is the next id of the same content,   *)
(* and only then.                                                          *)
LEMMA AbsorbJoins ==
    ASSUME NEW es, Plain(es), NEW k \in 1..Len(es), NEW rs, RunsAre(es, k - 1, rs)
    PROVE  /\ RunsTyped(rs) /\ Len(rs) \in Nat
           /\ (rs # <<>> /\ Extends(Last(rs), es[k])) <=> Continues(es, k)
           /\ Continues(es, k) => Len(rs) > 0 /\ rs[Len(rs)].tile_id + rs[Len(rs)].run_length = es[k].tile_id
                                /\ rs[Len(rs)].offset = es[k].offset /\ rs[Len(rs)].length = es[k].length
  <1>1. RunsTyped(rs) /\ Len(rs) \in Nat /\ RunsEnd(es, k - 1, rs)
    BY DEF RunsAre, RunsTyped
  <1>2. CASE k = 1
    <2>1. rs = <<>>
      BY <1>1, <1>2 DEF RunsEnd
    <2>. QED
      BY <1>1, <1>2, <2>1 DEF Continues
  <1>3. CASE k # 1
    <2>1. PICK j \in 1..Len(es) : j = k - 1 /\ j > 0 /\ k > 1
      BY <1>3 DEF Plain, SortedDir
    <2>2. PICK l : /\ l = Last(rs) /\ l = rs[Len(rs)] /\ Len(rs) > 0 /\ rs # <<>>
                   /\ l.offset = es[j].offset /\ l.length = es[j].length
                   /\ l.tile_id + l.run_length = es[j].tile_id + 1
      BY <1>1, <2>1 DEF RunsEnd, Last
    <2>3. es[j].offset = es[k].offset => es[j].length = es[k].length
      BY <2>1, PlainTypes
    <2>4. Extends(l, es[k]) <=> Continues(es, k)
      BY <2>1, <2>2 DEF Extends, Continues
    <2>. QED
      BY <1>1, <2>1, <2>2, <2>3, <2>4 DEF Continues
  <1>. QED
    BY <1>2, <1>3

(* An entry that joins the last run keeps the runs right.                  *)
LEMMA RunsExtended ==
    ASSUME NEW es, Plain(es), NEW k \in 1..Len(es), NEW rs, RunsAre(es, k - 1, rs), Continues(es, k),
           NEW new, new = [rs EXCEPT ![Len(rs)].run_length = @ + 1]
    PROVE  RunsAre(es, k, new) /\ Len(new) = Len(rs)
  <1>1. PICK n \in Nat : /\ n = Len(rs) /\ n > 0 /\ RunsTyped(rs)
                         /\ rs[n].tile_id + rs[n].run_length = es[k].tile_id
                         /\ rs[n].offset = es[k].offset /\ rs[n].length = es[k].length
    BY AbsorbJoins
  <1>2. rs \in Seq(DirEntries) /\ \A r \in 1..n : rs[r] \in DirEntries
    BY <1>1 DEF RunsTyped
  <1>a. PICK o \in DirEntries : o = rs[n]
    <2>1. n \in 1..n
      BY <1>1
    <2>. QED
      BY <1>2, <2>1
  <1>b. PICK a \in Nat, m \in Nat : a = o.tile_id /\ m = o.run_length
    BY DEF DirEntries
  <1>c. PICK l : l = [o EXCEPT !.run_length = @ + 1]
    OBVIOUS
  <1>3. /\ l \in DirEntries /\ l.tile_id = a /\ l.offset = o.offset
        /\ l.length = o.length /\ l.run_length = m + 1
    BY <1>b, <1>c DEF DirEntries
  <1>4. new \in Seq(DirEntries) /\ Len(new) = n /\ new[n] = l /\ \A r \in 1..(n - 1) : new[r] = rs[r]
    <2>1. new = [rs EXCEPT ![n] = l]
      BY <1>1, <1>a, <1>c
    <2>. QED
      BY <1>1, <1>2, <1>3, <2>1
  <1>5. PICK e \in DirEntries : e = es[k]
    BY PlainTypes
  <1>6. /\ e.tile_id \in Nat /\ e.tile_id = a + m /\ o.offset = e.offset /\ o.length = e.length
        /\ m # 0
    <2>1. m # 0
      <3>1. n \in 1..n
        BY <1>1
      <3>. QED
        BY <1>1, <1>a, <1>b, <3>1 DEF RunsTyped
    <2>. QED
      BY <1>1, <1>5, <1>a, <1>b, <2>1 DEF DirEntries
  <1>d. \A id \in Nat : /\ InRun(o, id) <=> a <= id /\ id < a + m
                       /\ InRun(l, id) <=> a <= id /\ id < a + (m + 1)
    BY <1>3, <1>b DEF InRun
  <1>7. RunsTyped(new)
    <2>1. ASSUME NEW r \in 1..n
          PROVE  new[r].run_length # 0
      <3>1. CASE r = n
        <4>1. l.run_length # 0
          BY <1>3
        <4>. QED
          BY <1>4, <3>1, <4>1
      <3>2. CASE r # n
        BY <1>1, <1>4, <3>2 DEF RunsTyped
      <3>. QED
        BY <3>1, <3>2
    <2>. QED
      BY <1>4, <2>1 DEF RunsTyped
  <1>8. RunsApart(new)
    <2>1. ASSUME NEW r \in 1..n, NEW q \in 1..n, r < q
          PROVE  new[r].tile_id + new[r].run_length <= new[q].tile_id
      <3>1. r \in 1..(n - 1) /\ new[r] = rs[r] /\ new[q].tile_id = rs[q].tile_id
        BY <1>3, <1>4, <1>a, <1>b, <2>1
      <3>. QED
        BY <1>1, <2>1, <3>1 DEF RunsAre, RunsApart
    <2>. QED
      BY <1>4, <2>1 DEF RunsApart
  <1>9. RunsHave(es, k, new)
    <2>1. ASSUME NEW i \in 1..k
          PROVE  \E r \in 1..n : /\ InRun(new[r], es[i].tile_id)
                                 /\ new[r].offset = es[i].offset /\ new[r].length = es[i].length
      <3>1. CASE i = k
        <4>1. InRun(l, e.tile_id)
          BY <1>6, <1>d
        <4>2. InRun(new[n], es[i].tile_id)
          BY <1>4, <1>5, <3>1, <4>1
        <4>3. new[n].offset = es[i].offset /\ new[n].length = es[i].length /\ n \in 1..n
          BY <1>1, <1>3, <1>4, <1>5, <1>6, <3>1
        <4>. QED
          BY <4>2, <4>3
      <3>2. CASE i # k
        <4>1. PICK r \in 1..n : /\ InRun(rs[r], es[i].tile_id)
                                /\ rs[r].offset = es[i].offset /\ rs[r].length = es[i].length
          <5>1. i \in 1..(k - 1)
            BY <3>2
          <5>. QED
            BY <1>1, <5>1 DEF RunsAre, RunsHave
        <4>2. CASE r = n
          <5>1. es[i].tile_id \in Nat
            BY <3>2, PlainTypes
          <5>2. InRun(l, es[i].tile_id)
            <6>1. InRun(o, es[i].tile_id)
              BY <1>a, <4>1, <4>2
            <6>2. a <= es[i].tile_id /\ es[i].tile_id < a + m
              BY <1>b, <6>1 DEF InRun
            <6>. QED
              BY <1>d, <5>1, <6>2
          <5>. QED
            BY <1>3, <1>4, <1>a, <4>1, <4>2, <5>2
        <4>3. CASE r # n
          <5>1. new[r] = rs[r]
            BY <1>4, <4>1, <4>3
          <5>. QED
            BY <4>1, <5>1
        <4>. QED
          BY <4>2, <4>3
      <3>. QED
        BY <3>1, <3>2
    <2>. QED
      BY <1>4, <2>1 DEF RunsHave
  <1>10. RunsOnly(es, k, new)
    <2>1. ASSUME NEW r \in 1..n, NEW id \in Nat, InRun(new[r], id)
          PROVE  \E i \in 1..k : es[i].tile_id = id
      <3>0. \A i \in 1..(k - 1) : i \in 1..k
        OBVIOUS
      <3>1. CASE r = n
        <4>1. InRun(rs[n], id) \/ id = e.tile_id
          <5>1. InRun(l, id)
            BY <1>4, <2>1, <3>1
          <5>2. a <= id /\ id < a + (m + 1)
            BY <1>3, <5>1 DEF InRun
          <5>3. id < a + m \/ id = e.tile_id
            BY <1>6, <5>2
          <5>4. id < a + m => InRun(o, id)
            BY <1>d, <5>2
          <5>. QED
            BY <1>a, <5>3, <5>4
        <4>2. n \in 1..n /\ k \in 1..k
          BY <1>1 DEF Plain, SortedDir
        <4>3. InRun(rs[n], id) => \E i \in 1..(k - 1) : es[i].tile_id = id
          BY <1>1, <4>2 DEF RunsAre, RunsOnly
        <4>. QED
          BY <1>5, <3>0, <4>1, <4>2, <4>3
      <3>2. CASE r # n
        <4>1. InRun(rs[r], id)
          BY <1>4, <2>1, <3>2
        <4>. QED
          BY <1>1, <3>0, <4>1 DEF RunsAre, RunsOnly
      <3>. QED
        BY <3>1, <3>2
    <2>. QED
      BY <1>4, <2>1 DEF RunsOnly
  <1>11. RunsEnd(es, k, new)
    <2>1. l.tile_id + l.run_length = e.tile_id + 1
      BY <1>3, <1>6
    <2>2. k # 0
      OBVIOUS
    <2>. QED
      BY <1>1, <1>3, <1>4, <1>5, <1>6, <2>1, <2>2 DEF RunsEnd
  <1>. QED
    BY <1>1, <1>4, <1>7, <1>8, <1>9, <1>10, <1>11 DEF RunsAre

-----------------------------------------------------------------------------
(* The last id of a run.                                                   *)
LEMMA LastOfRun ==
    ASSUME NEW a \in Nat, NEW m \in Nat, m # 0
    PROVE  \E x \in Nat : x + 1 = a + m /\ a <= x /\ x < a + m
  <1>1. (a + m) - 1 \in Nat
    OBVIOUS
  <1>2. PICK x \in Nat : x = (a + m) - 1
    BY <1>1
  <1>3. x + 1 = a + m /\ a <= x /\ x < a + m
    BY <1>2
  <1>. QED
    BY <1>3

(* So does an entry that starts a run.                                     *)
LEMMA RunsAppended ==
    ASSUME NEW es, Plain(es), NEW k \in 1..Len(es), NEW rs, RunsAre(es, k - 1, rs), ~Continues(es, k),
           NEW new, new \in Seq(DirEntries), OneLonger(rs, new, es[k])
    PROVE  RunsAre(es, k, new) /\ Len(new) = Len(rs) + 1
  <1>1. PICK n \in Nat : n = Len(rs) /\ RunsTyped(rs)
    BY AbsorbJoins
  <1>2. PICK e \in DirEntries : /\ e = es[k] /\ e.run_length = 1 /\ e.tile_id \in Nat
    BY PlainTypes
  <1>3. /\ new \in Seq(DirEntries) /\ Len(new) = n + 1 /\ new[n + 1] = e
        /\ \A r \in 1..n : new[r] = rs[r]
    BY <1>1, <1>2 DEF OneLonger
  <1>4. \A id \in Nat : InRun(e, id) <=> id = e.tile_id
    BY <1>2 DEF InRun
  <1>5. \A r \in 1..n : rs[r].tile_id + rs[r].run_length <= e.tile_id
    <2>1. ASSUME NEW r \in 1..n
          PROVE  rs[r].tile_id + rs[r].run_length <= e.tile_id
      <3>1. PICK a \in Nat, m \in Nat : a = rs[r].tile_id /\ m = rs[r].run_length /\ m # 0
        <4>1. rs \in Seq(DirEntries) /\ rs[r].run_length # 0
          BY <1>1 DEF RunsTyped
        <4>2. rs[r] \in DirEntries
          BY <1>1, <4>1
        <4>. QED
          BY <4>1, <4>2 DEF DirEntries
      <3>2. PICK x \in Nat : x + 1 = a + m /\ a <= x /\ x < a + m
        BY <3>1, LastOfRun
      <3>5. InRun(rs[r], x)
        BY <3>1, <3>2 DEF InRun
      <3>3. PICK i \in 1..(k - 1) : es[i].tile_id = x
        BY <1>1, <3>5 DEF RunsAre, RunsOnly
      <3>4. es[i].tile_id \in Nat /\ es[i].tile_id < e.tile_id
        <4>1. i \in 1..Len(es) /\ i < k
          BY <3>3 DEF Plain, SortedDir
        <4>. QED
          BY <1>2, <4>1, PlainTypes
      <3>6. x < e.tile_id
        BY <3>3, <3>4
      <3>7. \A y \in Nat : x < y => a + m <= y
        BY <3>1, <3>2
      <3>8. a + m <= e.tile_id
        BY <1>2, <3>6, <3>7
      <3>. QED
        BY <3>1, <3>8
    <2>. QED
      BY <2>1
  <1>6. \A r \in 1..(n + 1) : r \in 1..n \/ r = n + 1
    OBVIOUS
  <1>7. RunsTyped(new)
    BY <1>1, <1>2, <1>3, <1>6 DEF RunsTyped
  <1>8. RunsApart(new)
    <2>1. ASSUME NEW r \in 1..(n + 1), NEW q \in 1..(n + 1), r < q
          PROVE  new[r].tile_id + new[r].run_length <= new[q].tile_id
      <3>1. r \in 1..n
        BY <2>1
      <3>2. CASE q = n + 1
        BY <1>3, <1>5, <3>1, <3>2
      <3>3. CASE q # n + 1
        <4>1. q \in 1..n
          BY <1>6, <3>3
        <4>. QED
          BY <1>1, <1>3, <2>1, <3>1, <4>1 DEF RunsAre, RunsApart
      <3>. QED
        BY <3>2, <3>3
    <2>. QED
      BY <1>3, <2>1 DEF RunsApart
  <1>9. RunsHave(es, k, new)
    <2>1. ASSUME NEW i \in 1..k
          PROVE  \E r \in 1..(n + 1) : /\ InRun(new[r], es[i].tile_id)
                                       /\ new[r].offset = es[i].offset /\ new[r].length = es[i].length
      <3>1. CASE i = k
        <4>1. n + 1 \in 1..(n + 1) /\ InRun(e, e.tile_id)
          BY <1>2, <1>4
        <4>. QED
          BY <1>2, <1>3, <3>1, <4>1
      <3>2. CASE i # k
        <4>1. i \in 1..(k - 1)
          BY <3>2
        <4>2. PICK r \in 1..n : /\ InRun(rs[r], es[i].tile_id)
                                /\ rs[r].offset = es[i].offset /\ rs[r].length = es[i].length
          BY <1>1, <4>1 DEF RunsAre, RunsHave
        <4>3. r \in 1..(n + 1) /\ new[r] = rs[r]
          BY <1>3
        <4>. QED
          BY <4>2, <4>3
      <3>. QED
        BY <3>1, <3>2
    <2>. QED
      BY <1>3, <2>1 DEF RunsHave
  <1>10. RunsOnly(es, k, new)
    <2>1. ASSUME NEW r \in 1..(n + 1), NEW id \in Nat, InRun(new[r], id)
          PROVE  \E i \in 1..k : es[i].tile_id = id
      <3>0. (\A i \in 1..(k - 1) : i \in 1..k) /\ k \in 1..k
        BY DEF Plain, SortedDir
      <3>1. CASE r = n + 1
        <4>1. InRun(e, id)
          BY <1>3, <2>1, <3>1
        <4>. QED
          BY <1>2, <1>4, <3>0, <4>1
      <3>2. CASE r # n + 1
        <4>1. r \in 1..n /\ InRun(rs[r], id)
          BY <1>3, <1>6, <2>1, <3>2
        <4>2. \E i \in 1..(k - 1) : es[i].tile_id = id
          BY <1>1, <4>1 DEF RunsAre, RunsOnly
        <4>. QED
          BY <3>0, <4>2
      <3>. QED
        BY <3>1, <3>2
    <2>. QED
      BY <1>3, <2>1 DEF RunsOnly
  <1>11. RunsEnd(es, k, new)
    <2>1. k # 0 /\ n + 1 > 0
      OBVIOUS
    <2>. QED
      BY <1>2, <1>3, <2>1 DEF RunsEnd
  <1>. QED
    BY <1>1, <1>3, <1>7, <1>8, <1>9, <1>10, <1>11 DEF RunsAre

(* The entries the runs stand for.                                         *)
LengthsOfRuns(rs) == [i \in DOMAIN rs |-> rs[i].run_length]

(* The ids all runs have.                                                  *)
Total(rs) == SumFunctionOnSet(LengthsOfRuns(rs), 1..Len(rs))

(* One run more adds its length.                                           *)
LEMMA TotalOfMore ==
    ASSUME NEW rs, rs \in Seq(DirEntries), NEW n \in Nat, Len(rs) = n + 1
    PROVE  /\ SumFunctionOnSet(LengthsOfRuns(rs), 1..n) \in Nat
           /\ Total(rs) = SumFunctionOnSet(LengthsOfRuns(rs), 1..n) + rs[n + 1].run_length
  <1>1. PICK f : f = LengthsOfRuns(rs)
    OBVIOUS
  <1>2. \A i \in 1..(n + 1) : f[i] = rs[i].run_length /\ f[i] \in Nat
    <2>1. \A i \in 1..(n + 1) : rs[i] \in DirEntries
      OBVIOUS
    <2>2. DOMAIN rs = 1..(n + 1)
      OBVIOUS
    <2>. QED
      BY <1>1, <2>1, <2>2 DEF LengthsOfRuns, DirEntries
  <1>0. 1..(n + 1) = (1..n) \cup {n + 1} /\ n + 1 \notin 1..n /\ IsFiniteSet(1..n)
    <2>1. IsFiniteSet(1..n)
      BY FS_Interval
    <2>2. 1..(n + 1) = (1..n) \cup {n + 1} /\ n + 1 \notin 1..n
      OBVIOUS
    <2>. QED
      BY <2>1, <2>2
  <1>3. PICK T, x : T = 1..n /\ x = n + 1
    OBVIOUS
  <1>4. 1..(n + 1) = T \cup {x} /\ IsFiniteSet(T) /\ x \notin T
    BY <1>0, <1>3, Zenon
  <1>5. \A y \in T \cup {x} : f[y] \in Nat
    BY <1>2, <1>4
  <1>6. SumFunctionOnSet(f, T \cup {x}) = SumFunctionOnSet(f, T) + f[x]
    BY <1>4, <1>5, SumOfMore
  <1>7. SumFunctionOnSet(f, T) \in Nat
    BY <1>4, <1>5, SumIsNat
  <1>8. Total(rs) = SumFunctionOnSet(f, T \cup {x})
    BY <1>1, <1>4 DEF Total
  <1>. QED
    BY <1>1, <1>2, <1>3, <1>4, <1>6, <1>7, <1>8

(* The sum is told by the runs it is of.                                   *)
LEMMA TotalOfOne ==
    ASSUME NEW rs, NEW new, rs \in Seq(DirEntries), new \in Seq(DirEntries), NEW n \in Nat,
           n <= Len(rs), n <= Len(new), \A i \in 1..n : rs[i] = new[i]
    PROVE  SumFunctionOnSet(LengthsOfRuns(rs), 1..n) = SumFunctionOnSet(LengthsOfRuns(new), 1..n)
  <1>1. PICK f, g : f = LengthsOfRuns(rs) /\ g = LengthsOfRuns(new)
    OBVIOUS
  <1>2. \A i \in 1..n : i \in DOMAIN rs /\ i \in DOMAIN new /\ rs[i] \in DirEntries
    OBVIOUS
  <1>3. \A i \in 1..n : f[i] \in Nat /\ g[i] = f[i]
    BY <1>1, <1>2 DEF LengthsOfRuns, DirEntries
  <1>4. IsFiniteSet(1..n)
    BY FS_Interval
  <1>5. SumFunctionOnSet(g, 1..n) = SumFunctionOnSet(f, 1..n)
    BY <1>3, <1>4, SumOfSame
  <1>. QED
    BY <1>1, <1>5

(* The entries that start a run.                                           *)
StartsUpto(es, k) == {i \in 1..k : ~Continues(es, i)}

(* The runs are right, and so are the two counts of the header.            *)
Counted(es, k, rs) ==
    RunsAre(es, k, rs) /\ Total(rs) = k /\ Len(rs) = Cardinality(StartsUpto(es, k))

(* One entry more.                                                         *)
LEMMA CountedMore ==
    ASSUME NEW es, Plain(es), NEW k \in 1..Len(es), NEW rs, Counted(es, k - 1, rs)
    PROVE  Counted(es, k, Absorb(rs, es[k]))
  <1>1. /\ RunsAre(es, k - 1, rs) /\ Total(rs) = k - 1
        /\ Len(rs) = Cardinality(StartsUpto(es, k - 1))
    BY DEF Counted
  <1>2. PICK n \in Nat : n = Len(rs) /\ RunsTyped(rs) /\ rs \in Seq(DirEntries)
    BY <1>1, AbsorbJoins DEF RunsTyped
  <1>3. k \in Nat /\ k - 1 \in Nat
    BY DEF Plain, SortedDir
  <1>4. PICK new : new = Absorb(rs, es[k])
    OBVIOUS
  <1>5. /\ IsFiniteSet(StartsUpto(es, k - 1)) /\ k \notin StartsUpto(es, k - 1)
        /\ Continues(es, k) => StartsUpto(es, k) = StartsUpto(es, k - 1)
        /\ ~Continues(es, k) => StartsUpto(es, k) = StartsUpto(es, k - 1) \cup {k}
    <2>1. 1..k = (1..(k - 1)) \cup {k}
      BY <1>3
    <2>2. IsFiniteSet(1..(k - 1)) /\ StartsUpto(es, k - 1) \subseteq 1..(k - 1)
      BY <1>3, FS_Interval DEF StartsUpto
    <2>3. IsFiniteSet(StartsUpto(es, k - 1))
      BY <2>2, FS_Subset
    <2>. QED
      BY <2>1, <2>2, <2>3 DEF StartsUpto
  <1>6. CASE Continues(es, k)
    <2>1. new = [rs EXCEPT ![Len(rs)].run_length = @ + 1]
      BY <1>1, <1>4, <1>6, AbsorbJoins DEF Absorb
    <2>2. RunsAre(es, k, new) /\ Len(new) = n
      BY <1>1, <1>2, <1>6, <2>1, RunsExtended
    <2>3. new \in Seq(DirEntries)
      BY <2>2 DEF RunsAre, RunsTyped
    <2>4. PICK m \in Nat : n = m + 1
      <3>1. n > 0
        BY <1>1, <1>2, <1>6, AbsorbJoins
      <3>2. n - 1 \in Nat /\ n = (n - 1) + 1
        BY <3>1
      <3>. QED
        BY <3>2
    <2>5. \A i \in 1..m : rs[i] = new[i]
      BY <1>2, <2>1, <2>4
    <2>6. PICK s \in Nat : /\ s = SumFunctionOnSet(LengthsOfRuns(rs), 1..m)
                           /\ Total(rs) = s + rs[n].run_length
      BY <1>2, <2>4, TotalOfMore
    <2>7. Total(new) = s + new[n].run_length
      <3>1. SumFunctionOnSet(LengthsOfRuns(new), 1..m) = s
        <4>1. m <= Len(rs) /\ m <= Len(new)
          BY <1>2, <2>2, <2>4
        <4>. QED
          BY <1>2, <2>3, <2>5, <2>6, <4>1, TotalOfOne
      <3>. QED
        BY <2>2, <2>3, <2>4, <3>1, TotalOfMore
    <2>8. new[n].run_length = rs[n].run_length + 1 /\ rs[n].run_length \in Nat
      <3>1. n \in 1..n
        BY <2>4
      <3>2. rs[n] \in DirEntries
        BY <1>2, <3>1
      <3>. QED
        BY <1>2, <2>1, <3>1, <3>2 DEF DirEntries
    <2>9. Total(new) = k
      BY <1>1, <1>3, <2>6, <2>7, <2>8
    <2>. QED
      BY <1>1, <1>2, <1>4, <1>5, <1>6, <2>2, <2>9 DEF Counted
  <1>7. CASE ~Continues(es, k)
    <2>0. PICK e \in DirEntries : e = es[k]
      BY PlainTypes
    <2>1. new = Append(rs, e)
      BY <1>1, <1>4, <1>7, <2>0, AbsorbJoins DEF Absorb
    <2>10. new \in Seq(DirEntries) /\ OneLonger(rs, new, e)
      BY <1>2, <2>1 DEF OneLonger
    <2>2. RunsAre(es, k, new) /\ Len(new) = n + 1
      BY <1>1, <1>2, <1>7, <2>0, <2>10, RunsAppended DEF OneLonger
    <2>3. new \in Seq(DirEntries)
      BY <2>10
    <2>4. es[k].run_length = 1 /\ es[k] \in DirEntries
      BY PlainTypes
    <2>5. new[n + 1] = es[k] /\ \A i \in 1..n : rs[i] = new[i]
      BY <1>2, <2>0, <2>10 DEF OneLonger
    <2>6. Total(new) = SumFunctionOnSet(LengthsOfRuns(new), 1..n) + new[n + 1].run_length
      BY <1>2, <2>2, <2>3, TotalOfMore
    <2>7. SumFunctionOnSet(LengthsOfRuns(rs), 1..n) = SumFunctionOnSet(LengthsOfRuns(new), 1..n)
      <3>1. n <= Len(rs) /\ n <= Len(new)
        BY <1>2, <2>2
      <3>. QED
        BY <1>2, <2>3, <2>5, <3>1, TotalOfOne
    <2>8. Total(new) = (k - 1) + 1
      BY <1>1, <1>2, <2>4, <2>5, <2>6, <2>7 DEF Total
    <2>9. Cardinality(StartsUpto(es, k)) = Cardinality(StartsUpto(es, k - 1)) + 1
      BY <1>5, <1>7, FS_AddElement
    <2>. QED
      BY <1>1, <1>2, <1>3, <1>4, <2>2, <2>8, <2>9 DEF Counted
  <1>. QED
    BY <1>6, <1>7

(* And so for all entries.                                                 *)
LEMMA RunsCounted ==
    ASSUME NEW es, Plain(es)
    PROVE  Counted(es, Len(es), Runs(es))
  <1>0. PICK n \in Nat : n = Len(es) /\ DOMAIN es = 1..n
    BY SortedTypes DEF Plain
  <1>1. PICK R : Absorbs(es, n, R) /\ Runs(es) = R[n]
    BY <1>0, RunsUpto
  <1>2. R[0] = <<>> /\ \A k \in 1..n : R[k] = Absorb(R[k - 1], es[k])
    BY <1>1 DEF Absorbs
  <1>. DEFINE Good == {k \in Nat : k <= n => Counted(es, k, R[k])}
  <1>3. 0 \in Good
    <2>1. RunsAre(es, 0, <<>>)
      BY DEF RunsAre, RunsTyped, RunsApart, RunsHave, RunsOnly, RunsEnd
    <2>2. Total(<<>>) = 0
      <3>1. 1..Len(<<>>) = {}
        OBVIOUS
      <3>. QED
        BY <3>1, SumOfNothing DEF Total
    <2>3. Cardinality(StartsUpto(es, 0)) = 0
      <3>1. StartsUpto(es, 0) = {}
        BY DEF StartsUpto
      <3>. QED
        BY <3>1, FS_EmptySet
    <2>4. Counted(es, 0, <<>>)
      BY <2>1, <2>2, <2>3 DEF Counted
    <2>. QED
      BY <1>2, <2>4
  <1>4. ASSUME NEW k \in Nat, k \in Good
        PROVE  k + 1 \in Good
    <2>. SUFFICES ASSUME k + 1 <= n
                  PROVE  Counted(es, k + 1, R[k + 1])
      OBVIOUS
    <2>1. PICK j \in 1..n : j = k + 1 /\ j - 1 = k
      OBVIOUS
    <2>2. Counted(es, j - 1, R[j - 1])
      BY <1>4, <2>1
    <2>3. Counted(es, j, Absorb(R[j - 1], es[j]))
      BY <1>0, <2>2, CountedMore
    <2>. QED
      BY <1>2, <2>1, <2>3
  <1>. HIDE DEF Good
  <1>5. \A k \in Nat : k \in Good
    BY <1>3, <1>4, NumberInduction, Zenon
  <1>. QED
    BY <1>0, <1>1, <1>5 DEF Good

-----------------------------------------------------------------------------
(* A directory that has what the entries have, and nothing else.           *)
FindsThem(es, rs) ==
    \A i \in 1..Len(es) : \E r \in 1..Len(rs) :
        /\ FindEntry(rs, es[i].tile_id) = rs[r]
        /\ rs[r].offset = es[i].offset /\ rs[r].length = es[i].length

(* No other id finds an entry.                                             *)
FindsOnly(es, rs) ==
    \A id \in Nat : (\A i \in 1..Len(es) : es[i].tile_id # id) => FindEntry(rs, id) = None

(* The runs are a directory find_entry can search.                         *)
LEMMA RunsAreTileDir ==
    ASSUME NEW rs, RunsTyped(rs), RunsApart(rs)
    PROVE  TileDir(rs)
  <1>1. rs \in Seq(DirEntries) /\ Len(rs) \in Nat /\ \A r \in 1..Len(rs) : rs[r].run_length # 0
    BY DEF RunsTyped
  <1>2. ASSUME NEW i \in 1..Len(rs), NEW j \in 1..Len(rs), i < j
        PROVE  rs[i].tile_id < rs[j].tile_id
    <2>1. rs[i] \in DirEntries /\ rs[j] \in DirEntries
      BY <1>1
    <2>2. PICK a \in Nat, m \in Nat, b \in Nat :
              a = rs[i].tile_id /\ m = rs[i].run_length /\ b = rs[j].tile_id
      BY <2>1 DEF DirEntries
    <2>3. m # 0
      BY <1>1, <2>2
    <2>4. a + m <= b
      BY <1>2, <2>2 DEF RunsApart
    <2>5. a < b
      BY <2>3, <2>4
    <2>. QED
      BY <2>2, <2>5
  <1>. QED
    BY <1>1, <1>2 DEF TileDir, SortedDir

(* find_entry of the runs: an id of a tile finds the run of its content,   *)
(* and no other id finds one.                                              *)
LEMMA RunsFind ==
    ASSUME NEW es, Plain(es), NEW rs, RunsAre(es, Len(es), rs)
    PROVE  TileDir(rs) /\ FindsThem(es, rs) /\ FindsOnly(es, rs)
  <1>1. RunsTyped(rs) /\ RunsApart(rs)
    BY DEF RunsAre
  <1>2. TileDir(rs) /\ SortedDir(rs)
    BY <1>1, RunsAreTileDir DEF TileDir
  <1>3. \A r \in 1..Len(rs) : /\ rs[r].tile_id \in Nat /\ rs[r].run_length \in Nat
                              /\ ~IsLeaf(rs[r])
    <2>1. \A r \in 1..Len(rs) : rs[r].tile_id \in Nat /\ rs[r].run_length \in Nat
      BY <1>2, SortedTypes
    <2>. QED
      BY <1>1, <2>1 DEF RunsTyped, IsLeaf
  <1>4. ASSUME NEW i \in 1..Len(es)
        PROVE  \E r \in 1..Len(rs) :
                   /\ FindEntry(rs, es[i].tile_id) = rs[r]
                   /\ rs[r].offset = es[i].offset /\ rs[r].length = es[i].length
    <2>1. PICK id \in Nat : id = es[i].tile_id
      BY PlainTypes
    <2>2. PICK r \in 1..Len(rs) : /\ InRun(rs[r], id)
                                  /\ rs[r].offset = es[i].offset /\ rs[r].length = es[i].length
      BY <2>1 DEF RunsAre, RunsHave
    <2>3. PICK a \in Nat, m \in Nat : a = rs[r].tile_id /\ m = rs[r].run_length
      BY <1>3
    <2>4. a <= id /\ id < a + m
      BY <2>2, <2>3 DEF InRun
    <2>5. After(rs, r, id)
      <3>1. ASSUME NEW q \in 1..Len(rs), q > r
            PROVE  id < rs[q].tile_id
        <4>1. PICK b \in Nat : b = rs[q].tile_id
          BY <1>3
        <4>2. r < q
          BY <1>2, <3>1, SortedTypes
        <4>3. a + m <= b
          BY <1>1, <2>3, <4>1, <4>2 DEF RunsApart
        <4>4. id < b
          BY <2>4, <4>3
        <4>. QED
          BY <4>1, <4>4
      <3>. QED
        BY <3>1 DEF After
    <2>6. FindEntry(rs, id) = Answer(rs[r], id)
      BY <1>2, <2>3, <2>4, <2>5, FindAt
    <2>7. Answer(rs[r], id) = rs[r]
      BY <2>3, <2>4 DEF Answer
    <2>. QED
      BY <2>1, <2>2, <2>6, <2>7
  <1>5. ASSUME NEW id \in Nat, \A i \in 1..Len(es) : es[i].tile_id # id
        PROVE  FindEntry(rs, id) = None
    <2>1. CASE After(rs, 0, id)
      BY <1>2, <2>1, FindNone
    <2>2. ASSUME NEW r \in 1..Len(rs), rs[r].tile_id <= id, After(rs, r, id)
          PROVE  FindEntry(rs, id) = None
      <3>1. FindEntry(rs, id) = Answer(rs[r], id)
        BY <1>2, <2>2, FindAt
      <3>2. ~InRun(rs[r], id)
        BY <1>5 DEF RunsAre, RunsOnly
      <3>3. ~(id < rs[r].tile_id + rs[r].run_length)
        BY <2>2, <3>2 DEF InRun
      <3>. QED
        BY <1>3, <3>1, <3>3 DEF Answer
    <2>. QED
      BY <1>2, <2>1, <2>2, FindCases
  <1>. QED
    BY <1>2, <1>4, <1>5 DEF FindsThem, FindsOnly

(* Joining the entries into runs (PmTilesWriter::finish, 147-158) changes  *)
(* no answer: the id of a tile finds the place of its content, and no      *)
(* other id finds anything.                                                *)
THEOREM RunsKeepTheAnswers ==
    ASSUME NEW es, Plain(es)
    PROVE  FindsThem(es, Runs(es)) /\ FindsOnly(es, Runs(es))
  <1>1. RunsAre(es, Len(es), Runs(es))
    BY RunsCounted DEF Counted
  <1>. QED
    BY <1>1, RunsFind

-----------------------------------------------------------------------------
(* A sequence that another one has in it, from a + 1 on.                   *)
Piece(s, a, t) ==
    /\ a \in Nat /\ a + Len(t) <= Len(s)
    /\ \A i \in 1..Len(t) : s[a + i] = t[i]

(* A piece is what a read of its place and length returns.                 *)
LEMMA PieceIs ==
    ASSUME NEW S, NEW s \in Seq(S), NEW t \in Seq(S), NEW a, Piece(s, a, t)
    PROVE  SubSeq(s, a + 1, a + Len(t)) = t
  <1>1. PICK n \in Nat : n = Len(t)
    OBVIOUS
  <1>2. a \in Nat /\ a + n <= Len(s) /\ \A i \in 1..n : s[a + i] = t[i]
    BY <1>1 DEF Piece
  <1>. HIDE DEF Piece
  <1>3. PICK u : u = SubSeq(s, a + 1, a + n)
    OBVIOUS
  <1>4. u \in Seq(S) /\ Len(u) = n /\ \A i \in 1..n : u[i] = s[a + i]
    BY <1>1, <1>2, <1>3
  <1>5. u = t
    BY <1>1, <1>2, <1>4
  <1>. QED
    BY <1>1, <1>3, <1>5

(* n cells of s from a on.                                                 *)
Cutting(s, a, n) == SubSeq(s, a + 1, a + n)

(* Cells cut out are a piece.                                              *)
LEMMA CuttingIs ==
    ASSUME NEW S, NEW s \in Seq(S), NEW a \in Nat, NEW n \in Nat, a + n <= Len(s)
    PROVE  /\ Cutting(s, a, n) \in Seq(S) /\ Len(Cutting(s, a, n)) = n
           /\ Piece(s, a, Cutting(s, a, n))
  <1>0. PICK t : t = Cutting(s, a, n)
    OBVIOUS
  <1>1. PICK l \in Nat : l = Len(s) /\ a + n <= l
    OBVIOUS
  <1>2. PICK m \in Nat, z \in Nat : m = a + 1 /\ z = a + n /\ t = SubSeq(s, m, z) /\ z <= l
    BY <1>0, <1>1 DEF Cutting
  <1>3. \A i \in m..z : s[i] \in S
    BY <1>1, <1>2
  <1>4. /\ t \in Seq(S) /\ Len(t) = IF m <= z THEN (z - m) + 1 ELSE 0
        /\ \A i \in 1..((z - m) + 1) : t[i] = s[(m + i) - 1]
    BY <1>2, <1>3, SubSeqProperties
  <1>5. Len(t) = n
    BY <1>2, <1>4
  <1>6. ASSUME NEW i \in 1..n
        PROVE  t[i] = s[a + i]
    <2>1. i \in 1..((z - m) + 1) /\ (m + i) - 1 = a + i
      BY <1>2
    <2>. QED
      BY <1>4, <2>1
  <1>. QED
    BY <1>0, <1>1, <1>4, <1>5, <1>6 DEF Piece

(* A piece of a piece is a piece.                                          *)
LEMMA PieceOfPiece ==
    ASSUME NEW S, NEW s \in Seq(S), NEW t \in Seq(S), NEW u \in Seq(S),
           NEW a, NEW b, Piece(s, a, t), Piece(t, b, u)
    PROVE  Piece(s, a + b, u)
  <1>1. PICK l \in Nat, m \in Nat, n \in Nat : l = Len(s) /\ m = Len(t) /\ n = Len(u)
    OBVIOUS
  <1>2. /\ a \in Nat /\ a + m <= l /\ \A i \in 1..m : s[a + i] = t[i]
        /\ b \in Nat /\ b + n <= m /\ \A i \in 1..n : t[b + i] = u[i]
    BY <1>1 DEF Piece
  <1>3. ASSUME NEW i \in 1..n
        PROVE  s[(a + b) + i] = u[i]
    <2>1. b + i \in 1..m /\ a + (b + i) = (a + b) + i
      BY <1>2
    <2>. QED
      BY <1>2, <2>1
  <1>. QED
    BY <1>1, <1>2, <1>3 DEF Piece

(* Two sequences joined have both as pieces.                               *)
LEMMA PiecesJoined ==
    ASSUME NEW S, NEW s \in Seq(S), NEW t \in Seq(S), NEW u, u = s \o t
    PROVE  /\ u \in Seq(S) /\ Len(u) = Len(s) + Len(t)
           /\ Piece(u, 0, s) /\ Piece(u, Len(s), t)
  BY DEF Piece

-----------------------------------------------------------------------------
(* The contents of an archive.                                             *)
LEMMA ContentsAre ==
    ASSUME NEW ts \in Archives, NEW c \in Range(ts)
    PROVE  Size[c] \in Nat /\ Size[c] # 0 /\ Bytes(c) \in Seq(Cells) /\ Len(Bytes(c)) = Size[c]
  <1>1. PICK n \in Nat : n = Size[c] /\ n # 0
    BY PmTilesAssumption DEF Range
  <1>2. \A i \in 1..n : <<c, i>> \in Cells
    BY DEF Cells
  <1>3. PICK f : f = [i \in 1..n |-> <<c, i>>]
    OBVIOUS
  <1>4. f \in [1..n -> Cells]
    BY <1>2, <1>3
  <1>5. f \in Seq(Cells) /\ Len(f) = n
    BY <1>3, <1>4, SeqDef
  <1>6. Bytes(c) = f
    BY <1>1, <1>3 DEF Bytes
  <1>. QED
    BY <1>1, <1>5, <1>6

(* Two contents at one place are one.                                      *)
LEMMA BytesTell ==
    ASSUME NEW ts \in Archives, NEW c \in Range(ts), NEW d \in Range(ts), NEW s, NEW a,
           Piece(s, a, Bytes(c)), Piece(s, a, Bytes(d))
    PROVE  c = d
  <1>1. Len(Bytes(c)) > 0 /\ Len(Bytes(d)) > 0 /\ Size[c] > 0 /\ Size[d] > 0
        /\ Size[c] \in Nat /\ Size[d] \in Nat /\ Len(Bytes(c)) \in Nat /\ Len(Bytes(d)) \in Nat
    BY ContentsAre
  <1>2. Bytes(c)[1] = <<c, 1>> /\ Bytes(d)[1] = <<d, 1>>
    BY <1>1 DEF Bytes
  <1>3. s[a + 1] = <<c, 1>> /\ s[a + 1] = <<d, 1>>
    <2>1. 1 \in 1..Len(Bytes(c)) /\ 1 \in 1..Len(Bytes(d))
      BY <1>1
    <2>2. s[a + 1] = Bytes(c)[1] /\ s[a + 1] = Bytes(d)[1]
      BY <2>1, Zenon DEF Piece
    <2>. QED
      BY <1>2, <2>2
  <1>. QED
    BY <1>3

(* What the data file holds.                                               *)
StoredIn(ts, d, dd) ==
    /\ d \in Seq(Cells) /\ DOMAIN dd \subseteq Range(ts)
    /\ \A c \in DOMAIN dd : Piece(d, dd[c], Bytes(c))
    /\ Len(d) = SumFunctionOnSet(Size, DOMAIN dd)

(* What write adds for a tile.                                             *)
EntryOf(ts, dd, t) == Entry(TileId(t), dd[ts[t]], Size[ts[t]], 1)

(* Each entry is of a tile that was added, and each tile has one.          *)
WrittenOf(ts, es, dd) ==
    /\ es \in Seq(DirEntries)
    /\ \A i \in 1..Len(es) : \E t \in DOMAIN ts : ts[t] \in DOMAIN dd /\ es[i] = EntryOf(ts, dd, t)
    /\ \A i, j \in 1..Len(es) : es[i].tile_id = es[j].tile_id => i = j

(* The tiles are finitely many, and so are their contents.                 *)
LEMMA DomainIsFinite ==
    ASSUME NEW ts \in Archives
    PROVE  IsFiniteSet(DOMAIN ts) /\ IsFiniteSet(Range(ts)) /\ DOMAIN ts \subseteq Tiles
  <1>1. IsFiniteSet(DOMAIN ts) /\ DOMAIN ts \subseteq Tiles
    BY PmTilesAssumption
  <1>2. PICK f : f = [t \in DOMAIN ts |-> ts[t]]
    OBVIOUS
  <1>3. f \in Surjection(DOMAIN ts, Range(ts))
    BY <1>2 DEF Surjection, Range
  <1>. QED
    BY <1>1, <1>3, FS_Surjection

(* A new writer has stored nothing.                                        *)
LEMMA StoredNothing ==
    ASSUME NEW ts \in Archives
    PROVE  StoredIn(ts, <<>>, <<>>) /\ WrittenOf(ts, <<>>, <<>>)
  <1>1. SumFunctionOnSet(Size, {}) = 0
    BY SumOfNothing
  <1>2. DOMAIN <<>> = {} /\ <<>> \in Seq(Cells) /\ Len(<<>>) = 0 /\ <<>> \in Seq(DirEntries)
    OBVIOUS
  <1>. QED
    BY <1>1, <1>2 DEF StoredIn, WrittenOf

(* write of a content that is new puts it behind the others.               *)
LEMMA StoredMore ==
    ASSUME NEW ts \in Archives, NEW d, NEW dd, StoredIn(ts, d, dd),
           NEW c \in Range(ts), c \notin DOMAIN dd,
           NEW b \in Seq(Cells), b = Bytes(c), NEW d2, d2 = d \o b,
           NEW dd2, DOMAIN dd2 = DOMAIN dd \cup {c}, dd2[c] = Len(d),
           \A x \in DOMAIN dd : dd2[x] = dd[x]
    PROVE  StoredIn(ts, d2, dd2)
  <1>1. /\ d \in Seq(Cells) /\ DOMAIN dd \subseteq Range(ts) /\ Len(d) \in Nat
        /\ \A x \in DOMAIN dd : Piece(d, dd[x], Bytes(x))
        /\ Len(d) = SumFunctionOnSet(Size, DOMAIN dd)
    BY DEF StoredIn
  <1>2. \A x \in Range(ts) : Size[x] \in Nat /\ Bytes(x) \in Seq(Cells) /\ Len(Bytes(x)) = Size[x]
    BY ContentsAre
  <1>3. b = Bytes(c) /\ Len(b) = Size[c]
    BY <1>2
  <1>4. /\ d2 \in Seq(Cells) /\ Len(d2) = Len(d) + Len(b)
        /\ Piece(d2, 0, d) /\ Piece(d2, Len(d), b)
    <2>1. PICK e \in Seq(Cells) : e = d
      BY <1>1
    <2>2. PICK u : /\ u = e \o b /\ u \in Seq(Cells) /\ Len(u) = Len(e) + Len(b)
                   /\ Piece(u, 0, e) /\ Piece(u, Len(e), b)
      BY PiecesJoined
    <2>3. u = d2
      BY <1>3, <2>1, <2>2
    <2>. QED
      BY <2>1, <2>2, <2>3
  <1>5. DOMAIN dd2 = DOMAIN dd \cup {c} /\ dd2[c] = Len(d) /\ \A x \in DOMAIN dd : dd2[x] = dd[x]
    OBVIOUS
  <1>6. ASSUME NEW x \in DOMAIN dd2
        PROVE  Piece(d2, dd2[x], Bytes(x))
    <2>1. CASE x = c
      BY <1>3, <1>4, <1>5, <2>1
    <2>2. CASE x # c
      <3>1. x \in DOMAIN dd /\ dd2[x] = dd[x] /\ Piece(d, dd[x], Bytes(x)) /\ Bytes(x) \in Seq(Cells)
        BY <1>1, <1>2, <1>5, <2>2
      <3>2. Piece(d2, 0 + dd[x], Bytes(x)) /\ dd[x] \in Nat
        <4>1. dd[x] \in Nat
          BY <3>1 DEF Piece
        <4>2. Piece(d2, 0 + dd[x], Bytes(x))
          BY <1>1, <1>4, <3>1, PieceOfPiece
        <4>. QED
          BY <4>1, <4>2
      <3>3. 0 + dd[x] = dd[x]
        BY <3>2
      <3>. QED
        BY <3>1, <3>2, <3>3
    <2>. QED
      BY <2>1, <2>2
  <1>7. Len(d2) = SumFunctionOnSet(Size, DOMAIN dd2)
    <2>1. IsFiniteSet(DOMAIN dd)
      BY <1>1, DomainIsFinite, FS_Subset
    <2>2. \A x \in DOMAIN dd \cup {c} : Size[x] \in Nat
      BY <1>1, <1>2
    <2>3. SumFunctionOnSet(Size, DOMAIN dd \cup {c}) = SumFunctionOnSet(Size, DOMAIN dd) + Size[c]
      BY <2>1, <2>2, SumOfMore
    <2>. QED
      BY <1>1, <1>3, <1>4, <1>5, <2>3
  <1>. QED
    BY <1>1, <1>4, <1>5, <1>6, <1>7 DEF StoredIn

(* The entry write makes: the id of the tile, the place of its content and *)
(* a run of one.                                                           *)
LEMMA EntryIs ==
    ASSUME NEW ts \in Archives, NEW d, NEW dd, StoredIn(ts, d, dd),
           NEW t \in DOMAIN ts, ts[t] \in DOMAIN dd
    PROVE  /\ EntryOf(ts, dd, t) \in DirEntries /\ EntryOf(ts, dd, t).tile_id = TileId(t)
           /\ EntryOf(ts, dd, t).offset = dd[ts[t]] /\ EntryOf(ts, dd, t).length = Size[ts[t]]
           /\ EntryOf(ts, dd, t).run_length = 1
           /\ TileId(t) \in Nat /\ dd[ts[t]] \in Nat /\ Size[ts[t]] \in Nat
           /\ dd[ts[t]] + Size[ts[t]] <= Len(d)
  <1>1. TileId(t) \in Nat
    BY DomainIsFinite, IdsAreDistinct
  <1>2. ts[t] \in Range(ts)
    BY DEF Range
  <1>3. Size[ts[t]] \in Nat /\ Len(Bytes(ts[t])) = Size[ts[t]]
    BY <1>2, ContentsAre
  <1>4. dd[ts[t]] \in Nat /\ dd[ts[t]] + Size[ts[t]] <= Len(d)
    BY <1>3 DEF StoredIn, Piece
  <1>. QED
    BY <1>1, <1>3, <1>4 DEF EntryOf, Entry, DirEntries

-----------------------------------------------------------------------------
(* As many entries as tiles: no tile is left out.                          *)
LEMMA AllWritten ==
    ASSUME NEW ts \in Archives, NEW d, NEW dd, StoredIn(ts, d, dd),
           NEW es, WrittenOf(ts, es, dd), Len(es) = Cardinality(DOMAIN ts)
    PROVE  \A t \in DOMAIN ts : \E i \in 1..Len(es) :
               ts[t] \in DOMAIN dd /\ es[i] = EntryOf(ts, dd, t)
  <1>. DEFINE Is(i, t) == ts[t] \in DOMAIN dd /\ es[i] = EntryOf(ts, dd, t)
              S == 1..Len(es)
              D == DOMAIN ts
  <1>1. (\A i \in S : \E t \in D : Is(i, t)) /\ Len(es) \in Nat
    BY DEF WrittenOf
  <1>2. \A i \in S, t \in D : Is(i, t) => es[i].tile_id = TileId(t)
    BY EntryIs
  <1>3. \A i, j \in S : es[i].tile_id = es[j].tile_id => i = j
    BY DEF WrittenOf
  <1>4. IsFiniteSet(D) /\ IsFiniteSet(S) /\ Cardinality(S) = Cardinality(D)
    BY <1>1, DomainIsFinite, FS_Interval
  <1>. SUFFICES \A t \in D : \E i \in S : Is(i, t)
    OBVIOUS
  <1>. HIDE DEF Is, S, D
  <1>5. PICK f : f = [i \in S |-> CHOOSE t \in D : Is(i, t)]
    OBVIOUS
  <1>6. \A i \in S : f[i] \in D /\ Is(i, f[i])
    BY <1>1, <1>5
  <1>7. f \in [S -> D]
    BY <1>5, <1>6
  <1>8. f \in Injection(S, D)
    BY <1>2, <1>3, <1>6, <1>7 DEF Injection, IsInjective
  <1>9. f \in Surjection(S, D)
    BY <1>4, <1>8, FS_Injection
  <1>10. \A t \in D : \E i \in S : f[i] = t
    BY <1>9 DEF Surjection
  <1>. QED
    BY <1>6, <1>10

(* The entries by tile id, T being whose they are.                         *)
LaidOut(ts, d, dd, so, T) ==
    /\ ts \in Archives /\ StoredIn(ts, d, dd) /\ DOMAIN dd = Range(ts)
    /\ SortedDir(so) /\ Len(so) = Cardinality(DOMAIN ts)
    /\ T \in [1..Len(so) -> DOMAIN ts]
    /\ \A i \in 1..Len(so) : so[i] = EntryOf(ts, dd, T[i])
    /\ \A t \in DOMAIN ts : \E i \in 1..Len(so) : T[i] = t

(* The ids tell the entries apart, so the sort by id is one.               *)
LEMMA EntriesKeyed ==
    ASSUME NEW es, es \in Seq(DirEntries),
           \A i, j \in 1..Len(es) : es[i].tile_id = es[j].tile_id => i = j
    PROVE  /\ Keyed(Range(es), [e \in Range(es) |-> e.tile_id])
           /\ Cardinality(Range(es)) = Len(es)
           /\ \A e \in Range(es) : e \in DirEntries /\ \E i \in 1..Len(es) : es[i] = e
  <1>1. PICK n \in Nat : n = Len(es) /\ DOMAIN es = 1..n /\ \A i \in 1..n : es[i] \in DirEntries
    OBVIOUS
  <1>2. PICK E : E = Range(es)
    OBVIOUS
  <1>3. \A e \in E : e \in DirEntries /\ \E i \in 1..n : es[i] = e
    BY <1>1, <1>2 DEF Range
  <1>4. \A i \in 1..n : es[i] \in E
    BY <1>1, <1>2 DEF Range
  <1>5. PICK f : f = [i \in 1..n |-> es[i]]
    OBVIOUS
  <1>6. f \in Bijection(1..n, E)
    <2>1. f \in [1..n -> E] /\ \A i \in 1..n : f[i] = es[i]
      BY <1>4, <1>5
    <2>2. \A i, j \in 1..n : f[i] = f[j] => i = j
      BY <1>1, <2>1
    <2>3. \A e \in E : \E i \in 1..n : f[i] = e
      BY <1>3, <2>1
    <2>. QED
      BY <2>1, <2>2, <2>3 DEF Bijection, Injection, Surjection, IsInjective
  <1>7. IsFiniteSet(E) /\ Cardinality(E) = n
    <2>1. ExistsBijection(1..n, E)
      BY <1>6 DEF ExistsBijection
    <2>2. IsFiniteSet(1..n) /\ Cardinality(1..n) = n
      BY FS_Interval
    <2>. QED
      BY <2>1, <2>2, FS_Bijection, Zenon
  <1>8. PICK key : key = [e \in E |-> e.tile_id]
    OBVIOUS
  <1>9. Keyed(E, key)
    <2>1. \A e \in E : key[e] = e.tile_id /\ e.tile_id \in Int
      BY <1>3, <1>8 DEF DirEntries
    <2>2. key \in [E -> Int]
      BY <1>8, <2>1
    <2>3. \A a, b \in E : a.tile_id = b.tile_id => a = b
      BY <1>1, <1>3
    <2>. QED
      BY <1>7, <2>1, <2>2, <2>3 DEF Keyed
  <1>. QED
    BY <1>1, <1>2, <1>3, <1>7, <1>8, <1>9

(* finish sorts the entries by id: the i-th is of the i-th tile T[i] of    *)
(* the archive.                                                            *)
LEMMA SortedIsLaidOut ==
    ASSUME NEW ts \in Archives, NEW d, NEW dd, StoredIn(ts, d, dd),
           NEW es, WrittenOf(ts, es, dd), Len(es) = Cardinality(DOMAIN ts)
    PROVE  \E T : LaidOut(ts, d, dd, ByTileId(es), T)
  <1>1. /\ es \in Seq(DirEntries) /\ Len(es) \in Nat
        /\ \A i \in 1..Len(es) : \E t \in DOMAIN ts : ts[t] \in DOMAIN dd /\ es[i] = EntryOf(ts, dd, t)
        /\ \A i, j \in 1..Len(es) : es[i].tile_id = es[j].tile_id => i = j
    BY DEF WrittenOf
  <1>2. PICK E, key : E = Range(es) /\ key = [e \in Range(es) |-> e.tile_id]
    OBVIOUS
  <1>3. /\ Keyed(E, key) /\ Cardinality(E) = Len(es)
        /\ \A e \in E : e \in DirEntries /\ \E i \in 1..Len(es) : es[i] = e
    BY <1>1, <1>2, EntriesKeyed
  <1>4. PICK so : so = ByTileId(es)
    OBVIOUS
  <1>5. /\ Rising(E, key, so) /\ Len(so) = Len(es)
        /\ \A e \in E : \E n \in 1..Len(es) : so[n] = e
    <2>1. so = InOrder(E, key)
      BY <1>2, <1>4 DEF ByTileId
    <2>. QED
      BY <1>3, <2>1, InOrderRises
  <1>6. /\ \A n \in 1..Len(so) : so[n] \in E
        /\ SortedDir(so)
    <2>1. \A n \in 1..Len(so) : so[n] \in E
      BY <1>5 DEF Rising
    <2>2. so \in Seq(DirEntries)
      BY <1>3, <1>5 DEF Rising
    <2>3. \A m, n \in 1..Len(so) : m < n => so[m].tile_id < so[n].tile_id
      BY <1>2, <1>5, <2>1 DEF Rising
    <2>. QED
      BY <2>1, <2>2, <2>3 DEF SortedDir
  <1>. DEFINE Is(n, t) == so[n] = EntryOf(ts, dd, t)
  <1>7. \A n \in 1..Len(so) : \E t \in DOMAIN ts : ts[t] \in DOMAIN dd /\ Is(n, t)
    BY <1>1, <1>3, <1>6
  <1>8. \A t \in DOMAIN ts : ts[t] \in DOMAIN dd /\ \E n \in 1..Len(so) : Is(n, t)
    <2>1. ASSUME NEW t \in DOMAIN ts
          PROVE  ts[t] \in DOMAIN dd /\ \E n \in 1..Len(so) : Is(n, t)
      <3>1. PICK i \in 1..Len(es) : ts[t] \in DOMAIN dd /\ es[i] = EntryOf(ts, dd, t)
        BY AllWritten
      <3>2. es[i] \in E
        BY <1>1, <1>2 DEF Range
      <3>. QED
        BY <1>5, <3>1, <3>2
    <2>. QED
      BY <2>1
  <1>9. DOMAIN dd = Range(ts)
    BY <1>8 DEF StoredIn, Range
  <1>. DEFINE N == Len(so)
              D == DOMAIN ts
  <1>10. PICK T : T = [n \in 1..N |-> CHOOSE t \in D : Is(n, t)]
    OBVIOUS
  <1>11. \A n \in 1..N : T[n] \in D /\ Is(n, T[n])
    <2>. HIDE DEF Is, N
    <2>1. \A n \in 1..N : \E t \in D : Is(n, t)
      BY <1>7 DEF N
    <2>. QED
      BY <1>10, <2>1
  <1>12. T \in [1..N -> D]
    BY <1>10, <1>11
  <1>13. \A t \in D : \E n \in 1..N : T[n] = t
    <2>1. ASSUME NEW t \in D
          PROVE  \E n \in 1..N : T[n] = t
      <3>1. PICK n \in 1..N : Is(n, t)
        BY <1>8
      <3>2. EntryOf(ts, dd, T[n]) = EntryOf(ts, dd, t)
        BY <1>11, <3>1
      <3>3. TileId(T[n]) = TileId(t) /\ T[n] \in D
        <4>1. PICK u \in D : u = T[n]
          BY <1>11
        <4>2. EntryOf(ts, dd, u).tile_id = TileId(u) /\ EntryOf(ts, dd, t).tile_id = TileId(t)
          BY <1>8, EntryIs
        <4>3. EntryOf(ts, dd, u) = EntryOf(ts, dd, t)
          BY <3>2, <4>1
        <4>. QED
          BY <4>1, <4>2, <4>3
      <3>4. T[n] = t
        <4>1. T[n] \in Tiles /\ t \in Tiles
          BY <3>3, DomainIsFinite
        <4>. QED
          BY <3>3, <4>1, IdsAreDistinct
      <3>. QED
        BY <3>4
    <2>. QED
      BY <2>1
  <1>14. LaidOut(ts, d, dd, so, T)
    BY <1>5, <1>6, <1>9, <1>11, <1>12, <1>13 DEF LaidOut
  <1>. QED
    BY <1>4, <1>14

(* The entry of each tile, and whose content it is.                        *)
LEMMA LaidOutIs ==
    ASSUME NEW ts, NEW d, NEW dd, NEW so, NEW T, LaidOut(ts, d, dd, so, T)
    PROVE  /\ Len(so) \in Nat
           /\ \A i \in 1..Len(so) :
                 /\ T[i] \in DOMAIN ts /\ T[i] \in Tiles /\ ts[T[i]] \in Range(ts)
                 /\ so[i] \in DirEntries /\ so[i].tile_id = TileId(T[i]) /\ TileId(T[i]) \in Nat
                 /\ so[i].offset \in Nat /\ so[i].run_length = 1
                 /\ so[i].length = Size[ts[T[i]]] /\ so[i].length \in Nat /\ so[i].length # 0
                 /\ Piece(d, so[i].offset, Bytes(ts[T[i]]))
           /\ \A i, j \in 1..Len(so) : so[i].offset = so[j].offset <=> ts[T[i]] = ts[T[j]]
           /\ \A i, j \in 1..Len(so) : i < j => TileId(T[i]) < TileId(T[j])
  <1>1. /\ ts \in Archives /\ StoredIn(ts, d, dd) /\ DOMAIN dd = Range(ts)
        /\ SortedDir(so) /\ Len(so) \in Nat
        /\ \A i \in 1..Len(so) : T[i] \in DOMAIN ts /\ so[i] = EntryOf(ts, dd, T[i])
    BY SortedTypes DEF LaidOut
  <1>2. \A i \in 1..Len(so) : T[i] \in Tiles /\ ts[T[i]] \in Range(ts) /\ ts[T[i]] \in DOMAIN dd
    BY <1>1, DomainIsFinite DEF Range
  <1>3. \A i \in 1..Len(so) :
            /\ so[i] \in DirEntries /\ so[i].tile_id = TileId(T[i]) /\ TileId(T[i]) \in Nat
            /\ so[i].offset = dd[ts[T[i]]] /\ so[i].offset \in Nat /\ so[i].run_length = 1
            /\ so[i].length = Size[ts[T[i]]]
    BY <1>1, <1>2, EntryIs
  <1>4. \A c \in Range(ts) : Piece(d, dd[c], Bytes(c)) /\ Size[c] \in Nat /\ Size[c] # 0
    BY <1>1, ContentsAre DEF StoredIn
  <1>5. \A i, j \in 1..Len(so) : so[i].offset = so[j].offset => ts[T[i]] = ts[T[j]]
    <2>1. ASSUME NEW i \in 1..Len(so), NEW j \in 1..Len(so), so[i].offset = so[j].offset
          PROVE  ts[T[i]] = ts[T[j]]
      <3>1. PICK c \in Range(ts), e \in Range(ts) : c = ts[T[i]] /\ e = ts[T[j]]
        BY <1>2
      <3>2. dd[c] = dd[e]
        BY <1>3, <2>1, <3>1
      <3>3. c = e
        BY <1>1, <1>4, <3>2, BytesTell
      <3>. QED
        BY <3>1, <3>3
    <2>. QED
      BY <2>1
  <1>6. \A i, j \in 1..Len(so) : i < j => TileId(T[i]) < TileId(T[j])
    BY <1>1, <1>3 DEF SortedDir
  <1>. QED
    BY <1>1, <1>2, <1>3, <1>4, <1>5, <1>6

-----------------------------------------------------------------------------
(* Where a content appears first.                                          *)
LEMMA FirstsAre ==
    ASSUME NEW es, SortedDir(es)
    PROVE  /\ Firsts(es) \subseteq 1..Len(es) /\ IsFiniteSet(Firsts(es)) /\ Len(es) \in Nat
           /\ \A i \in 1..Len(es) : /\ FirstOf(es, i) \in Firsts(es) /\ FirstOf(es, i) \in 1..Len(es)
                                    /\ FirstOf(es, i) <= i
                                    /\ es[FirstOf(es, i)].offset = es[i].offset
           /\ \A i, j \in 1..Len(es) :
                 es[i].offset = es[j].offset <=> FirstOf(es, i) = FirstOf(es, j)
           /\ \A i, j \in 1..Len(es) : es[i].offset = es[j].offset => FirstOf(es, i) <= j
           /\ \A j \in Firsts(es) : FirstOf(es, j) = j
  <1>1. PICK N \in Nat : N = Len(es) /\ DOMAIN es = 1..N
    BY SortedTypes
  <1>2. ASSUME NEW i \in 1..N
        PROVE  /\ FirstOf(es, i) \in 1..N /\ es[FirstOf(es, i)].offset = es[i].offset
               /\ \A j \in 1..N : es[j].offset = es[i].offset => FirstOf(es, i) <= j
    <2>1. PICK S : S = {j \in DOMAIN es : es[j].offset = es[i].offset}
      OBVIOUS
    <2>2. S \in SUBSET Nat /\ S # {} /\ S \subseteq 1..N
      BY <1>1, <2>1
    <2>3. PICK m : m = Min(S) /\ m \in S /\ \A y \in S : m <= y
      BY <2>2, LeastIs
    <2>4. FirstOf(es, i) = m
      BY <2>1, <2>3 DEF FirstOf
    <2>. QED
      BY <1>1, <2>1, <2>2, <2>3, <2>4
  <1>3. \A i, j \in 1..N : es[i].offset = es[j].offset => FirstOf(es, i) = FirstOf(es, j)
    BY <1>1 DEF FirstOf
  <1>4. \A i, j \in 1..N : FirstOf(es, i) = FirstOf(es, j) => es[i].offset = es[j].offset
    BY <1>2
  <1>5. \A i \in 1..N : FirstOf(es, i) <= i /\ FirstOf(es, FirstOf(es, i)) = FirstOf(es, i)
    BY <1>2, <1>3
  <1>6. \A i \in 1..N : FirstOf(es, i) \in Firsts(es)
    BY <1>1, <1>2, <1>5 DEF Firsts
  <1>7. Firsts(es) \subseteq 1..N /\ \A j \in Firsts(es) : FirstOf(es, j) = j
    BY <1>1 DEF Firsts
  <1>8. IsFiniteSet(Firsts(es))
    <2>1. IsFiniteSet(1..N)
      BY FS_Interval
    <2>. QED
      BY <1>7, <2>1, FS_Subset
  <1>. QED
    BY <1>1, <1>2, <1>3, <1>4, <1>5, <1>6, <1>7, <1>8

(* The plan and the blobs that are copied.                                 *)
PlanOf(es) == InOrder(Firsts(es), [i \in Firsts(es) |-> i])

(* The contents finish copies, in the order of the plan.                   *)
BlobsOf(es, d) ==
    [n \in DOMAIN PlanOf(es) |->
        SubSeq(d, es[PlanOf(es)[n]].offset + 1, es[PlanOf(es)[n]].offset + es[PlanOf(es)[n]].length)]

(* p names each entry that is the first of its content, in order.          *)
PlansOut(es, p) ==
    /\ p \in Seq(Nat)
    /\ \A m, n \in 1..Len(p) : m < n => p[m] < p[n]
    /\ \A n \in 1..Len(p) : p[n] \in Firsts(es) /\ p[n] \in 1..Len(es)
    /\ \A j \in Firsts(es) : \E n \in 1..Len(p) : p[n] = j

(* So does the plan of finish.                                             *)
LEMMA PlanIs ==
    ASSUME NEW es, SortedDir(es)
    PROVE  PlansOut(es, PlanOf(es)) /\ Len(PlanOf(es)) = Cardinality(Firsts(es))
  <1>1. PICK F : F = Firsts(es) /\ F \subseteq Nat /\ F \subseteq 1..Len(es) /\ IsFiniteSet(F)
    BY FirstsAre
  <1>2. PICK key : key = [i \in F |-> i]
    OBVIOUS
  <1>3. Keyed(F, key) /\ \A i \in F : key[i] = i
    BY <1>1, <1>2 DEF Keyed
  <1>4. PICK p : p = InOrder(F, key)
    OBVIOUS
  <1>5. /\ p \in Seq(F) /\ \A m, n \in 1..Len(p) : m < n => key[p[m]] < key[p[n]]
        /\ Len(p) = Cardinality(F) /\ \A x \in F : \E n \in 1..Len(p) : p[n] = x
    BY <1>3, <1>4, InOrderRises DEF Rising
  <1>6. \A n \in 1..Len(p) : p[n] \in F
    BY <1>5
  <1>7. p \in Seq(Nat)
    BY <1>1, <1>5, <1>6
  <1>8. p = PlanOf(es)
    BY <1>1, <1>2, <1>4 DEF PlanOf
  <1>9. \A m, n \in 1..Len(p) : m < n => p[m] < p[n]
    BY <1>3, <1>5, <1>6
  <1>10. \A n \in 1..Len(p) : p[n] \in F /\ p[n] \in 1..Len(es)
    BY <1>1, <1>6
  <1>11. PlansOut(es, p)
    BY <1>1, <1>5, <1>7, <1>9, <1>10 DEF PlansOut
  <1>. QED
    BY <1>1, <1>5, <1>8, <1>11

(* The lengths the new offsets are sums of.                                *)
LengthsOf(es) == [j \in DOMAIN es |-> es[j].length]
PlannedUpto(p, n) == {p[m] : m \in 1..n}

(* b has the contents that the plan p names.                               *)
BlobsIn(S, es, d, p, b) ==
    /\ b \in Seq(Seq(S)) /\ Len(b) = Len(p)
    /\ \A n \in 1..Len(p) : Len(b[n]) = es[p[n]].length /\ Piece(d, es[p[n]].offset, b[n])

(* So have the blobs finish copies.                                        *)
LEMMA BlobsAre ==
    ASSUME NEW es, SortedDir(es), NEW S, NEW d \in Seq(S),
           \A i \in 1..Len(es) : es[i].offset + es[i].length <= Len(d)
    PROVE  BlobsIn(S, es, d, PlanOf(es), BlobsOf(es, d))
  <1>1. PICK p : p = PlanOf(es) /\ PlansOut(es, p)
    BY PlanIs
  <1>2. PICK P \in Nat : P = Len(p) /\ DOMAIN p = 1..P /\ \A n \in 1..P : p[n] \in 1..Len(es)
    BY <1>1 DEF PlansOut
  <1>3. PICK b : b = [n \in 1..P |-> SubSeq(d, es[p[n]].offset + 1, es[p[n]].offset + es[p[n]].length)]
    OBVIOUS
  <1>4. b = BlobsOf(es, d)
    BY <1>1, <1>2, <1>3 DEF BlobsOf
  <1>5. ASSUME NEW n \in 1..P
        PROVE  b[n] \in Seq(S) /\ Len(b[n]) = es[p[n]].length /\ Piece(d, es[p[n]].offset, b[n])
    <2>1. PICK i \in 1..Len(es) : i = p[n]
      BY <1>2
    <2>2. PICK o \in Nat, l \in Nat : o = es[i].offset /\ l = es[i].length
      BY SortedTypes
    <2>3. PICK u : u = b[n] /\ u = Cutting(d, o, l) /\ o + l <= Len(d)
      BY <1>3, <2>1, <2>2 DEF Cutting
    <2>4. /\ Cutting(d, o, l) \in Seq(S) /\ Len(Cutting(d, o, l)) = l
          /\ Piece(d, o, Cutting(d, o, l))
      BY <2>3, CuttingIs
    <2>5. u \in Seq(S) /\ Len(u) = l /\ Piece(d, o, u)
      BY <2>3, <2>4
    <2>. QED
      BY <2>1, <2>2, <2>3, <2>5
  <1>6. b \in [1..P -> Seq(S)]
    BY <1>3, <1>5
  <1>7. b \in Seq(Seq(S)) /\ Len(b) = P
    BY <1>3, <1>6, SeqDef
  <1>. QED
    BY <1>1, <1>2, <1>4, <1>5, <1>7 DEF BlobsIn

(* Parts whose lengths are those of as many things, no two the same: what  *)
(* comes before a part is as long as the sum of those.                     *)
PartsFor(S, f, p, b) ==
    /\ b \in Seq(Seq(S))
    /\ \A n \in 1..Len(b) : f[p[n]] \in Nat /\ Len(b[n]) = f[p[n]]
    /\ \A m, n \in 1..Len(b) : m < n => p[m] # p[n]

(* The lengths of the contents in front add up to where the next one goes. *)
LEMMA SumsAreFronts ==
    ASSUME NEW S, NEW f, NEW p, NEW b, PartsFor(S, f, p, b)
    PROVE  \A n \in 0..Len(b) : SumFunctionOnSet(f, PlannedUpto(p, n)) = Len(Leading(b, n))
  <1>1. PICK P \in Nat : P = Len(b)
    BY DEF PartsFor
  <1>2. /\ b \in Seq(Seq(S)) /\ \A m, n \in 1..P : m < n => p[m] # p[n]
        /\ \A n \in 1..P : b[n] \in Seq(S) /\ Len(b[n]) = f[p[n]] /\ f[p[n]] \in Nat
    <2>1. /\ b \in Seq(Seq(S)) /\ \A n \in 1..P : Len(b[n]) = f[p[n]] /\ f[p[n]] \in Nat
          /\ \A m, n \in 1..P : m < n => p[m] # p[n]
      BY <1>1 DEF PartsFor
    <2>2. \A n \in 1..P : b[n] \in Seq(S)
      BY <1>1, <2>1
    <2>. QED
      BY <2>1, <2>2
  <1>4. /\ Leading(b, 0) = <<>> /\ \A n \in 1..P : Leading(b, n) = Leading(b, n - 1) \o b[n]
        /\ \A n \in 0..P : Leading(b, n) \in Seq(S)
    BY <1>1, <1>2, FrontSteps
  <1>. DEFINE Good == {n \in Nat : n <= P =>
                           /\ IsFiniteSet(PlannedUpto(p, n))
                           /\ SumFunctionOnSet(f, PlannedUpto(p, n)) = Len(Leading(b, n))}
  <1>5. 0 \in Good
    <2>1. PlannedUpto(p, 0) = {}
      BY DEF PlannedUpto
    <2>2. SumFunctionOnSet(f, PlannedUpto(p, 0)) = 0 /\ IsFiniteSet({})
      BY <2>1, SumOfNothing, FS_EmptySet
    <2>. QED
      BY <1>4, <2>1, <2>2
  <1>6. ASSUME NEW n \in Nat, n \in Good
        PROVE  n + 1 \in Good
    <2>. SUFFICES ASSUME n + 1 <= P
                  PROVE  /\ IsFiniteSet(PlannedUpto(p, n + 1))
                         /\ SumFunctionOnSet(f, PlannedUpto(p, n + 1)) = Len(Leading(b, n + 1))
      OBVIOUS
    <2>1. PICK x : x = p[n + 1]
      OBVIOUS
    <2>2. PICK Q : Q = PlannedUpto(p, n) /\ \A y \in Q : y # x /\ f[y] \in Nat
      <3>1. \A m \in 1..n : m \in 1..P /\ n + 1 \in 1..P /\ m < n + 1
        OBVIOUS
      <3>2. \A m \in 1..n : p[m] # x /\ f[p[m]] \in Nat
        BY <1>2, <2>1, <3>1
      <3>3. PICK Q : Q = PlannedUpto(p, n)
        OBVIOUS
      <3>4. \A y \in Q : \E m \in 1..n : y = p[m]
        BY <3>3 DEF PlannedUpto
      <3>. QED
        BY <3>2, <3>3, <3>4
    <2>3. PlannedUpto(p, n + 1) = Q \cup {x}
      <3>1. 1..(n + 1) = (1..n) \cup {n + 1}
        OBVIOUS
      <3>. QED
        BY <2>1, <2>2, <3>1 DEF PlannedUpto
    <2>4. IsFiniteSet(Q) /\ IsFiniteSet(Q \cup {x}) /\ \A y \in Q \cup {x} : f[y] \in Nat
      <3>1. IsFiniteSet(Q)
        BY <1>6, <2>2
      <3>2. n + 1 \in 1..P
        OBVIOUS
      <3>3. f[x] \in Nat
        BY <1>2, <2>1, <3>2
      <3>4. IsFiniteSet(Q \cup {x})
        BY <3>1, FS_AddElement
      <3>. QED
        BY <2>2, <3>1, <3>3, <3>4
    <2>5. SumFunctionOnSet(f, Q \cup {x}) = SumFunctionOnSet(f, Q) + f[x]
      BY <2>2, <2>4, SumOfMore
    <2>6. Len(Leading(b, n + 1)) = Len(Leading(b, n)) + f[x]
      <3>1. n + 1 \in 1..P /\ n \in 0..P /\ (n + 1) - 1 = n
        OBVIOUS
      <3>2. PICK u \in Seq(S), v \in Seq(S) : u = Leading(b, n) /\ v = b[n + 1] /\ Len(v) = f[x]
        BY <1>2, <1>4, <2>1, <3>1
      <3>3. Leading(b, n + 1) = u \o v
        BY <1>4, <3>1, <3>2
      <3>4. Len(u \o v) = Len(u) + Len(v)
        OBVIOUS
      <3>. QED
        BY <3>2, <3>3, <3>4
    <2>7. SumFunctionOnSet(f, Q) = Len(Leading(b, n))
      BY <1>6, <2>2
    <2>. QED
      BY <2>3, <2>4, <2>5, <2>6, <2>7
  <1>. HIDE DEF Good
  <1>7. \A n \in Nat : n \in Good
    BY <1>5, <1>6, NumberInduction, Zenon
  <1>. QED
    BY <1>1, <1>7 DEF Good

(* So the new offset of an entry is the place of its content in the copied *)
(* data.                                                                   *)
LEMMA OffsetsAreFronts ==
    ASSUME NEW es, SortedDir(es), NEW S, NEW d, NEW p, PlansOut(es, p), NEW b, BlobsIn(S, es, d, p, b)
    PROVE  /\ \A i \in 1..Len(es) : \A n \in 1..Len(p) :
                  p[n] = FirstOf(es, i) => NewOffset(es, i) = Len(Leading(b, n - 1))
           /\ SumFunctionOnSet(LengthsOf(es), Firsts(es)) = Len(Leading(b, Len(p)))
  <1>1. /\ Len(p) \in Nat /\ \A n \in 1..Len(p) : p[n] \in Firsts(es) /\ p[n] \in Nat
        /\ \A m, n \in 1..Len(p) : m < n => p[m] < p[n]
        /\ \A j \in Firsts(es) : \E n \in 1..Len(p) : p[n] = j
    BY DEF PlansOut
  <1>2. \A n \in 0..Len(p) :
            SumFunctionOnSet(LengthsOf(es), PlannedUpto(p, n)) = Len(Leading(b, n))
    <2>1. \A j \in 1..Len(es) : LengthsOf(es)[j] = es[j].length /\ es[j].length \in Nat
      <3>1. DOMAIN es = 1..Len(es) /\ \A j \in 1..Len(es) : es[j].length \in Nat
        BY SortedTypes
      <3>. QED
        BY <3>1 DEF LengthsOf
    <2>2. /\ b \in Seq(Seq(S)) /\ Len(b) = Len(p)
          /\ \A n \in 1..Len(p) : Len(b[n]) = es[p[n]].length /\ p[n] \in 1..Len(es)
      BY DEF BlobsIn, PlansOut
    <2>3. \A n \in 1..Len(b) : LengthsOf(es)[p[n]] \in Nat /\ Len(b[n]) = LengthsOf(es)[p[n]]
      BY <2>1, <2>2
    <2>4. \A m, n \in 1..Len(b) : m < n => p[m] # p[n]
      BY <1>1, <2>2
    <2>5. PartsFor(S, LengthsOf(es), p, b)
      BY <2>2, <2>3, <2>4 DEF PartsFor
    <2>. QED
      BY <2>2, <2>5, SumsAreFronts
  <1>3. ASSUME NEW i \in 1..Len(es), NEW n \in 1..Len(p), p[n] = FirstOf(es, i)
        PROVE  NewOffset(es, i) = Len(Leading(b, n - 1))
    <2>1. {j \in Firsts(es) : j < p[n]} = PlannedUpto(p, n - 1)
      <3>1. \A m \in 1..(n - 1) : m \in 1..Len(p) /\ m < n
        BY <1>1
      <3>2. ASSUME NEW m \in 1..Len(p), p[m] < p[n]
            PROVE  m \in 1..(n - 1)
        <4>1. ~(n < m) /\ m # n
          BY <1>1, <3>2
        <4>. QED
          BY <1>1, <4>1
      <3>. QED
        BY <1>1, <3>1, <3>2 DEF PlannedUpto
    <2>2. n - 1 \in 0..Len(p)
      BY <1>1
    <2>. QED
      BY <1>2, <1>3, <2>1, <2>2 DEF NewOffset, LengthsOf
  <1>4. PlannedUpto(p, Len(p)) = Firsts(es) /\ Len(p) \in 0..Len(p)
    BY <1>1 DEF PlannedUpto
  <1>. QED
    BY <1>2, <1>3, <1>4

-----------------------------------------------------------------------------
(* Clustered entries: T says whose they are, D is what was copied.         *)
ClusteredAs(ts, cl, D, T) ==
    /\ ts \in Archives /\ Plain(cl) /\ D \in Seq(Cells) /\ Len(cl) = Cardinality(DOMAIN ts)
    /\ T \in [1..Len(cl) -> DOMAIN ts]
    /\ \A t \in DOMAIN ts : \E i \in 1..Len(cl) : T[i] = t
    /\ \A i \in 1..Len(cl) : /\ cl[i].tile_id = TileId(T[i])
                             /\ cl[i].length = Size[ts[T[i]]]
                             /\ Piece(D, cl[i].offset, Bytes(ts[T[i]]))
    /\ \A i, j \in 1..Len(cl) : cl[i].offset = cl[j].offset <=> ts[T[i]] = ts[T[j]]

(* Two pieces of one place and length are one.                             *)
LEMMA SamePiece ==
    ASSUME NEW S, NEW t \in Seq(S), NEW u \in Seq(S), NEW s, NEW a,
           Piece(s, a, t), Piece(s, a, u), Len(t) = Len(u)
    PROVE  t = u
  <1>1. \A i \in 1..Len(t) : t[i] = u[i]
    BY DEF Piece
  <1>. HIDE DEF Piece
  <1>. QED
    BY <1>1

(* The sorted entries point into the stored data.                          *)
LEMMA LaidOutFits ==
    ASSUME NEW ts, NEW d, NEW dd, NEW so, NEW T, LaidOut(ts, d, dd, so, T)
    PROVE  /\ SortedDir(so) /\ d \in Seq(Cells) /\ Len(so) \in Nat
           /\ \A i \in 1..Len(so) : so[i].offset + so[i].length <= Len(d)
  <1>1. SortedDir(so) /\ d \in Seq(Cells) /\ ts \in Archives
    BY DEF LaidOut, StoredIn
  <1>2. ASSUME NEW i \in 1..Len(so)
        PROVE  so[i].offset + so[i].length <= Len(d)
    <2>1. PICK c \in Range(ts) : so[i].length = Size[c] /\ Piece(d, so[i].offset, Bytes(c))
      BY LaidOutIs
    <2>2. Len(Bytes(c)) = Size[c]
      BY <1>1, ContentsAre
    <2>. QED
      BY <2>1, <2>2 DEF Piece
  <1>. QED
    BY <1>1, <1>2, LaidOutIs

(* Each blob is the content of the tile it is planned for.                 *)
LEMMA BlobsAreContents ==
    ASSUME NEW ts, NEW d, NEW dd, NEW so, NEW T, LaidOut(ts, d, dd, so, T)
    PROVE  \A n \in 1..Len(PlanOf(so)) : BlobsOf(so, d)[n] = Bytes(ts[T[PlanOf(so)[n]]])
  <1>1. PICK p, b : /\ p = PlanOf(so) /\ b = BlobsOf(so, d) /\ PlansOut(so, p)
                    /\ BlobsIn(Cells, so, d, p, b)
    BY LaidOutFits, PlanIs, BlobsAre
  <1>2. ASSUME NEW n \in 1..Len(p)
        PROVE  b[n] = Bytes(ts[T[p[n]]])
    <2>1. PICK j \in 1..Len(so) : j = p[n]
      BY <1>1 DEF PlansOut
    <2>2. PICK c \in Range(ts) : /\ c = ts[T[j]] /\ so[j].length = Size[c]
                                 /\ Piece(d, so[j].offset, Bytes(c))
      BY LaidOutIs
    <2>3. ts \in Archives
      BY DEF LaidOut
    <2>4. Bytes(c) \in Seq(Cells) /\ Len(Bytes(c)) = Size[c]
      BY <2>3, ContentsAre
    <2>5. b \in Seq(Seq(Cells)) /\ Len(b) = Len(p)
      BY <1>1 DEF BlobsIn
    <2>6. b[n] \in Seq(Cells)
      BY <2>5
    <2>7. Len(b[n]) = so[j].length /\ Piece(d, so[j].offset, b[n])
      BY <1>1, <2>1 DEF BlobsIn
    <2>8. b[n] = Bytes(c)
      BY <2>2, <2>4, <2>6, <2>7, SamePiece
    <2>. QED
      BY <2>1, <2>2, <2>8
  <1>. QED
    BY <1>1, <1>2

(* The new offset of an entry, by the plan.                                *)
LEMMA OffsetOf ==
    ASSUME NEW ts, NEW d, NEW dd, NEW so, NEW T, LaidOut(ts, d, dd, so, T),
           NEW i \in 1..Len(so)
    PROVE  \E n \in 1..Len(PlanOf(so)) :
               /\ PlanOf(so)[n] = FirstOf(so, i)
               /\ NewOffset(so, i) = Len(Leading(BlobsOf(so, d), n - 1))
               /\ BlobsOf(so, d)[n] = Bytes(ts[T[i]])
  <1>1. PICK p, b : /\ p = PlanOf(so) /\ b = BlobsOf(so, d) /\ PlansOut(so, p)
                    /\ BlobsIn(Cells, so, d, p, b) /\ SortedDir(so)
    BY LaidOutFits, PlanIs, BlobsAre
  <1>2. PICK j \in 1..Len(so) : /\ j = FirstOf(so, i) /\ j \in Firsts(so)
                                /\ so[j].offset = so[i].offset
    BY <1>1, FirstsAre
  <1>3. PICK n \in 1..Len(p) : p[n] = j
    BY <1>1, <1>2 DEF PlansOut
  <1>4. NewOffset(so, i) = Len(Leading(b, n - 1))
    BY <1>1, <1>2, <1>3, OffsetsAreFronts
  <1>5. ts[T[j]] = ts[T[i]]
    BY <1>2, LaidOutIs
  <1>6. b[n] = Bytes(ts[T[p[n]]])
    BY <1>1, BlobsAreContents
  <1>. QED
    BY <1>1, <1>2, <1>3, <1>4, <1>5, <1>6

(* Contents have bytes, so no two are copied to one place.                 *)
LEMMA FrontsApart ==
    ASSUME NEW S, NEW b \in Seq(Seq(S)), NEW n \in 1..Len(b), NEW m \in 1..Len(b), n < m,
           Len(b[n]) # 0
    PROVE  Len(Leading(b, n - 1)) # Len(Leading(b, m - 1))
  <1>1. PICK a \in Nat, l \in Nat : a = Len(Leading(b, n - 1)) /\ l = Len(b[n])
    BY Slices
  <1>2. m - 1 \in n..Len(b)
    OBVIOUS
  <1>3. a + l <= Len(Leading(b, m - 1))
    BY <1>1, <1>2, Slices
  <1>4. m - 1 \in 0..Len(b)
    OBVIOUS
  <1>5. PICK c : c = Len(Leading(b, m - 1))
    OBVIOUS
  <1>6. l # 0 /\ a + l <= c
    BY <1>1, <1>3, <1>5
  <1>7. Leading(b, m - 1) \in Seq(S)
    BY <1>4, FrontSteps
  <1>8. c \in Nat
    BY <1>5, <1>7
  <1>9. a # c
    BY <1>6, <1>8
  <1>. QED
    BY <1>1, <1>5, <1>9

(* Two entries share an offset exactly if their tiles share their content. *)
LEMMA SameOffsets ==
    ASSUME NEW ts, NEW d, NEW dd, NEW so, NEW T, LaidOut(ts, d, dd, so, T),
           NEW i \in 1..Len(so), NEW j \in 1..Len(so)
    PROVE  NewOffset(so, i) = NewOffset(so, j) <=> ts[T[i]] = ts[T[j]]
  <1>0. SortedDir(so) /\ ts \in Archives
    BY DEF LaidOut
  <1>1. CASE ts[T[i]] = ts[T[j]]
    <2>1. FirstOf(so, i) = FirstOf(so, j)
      BY <1>0, <1>1, LaidOutIs, FirstsAre
    <2>. QED
      BY <1>1, <2>1 DEF NewOffset
  <1>2. CASE ts[T[i]] # ts[T[j]]
    <2>1. PICK b : /\ b = BlobsOf(so, d) /\ BlobsIn(Cells, so, d, PlanOf(so), b)
      BY LaidOutFits, BlobsAre
    <2>2. b \in Seq(Seq(Cells)) /\ Len(b) = Len(PlanOf(so)) /\ Len(b) \in Nat
      BY <2>1 DEF BlobsIn
    <2>3. PICK n \in 1..Len(b) : /\ PlanOf(so)[n] = FirstOf(so, i)
                                 /\ NewOffset(so, i) = Len(Leading(b, n - 1))
                                 /\ b[n] = Bytes(ts[T[i]])
      <3>1. \E k \in 1..Len(PlanOf(so)) :
                /\ PlanOf(so)[k] = FirstOf(so, i)
                /\ NewOffset(so, i) = Len(Leading(BlobsOf(so, d), k - 1))
                /\ BlobsOf(so, d)[k] = Bytes(ts[T[i]])
        BY OffsetOf, SMTT(30)
      <3>. QED
        BY <2>1, <2>2, <3>1
    <2>4. PICK m \in 1..Len(b) : /\ PlanOf(so)[m] = FirstOf(so, j)
                                 /\ NewOffset(so, j) = Len(Leading(b, m - 1))
                                 /\ b[m] = Bytes(ts[T[j]])
      <3>1. \E k \in 1..Len(PlanOf(so)) :
                /\ PlanOf(so)[k] = FirstOf(so, j)
                /\ NewOffset(so, j) = Len(Leading(BlobsOf(so, d), k - 1))
                /\ BlobsOf(so, d)[k] = Bytes(ts[T[j]])
        BY OffsetOf, SMTT(30)
      <3>. QED
        BY <2>1, <2>2, <3>1
    <2>5. n # m
      <3>1. so[i].offset # so[j].offset
        BY <1>2, LaidOutIs
      <3>2. FirstOf(so, i) # FirstOf(so, j)
        BY <1>0, <3>1, FirstsAre
      <3>. QED
        BY <2>3, <2>4, <3>2
    <2>6. Len(b[n]) # 0 /\ Len(b[m]) # 0
      <3>1. ts[T[i]] \in Range(ts) /\ ts[T[j]] \in Range(ts)
        BY LaidOutIs
      <3>2. Len(Bytes(ts[T[i]])) # 0 /\ Len(Bytes(ts[T[j]])) # 0
        BY <1>0, <3>1, ContentsAre
      <3>. QED
        BY <2>3, <2>4, <3>2
    <2>7. Len(Leading(b, n - 1)) # Len(Leading(b, m - 1))
      <3>1. CASE n < m
        BY <2>2, <2>6, <3>1, FrontsApart
      <3>2. CASE m < n
        BY <2>2, <2>6, <3>2, FrontsApart
      <3>. QED
        BY <2>2, <2>5, <3>1, <3>2
    <2>. QED
      BY <1>2, <2>3, <2>4, <2>7
  <1>. QED
    BY <1>1, <1>2

(* At the new offset of a tile's entry are the bytes of the tile.          *)
LEMMA OffsetHolds ==
    ASSUME NEW ts, NEW d, NEW dd, NEW so, NEW T, LaidOut(ts, d, dd, so, T),
           NEW i \in 1..Len(so)
    PROVE  /\ FlattenSeq(BlobsOf(so, d)) \in Seq(Cells)
           /\ Piece(FlattenSeq(BlobsOf(so, d)), NewOffset(so, i), Bytes(ts[T[i]]))
           /\ NewOffset(so, i) \in Nat
  <1>1. PICK b : /\ b = BlobsOf(so, d) /\ BlobsIn(Cells, so, d, PlanOf(so), b)
    BY LaidOutFits, BlobsAre
  <1>2. b \in Seq(Seq(Cells)) /\ Len(b) = Len(PlanOf(so)) /\ Len(b) \in Nat
    BY <1>1 DEF BlobsIn
  <1>3. PICK n \in 1..Len(b) : NewOffset(so, i) = Len(Leading(b, n - 1)) /\ b[n] = Bytes(ts[T[i]])
    BY <1>1, <1>2, OffsetOf
  <1>4. PICK D : D = FlattenSeq(b) /\ D \in Seq(Cells)
    BY <1>2, Flattened
  <1>5. PICK a \in Nat, l \in Nat : /\ a = Len(Leading(b, n - 1)) /\ l = Len(b[n])
                                    /\ a + l <= Len(D) /\ SubSeq(D, a + 1, a + l) = b[n]
    BY <1>2, <1>4, Slices
  <1>6. PICK u : u = Cutting(D, a, l) /\ u = b[n]
    BY <1>5 DEF Cutting
  <1>7. Piece(D, a, u)
    <2>1. PICK E \in Seq(Cells) : E = D /\ a + l <= Len(E)
      BY <1>4, <1>5
    <2>2. Piece(E, a, Cutting(E, a, l))
      BY <2>1, CuttingIs
    <2>. QED
      BY <1>6, <2>1, <2>2
  <1>. QED
    BY <1>1, <1>3, <1>4, <1>5, <1>6, <1>7

(* finish: the clustered entries and the copied data fit each other.       *)
LEMMA ClusteredIs ==
    ASSUME NEW ts, NEW d, NEW dd, NEW so, NEW T, LaidOut(ts, d, dd, so, T)
    PROVE  ClusteredAs(ts, Clustered(so), FlattenSeq(BlobsOf(so, d)), T)
  <1>1. PICK N \in Nat : N = Len(so) /\ DOMAIN so = 1..N /\ ts \in Archives /\ SortedDir(so)
    BY SortedTypes DEF LaidOut
  <1>2. PICK cl : cl = [i \in 1..N |-> [so[i] EXCEPT !.offset = NewOffset(so, i)]]
    OBVIOUS
  <1>3. cl = Clustered(so)
    BY <1>1, <1>2 DEF Clustered
  <1>4. ASSUME NEW i \in 1..N
        PROVE  /\ cl[i] \in DirEntries /\ cl[i].tile_id = so[i].tile_id
               /\ cl[i].offset = NewOffset(so, i) /\ cl[i].length = so[i].length
               /\ cl[i].run_length = 1
    <2>1. PICK e \in DirEntries, o \in Nat : e = so[i] /\ e.run_length = 1 /\ o = NewOffset(so, i)
      BY <1>1, LaidOutIs, OffsetHolds
    <2>2. cl[i] = [e EXCEPT !.offset = o]
      BY <1>2, <2>1
    <2>. QED
      BY <2>1, <2>2 DEF DirEntries
  <1>5. cl \in Seq(DirEntries) /\ Len(cl) = N
    <2>1. cl \in [1..N -> DirEntries]
      BY <1>2, <1>4
    <2>. QED
      BY <1>2, <2>1, SeqDef
  <1>6. \A i \in 1..N : /\ so[i].tile_id = TileId(T[i]) /\ so[i].length = Size[ts[T[i]]]
    BY <1>1, LaidOutIs
  <1>7. \A i, j \in 1..N : cl[i].offset = cl[j].offset <=> ts[T[i]] = ts[T[j]]
    BY <1>1, <1>4, SameOffsets
  <1>8. Plain(cl)
    <2>1. \A i, j \in 1..N : i < j => cl[i].tile_id < cl[j].tile_id
      BY <1>1, <1>4 DEF SortedDir
    <2>2. SortedDir(cl)
      BY <1>5, <2>1 DEF SortedDir
    <2>3. \A i, j \in 1..N : cl[i].offset = cl[j].offset => cl[i].length = cl[j].length
      BY <1>4, <1>6, <1>7
    <2>. QED
      BY <1>4, <1>5, <2>2, <2>3 DEF Plain
  <1>9. FlattenSeq(BlobsOf(so, d)) \in Seq(Cells)
    <2>1. PICK b : /\ b = BlobsOf(so, d) /\ BlobsIn(Cells, so, d, PlanOf(so), b)
      BY LaidOutFits, BlobsAre
    <2>2. b \in Seq(Seq(Cells))
      BY <2>1 DEF BlobsIn
    <2>. QED
      BY <2>1, <2>2, Flattened
  <1>10. \A i \in 1..N : Piece(FlattenSeq(BlobsOf(so, d)), cl[i].offset, Bytes(ts[T[i]]))
    BY <1>1, <1>4, OffsetHolds
  <1>11. /\ T \in [1..N -> DOMAIN ts] /\ N = Cardinality(DOMAIN ts)
         /\ \A t \in DOMAIN ts : \E i \in 1..N : T[i] = t
    BY <1>1 DEF LaidOut
  <1>. QED
    BY <1>1, <1>3, <1>4, <1>5, <1>6, <1>7, <1>8, <1>9, <1>10, <1>11 DEF ClusteredAs

-----------------------------------------------------------------------------
(* FirstId and the data section, of any archive.                           *)
FirstIdIn(ts, c) == Min({TileId(t) : t \in {u \in DOMAIN ts : ts[u] = c}})

(* The contents by the first tile that has them, as FileIsClustered has    *)
(* them.                                                                   *)
ContentsOf(ts) == InOrder(Range(ts), [c \in Range(ts) |-> FirstIdIn(ts, c)])
SectionOf(ts) == FlattenSeq([i \in DOMAIN ContentsOf(ts) |-> Bytes(ContentsOf(ts)[i])])

(* The first entry of a content is of the first tile that has it.          *)
LEMMA FirstIdIs ==
    ASSUME NEW ts, NEW d, NEW dd, NEW so, NEW T, LaidOut(ts, d, dd, so, T),
           NEW j \in Firsts(so)
    PROVE  j \in 1..Len(so) /\ FirstIdIn(ts, ts[T[j]]) = TileId(T[j]) /\ TileId(T[j]) \in Nat
  <1>1. SortedDir(so) /\ \A t \in DOMAIN ts : \E i \in 1..Len(so) : T[i] = t
    BY DEF LaidOut
  <1>2. j \in 1..Len(so) /\ FirstOf(so, j) = j /\ Len(so) \in Nat
    BY <1>1, FirstsAre
  <1>3. /\ \A i \in 1..Len(so) : TileId(T[i]) \in Nat /\ T[i] \in DOMAIN ts
        /\ \A i, k \in 1..Len(so) : i < k => TileId(T[i]) < TileId(T[k])
    BY LaidOutIs
  <1>4. PICK S : S = {TileId(t) : t \in {u \in DOMAIN ts : ts[u] = ts[T[j]]}}
    OBVIOUS
  <1>5. TileId(T[j]) \in S
    BY <1>2, <1>3, <1>4
  <1>6. ASSUME NEW x \in S
        PROVE  x \in Nat /\ TileId(T[j]) <= x
    <2>1. PICK t \in DOMAIN ts : ts[t] = ts[T[j]] /\ x = TileId(t)
      BY <1>4
    <2>2. PICK i \in 1..Len(so) : T[i] = t
      BY <1>1
    <2>3. so[i].offset = so[j].offset
      BY <1>2, <2>1, <2>2, LaidOutIs
    <2>4. j <= i
      BY <1>1, <1>2, <2>3, FirstsAre
    <2>5. TileId(T[i]) \in Nat /\ TileId(T[j]) \in Nat
      BY <1>2, <1>3
    <2>6. i = j \/ TileId(T[j]) < TileId(T[i])
      BY <1>2, <1>3, <2>4
    <2>. QED
      BY <2>1, <2>2, <2>5, <2>6
  <1>7. S \in SUBSET Nat /\ S # {}
    BY <1>5, <1>6
  <1>8. PICK m : m = Min(S) /\ m \in S /\ m <= TileId(T[j])
    BY <1>5, <1>7, LeastIs
  <1>9. m = TileId(T[j])
    BY <1>2, <1>3, <1>6, <1>8
  <1>. QED
    BY <1>2, <1>3, <1>4, <1>8, <1>9 DEF FirstIdIn

(* No content is left out of the copy.                                     *)
LEMMA PlanCovers ==
    ASSUME NEW ts, NEW d, NEW dd, NEW so, NEW T, LaidOut(ts, d, dd, so, T),
           NEW c \in Range(ts)
    PROVE  \E n \in 1..Len(PlanOf(so)) : ts[T[PlanOf(so)[n]]] = c
  <1>1. SortedDir(so) /\ \A t \in DOMAIN ts : \E i \in 1..Len(so) : T[i] = t
    BY DEF LaidOut
  <1>2. PICK t \in DOMAIN ts : ts[t] = c
    BY DEF Range
  <1>3. PICK i \in 1..Len(so) : T[i] = t
    BY <1>1
  <1>4. PICK j \in 1..Len(so) : /\ j = FirstOf(so, i) /\ j \in Firsts(so)
                                /\ so[j].offset = so[i].offset
    BY <1>1, FirstsAre
  <1>5. PICK n \in 1..Len(PlanOf(so)) : PlanOf(so)[n] = j
    BY <1>1, <1>4, PlanIs DEF PlansOut
  <1>6. ts[T[j]] = ts[T[i]]
    BY <1>4, LaidOutIs
  <1>. QED
    BY <1>2, <1>3, <1>5, <1>6

(* The contents in the order their blobs are copied.                       *)
LEMMA ContentsPlanned ==
    ASSUME NEW ts, NEW d, NEW dd, NEW so, NEW T, LaidOut(ts, d, dd, so, T)
    PROVE  /\ Len(ContentsOf(ts)) = Len(PlanOf(so)) /\ Len(PlanOf(so)) \in Nat
           /\ DOMAIN ContentsOf(ts) = 1..Len(PlanOf(so))
           /\ \A n \in 1..Len(PlanOf(so)) : ContentsOf(ts)[n] = ts[T[PlanOf(so)[n]]]
           /\ PlannedUpto(ContentsOf(ts), Len(PlanOf(so))) = Range(ts)
           /\ \A m, n \in 1..Len(PlanOf(so)) : m < n => ContentsOf(ts)[m] # ContentsOf(ts)[n]
  <1>1. PICK p : p = PlanOf(so) /\ PlansOut(so, p)
    BY PlanIs DEF LaidOut
  <1>2. PICK P \in Nat : /\ P = Len(p) /\ \A n \in 1..P : p[n] \in Firsts(so) /\ p[n] \in Nat
                         /\ \A m, n \in 1..P : m < n => p[m] < p[n]
    <2>1. /\ p \in Seq(Nat) /\ Len(p) \in Nat /\ \A n \in 1..Len(p) : p[n] \in Firsts(so)
          /\ \A m, n \in 1..Len(p) : m < n => p[m] < p[n]
      BY <1>1 DEF PlansOut
    <2>2. \A n \in 1..Len(p) : p[n] \in Nat
      BY <2>1
    <2>. QED
      BY <2>1, <2>2
  <1>3. PICK s : s = [n \in 1..P |-> ts[T[p[n]]]]
    OBVIOUS
  <1>4. PICK C : C = Range(ts)
    OBVIOUS
  <1>5. \A n \in 1..P : /\ s[n] \in C /\ FirstIdIn(ts, s[n]) = TileId(T[p[n]])
                        /\ TileId(T[p[n]]) \in Nat
    <2>1. \A n \in 1..P : p[n] \in 1..Len(so) /\ ts[T[p[n]]] \in C
      BY <1>1, <1>2, <1>4, LaidOutIs DEF PlansOut
    <2>2. \A n \in 1..P : /\ FirstIdIn(ts, ts[T[p[n]]]) = TileId(T[p[n]])
                          /\ TileId(T[p[n]]) \in Nat
      BY <1>2, FirstIdIs
    <2>. QED
      BY <1>3, <2>1, <2>2
  <1>6. \A m, n \in 1..P : m < n => TileId(T[p[m]]) < TileId(T[p[n]])
    <2>1. \A n \in 1..P : p[n] \in 1..Len(so)
      BY <1>1, <1>2 DEF PlansOut
    <2>. QED
      BY <1>2, <2>1, LaidOutIs
  <1>7. \A c \in C : \E n \in 1..P : s[n] = c
    <2>1. \A c \in Range(ts) : \E n \in 1..Len(PlanOf(so)) : ts[T[PlanOf(so)[n]]] = c
      BY PlanCovers
    <2>. QED
      BY <1>1, <1>2, <1>3, <1>4, <2>1
  <1>8. PICK key : key = [c \in C |-> FirstIdIn(ts, c)]
    OBVIOUS
  <1>9. \A n \in 1..P : key[s[n]] = TileId(T[p[n]]) /\ key[s[n]] \in Nat
    BY <1>5, <1>8
  <1>10. \A m, n \in 1..P : m < n => key[s[m]] < key[s[n]]
    BY <1>6, <1>9
  <1>11. \A m, n \in 1..P : key[s[m]] = key[s[n]] => m = n
    <2>1. ASSUME NEW m \in 1..P, NEW n \in 1..P, key[s[m]] = key[s[n]], m # n
          PROVE  FALSE
      <3>1. PICK x \in Nat : x = key[s[m]] /\ x = key[s[n]]
        BY <1>9, <2>1
      <3>2. ~(m < n) /\ ~(n < m)
        <4>1. ~(x < x)
          OBVIOUS
        <4>2. (m < n => x < x) /\ (n < m => x < x)
          BY <1>10, <3>1
        <4>. QED
          BY <4>1, <4>2
      <3>. QED
        BY <2>1, <3>2
    <2>. QED
      BY <2>1
  <1>12. IsFiniteSet(C) /\ Cardinality(C) = P
    <2>1. s \in [1..P -> C]
      BY <1>3, <1>5
    <2>2. s \in Bijection(1..P, C)
      BY <1>7, <1>11, <2>1 DEF Bijection, Injection, Surjection, IsInjective
    <2>3. ExistsBijection(1..P, C)
      BY <2>2 DEF ExistsBijection
    <2>4. IsFiniteSet(1..P) /\ Cardinality(1..P) = P
      BY FS_Interval
    <2>. QED
      BY <2>3, <2>4, FS_Bijection, Zenon
  <1>13. Keyed(C, key)
    <2>1. \A c \in C : key[c] \in Int
      BY <1>7, <1>9
    <2>2. key \in [C -> Int]
      BY <1>8, <2>1
    <2>3. \A c, e \in C : key[c] = key[e] => c = e
      BY <1>7, <1>11
    <2>. QED
      BY <1>12, <2>2, <2>3 DEF Keyed
  <1>14. s \in Seq(C) /\ Len(s) = P
    <2>1. s \in [1..P -> C]
      BY <1>3, <1>5
    <2>. QED
      BY <1>3, <2>1, SeqDef
  <1>15. Rising(C, key, s)
    BY <1>10, <1>14 DEF Rising
  <1>16. s = InOrder(C, key)
    BY <1>12, <1>13, <1>14, <1>15, InOrderIsOne
  <1>17. s = ContentsOf(ts)
    BY <1>4, <1>8, <1>16 DEF ContentsOf
  <1>18. PlannedUpto(s, P) = C
    BY <1>5, <1>7 DEF PlannedUpto
  <1>19. \A m, n \in 1..P : m < n => s[m] # s[n]
    BY <1>11
  <1>. QED
    BY <1>1, <1>2, <1>3, <1>4, <1>14, <1>17, <1>18, <1>19

(* What was copied is the section, and as long as the temp file.           *)
LEMMA CopiedIsSection ==
    ASSUME NEW ts, NEW d, NEW dd, NEW so, NEW T, LaidOut(ts, d, dd, so, T)
    PROVE  /\ FlattenSeq(BlobsOf(so, d)) = SectionOf(ts)
           /\ Len(FlattenSeq(BlobsOf(so, d))) = Len(d)
           /\ Cardinality(DOMAIN dd) = Cardinality(Range(ts))
  <1>1. PICK p, b : p = PlanOf(so) /\ b = BlobsOf(so, d) /\ BlobsIn(Cells, so, d, p, b)
    BY LaidOutFits, BlobsAre
  <1>2. PICK s : s = ContentsOf(ts)
    OBVIOUS
  <1>3. PICK P \in Nat : /\ P = Len(p) /\ DOMAIN s = 1..P /\ Len(s) = P
                         /\ \A n \in 1..P : s[n] = ts[T[p[n]]]
                         /\ PlannedUpto(s, P) = Range(ts)
                         /\ \A m, n \in 1..P : m < n => s[m] # s[n]
    BY <1>1, <1>2, ContentsPlanned
  <1>4. b \in Seq(Seq(Cells)) /\ Len(b) = P /\ DOMAIN b = 1..P
    BY <1>1, <1>3 DEF BlobsIn
  <1>5. \A n \in 1..P : b[n] = Bytes(s[n])
    BY <1>1, <1>3, BlobsAreContents
  <1>6. b = [i \in DOMAIN s |-> Bytes(s[i])]
    BY <1>3, <1>4, <1>5
  <1>7. FlattenSeq(b) = SectionOf(ts)
    BY <1>2, <1>6 DEF SectionOf
  <1>8. ts \in Archives /\ StoredIn(ts, d, dd) /\ DOMAIN dd = Range(ts)
    BY DEF LaidOut
  <1>9. PartsFor(Cells, Size, s, b)
    <2>1. \A n \in 1..P : s[n] \in Range(ts)
      <3>1. \A n \in 1..P : s[n] \in PlannedUpto(s, P)
        BY DEF PlannedUpto
      <3>. QED
        BY <1>3, <3>1
    <2>2. \A n \in 1..P : Size[s[n]] \in Nat /\ Len(b[n]) = Size[s[n]]
      BY <1>5, <1>8, <2>1, ContentsAre
    <2>. QED
      BY <1>3, <1>4, <2>2 DEF PartsFor
  <1>10. SumFunctionOnSet(Size, PlannedUpto(s, P)) = Len(Leading(b, P))
    <2>1. P \in 0..Len(b)
      BY <1>4
    <2>. QED
      BY <1>9, <2>1, SumsAreFronts
  <1>11. Leading(b, P) = FlattenSeq(b)
    BY <1>4, FrontSteps
  <1>. QED
    BY <1>1, <1>3, <1>7, <1>8, <1>10, <1>11 DEF StoredIn

-----------------------------------------------------------------------------
(* The tiles a run starts with.                                            *)
StartsOf(ts) ==
    {t \in DOMAIN ts : \A u \in DOMAIN ts : TileId(u) + 1 = TileId(t) => ts[u] # ts[t]}

(* What the clustered entries are.                                         *)
LEMMA ClusteredTypes ==
    ASSUME NEW ts, NEW cl, NEW D, NEW T, ClusteredAs(ts, cl, D, T)
    PROVE  /\ Len(cl) \in Nat /\ Plain(cl)
           /\ \A i \in 1..Len(cl) : /\ cl[i].tile_id = TileId(T[i]) /\ TileId(T[i]) \in Nat
                                    /\ T[i] \in DOMAIN ts /\ T[i] \in Tiles
                                    /\ ts[T[i]] \in Range(ts)
           /\ \A i, j \in 1..Len(cl) : i < j => TileId(T[i]) < TileId(T[j])
           /\ \A i, j \in 1..Len(cl) : TileId(T[i]) <= TileId(T[j]) => i <= j
           /\ \A i, j \in 1..Len(cl) : T[i] = T[j] => i = j
  <1>1. /\ Plain(cl) /\ SortedDir(cl) /\ ts \in Archives
        /\ \A i \in 1..Len(cl) : cl[i].tile_id = TileId(T[i]) /\ T[i] \in DOMAIN ts
    BY DEF ClusteredAs, Plain
  <1>2. /\ Len(cl) \in Nat
        /\ \A i \in 1..Len(cl) : cl[i].tile_id \in Nat
        /\ \A i, j \in 1..Len(cl) : i < j => cl[i].tile_id < cl[j].tile_id
        /\ \A i, j \in 1..Len(cl) : cl[i].tile_id <= cl[j].tile_id => i <= j
    BY <1>1, SortedTypes
  <1>3. \A i \in 1..Len(cl) : T[i] \in Tiles /\ ts[T[i]] \in Range(ts)
    BY <1>1, DomainIsFinite DEF Range
  <1>4. \A i, j \in 1..Len(cl) : T[i] = T[j] => i = j
    <2>1. ASSUME NEW i \in 1..Len(cl), NEW j \in 1..Len(cl), T[i] = T[j]
          PROVE  i = j
      <3>1. cl[i].tile_id = cl[j].tile_id /\ cl[i].tile_id \in Nat
        BY <1>1, <1>2, <2>1
      <3>2. cl[i].tile_id <= cl[j].tile_id /\ cl[j].tile_id <= cl[i].tile_id
        BY <3>1
      <3>3. i <= j /\ j <= i
        BY <1>2, <3>2
      <3>. QED
        BY <1>2, <3>3
    <2>. QED
      BY <2>1
  <1>. QED
    BY <1>1, <1>2, <1>3, <1>4

(* An entry starts a run exactly if its tile does: no tile with the id     *)
(* before has the same content.                                            *)
LEMMA StartIs ==
    ASSUME NEW ts, NEW cl, NEW D, NEW T, ClusteredAs(ts, cl, D, T), NEW i \in 1..Len(cl)
    PROVE  ~Continues(cl, i) <=> T[i] \in StartsOf(ts)
  <1>1. PICK N \in Nat : /\ N = Len(cl) /\ \A k \in 1..N : /\ cl[k].tile_id = TileId(T[k])
                                                         /\ TileId(T[k]) \in Nat
                                                         /\ T[k] \in DOMAIN ts
                         /\ \A k, l \in 1..N : k < l => TileId(T[k]) < TileId(T[l])
                         /\ \A k, l \in 1..N : TileId(T[k]) <= TileId(T[l]) => k <= l
    BY ClusteredTypes
  <1>2. /\ \A k, l \in 1..N : cl[k].offset = cl[l].offset <=> ts[T[k]] = ts[T[l]]
        /\ \A t \in DOMAIN ts : \E k \in 1..N : T[k] = t
    BY <1>1 DEF ClusteredAs
  <1>3. CASE Continues(cl, i)
    <2>1. PICK j \in 1..N : j = i - 1
      BY <1>1, <1>3 DEF Continues
    <2>2. cl[j].offset = cl[i].offset /\ cl[j].tile_id + 1 = cl[i].tile_id /\ i \in 1..N
      BY <1>1, <1>3, <2>1 DEF Continues
    <2>3. TileId(T[j]) + 1 = TileId(T[i]) /\ ts[T[j]] = ts[T[i]] /\ T[j] \in DOMAIN ts
      BY <1>1, <1>2, <2>2
    <2>4. T[i] \notin StartsOf(ts)
      BY <2>3 DEF StartsOf
    <2>. QED
      BY <1>3, <2>4
  <1>4. ASSUME T[i] \notin StartsOf(ts)
        PROVE  Continues(cl, i)
    <2>1. PICK u \in DOMAIN ts : TileId(u) + 1 = TileId(T[i]) /\ ts[u] = ts[T[i]]
      BY <1>1, <1>4 DEF StartsOf
    <2>2. PICK k \in 1..N : T[k] = u
      BY <1>2
    <2>3. PICK a \in Nat, b \in Nat : a = TileId(T[k]) /\ b = TileId(T[i]) /\ a + 1 = b /\ i \in 1..N
      BY <1>1, <2>1, <2>2
    <2>4. k < i
      <3>1. ~(b <= a)
        BY <2>3
      <3>2. b <= a \/ ~(i <= k)
        <4>1. i = k \/ i < k => b <= a
          BY <1>1, <2>3
        <4>. QED
          BY <1>1, <2>3, <4>1
      <3>. QED
        BY <1>1, <2>3, <3>1, <3>2
    <2>5. k = i - 1
      <3>. SUFFICES ASSUME k # i - 1
                    PROVE  FALSE
        OBVIOUS
      <3>1. PICK j \in 1..N : j = i - 1 /\ k < j /\ j < i
        BY <1>1, <2>3, <2>4
      <3>2. PICK c \in Nat : c = TileId(T[j])
        BY <1>1
      <3>3. a < c /\ c < b
        BY <1>1, <2>3, <3>1, <3>2
      <3>. QED
        BY <2>3, <3>3
    <2>6. cl[k].offset = cl[i].offset /\ cl[k].tile_id + 1 = cl[i].tile_id
      BY <1>1, <1>2, <2>1, <2>2, <2>3
    <2>7. i > 1
      BY <2>4, <2>3
    <2>. QED
      BY <2>5, <2>6, <2>7 DEF Continues
  <1>. QED
    BY <1>3, <1>4

(* There are as many of either.                                            *)
LEMMA StartsCounted ==
    ASSUME NEW ts, NEW cl, NEW D, NEW T, ClusteredAs(ts, cl, D, T)
    PROVE  /\ Cardinality(StartsUpto(cl, Len(cl))) = Cardinality(StartsOf(ts))
           /\ Cardinality(StartsOf(ts)) \in Nat
  <1>1. PICK A, B : A = StartsUpto(cl, Len(cl)) /\ B = StartsOf(ts)
    OBVIOUS
  <1>2. \A i \in A : i \in 1..Len(cl) /\ T[i] \in B
    BY <1>1, StartIs DEF StartsUpto
  <1>3. \A t \in B : \E i \in A : T[i] = t
    <2>1. ASSUME NEW t \in B
          PROVE  \E i \in A : T[i] = t
      <3>1. t \in DOMAIN ts
        BY <1>1 DEF StartsOf
      <3>2. PICK i \in 1..Len(cl) : T[i] = t
        BY <3>1 DEF ClusteredAs
      <3>3. i \in A
        BY <1>1, <2>1, <3>2, StartIs DEF StartsUpto
      <3>. QED
        BY <3>2, <3>3
    <2>. QED
      BY <2>1
  <1>4. \A i, j \in A : T[i] = T[j] => i = j
    BY <1>2, ClusteredTypes
  <1>5. PICK f : f = [i \in A |-> T[i]]
    OBVIOUS
  <1>6. f \in Bijection(A, B)
    <2>1. f \in [A -> B] /\ \A i \in A : f[i] = T[i]
      BY <1>2, <1>5
    <2>. QED
      BY <1>3, <1>4, <2>1 DEF Bijection, Injection, Surjection, IsInjective
  <1>7. ExistsBijection(A, B)
    BY <1>6 DEF ExistsBijection
  <1>8. IsFiniteSet(A)
    <2>1. IsFiniteSet(1..Len(cl))
      BY ClusteredTypes, FS_Interval
    <2>2. A \subseteq 1..Len(cl)
      BY <1>2
    <2>. QED
      BY <2>1, <2>2, FS_Subset
  <1>9. IsFiniteSet(B) /\ Cardinality(B) = Cardinality(A)
    BY <1>7, <1>8, FS_Bijection, Zenon
  <1>. QED
    BY <1>1, <1>9, FS_CardinalityType

-----------------------------------------------------------------------------
(* What the runs of the clustered entries answer.                          *)
AnswersIn(ts, D, t, e) ==
    IF t \notin DOMAIN ts THEN e = None
    ELSE e \in DirEntries /\ e.length = Size[ts[t]] /\ Piece(D, e.offset, Bytes(ts[t]))

(* The runs answer for every tile of every level, and the header's counts  *)
(* are of tiles and of runs.                                               *)
LEMMA RunsAnswer ==
    ASSUME NEW ts, NEW cl, NEW D, NEW T, ClusteredAs(ts, cl, D, T), NEW rs, rs = Runs(cl)
    PROVE  /\ TileDir(rs) /\ Len(rs) \in Nat
           /\ \A t \in Tiles : AnswersIn(ts, D, t, FindEntry(rs, TileId(t)))
           /\ Addressed(rs) = Cardinality(DOMAIN ts)
           /\ Len(rs) = Cardinality(StartsOf(ts))
           /\ rs = <<>> <=> DOMAIN ts = {}
  <1>1. /\ Plain(cl) /\ ts \in Archives /\ Len(cl) = Cardinality(DOMAIN ts)
        /\ \A t \in DOMAIN ts : \E i \in 1..Len(cl) : T[i] = t
        /\ \A i \in 1..Len(cl) : /\ cl[i].tile_id = TileId(T[i]) /\ cl[i].length = Size[ts[T[i]]]
                                 /\ Piece(D, cl[i].offset, Bytes(ts[T[i]]))
    BY DEF ClusteredAs
  <1>2. /\ RunsAre(cl, Len(cl), rs) /\ Total(rs) = Len(cl)
        /\ Len(rs) = Cardinality(StartsUpto(cl, Len(cl)))
    BY <1>1, RunsCounted DEF Counted
  <1>3. TileDir(rs) /\ FindsThem(cl, rs) /\ FindsOnly(cl, rs)
    BY <1>1, <1>2, RunsFind
  <1>4. /\ rs \in Seq(DirEntries) /\ Len(rs) \in Nat /\ DOMAIN rs = 1..Len(rs)
        /\ \A r \in 1..Len(rs) : rs[r] \in DirEntries
    BY <1>3, SortedTypes DEF TileDir
  <1>5. ASSUME NEW t \in Tiles
        PROVE  AnswersIn(ts, D, t, FindEntry(rs, TileId(t)))
    <2>1. CASE t \in DOMAIN ts
      <3>1. PICK i \in 1..Len(cl) : T[i] = t
        BY <1>1, <2>1
      <3>2. PICK r \in 1..Len(rs) : /\ FindEntry(rs, cl[i].tile_id) = rs[r]
                                    /\ rs[r].offset = cl[i].offset /\ rs[r].length = cl[i].length
        BY <1>3 DEF FindsThem
      <3>. QED
        BY <1>1, <1>4, <2>1, <3>1, <3>2 DEF AnswersIn
    <2>2. CASE t \notin DOMAIN ts
      <3>1. TileId(t) \in Nat
        BY IdsAreDistinct
      <3>2. ASSUME NEW i \in 1..Len(cl)
            PROVE  cl[i].tile_id # TileId(t)
        <4>1. T[i] \in Tiles /\ T[i] \in DOMAIN ts /\ cl[i].tile_id = TileId(T[i])
          BY ClusteredTypes
        <4>2. TileId(T[i]) # TileId(t)
          BY <2>2, <4>1, IdsAreDistinct
        <4>. QED
          BY <4>1, <4>2
      <3>3. FindEntry(rs, TileId(t)) = None
        BY <1>3, <3>1, <3>2 DEF FindsOnly
      <3>. QED
        BY <2>2, <3>3 DEF AnswersIn
    <2>. QED
      BY <2>1, <2>2
  <1>6. Addressed(rs) = Cardinality(DOMAIN ts)
    <2>1. PICK f : f = LengthsOfRuns(rs)
      OBVIOUS
    <2>2. DOMAIN f = 1..Len(rs) /\ Addressed(rs) = SumFunction(f)
      BY <1>4, <2>1 DEF LengthsOfRuns, Addressed
    <2>3. SumFunction(f) = SumFunctionOnSet(f, DOMAIN f)
      BY DEF SumFunction, SumFunctionOnSet, FoldFunction, FoldFunctionOnSet
    <2>4. Total(rs) = SumFunctionOnSet(f, 1..Len(rs))
      BY <2>1 DEF Total
    <2>. QED
      BY <1>1, <1>2, <2>2, <2>3, <2>4
  <1>7. rs = <<>> <=> DOMAIN ts = {}
    <2>1. RunsEnd(cl, Len(cl), rs) /\ Len(cl) \in Nat
      BY <1>2, ClusteredTypes DEF RunsAre
    <2>2. Len(cl) = 0 <=> DOMAIN ts = {}
      <3>1. IsFiniteSet(DOMAIN ts)
        BY <1>1, DomainIsFinite
      <3>. QED
        BY <1>1, <3>1, FS_EmptySet
    <2>3. CASE Len(cl) = 0
      BY <2>1, <2>2, <2>3 DEF RunsEnd
    <2>4. CASE Len(cl) # 0
      <3>1. Len(rs) > 0
        BY <2>1, <2>4 DEF RunsEnd
      <3>2. rs # <<>>
        BY <3>1
      <3>. QED
        BY <2>2, <2>4, <3>2
    <2>. QED
      BY <2>3, <2>4
  <1>8. Len(rs) = Cardinality(StartsOf(ts))
    BY <1>2, StartsCounted
  <1>. QED
    BY <1>3, <1>4, <1>5, <1>6, <1>7, <1>8

-----------------------------------------------------------------------------
(* A range of the file, and the directories the reader parses from it.     *)
Part(w, offset, length) == SubSeq(w.cells, offset + 1, offset + length)

(* The root directory, and a leaf, as a reader of the whole archive w has  *)
(* them.                                                                   *)
RootDir(w) == ParseDirectory(Part(w, 0, w.header.root))
LeafDir(w, e) == ParseDirectory(Part(w, w.header.leafOffset + e.offset, e.length))

(* Where the sections of an assembled file are.                            *)
Sections(w, r, m, L, D) ==
    /\ w.header \in Headers /\ w.cells \in Seq(Cells)
    /\ w.header.root = Len(r) /\ w.header.metadata = Len(m)
    /\ w.header.leafOffset = Len(r) + Len(m) /\ w.header.leafLength = Len(L)
    /\ w.header.dataOffset = (Len(r) + Len(m)) + Len(L) /\ w.header.dataLength = Len(D)
    /\ Len(w.cells) = ((Len(r) + Len(m)) + Len(L)) + Len(D)
    /\ Piece(w.cells, 0, r) /\ Piece(w.cells, Len(r), m)
    /\ Piece(w.cells, Len(r) + Len(m), L)
    /\ Piece(w.cells, (Len(r) + Len(m)) + Len(L), D)

(* The parts of an archive one behind the other: root, metadata, leaves,   *)
(* data.                                                                   *)
FourOf(r, m, L, D) == r \o m \o L \o D

(* Each is a piece, behind those before it.                                *)
LEMMA FourPieces ==
    ASSUME NEW S, NEW r \in Seq(S), NEW m \in Seq(S), NEW L \in Seq(S), NEW D \in Seq(S),
           NEW u, u = FourOf(r, m, L, D)
    PROVE  /\ u \in Seq(S) /\ Len(u) = ((Len(r) + Len(m)) + Len(L)) + Len(D)
           /\ Piece(u, 0, r) /\ Piece(u, Len(r), m)
           /\ Piece(u, Len(r) + Len(m), L) /\ Piece(u, (Len(r) + Len(m)) + Len(L), D)
  <1>1. PICK a \in Seq(S) : /\ a = r \o m /\ Len(a) = Len(r) + Len(m)
                            /\ Piece(a, 0, r) /\ Piece(a, Len(r), m)
    <2>1. PICK a : a = r \o m
      OBVIOUS
    <2>. QED
      BY <2>1, PiecesJoined
  <1>2. PICK b \in Seq(S) : /\ b = a \o L /\ Len(b) = Len(a) + Len(L)
                            /\ Piece(b, 0, a) /\ Piece(b, Len(a), L)
    <2>1. PICK b : b = a \o L
      OBVIOUS
    <2>. QED
      BY <2>1, PiecesJoined
  <1>3. PICK c \in Seq(S) : /\ c = b \o D /\ Len(c) = Len(b) + Len(D)
                            /\ Piece(c, 0, b) /\ Piece(c, Len(b), D)
    <2>1. PICK c : c = b \o D
      OBVIOUS
    <2>. QED
      BY <2>1, PiecesJoined
  <1>4. u = c
    BY <1>1, <1>2, <1>3 DEF FourOf
  <1>5. Piece(c, 0 + 0, a) /\ Piece(c, 0 + Len(a), L)
    BY <1>2, <1>3, PieceOfPiece
  <1>6. \A n \in Nat : 0 + n = n
    OBVIOUS
  <1>7. Piece(c, 0, a) /\ Piece(c, Len(a), L)
    BY <1>5, <1>6
  <1>8. Piece(c, 0 + 0, r) /\ Piece(c, 0 + Len(r), m)
    BY <1>1, <1>7, PieceOfPiece
  <1>9. Piece(c, 0, r) /\ Piece(c, Len(r), m)
    BY <1>6, <1>8
  <1>. QED
    BY <1>1, <1>2, <1>3, <1>4, <1>7, <1>9

(* The numbers of a directory are cells of the file.                       *)
LEMMA NumbersAreCells ==
    ASSUME NEW r \in Seq(Nat)
    PROVE  r \in Seq(Cells)
  BY DEF Cells

(* The root is read as it was written.                                     *)
LEMMA RootIsThere ==
    ASSUME NEW w, NEW r \in Seq(Nat), NEW m, NEW L, NEW D, Sections(w, r, m, L, D)
    PROVE  RootDir(w) = ParseDirectory(r)
  <1>1. PICK c \in Seq(Cells), s \in Seq(Cells) : c = w.cells /\ s = r
    <2>1. r \in Seq(Cells)
      BY DEF Cells
    <2>. QED
      BY <2>1 DEF Sections
  <1>2. Piece(c, 0, s) /\ w.header.root = Len(s)
    BY <1>1 DEF Sections
  <1>3. SubSeq(c, 0 + 1, 0 + Len(s)) = s
    BY <1>2, PieceIs
  <1>. QED
    BY <1>1, <1>2, <1>3 DEF RootDir, Part

(* So is a leaf.                                                           *)
LEMMA LeafIsThere ==
    ASSUME NEW w, NEW r, NEW m, NEW L \in Seq(Nat), NEW D, Sections(w, r, m, L, D),
           NEW e \in DirEntries, e.offset + e.length <= Len(L)
    PROVE  LeafDir(w, e) = LeafOf(L, e)
  <1>1. PICK c \in Seq(Cells), s \in Seq(Cells) : c = w.cells /\ s = L
    <2>1. L \in Seq(Cells)
      BY DEF Cells
    <2>. QED
      BY <2>1 DEF Sections
  <1>2. PICK b : b = w.header.leafOffset /\ Piece(c, b, s)
    BY <1>1 DEF Sections
  <1>3. PICK o \in Nat, n \in Nat : o = e.offset /\ n = e.length /\ o + n <= Len(s)
    BY <1>1 DEF DirEntries
  <1>4. PICK t : t = SubSeq(s, o + 1, o + n) /\ t \in Seq(Cells) /\ Len(t) = n /\ Piece(s, o, t)
    <2>1. PICK t : t = Cutting(s, o, n)
      OBVIOUS
    <2>2. t \in Seq(Cells) /\ Len(t) = n /\ Piece(s, o, t)
      BY <1>3, <2>1, CuttingIs
    <2>. QED
      BY <2>1, <2>2 DEF Cutting
  <1>5. Piece(c, b + o, t)
    BY <1>2, <1>4, PieceOfPiece
  <1>6. SubSeq(c, (b + o) + 1, (b + o) + n) = t
    BY <1>4, <1>5, PieceIs
  <1>. QED
    BY <1>1, <1>2, <1>3, <1>4, <1>6 DEF LeafDir, LeafOf, Part

(* What the reader may rely on.                                            *)
GoodLeaf(w, e) ==
    /\ e.offset + e.length <= w.header.leafLength
    /\ LeafDir(w, e) \in Seq(DirEntries) /\ LeafDir(w, e)[1].tile_id = e.tile_id

(* e is the answer for t: no entry for a tile that is not there, else an   *)
(* entry of the tile's own bytes.                                          *)
AnswersFor(w, ts, t, e) ==
    IF t \notin DOMAIN ts THEN e = None
    ELSE /\ e \in DirEntries /\ e.length = Size[ts[t]]
         /\ e.offset + e.length <= w.header.dataLength
         /\ Piece(w.cells, w.header.dataOffset + e.offset, Bytes(ts[t]))

(* The root, or the leaf it leads to, answers for t.                       *)
Located(w, ts, t) ==
    LET e == FindEntry(RootDir(w), TileId(t)) IN
    IF InLeaf(e)
    THEN LET f == FindEntry(LeafDir(w, e), TileId(t)) IN ~InLeaf(f) /\ AnswersFor(w, ts, t, f)
    ELSE AnswersFor(w, ts, t, e)

(* The whole archive w answers for every tile of ts; its leaves are good   *)
(* and no two are at one place.                                            *)
ReadsRight(w, ts) ==
    /\ w.header \in Headers /\ w.cells \in Seq(Cells)
    /\ RootDir(w) \in Seq(DirEntries)
    /\ \A c \in 1..Len(RootDir(w)) : IsLeaf(RootDir(w)[c]) => GoodLeaf(w, RootDir(w)[c])
    /\ \A c, d \in 1..Len(RootDir(w)) :
           IsLeaf(RootDir(w)[c]) /\ IsLeaf(RootDir(w)[d]) /\ RootDir(w)[c].offset = RootDir(w)[d].offset
               => c = d
    /\ \A t \in Tiles : /\ Located(w, ts, t)
                        /\ InLeaf(FindEntry(RootDir(w), TileId(t))) =>
                               \E c \in 1..Len(RootDir(w)) :
                                   FindEntry(RootDir(w), TileId(t)) = RootDir(w)[c]

(* Good directories of entries that answer make an archive that reads      *)
(* right.                                                                  *)
LEMMA DirsRead ==
    ASSUME NEW rs, TileDir(rs), NEW r, NEW L, GoodDirs(rs, r, L),
           NEW ts \in Archives, NEW D \in Seq(Cells),
           \A t \in Tiles : AnswersIn(ts, D, t, FindEntry(rs, TileId(t))),
           NEW w, NEW m, Sections(w, r, m, L, D)
    PROVE  ReadsRight(w, ts)
  <1>1. PICK R : R = ParseDirectory(r)
    OBVIOUS
  <1>2. /\ r \in Seq(Nat) /\ L \in Seq(Nat) /\ SortedDir(R)
        /\ \A c \in 1..Len(R) : IsLeaf(R[c]) => LeafIsGood(L, R[c])
        /\ \A c, d \in 1..Len(R) : IsLeaf(R[c]) /\ c < d => R[c].offset < R[d].offset
        /\ \A id \in Nat : Leads(L, R, rs, id)
    BY <1>1 DEF GoodDirs
  <1>3. R = RootDir(w)
    BY <1>1, <1>2, RootIsThere
  <1>4. /\ R \in Seq(DirEntries) /\ Len(R) \in Nat
        /\ \A c \in 1..Len(R) : R[c] \in DirEntries /\ R[c].offset \in Nat
    BY <1>2, SortedTypes
  <1>5. ASSUME NEW e \in DirEntries, LeafIsGood(L, e)
        PROVE  LeafDir(w, e) = LeafOf(L, e) /\ GoodLeaf(w, e) /\ TileDir(LeafDir(w, e))
    <2>1. /\ e.offset + e.length <= Len(L)
          /\ TileDir(LeafOf(L, e)) /\ LeafOf(L, e)[1].tile_id = e.tile_id
      BY <1>5 DEF LeafIsGood
    <2>2. LeafDir(w, e) = LeafOf(L, e)
      BY <1>2, <2>1, LeafIsThere
    <2>3. LeafOf(L, e) \in Seq(DirEntries)
      BY <2>1 DEF TileDir, SortedDir
    <2>. QED
      BY <2>1, <2>2, <2>3 DEF GoodLeaf, Sections
  <1>6. \A c, d \in 1..Len(R) :
            IsLeaf(R[c]) /\ IsLeaf(R[d]) /\ R[c].offset = R[d].offset => c = d
    <2>1. ASSUME NEW c \in 1..Len(R), NEW d \in 1..Len(R), IsLeaf(R[c]), IsLeaf(R[d]),
                 R[c].offset = R[d].offset, c # d
          PROVE  FALSE
      <3>1. PICK x \in Nat : x = R[c].offset /\ x = R[d].offset
        BY <1>4, <2>1
      <3>2. (c < d => x < x) /\ (d < c => x < x)
        BY <1>2, <2>1, <3>1
      <3>3. c < d \/ d < c
        BY <1>4, <2>1
      <3>. QED
        BY <3>2, <3>3
    <2>. QED
      BY <2>1
  <1>7. ASSUME NEW t \in Tiles, NEW e, AnswersIn(ts, D, t, e)
        PROVE  AnswersFor(w, ts, t, e)
    <2>1. CASE t \notin DOMAIN ts
      BY <1>7, <2>1 DEF AnswersIn, AnswersFor
    <2>2. CASE t \in DOMAIN ts
      <3>1. PICK c \in Range(ts) : c = ts[t]
        BY <2>2 DEF Range
      <3>2. /\ e \in DirEntries /\ e.length = Size[c] /\ Piece(D, e.offset, Bytes(c))
        BY <1>7, <2>2, <3>1 DEF AnswersIn
      <3>3. Bytes(c) \in Seq(Cells) /\ Len(Bytes(c)) = Size[c]
        BY ContentsAre
      <3>4. e.offset + e.length <= w.header.dataLength
        BY <3>2, <3>3 DEF Piece, Sections
      <3>5. Piece(w.cells, w.header.dataOffset, D) /\ w.cells \in Seq(Cells)
        BY DEF Sections
      <3>6. Piece(w.cells, w.header.dataOffset + e.offset, Bytes(c))
        BY <3>2, <3>3, <3>5, PieceOfPiece
      <3>. QED
        BY <2>2, <3>1, <3>2, <3>4, <3>6 DEF AnswersFor
    <2>. QED
      BY <2>1, <2>2
  <1>8. ASSUME NEW t \in Tiles
        PROVE  /\ Located(w, ts, t)
               /\ InLeaf(FindEntry(R, TileId(t))) => \E c \in 1..Len(R) : FindEntry(R, TileId(t)) = R[c]
    <2>1. PICK id \in Nat : id = TileId(t)
      BY IdsAreDistinct
    <2>2. PICK e, a : e = FindEntry(R, id) /\ a = FindEntry(rs, id) /\ AnswersIn(ts, D, t, a)
      BY <2>1
    <2>3. Leads(L, R, rs, id)
      BY <1>2
    <2>4. CASE InLeaf(e)
      <3>1. PICK c \in 1..Len(R) : e = R[c]
        BY <1>2, <2>2, <2>4, FoundIsThere DEF InLeaf
      <3>2. e \in DirEntries /\ LeafIsGood(L, e)
        BY <1>2, <1>4, <2>4, <3>1 DEF InLeaf
      <3>3. FindEntry(LeafDir(w, e), id) = a
        BY <1>5, <2>2, <2>3, <2>4, <3>2 DEF Leads
      <3>4. ~InLeaf(a)
        BY <2>2, NoneInLeaf
      <3>5. AnswersFor(w, ts, t, a)
        BY <1>7, <2>2
      <3>6. Located(w, ts, t)
        BY <1>3, <2>1, <2>2, <2>4, <3>3, <3>4, <3>5 DEF Located
      <3>. QED
        BY <2>1, <2>2, <3>1, <3>6
    <2>5. CASE ~InLeaf(e)
      <3>1. e = a
        BY <2>2, <2>3, <2>5 DEF Leads
      <3>2. AnswersFor(w, ts, t, e)
        BY <1>7, <2>2, <3>1
      <3>3. Located(w, ts, t)
        BY <1>3, <2>1, <2>2, <2>5, <3>2 DEF Located
      <3>. QED
        BY <2>1, <2>2, <2>5, <3>3
    <2>. QED
      BY <2>4, <2>5
  <1>9. \A c \in 1..Len(R) : IsLeaf(R[c]) => GoodLeaf(w, R[c])
    BY <1>2, <1>4, <1>5
  <1>10. w.header \in Headers /\ w.cells \in Seq(Cells)
    BY DEF Sections
  <1>. QED
    BY <1>3, <1>4, <1>6, <1>8, <1>9, <1>10 DEF ReadsRight

-----------------------------------------------------------------------------
(* The levels that have tiles.                                             *)
LevelsOf(ts) == {t.z : t \in DOMAIN ts}

(* What the header says of the tiles, and the levels a reader learns.      *)
HeaderFor(w, ts) ==
    /\ w.header.numAddressed = Cardinality(DOMAIN ts)
    /\ w.header.numEntries = Cardinality(StartsOf(ts))
    /\ w.header.numContents = Cardinality(Range(ts))
    /\ LevelsOf(ts) \subseteq Nat
    /\ (IF w.header.metadata = 0 THEN w.header.minZoom..w.header.maxZoom
        ELSE Range(Part(w, w.header.root, w.header.metadata)))
           = IF DOMAIN ts = {} THEN {0} ELSE LevelsOf(ts)

(* The data section.                                                       *)
SectionFor(w, ts) ==
    /\ SectionOf(ts) \in Seq(Cells)
    /\ w.header.dataLength = Len(SectionOf(ts))
    /\ Len(w.cells) = w.header.dataOffset + w.header.dataLength
    /\ Piece(w.cells, w.header.dataOffset, SectionOf(ts))

(* They are finitely many, so the least and the greatest exist.            *)
LEMMA LevelsAre ==
    ASSUME NEW ts \in Archives
    PROVE  /\ LevelsOf(ts) \subseteq Nat /\ IsFiniteSet(LevelsOf(ts))
           /\ LevelsOf(ts) = {} <=> DOMAIN ts = {}
           /\ DOMAIN ts # {} => Min(LevelsOf(ts)) \in Nat /\ Max(LevelsOf(ts)) \in Nat
  <1>1. \A t \in DOMAIN ts : t.z \in Nat
    BY DomainIsFinite DEF Tiles
  <1>2. PICK Z : Z = LevelsOf(ts)
    OBVIOUS
  <1>3. Z \subseteq Nat /\ (Z = {} <=> DOMAIN ts = {})
    BY <1>1, <1>2 DEF LevelsOf
  <1>4. IsFiniteSet(Z)
    <2>1. PICK f : f = [t \in DOMAIN ts |-> t.z]
      OBVIOUS
    <2>2. f \in Surjection(DOMAIN ts, Z)
      BY <1>2, <2>1 DEF LevelsOf, Surjection
    <2>. QED
      BY <2>2, DomainIsFinite, FS_Surjection
  <1>5. Z # {} => Min(Z) \in Nat /\ Max(Z) \in Nat
    <2>1. Z # {} => Min(Z) \in Z
      BY <1>3, LeastIs
    <2>2. Z \in SUBSET Int
      BY <1>3
    <2>3. Z # {} => Max(Z) \in Z
      BY <1>4, <2>2, GreatestIs
    <2>. QED
      BY <1>3, <2>1, <2>3
  <1>. QED
    BY <1>2, <1>3, <1>4, <1>5

(* The metadata lists the levels, once each and in order.                  *)
LEMMA MetadataIs ==
    ASSUME NEW ts \in Archives, NEW m, m = InOrder(LevelsOf(ts), [z \in LevelsOf(ts) |-> z])
    PROVE  /\ m \in Seq(Nat) /\ Range(m) = LevelsOf(ts)
           /\ Len(m) \in Nat /\ (Len(m) = 0 <=> DOMAIN ts = {})
  <1>1. PICK Z, key : Z = LevelsOf(ts) /\ key = [z \in Z |-> z]
    OBVIOUS
  <1>2. Z \subseteq Nat /\ IsFiniteSet(Z) /\ (Z = {} <=> DOMAIN ts = {})
    BY <1>1, LevelsAre
  <1>3. Keyed(Z, key)
    BY <1>1, <1>2 DEF Keyed
  <1>4. m = InOrder(Z, key)
    BY <1>1
  <1>5. /\ m \in Seq(Z) /\ Len(m) = Cardinality(Z) /\ Cardinality(Z) \in Nat
        /\ \A x \in Z : \E n \in 1..Cardinality(Z) : m[n] = x
    <2>1. Rising(Z, key, InOrder(Z, key))
      BY <1>3, InOrderRises
    <2>2. Len(InOrder(Z, key)) = Cardinality(Z) /\ Cardinality(Z) \in Nat
      BY <1>3, InOrderRises
    <2>3. \A x \in Z : \E n \in 1..Cardinality(Z) : InOrder(Z, key)[n] = x
      BY <1>3, InOrderRises
    <2>. QED
      BY <1>4, <2>1, <2>2, <2>3 DEF Rising
  <1>6. m \in Seq(Nat)
    <2>1. \A n \in 1..Len(m) : m[n] \in Z
      BY <1>5
    <2>2. m \in Seq(Z) /\ \A n \in 1..Len(m) : m[n] \in Nat
      BY <1>2, <1>5, <2>1
    <2>. QED
      BY <2>2
  <1>7. Range(m) = Z
    <2>1. DOMAIN m = 1..Cardinality(Z) /\ \A n \in 1..Cardinality(Z) : m[n] \in Z
      BY <1>5
    <2>. QED
      BY <1>5, <2>1 DEF Range
  <1>8. Cardinality(Z) = 0 <=> Z = {}
    BY <1>2, FS_EmptySet
  <1>. QED
    BY <1>1, <1>2, <1>5, <1>6, <1>7, <1>8

(* The header's fields, whatever they are made of.                         *)
AssembledOf(rs, dirs, r, m, L, D) ==
    /\ Addressed(rs) \in Nat /\ Len(rs) \in Nat
    /\ r \in Seq(Nat) /\ L \in Seq(Nat) /\ dirs.root = r /\ dirs.leaves = L
    /\ m \in Seq(Nat) /\ D \in Seq(Cells) /\ Len(data) = Len(D)
    /\ Cardinality(DOMAIN dedup) \in Nat
    /\ rs # <<>> => Min(Levels) \in Nat /\ Max(Levels) \in Nat

(* What finish puts into the file and into its header.                     *)
LEMMA AssembledIs ==
    ASSUME NEW rs, NEW dirs, NEW r, NEW m, NEW L, NEW D, AssembledOf(rs, dirs, r, m, L, D),
           NEW w, w = Assembled(rs, dirs, m, D)
    PROVE  /\ Sections(w, r, m, L, D)
           /\ w.header.numAddressed = Addressed(rs) /\ w.header.numEntries = Len(rs)
           /\ w.header.numContents = Cardinality(DOMAIN dedup)
           /\ rs = <<>> => w.header.minZoom = 0 /\ w.header.maxZoom = 0
           /\ w = [header |-> w.header, cells |-> w.cells]
  <1>0. /\ Addressed(rs) \in Nat /\ Len(rs) \in Nat
        /\ r \in Seq(Nat) /\ L \in Seq(Nat) /\ dirs.root = r /\ dirs.leaves = L
        /\ m \in Seq(Nat) /\ D \in Seq(Cells) /\ Len(data) = Len(D)
        /\ Cardinality(DOMAIN dedup) \in Nat
        /\ rs # <<>> => Min(Levels) \in Nat /\ Max(Levels) \in Nat
    BY DEF AssembledOf
  <1>1. PICK h : h = [root |-> Len(r), metadata |-> Len(m),
                      leafOffset |-> Len(r) + Len(m), leafLength |-> Len(L),
                      dataOffset |-> (Len(r) + Len(m)) + Len(L), dataLength |-> Len(data),
                      numAddressed |-> Addressed(rs), numEntries |-> Len(rs),
                      numContents |-> Cardinality(DOMAIN dedup),
                      minZoom |-> IF rs = <<>> THEN 0 ELSE Min(Levels),
                      maxZoom |-> IF rs = <<>> THEN 0 ELSE Max(Levels)]
    OBVIOUS
  <1>2. PICK c : c = FourOf(r, m, L, D)
    OBVIOUS
  <1>3. w = [header |-> h, cells |-> c]
    BY <1>0, <1>1, <1>2, Zenon DEF Assembled, FourOf
  <1>4. h \in Headers
    <2>1. /\ Len(r) \in Nat /\ Len(m) \in Nat /\ Len(L) \in Nat /\ Len(data) \in Nat
          /\ Len(r) + Len(m) \in Nat /\ (Len(r) + Len(m)) + Len(L) \in Nat
      BY <1>0
    <2>2. /\ (IF rs = <<>> THEN 0 ELSE Min(Levels)) \in Nat
          /\ (IF rs = <<>> THEN 0 ELSE Max(Levels)) \in Nat
      BY <1>0
    <2>. QED
      BY <1>0, <1>1, <2>1, <2>2 DEF Headers
  <1>5. r \in Seq(Cells) /\ m \in Seq(Cells) /\ L \in Seq(Cells)
    BY <1>0, NumbersAreCells
  <1>6. /\ c \in Seq(Cells) /\ Len(c) = ((Len(r) + Len(m)) + Len(L)) + Len(D)
        /\ Piece(c, 0, r) /\ Piece(c, Len(r), m)
        /\ Piece(c, Len(r) + Len(m), L) /\ Piece(c, (Len(r) + Len(m)) + Len(L), D)
    BY <1>0, <1>2, <1>5, FourPieces, SMTT(30)
  <1>7. w.header = h /\ w.cells = c
    BY <1>3
  <1>8. /\ h.root = Len(r) /\ h.metadata = Len(m) /\ h.leafOffset = Len(r) + Len(m)
        /\ h.leafLength = Len(L) /\ h.dataOffset = (Len(r) + Len(m)) + Len(L)
        /\ h.dataLength = Len(D)
    BY <1>0, <1>1
  <1>9. Sections(w, r, m, L, D)
    BY <1>4, <1>6, <1>7, <1>8 DEF Sections
  <1>. QED
    BY <1>1, <1>3, <1>7, <1>9

(* finish, from what the workers wrote: the archive reads right, its       *)
(* header says what is in it and its data section has the contents by the  *)
(* first tile.                                                             *)
THEOREM ArchiveIsRight ==
    ASSUME tiles \in Archives, StoredIn(tiles, data, dedup), WrittenOf(tiles, entries, dedup),
           Len(entries) = Cardinality(DOMAIN tiles),
           NEW w, w = Archive(ByTileId(entries))
    PROVE  /\ ReadsRight(w, tiles) /\ HeaderFor(w, tiles) /\ SectionFor(w, tiles)
           /\ w = [header |-> w.header, cells |-> w.cells]
  <1>1. PICK so, T : so = ByTileId(entries) /\ LaidOut(tiles, data, dedup, so, T)
    BY SortedIsLaidOut
  <1>2. PICK D, cl : /\ D = FlattenSeq(BlobsOf(so, data)) /\ cl = Clustered(so)
                     /\ ClusteredAs(tiles, cl, D, T)
    BY <1>1, ClusteredIs
  <1>3. /\ D = SectionOf(tiles) /\ Len(D) = Len(data)
        /\ Cardinality(DOMAIN dedup) = Cardinality(Range(tiles))
    BY <1>1, <1>2, CopiedIsSection
  <1>4. D \in Seq(Cells)
    BY <1>2 DEF ClusteredAs
  <1>5. D = CopiedData(so)
    BY <1>2 DEF CopiedData, BlobsOf, PlanOf
  <1>6. PICK rs : /\ rs = Runs(cl) /\ TileDir(rs) /\ Len(rs) \in Nat
                  /\ \A t \in Tiles : AnswersIn(tiles, D, t, FindEntry(rs, TileId(t)))
                  /\ Addressed(rs) = Cardinality(DOMAIN tiles)
                  /\ Len(rs) = Cardinality(StartsOf(tiles))
                  /\ rs = <<>> <=> DOMAIN tiles = {}
    <2>1. PICK rs : rs = Runs(cl)
      OBVIOUS
    <2>. QED
      BY <1>2, <2>1, RunsAnswer
  <1>7. PICK dirs, r, L : /\ dirs = Directories(rs) /\ r = dirs.root /\ L = dirs.leaves
                          /\ GoodDirs(rs, r, L) /\ r \in Seq(Nat) /\ L \in Seq(Nat)
    <2>1. GoodDirs(rs, Directories(rs).root, Directories(rs).leaves)
      BY <1>6, DirectoriesAreGood
    <2>. QED
      BY <2>1 DEF GoodDirs
  <1>8. PICK m : /\ m = InOrder(LevelsOf(tiles), [z \in LevelsOf(tiles) |-> z])
                 /\ m \in Seq(Nat) /\ Range(m) = LevelsOf(tiles)
                 /\ Len(m) \in Nat /\ (Len(m) = 0 <=> DOMAIN tiles = {})
    <2>1. PICK m : m = InOrder(LevelsOf(tiles), [z \in LevelsOf(tiles) |-> z])
      OBVIOUS
    <2>. QED
      BY <2>1, MetadataIs
  <1>9. Levels = LevelsOf(tiles)
    BY DEF Levels, LevelsOf
  <1>10. w = Assembled(rs, dirs, m, D)
    BY <1>1, <1>2, <1>5, <1>6, <1>7, <1>8, <1>9, Zenon DEF Archive
  <1>11. rs # <<>> => Min(Levels) \in Nat /\ Max(Levels) \in Nat
    BY <1>6, <1>9, LevelsAre
  <1>12. Cardinality(DOMAIN tiles) \in Nat /\ Cardinality(DOMAIN dedup) \in Nat
    BY <1>3, DomainIsFinite, FS_CardinalityType
  <1>13. /\ Sections(w, r, m, L, D)
         /\ w.header.numAddressed = Addressed(rs) /\ w.header.numEntries = Len(rs)
         /\ w.header.numContents = Cardinality(DOMAIN dedup)
         /\ rs = <<>> => w.header.minZoom = 0 /\ w.header.maxZoom = 0
         /\ w = [header |-> w.header, cells |-> w.cells]
    <2>1. AssembledOf(rs, dirs, r, m, L, D)
      BY <1>3, <1>4, <1>6, <1>7, <1>8, <1>11, <1>12 DEF AssembledOf
    <2>. QED
      BY <1>10, <2>1, AssembledIs
  <1>14. ReadsRight(w, tiles)
    BY <1>4, <1>6, <1>7, <1>13, DirsRead
  <1>15. SectionFor(w, tiles)
    BY <1>3, <1>4, <1>13 DEF SectionFor, Sections
  <1>16. HeaderFor(w, tiles)
    <2>1. Len(m) # 0 => Range(Part(w, w.header.root, w.header.metadata)) = LevelsOf(tiles)
      <3>1. PICK c \in Seq(Cells), s \in Seq(Cells) : c = w.cells /\ s = m
        <4>1. m \in Seq(Cells)
          BY <1>8 DEF Cells
        <4>. QED
          BY <1>13, <4>1 DEF Sections
      <3>2. /\ w.header.root = Len(r) /\ w.header.metadata = Len(s) /\ Piece(c, Len(r), s)
        BY <1>13, <3>1 DEF Sections
      <3>3. SubSeq(c, Len(r) + 1, Len(r) + Len(s)) = s
        BY <3>2, PieceIs
      <3>. QED
        BY <1>8, <3>1, <3>2, <3>3 DEF Part
    <2>2. w.header.metadata = Len(m)
      BY <1>13 DEF Sections
    <2>3. Len(m) = 0 => w.header.minZoom..w.header.maxZoom = {0}
      <3>1. 0..0 = {0}
        OBVIOUS
      <3>. QED
        BY <1>6, <1>8, <1>13, <3>1
    <2>4. LevelsOf(tiles) \subseteq Nat
      BY LevelsAre
    <2>5. (IF w.header.metadata = 0 THEN w.header.minZoom..w.header.maxZoom
           ELSE Range(Part(w, w.header.root, w.header.metadata)))
              = IF DOMAIN tiles = {} THEN {0} ELSE LevelsOf(tiles)
      BY <1>8, <2>1, <2>2, <2>3
    <2>. QED
      BY <1>3, <1>6, <1>13, <2>4, <2>5 DEF HeaderFor
  <1>. QED
    BY <1>13, <1>14, <1>15, <1>16

-----------------------------------------------------------------------------
(* What there is of an assembled file once its header has been written.    *)
CutOff(w, f) ==
    f.header = w.header /\ f.cells \in Seq(Cells) /\ Piece(w.cells, 0, f.cells)

(* A kill leaves a front of the archive, or no header.                     *)
LEMMA FilesAre ==
    ASSUME NEW w, w = [header |-> w.header, cells |-> w.cells],
           w.header \in Headers, w.cells \in Seq(Cells), NEW f \in Files(w)
    PROVE  f \in PmFiles /\ (f.header # None => CutOff(w, f))
  <1>1. PICK h \in Headers, c \in Seq(Cells) : h = w.header /\ c = w.cells /\ w = [header |-> h, cells |-> c]
    OBVIOUS
  <1>2. CASE f = w
    <2>1. f \in PmFiles
      BY <1>1, <1>2 DEF PmFiles
    <2>2. Piece(c, 0, c)
      BY DEF Piece
    <2>. QED
      BY <1>1, <1>2, <2>1, <2>2 DEF CutOff
  <1>3. CASE f = [header |-> None, cells |-> <<>>]
    <2>1. <<>> \in Seq(Cells)
      OBVIOUS
    <2>. QED
      BY <1>3, <2>1 DEF PmFiles
  <1>4. CASE f # w /\ f # [header |-> None, cells |-> <<>>]
    <2>1. PICK n \in Cuts : n < Len(c) /\ f = [w EXCEPT !.cells = SubSeq(c, 1, n)]
      BY <1>1, <1>4 DEF Files, Torn
    <2>2. n \in Nat /\ n <= Len(c)
      BY <2>1, PmTilesAssumption
    <2>3. PICK t : t = Cutting(c, 0, n)
      OBVIOUS
    <2>4. t \in Seq(Cells) /\ Piece(c, 0, t)
      BY <2>2, <2>3, CuttingIs
    <2>5. 0 + 1 = 1 /\ 0 + n = n
      BY <2>2
    <2>6. t = SubSeq(c, 1, n)
      BY <2>3, <2>5 DEF Cutting
    <2>7. f = [header |-> h, cells |-> t]
      BY <1>1, <2>1, <2>6
    <2>. QED
      BY <1>1, <2>4, <2>7 DEF PmFiles, CutOff
  <1>. QED
    BY <1>2, <1>3, <1>4

(* A read inside what is left returns what the whole archive has there.    *)
LEMMA ReadPart ==
    ASSUME NEW w, w.cells \in Seq(Cells), CutOff(w, file),
           NEW o \in Nat, NEW n \in Nat, InFile(o, n)
    PROVE  ReadRange(o, n) = Part(w, o, n)
  <1>1. PICK s \in Seq(Cells), c \in Seq(Cells) : s = w.cells /\ c = file.cells
    BY DEF CutOff
  <1>2. Piece(s, 0, c) /\ o + n <= Len(c)
    BY <1>1 DEF CutOff, InFile
  <1>3. PICK t : t = Cutting(c, o, n) /\ t \in Seq(Cells) /\ Len(t) = n /\ Piece(c, o, t)
    BY <1>2, CuttingIs
  <1>4. Piece(s, 0 + o, t)
    BY <1>2, <1>3, PieceOfPiece
  <1>5. 0 + o = o
    OBVIOUS
  <1>6. SubSeq(s, o + 1, o + n) = t
    BY <1>3, <1>4, <1>5, PieceIs
  <1>. QED
    BY <1>1, <1>3, <1>6 DEF ReadRange, Part, Cutting

(* A leaf of the file that the reader can read.                            *)
LeafInFile(w, f, e) == (w.header.leafOffset + e.offset) + e.length <= Len(f.cells)

(* d is the leaf directory at o, and all of it is in the file.             *)
LeafAt(w, f, o, d) ==
    \E c \in 1..Len(RootDir(w)) :
        /\ IsLeaf(RootDir(w)[c]) /\ RootDir(w)[c].offset = o
        /\ d = LeafDir(w, RootDir(w)[c]) /\ LeafInFile(w, f, RootDir(w)[c])

(* What the leaf cache keeps.                                              *)
CachedLeaf == [offset : Nat, dir : Seq(DirEntries)]

(* The cached leaves are those of the archive, each at its own offset and  *)
(* once; there are no more than fit.                                       *)
CacheOf(w, f, lv) ==
    /\ lv \in Seq(CachedLeaf) /\ Len(lv) <= LeafCap
    /\ \A i \in 1..Len(lv) : LeafAt(w, f, lv[i].offset, lv[i].dir)
    /\ \A i, j \in 1..Len(lv) : lv[i].offset = lv[j].offset => i = j

(* The cached leaves but the one of an offset.                             *)
LEMMA OthersAre ==
    ASSUME leaves \in Seq(CachedLeaf), NEW o,
           \A i, j \in 1..Len(leaves) : leaves[i].offset = leaves[j].offset => i = j
    PROVE  /\ OtherLeaves(o) \in Seq(CachedLeaf) /\ Len(OtherLeaves(o)) <= Len(leaves)
           /\ \A n \in 1..Len(OtherLeaves(o)) : \E i \in 1..Len(leaves) :
                  OtherLeaves(o)[n] = leaves[i] /\ leaves[i].offset # o
           /\ \A m, n \in 1..Len(OtherLeaves(o)) :
                  OtherLeaves(o)[m].offset = OtherLeaves(o)[n].offset => m = n
  <1>1. PICK L \in Nat : L = Len(leaves) /\ DOMAIN leaves = 1..L
    OBVIOUS
  <1>2. PICK R, key, u : /\ R = DOMAIN leaves \ Cached(o) /\ key = [i \in R |-> i]
                         /\ u = InOrder(R, key)
    OBVIOUS
  <1>3. /\ R \in SUBSET (1..L) /\ \A i \in R : leaves[i].offset # o /\ i \in Int
    BY <1>1, <1>2 DEF Cached
  <1>4. IsFiniteSet(1..L) /\ Cardinality(1..L) = L
    <2>1. IsFiniteSet(1..L)
      BY FS_Interval
    <2>2. Cardinality(1..L) = L
      BY FS_Interval
    <2>. QED
      BY <2>1, <2>2
  <1>5. IsFiniteSet(R) /\ Cardinality(R) <= L
    <2>1. IsFiniteSet(R) /\ Cardinality(R) <= Cardinality(1..L)
      BY <1>3, <1>4, FS_Subset
    <2>. QED
      BY <1>4, <2>1
  <1>6. Keyed(R, key)
    BY <1>2, <1>3, <1>5 DEF Keyed
  <1>7. PICK n \in Nat : /\ n = Cardinality(R) /\ Len(u) = n /\ u \in Seq(R)
                         /\ \A i, j \in 1..n : i < j => key[u[i]] < key[u[j]]
    <2>1. Rising(R, key, InOrder(R, key))
      BY <1>6, InOrderRises
    <2>2. Len(InOrder(R, key)) = Cardinality(R) /\ Cardinality(R) \in Nat
      BY <1>6, InOrderRises
    <2>. QED
      BY <1>2, <2>1, <2>2 DEF Rising
  <1>8. DOMAIN u = 1..n /\ \A i \in 1..n : u[i] \in R /\ u[i] \in 1..L /\ leaves[u[i]].offset # o
    <2>1. DOMAIN u = 1..n /\ \A i \in 1..n : u[i] \in R
      BY <1>7
    <2>. QED
      BY <1>3, <2>1
  <1>9. \A i, j \in 1..n : u[i] = u[j] => i = j
    <2>1. ASSUME NEW i \in 1..n, NEW j \in 1..n, u[i] = u[j], i # j
          PROVE  FALSE
      <3>1. PICK x \in Int : x = key[u[i]] /\ x = key[u[j]]
        BY <1>2, <1>3, <1>8, <2>1
      <3>2. (i < j => x < x) /\ (j < i => x < x)
        BY <1>7, <2>1, <3>1
      <3>. QED
        BY <2>1, <3>2
    <2>. QED
      BY <2>1
  <1>10. PICK f : f = [i \in 1..n |-> leaves[u[i]]]
    OBVIOUS
  <1>11. f = OtherLeaves(o)
    BY <1>2, <1>8, <1>10, Zenon DEF OtherLeaves
  <1>12. \A i \in 1..n : f[i] = leaves[u[i]] /\ leaves[u[i]] \in CachedLeaf
    BY <1>1, <1>8, <1>10
  <1>13. f \in Seq(CachedLeaf) /\ Len(f) = n
    <2>1. f \in [1..n -> CachedLeaf]
      BY <1>10, <1>12
    <2>. QED
      BY <2>1, <1>10, SeqDef
  <1>14. \A i, j \in 1..n : f[i].offset = f[j].offset => i = j
    <2>1. ASSUME NEW i \in 1..n, NEW j \in 1..n, f[i].offset = f[j].offset
          PROVE  i = j
      <3>1. u[i] = u[j]
        BY <1>1, <1>8, <1>12, <2>1
      <3>. QED
        BY <1>9, <3>1
    <2>. QED
      BY <2>1
  <1>. QED
    BY <1>1, <1>5, <1>7, <1>8, <1>11, <1>12, <1>13, <1>14

(* A leaf moved or put to the front leaves the cache right.                *)
LEMMA CacheKept ==
    ASSUME NEW w, CacheOf(w, file, leaves), NEW o \in Nat, NEW d \in Seq(DirEntries),
           LeafAt(w, file, o, d)
    PROVE  CacheOf(w, file, MostRecent(o, d))
  <1>1. /\ leaves \in Seq(CachedLeaf) /\ Len(leaves) <= LeafCap
        /\ \A i \in 1..Len(leaves) : LeafAt(w, file, leaves[i].offset, leaves[i].dir)
        /\ \A i, j \in 1..Len(leaves) : leaves[i].offset = leaves[j].offset => i = j
    BY DEF CacheOf
  <1>2. PICK f : f = OtherLeaves(o)
    OBVIOUS
  <1>3. /\ f \in Seq(CachedLeaf) /\ Len(f) <= Len(leaves)
        /\ \A n \in 1..Len(f) : \E i \in 1..Len(leaves) : f[n] = leaves[i] /\ leaves[i].offset # o
        /\ \A m, n \in 1..Len(f) : f[m].offset = f[n].offset => m = n
    BY <1>1, <1>2, OthersAre
  <1>4. PICK N \in Nat, x \in CachedLeaf :
            N = Len(f) /\ x = [offset |-> o, dir |-> d] /\ x.offset = o /\ x.dir = d
    <2>1. [offset |-> o, dir |-> d] \in CachedLeaf
      BY DEF CachedLeaf
    <2>2. Len(f) \in Nat
      BY <1>3
    <2>. QED
      BY <2>1, <2>2
  <1>5. PICK g : g = Append(f, x)
    OBVIOUS
  <1>6. /\ g \in Seq(CachedLeaf) /\ Len(g) = N + 1 /\ g[N + 1] = x
        /\ \A n \in 1..N : g[n] = f[n]
    BY <1>3, <1>4, <1>5
  <1>7. \A n \in 1..(N + 1) : LeafAt(w, file, g[n].offset, g[n].dir)
    <2>1. ASSUME NEW n \in 1..N
          PROVE  LeafAt(w, file, g[n].offset, g[n].dir)
      <3>1. PICK i \in 1..Len(leaves) : f[n] = leaves[i]
        BY <1>3, <1>4
      <3>2. g[n] = leaves[i]
        BY <1>6, <3>1
      <3>. QED
        BY <1>1, <3>2
    <2>2. LeafAt(w, file, x.offset, x.dir)
      BY <1>4
    <2>3. \A n \in 1..(N + 1) : n \in 1..N \/ n = N + 1
      OBVIOUS
    <2>. QED
      BY <1>6, <2>1, <2>2, <2>3
  <1>8. \A m, n \in 1..(N + 1) : g[m].offset = g[n].offset => m = n
    <2>1. \A n \in 1..N : g[n].offset # o /\ g[n] = f[n]
      <3>1. ASSUME NEW n \in 1..N
            PROVE  f[n].offset # o
        <4>1. PICK i \in 1..Len(leaves) : f[n] = leaves[i] /\ leaves[i].offset # o
          BY <1>3, <1>4
        <4>. QED
          BY <4>1
      <3>2. \A n \in 1..N : g[n] = f[n]
        BY <1>6
      <3>. QED
        BY <3>1, <3>2
    <2>2. g[N + 1].offset = o
      BY <1>4, <1>6
    <2>3. \A n \in 1..(N + 1) : n \in 1..N \/ n = N + 1
      OBVIOUS
    <2>4. \A m, n \in 1..N : g[m].offset = g[n].offset => m = n
      BY <1>3, <1>4, <2>1
    <2>. QED
      BY <2>1, <2>2, <2>3, <2>4
  <1>9. PICK C \in Nat : C = LeafCap /\ N <= C
    BY <1>1, <1>3, <1>4, PmTilesAssumption
  <1>10. MostRecent(o, d) = IF Len(g) > LeafCap THEN Tail(g) ELSE g
    BY <1>2, <1>4, <1>5 DEF MostRecent
  <1>11. CASE Len(g) > LeafCap
    <2>1. PICK h : h = Tail(g)
      OBVIOUS
    <2>2. h \in Seq(CachedLeaf) /\ Len(h) = N /\ \A n \in 1..N : h[n] = g[n + 1]
      BY <1>6, <2>1
    <2>3. \A n \in 1..N : n + 1 \in 1..(N + 1)
      OBVIOUS
    <2>4. \A n \in 1..N : LeafAt(w, file, h[n].offset, h[n].dir)
      BY <1>7, <2>2, <2>3
    <2>5. \A m, n \in 1..N : h[m].offset = h[n].offset => m = n
      <3>1. ASSUME NEW m \in 1..N, NEW n \in 1..N, h[m].offset = h[n].offset
            PROVE  m = n
        <4>1. m + 1 = n + 1
          <5>1. m + 1 \in 1..(N + 1) /\ n + 1 \in 1..(N + 1) /\ h[m] = g[m + 1] /\ h[n] = g[n + 1]
            BY <2>2, <2>3
          <5>. QED
            BY <1>8, <3>1, <5>1
        <4>. QED
          BY <4>1
      <3>. QED
        BY <3>1
    <2>. QED
      BY <1>9, <1>10, <1>11, <2>1, <2>2, <2>4, <2>5 DEF CacheOf
  <1>12. CASE ~(Len(g) > LeafCap)
    BY <1>6, <1>7, <1>8, <1>9, <1>10, <1>12 DEF CacheOf
  <1>. QED
    BY <1>11, <1>12

-----------------------------------------------------------------------------
(* A piece inside another one is a piece of it.                            *)
LEMMA PieceWithin ==
    ASSUME NEW S, NEW s \in Seq(S), NEW t \in Seq(S), NEW u \in Seq(S),
           NEW a, NEW b, Piece(s, a, t), Piece(s, b, u), a <= b, b + Len(u) <= a + Len(t)
    PROVE  Piece(t, b - a, u)
  <1>1. PICK m \in Nat, n \in Nat : m = Len(t) /\ n = Len(u)
    OBVIOUS
  <1>2. /\ a \in Nat /\ \A i \in 1..m : s[a + i] = t[i]
        /\ b \in Nat /\ \A i \in 1..n : s[b + i] = u[i]
    BY <1>1 DEF Piece
  <1>3. PICK x \in Nat : x = b - a /\ b = a + x /\ x + n <= m
    BY <1>1, <1>2
  <1>4. ASSUME NEW i \in 1..n
        PROVE  t[x + i] = u[i]
    <2>1. x + i \in 1..m /\ a + (x + i) = b + i
      BY <1>2, <1>3
    <2>. QED
      BY <1>2, <2>1
  <1>. QED
    BY <1>1, <1>3, <1>4 DEF Piece

(* coalesce_blocks: what is wanted is in a block.                          *)
WantedIn(k, W) ==
    /\ W = Wanted(k) /\ W \subseteq Locations /\ IsFiniteSet(W)

(* The ranges a batch wants are those of the tiles found.                  *)
LEMMA WantedIs ==
    ASSUME NEW k \in Readers, located[k] \in Seq(Locations \cup {None})
    PROVE  WantedIn(k, Wanted(k))
  <1>1. PICK n \in Nat, l \in Seq(Locations \cup {None}) :
            l = located[k] /\ n = Len(l) /\ DOMAIN l = 1..n
    OBVIOUS
  <1>2. Range(l) \subseteq Locations \cup {None}
    BY <1>1 DEF Range
  <1>3. IsFiniteSet(1..n)
    BY FS_Interval
  <1>4. IsFiniteSet(Range(l))
    <2>1. l \in Surjection(1..n, Range(l))
      BY <1>1 DEF Range, Surjection
    <2>. QED
      BY <1>3, <2>1, FS_Surjection
  <1>5. IsFiniteSet(Range(l) \ {None})
    BY <1>4, FS_Subset
  <1>. QED
    BY <1>1, <1>2, <1>5 DEF WantedIn, Wanted

(* Every wanted range is in a block that starts at or before it.           *)
LEMMA StartIsThere ==
    ASSUME NEW k \in Readers, NEW W, WantedIn(k, W), NEW r \in W
    PROVE  /\ StartOf(k, r) \in Starts(k) /\ StartOf(k, r) \in W
           /\ StartOf(k, r).offset <= r.offset
  <1>1. /\ W = Wanted(k) /\ W \subseteq Locations /\ IsFiniteSet(W)
        /\ \A q \in W : q.offset \in Nat /\ q.length \in Nat
    BY DEF WantedIn, Locations
  <1>2. PICK B : B = Starts(k)
    OBVIOUS
  <1>3. /\ B \subseteq W
        /\ \A s \in W : (\A q \in W : s.offset <= q.offset) => s \in B
    <2>1. ASSUME NEW s \in W, \A q \in W : s.offset <= q.offset
          PROVE  s \in B
      <3>1. ASSUME NEW q \in W, q.offset < s.offset
            PROVE  FALSE
        <4>1. s.offset <= q.offset /\ s.offset \in Nat /\ q.offset \in Nat
          BY <1>1, <2>1
        <4>. QED
          BY <3>1, <4>1
      <3>. QED
        BY <1>1, <1>2, <3>1 DEF Starts
    <2>. QED
      BY <1>1, <1>2, <2>1 DEF Starts
  <1>4. PICK p \in W : \A q \in W : p.offset <= q.offset
    <2>1. PICK O : O = {q.offset : q \in W}
      OBVIOUS
    <2>2. O \in SUBSET Nat /\ O # {}
      BY <1>1, <2>1
    <2>3. PICK m : m = Min(O) /\ m \in O /\ \A y \in O : m <= y
      BY <2>2, LeastIs
    <2>. QED
      BY <2>1, <2>3
  <1>5. PICK T : T = {s \in B : s.offset <= r.offset}
    OBVIOUS
  <1>6. p \in T /\ T \subseteq W
    BY <1>3, <1>4, <1>5
  <1>7. PICK g \in T : \A q \in T : q.offset <= g.offset
    <2>1. PICK O : O = {q.offset : q \in T}
      OBVIOUS
    <2>2. O \in SUBSET Int /\ O # {}
      BY <1>1, <1>6, <2>1
    <2>3. IsFiniteSet(O)
      <3>1. IsFiniteSet(T)
        BY <1>1, <1>6, FS_Subset
      <3>2. PICK f : f = [q \in T |-> q.offset]
        OBVIOUS
      <3>3. f \in Surjection(T, O)
        BY <2>1, <3>2 DEF Surjection
      <3>. QED
        BY <3>1, <3>3, FS_Surjection
    <2>4. PICK m : m = Max(O) /\ m \in O /\ \A y \in O : m >= y
      BY <2>2, <2>3, GreatestIs
    <2>5. PICK g \in T : m = g.offset
      BY <2>1, <2>4
    <2>6. ASSUME NEW q \in T
          PROVE  q.offset <= g.offset
      <3>1. q.offset \in O /\ q.offset \in Nat /\ g.offset \in Nat
        BY <1>1, <1>6, <2>1
      <3>2. m >= q.offset
        BY <2>4, <3>1
      <3>. QED
        BY <2>5, <3>1, <3>2
    <2>. QED
      BY <2>6
  <1>8. g \in B /\ g.offset <= r.offset /\ \A q \in B : q.offset <= r.offset => q.offset <= g.offset
    BY <1>5, <1>7
  <1>9. PICK s : s = StartOf(k, r)
    OBVIOUS
  <1>10. s \in B /\ s.offset <= r.offset
    BY <1>2, <1>8, <1>9, Zenon DEF StartOf
  <1>. QED
    BY <1>2, <1>3, <1>9, <1>10

(* The block covers it, for any gap up to which ranges are merged.         *)
LEMMA BlockHolds ==
    ASSUME NEW k \in Readers, NEW W, WantedIn(k, W), NEW r \in W, NEW b,
           b = Block(k, StartOf(k, r))
    PROVE  /\ b.offset = StartOf(k, r).offset /\ b.offset \in Nat /\ b.length \in Nat
           /\ b.offset <= r.offset /\ r.offset + r.length <= b.offset + b.length
  <1>1. /\ W = Wanted(k) /\ W \subseteq Locations /\ IsFiniteSet(W)
        /\ \A q \in W : q.offset \in Nat /\ q.length \in Nat
    BY DEF WantedIn, Locations
  <1>2. PICK s \in Locations : s = StartOf(k, r) /\ s.offset <= r.offset
    BY <1>1, StartIsThere
  <1>3. PICK Q : Q = {q \in W : StartOf(k, q) = s}
    OBVIOUS
  <1>4. PICK E : E = {q.offset + q.length : q \in Q}
    OBVIOUS
  <1>5. r \in Q /\ Q \subseteq W
    BY <1>2, <1>3
  <1>6. \A q \in Q : q.offset + q.length \in Nat
    BY <1>1, <1>5
  <1>7. E \in SUBSET Int /\ E \in SUBSET Nat /\ r.offset + r.length \in E
    BY <1>4, <1>5, <1>6
  <1>8. IsFiniteSet(E)
    <2>1. IsFiniteSet(Q)
      BY <1>1, <1>5, FS_Subset
    <2>2. PICK f : f = [q \in Q |-> q.offset + q.length]
      OBVIOUS
    <2>3. f \in Surjection(Q, E)
      BY <1>4, <2>2 DEF Surjection
    <2>. QED
      BY <2>1, <2>3, FS_Surjection
  <1>9. PICK m : m = Max(E) /\ m \in E /\ \A y \in E : m >= y
    BY <1>7, <1>8, GreatestIs
  <1>10. PICK x \in Nat, y \in Nat, z \in Nat :
             x = s.offset /\ y = r.offset + r.length /\ z = m /\ x <= y /\ y <= z
    <2>1. r.offset + r.length \in Nat /\ s.offset \in Nat /\ r.offset \in Nat /\ r.length \in Nat
      BY <1>1 DEF Locations
    <2>2. m \in Nat /\ m >= r.offset + r.length
      BY <1>7, <1>9
    <2>. QED
      BY <1>2, <2>1, <2>2
  <1>11. b = [s EXCEPT !.length = m - s.offset]
    BY <1>1, <1>2, <1>3, <1>4, <1>9 DEF Block
  <1>12. b.offset = x /\ b.length = z - x
    BY <1>10, <1>11 DEF Locations
  <1>. QED
    BY <1>2, <1>10, <1>12

(* The tile cut out of the block it was fetched with has the tile's own    *)
(* bytes.                                                                  *)
LEMMA CutIs ==
    ASSUME NEW k \in Readers, NEW W, WantedIn(k, W), NEW r \in W, BlocksInFile(k),
           NEW w, w.cells \in Seq(Cells), CutOff(w, file),
           header = w.header, w.header.dataOffset \in Nat,
           NEW u \in Seq(Cells), Len(u) = r.length,
           Piece(w.cells, w.header.dataOffset + r.offset, u)
    PROVE  Cut(k, r) = u
  <1>1. r.offset \in Nat /\ r.length \in Nat
    BY DEF WantedIn, Locations
  <1>2. PICK b, s : b = Block(k, s) /\ s = StartOf(k, r)
    OBVIOUS
  <1>3. /\ b.offset = s.offset /\ b.offset \in Nat /\ b.length \in Nat
        /\ b.offset <= r.offset /\ r.offset + r.length <= b.offset + b.length
        /\ s \in Starts(k)
    BY <1>2, BlockHolds, StartIsThere
  <1>4. PICK D \in Nat, o \in Nat, n \in Nat, x \in Nat, l \in Nat :
            /\ D = w.header.dataOffset /\ o = b.offset /\ n = b.length
            /\ x = r.offset /\ l = r.length /\ o <= x /\ x + l <= o + n
    BY <1>1, <1>3
  <1>5. InFile(D + o, n)
    BY <1>2, <1>3, <1>4 DEF BlocksInFile
  <1>6. PICK c \in Seq(Cells) : c = w.cells
    OBVIOUS
  <1>7. PICK t : t = ReadRange(D + o, n)
    OBVIOUS
  <1>8. t = Cutting(c, D + o, n)
    <2>1. D + o \in Nat
      OBVIOUS
    <2>2. t = Part(w, D + o, n)
      BY <1>5, <1>7, <2>1, ReadPart
    <2>. QED
      BY <1>6, <2>2 DEF Part, Cutting
  <1>9. D + o \in Nat /\ (D + o) + n <= Len(c)
    <2>1. (D + o) + n <= Len(file.cells)
      BY <1>5 DEF InFile
    <2>2. Len(file.cells) <= Len(c) /\ Len(file.cells) \in Nat /\ Len(c) \in Nat
      BY <1>6 DEF CutOff, Piece
    <2>. QED
      BY <2>1, <2>2
  <1>10. t \in Seq(Cells) /\ Len(t) = n /\ Piece(c, D + o, t)
    BY <1>8, <1>9, CuttingIs
  <1>11. Piece(c, D + x, u)
    BY <1>4, <1>6
  <1>12. D + o <= D + x /\ (D + x) + Len(u) <= (D + o) + Len(t) /\ (D + x) - (D + o) = x - o
    <2>1. Len(u) = l /\ Len(t) = n
      BY <1>4, <1>10
    <2>2. \A p, q, y, m, j \in Nat : q <= y /\ y + m <= q + j =>
              p + q <= p + y /\ (p + y) + m <= (p + q) + j /\ (p + y) - (p + q) = y - q
      OBVIOUS
    <2>3. o <= x /\ x + l <= o + n
      BY <1>4
    <2>4. D + o <= D + x /\ (D + x) + l <= (D + o) + n /\ (D + x) - (D + o) = x - o
      BY <2>2, <2>3
    <2>. QED
      BY <2>1, <2>4
  <1>13. Piece(t, x - o, u)
    BY <1>10, <1>11, <1>12, PieceWithin
  <1>14. SubSeq(t, (x - o) + 1, (x - o) + l) = u
    BY <1>4, <1>10, <1>13, PieceIs
  <1>15. Cut(k, r) = SubSeq(t, (x - o) + 1, (x - o) + l)
    BY <1>2, <1>4, <1>7 DEF Cut
  <1>. QED
    BY <1>14, <1>15

-----------------------------------------------------------------------------
(* What a task knows of the tiles it was asked for.                        *)
FoundFor(w, ts, t, r) ==
    IF t \notin DOMAIN ts THEN r = None
    ELSE /\ r \in Locations /\ r.length = Size[ts[t]]
         /\ r.offset + r.length <= w.header.dataLength
         /\ Piece(w.cells, w.header.dataOffset + r.offset, Bytes(ts[t]))

(* What the root says of a tile.                                           *)
PointerFor(w, t) == FindEntry(RootDir(w), TileId(t))

(* d is the leaf the root leads the tile to.                               *)
InDir(w, t, d) == InLeaf(PointerFor(w, t)) /\ d = LeafDir(w, PointerFor(w, t))

(* What a read that is under way knows, by where it stands: the entries    *)
(* found answer for their tiles, the directory at hand is the root or the  *)
(* leaf of the tile at hand, and the pointer is that leaf's.               *)
TaskOf(w, f, ts, p, b, l, d, q) ==
    IF p = "idle" THEN b = None /\ l = <<>>
    ELSE /\ b \in Batches /\ l \in Seq(Locations \cup {None}) /\ Len(l) <= Len(b)
         /\ \A i \in 1..Len(l) : FoundFor(w, ts, b[i], l[i])
         /\ p = "locate" => d = RootDir(w) \/ (Len(l) < Len(b) /\ InDir(w, b[Len(l) + 1], d))
         /\ p # "locate" => /\ Len(l) < Len(b) /\ q = PointerFor(w, b[Len(l) + 1]) /\ InLeaf(q)
                            /\ d # None
         /\ p = "insert" => d = LeafDir(w, q) /\ LeafInFile(w, f, q)

(* The values of the program counters.                                     *)
Phases == {"write", "closed", "open", "unreadable"}
Places == {"idle", "locate", "read", "insert"}

(* Types, and what the writer stored: this part needs no archive.          *)
TypesInv ==
    /\ tiles \in Archives /\ phase \in Phases
    /\ phase = "write" <=> file = None
    /\ StoredIn(tiles, data, dedup) /\ WrittenOf(tiles, entries, dedup)
    /\ pc \in [Readers -> Places] /\ batch \in [Readers -> Batches \cup {None}]
    /\ located \in [Readers -> Seq(Locations \cup {None})]
    /\ dir = [k \in Readers |-> dir[k]] /\ pointer = [k \in Readers |-> pointer[k]]

(* Nothing is read before the archive is open.                             *)
NotOpened ==
    /\ header = None /\ leaves = <<>>
    /\ \A k \in Readers : pc[k] = "idle" /\ batch[k] = None /\ located[k] = <<>>

(* w is the whole archive of the tiles, and the file is what a kill left   *)
(* of it.                                                                  *)
WholeOf(w) ==
    /\ ReadsRight(w, tiles) /\ HeaderFor(w, tiles) /\ SectionFor(w, tiles)
    /\ file \in PmFiles /\ (file.header # None => CutOff(w, file))

(* What open keeps of it.                                                  *)
HeaderRead(w) ==
    /\ header = w.header /\ root = RootDir(w) /\ file.header # None
    /\ levels = IF DOMAIN tiles = {} THEN {0} ELSE LevelsOf(tiles)

(* Every reader's task is right.                                           *)
TasksOf(w) ==
    \A k \in Readers : TaskOf(w, file, tiles, pc[k], batch[k], located[k], dir[k], pointer[k])

(* The reader's state is that of w.                                        *)
Opened(w) == HeaderRead(w) /\ CacheOf(w, file, leaves) /\ TasksOf(w)

(* The inductive invariant.  The archive w is in no variable once the file *)
(* was cut off, so it is said to exist.                                    *)
IInv ==
    /\ TypesInv
    /\ phase # "open" => NotOpened
    /\ phase # "write" => \E w : WholeOf(w) /\ (phase = "open" => Opened(w))

-----------------------------------------------------------------------------

(* A new writer starts right.                                              *)
LEMMA InitHolds == Init => IInv
  <1>. SUFFICES ASSUME Init
                PROVE  IInv
    OBVIOUS
  <1>1. TypesInv
    <2>1. StoredIn(tiles, <<>>, <<>>) /\ WrittenOf(tiles, <<>>, <<>>)
      BY StoredNothing DEF Init
    <2>2. /\ data = <<>> /\ dedup = <<>> /\ entries = <<>> /\ tiles \in Archives
          /\ phase = "write" /\ file = None
      BY DEF Init
    <2>3. pc \in [Readers -> Places] /\ batch \in [Readers -> Batches \cup {None}]
      BY DEF Init, Places
    <2>4. located \in [Readers -> Seq(Locations \cup {None})]
      <3>1. <<>> \in Seq(Locations \cup {None})
        OBVIOUS
      <3>. QED
        BY <3>1 DEF Init
    <2>5. dir = [k \in Readers |-> dir[k]] /\ pointer = [k \in Readers |-> pointer[k]]
      BY DEF Init
    <2>. QED
      BY <2>1, <2>2, <2>3, <2>4, <2>5 DEF TypesInv, Phases
  <1>2. NotOpened
    BY DEF Init, NotOpened
  <1>. QED
    BY <1>1, <1>2 DEF IInv, Init

(* The writer.                                                             *)
LEMMA WriteKeeps ==
    ASSUME IInv, NEW t \in DOMAIN tiles, Write(t)
    PROVE  IInv'
  <1>1. PICK c \in Range(tiles) : c = tiles[t]
    BY DEF Range
  <1>2. /\ TypesInv /\ NotOpened /\ phase = "write"
        /\ tiles \in Archives
    BY DEF IInv, Write, TypesInv
  <1>3. /\ StoredIn(tiles, data, dedup) /\ WrittenOf(tiles, entries, dedup)
    BY <1>2 DEF TypesInv
  <1>4. PICK offset : offset = IF c \in DOMAIN dedup THEN dedup[c] ELSE Len(data)
    OBVIOUS
  <1>5. /\ phase = "write"
        /\ \A i \in DOMAIN entries : entries[i].tile_id # TileId(t)
        /\ data' = IF c \in DOMAIN dedup THEN data ELSE data \o Bytes(c)
        /\ dedup' = [d \in DOMAIN dedup \cup {c} |-> IF d = c THEN offset ELSE dedup[d]]
        /\ entries' = Append(entries, Entry(TileId(t), offset, Size[c], 1))
        /\ UNCHANGED <<tiles, phase, file, opened, leaves, task>>
    BY <1>1, <1>4, Zenon DEF Write
  <1>6. StoredIn(tiles, data', dedup')
    <2>1. CASE c \in DOMAIN dedup
      <3>1. PICK f : f = [d \in DOMAIN dedup \cup {c} |-> IF d = c THEN offset ELSE dedup[d]]
        OBVIOUS
      <3>2. DOMAIN f = DOMAIN dedup /\ \A d \in DOMAIN dedup : f[d] = dedup[d]
        BY <1>4, <2>1, <3>1
      <3>3. StoredIn(tiles, data, f)
        BY <1>3, <3>2 DEF StoredIn
      <3>. QED
        BY <1>5, <2>1, <3>1, <3>3
    <2>2. CASE c \notin DOMAIN dedup
      <3>0. PICK b \in Seq(Cells) : b = Bytes(c)
        BY <1>2, ContentsAre
      <3>1. PICK d, dd : d = data /\ dd = dedup /\ StoredIn(tiles, d, dd) /\ c \notin DOMAIN dd
        BY <1>3, <2>2
      <3>2. PICK d2, dd2 : /\ d2 = d \o b
                           /\ dd2 = [x \in DOMAIN dd \cup {c} |-> IF x = c THEN Len(d) ELSE dd[x]]
        OBVIOUS
      <3>3. DOMAIN dd2 = DOMAIN dd \cup {c} /\ dd2[c] = Len(d) /\ \A x \in DOMAIN dd : dd2[x] = dd[x]
        BY <3>1, <3>2
      <3>4. StoredIn(tiles, d2, dd2)
        BY <1>2, <3>0, <3>1, <3>2, <3>3, StoredMore
      <3>. QED
        BY <1>4, <1>5, <2>2, <3>0, <3>1, <3>2, <3>4
    <2>. QED
      BY <2>1, <2>2
  <1>7. /\ DOMAIN dedup' = DOMAIN dedup \cup {c} /\ dedup'[c] = offset
        /\ \A d \in DOMAIN dedup : dedup'[d] = dedup[d]
    BY <1>4, <1>5
  <1>8. WrittenOf(tiles, entries', dedup')
    <2>1. PICK e : e = EntryOf(tiles, dedup', t)
      OBVIOUS
    <2>2. e \in DirEntries /\ e.tile_id = TileId(t) /\ TileId(t) \in Nat
      BY <1>1, <1>2, <1>6, <1>7, <2>1, EntryIs
    <2>3. entries' = Append(entries, e)
      BY <1>1, <1>5, <1>7, <2>1 DEF EntryOf
    <2>4. /\ entries \in Seq(DirEntries)
          /\ \A i \in 1..Len(entries) : \E u \in DOMAIN tiles :
                 tiles[u] \in DOMAIN dedup /\ entries[i] = EntryOf(tiles, dedup, u)
          /\ \A i, j \in 1..Len(entries) : entries[i].tile_id = entries[j].tile_id => i = j
      BY <1>3 DEF WrittenOf
    <2>5. PICK n \in Nat, g \in Seq(DirEntries) : n = Len(entries) /\ g = Append(entries, e)
      <3>1. Len(entries) \in Nat /\ Append(entries, e) \in Seq(DirEntries)
        BY <2>2, <2>4
      <3>. QED
        BY <3>1
    <2>6. Len(g) = n + 1 /\ g[n + 1] = e /\ \A i \in 1..n : g[i] = entries[i]
      BY <2>2, <2>4, <2>5
    <2>7. ASSUME NEW i \in 1..(n + 1)
          PROVE  \E u \in DOMAIN tiles : tiles[u] \in DOMAIN dedup' /\ g[i] = EntryOf(tiles, dedup', u)
      <3>1. CASE i = n + 1
        BY <1>1, <1>7, <2>1, <2>6, <3>1
      <3>2. CASE i # n + 1
        <4>1. i \in 1..n
          BY <3>2
        <4>2. PICK u \in DOMAIN tiles : tiles[u] \in DOMAIN dedup /\ g[i] = EntryOf(tiles, dedup, u)
          BY <2>4, <2>5, <2>6, <4>1
        <4>3. tiles[u] \in DOMAIN dedup' /\ EntryOf(tiles, dedup', u) = EntryOf(tiles, dedup, u)
          BY <1>7, <4>2 DEF EntryOf
        <4>. QED
          BY <4>2, <4>3
      <3>. QED
        BY <3>1, <3>2
    <2>8. ASSUME NEW i \in 1..(n + 1), NEW j \in 1..(n + 1), g[i].tile_id = g[j].tile_id
          PROVE  i = j
      <3>1. \A x \in 1..n : g[x].tile_id # TileId(t)
        <4>1. DOMAIN entries = 1..n
          BY <2>4, <2>5
        <4>. QED
          BY <1>5, <2>6, <4>1
      <3>2. g[n + 1].tile_id = TileId(t)
        BY <2>2, <2>6
      <3>3. \A x \in 1..(n + 1) : x \in 1..n \/ x = n + 1
        OBVIOUS
      <3>4. \A x, y \in 1..n : g[x].tile_id = g[y].tile_id => x = y
        BY <2>4, <2>5, <2>6
      <3>. QED
        BY <2>8, <3>1, <3>2, <3>3, <3>4
    <2>9. WrittenOf(tiles, g, dedup')
      BY <2>5, <2>6, <2>7, <2>8 DEF WrittenOf
    <2>. QED
      BY <2>3, <2>5, <2>9
  <1>9. TypesInv'
    BY <1>2, <1>5, <1>6, <1>8 DEF TypesInv, task
  <1>10. NotOpened'
    BY <1>2, <1>5 DEF NotOpened, task, opened
  <1>. QED
    BY <1>5, <1>9, <1>10 DEF IInv

(* finish makes the archive the readers' half of the invariant speaks of,  *)
(* and a kill cuts it off.                                                 *)
LEMMA FinishKeeps ==
    ASSUME IInv, Finish
    PROVE  IInv'
  <1>1. /\ TypesInv /\ NotOpened /\ tiles \in Archives
    BY DEF IInv, Finish, TypesInv
  <1>2. /\ phase = "write" /\ Len(entries) = Cardinality(DOMAIN tiles)
        /\ file' \in Files(Archive(ByTileId(entries))) /\ phase' = "closed"
        /\ data' = <<>> /\ entries' = <<>> /\ dedup' = <<>>
        /\ UNCHANGED <<tiles, opened, leaves, task>>
    BY DEF Finish
  <1>3. PICK w : w = Archive(ByTileId(entries))
    OBVIOUS
  <1>4. /\ ReadsRight(w, tiles) /\ HeaderFor(w, tiles) /\ SectionFor(w, tiles)
        /\ w = [header |-> w.header, cells |-> w.cells]
    BY <1>1, <1>2, <1>3, ArchiveIsRight DEF TypesInv
  <1>5. w.header \in Headers /\ w.cells \in Seq(Cells)
    BY <1>4 DEF ReadsRight
  <1>6. file' \in PmFiles /\ (file'.header # None => CutOff(w, file'))
    <2>1. PICK f : f = file' /\ f \in Files(w)
      BY <1>2, <1>3
    <2>2. f \in PmFiles /\ (f.header # None => CutOff(w, f))
      BY <1>4, <1>5, <2>1, FilesAre
    <2>. QED
      BY <2>1, <2>2
  <1>7. WholeOf(w)'
    BY <1>2, <1>4, <1>6 DEF WholeOf
  <1>8. TypesInv'
    <2>1. StoredIn(tiles, <<>>, <<>>) /\ WrittenOf(tiles, <<>>, <<>>)
      BY <1>1, StoredNothing
    <2>2. file' # None
      BY <1>6, PmTilesAssumption
    <2>. QED
      BY <1>1, <1>2, <2>1, <2>2 DEF TypesInv, task, Phases
  <1>9. NotOpened'
    BY <1>1, <1>2 DEF NotOpened, task, opened
  <1>. QED
    BY <1>2, <1>7, <1>8, <1>9 DEF IInv

(* The reader opens the file.                                              *)
LEMMA OpenKeeps ==
    ASSUME IInv, Open
    PROVE  IInv'
  <1>1. TypesInv /\ NotOpened /\ phase = "closed" /\ tiles \in Archives
    BY DEF IInv, Open, TypesInv
  <1>2. PICK w : WholeOf(w)
    BY <1>1 DEF IInv
  <1>3. UNCHANGED <<tiles, writer, file, leaves, task>>
    BY DEF Open
  <1>4. WholeOf(w)'
    BY <1>2, <1>3 DEF WholeOf
  <1>5. phase' \in Phases /\ phase' # "write" => TypesInv'
    BY <1>1, <1>3 DEF TypesInv, writer, task
  <1>6. CASE UNCHANGED opened /\ phase' = "unreadable"
    <2>1. NotOpened'
      BY <1>1, <1>3, <1>6 DEF NotOpened, opened, task
    <2>2. phase' \in Phases /\ phase' # "write" /\ phase' # "open"
      BY <1>6 DEF Phases
    <2>. QED
      BY <1>4, <1>5, <2>1, <2>2 DEF IInv
  <1>7. CASE /\ Readable /\ header' = file.header
             /\ root' = ParseDirectory(ReadRange(0, header'.root))
             /\ levels' = ParseLevels(header') /\ phase' = "open"
    <2>1. /\ file.header # None /\ CutOff(w, file) /\ w.header \in Headers
          /\ w.cells \in Seq(Cells) /\ header' = w.header
      BY <1>2, <1>7 DEF Readable, WholeOf, CutOff, ReadsRight
    <2>2. PICK r \in Nat, m \in Nat : r = w.header.root /\ m = w.header.metadata
      BY <2>1 DEF Headers
    <2>3. InFile(0, r + m)
      BY <1>7, <2>1, <2>2 DEF Readable, CutOff
    <2>4. InFile(0, r) /\ InFile(r, m)
      <3>1. PICK n \in Nat : n = Len(file.cells)
        BY <2>1 DEF CutOff
      <3>. QED
        BY <2>3, <3>1 DEF InFile
    <2>5. ReadRange(0, r) = Part(w, 0, r) /\ ReadRange(r, m) = Part(w, r, m)
      <3>1. 0 \in Nat
        OBVIOUS
      <3>2. ReadRange(0, r) = Part(w, 0, r)
        BY <2>1, <2>4, <3>1, ReadPart
      <3>3. ReadRange(r, m) = Part(w, r, m)
        BY <2>1, <2>4, ReadPart
      <3>. QED
        BY <3>2, <3>3
    <2>6. root' = RootDir(w)
      BY <1>7, <2>1, <2>2, <2>5 DEF RootDir
    <2>7. levels' = IF DOMAIN tiles = {} THEN {0} ELSE LevelsOf(tiles)
      <3>1. ParseLevels(w.header) =
                IF w.header.metadata = 0 THEN w.header.minZoom..w.header.maxZoom
                ELSE Range(Part(w, w.header.root, w.header.metadata))
        BY <2>2, <2>5 DEF ParseLevels
      <3>. QED
        BY <1>2, <1>7, <2>1, <3>1 DEF WholeOf, HeaderFor
    <2>8. HeaderRead(w)'
      BY <1>3, <2>1, <2>6, <2>7 DEF HeaderRead
    <2>9. CacheOf(w, file', leaves')
      <3>1. PICK lv \in Seq(CachedLeaf) : lv = <<>> /\ Len(lv) = 0
        <4>1. <<>> \in Seq(CachedLeaf) /\ Len(<<>>) = 0
          OBVIOUS
        <4>. QED
          BY <4>1
      <3>2. CacheOf(w, file, lv)
        BY <3>1, PmTilesAssumption DEF CacheOf
      <3>. QED
        BY <1>1, <1>3, <3>1, <3>2 DEF NotOpened
    <2>10. TasksOf(w)'
      BY <1>1, <1>3 DEF TasksOf, TaskOf, NotOpened, task
    <2>11. phase' \in Phases /\ phase' # "write" /\ phase' = "open"
      BY <1>7 DEF Phases
    <2>12. Opened(w)'
      BY <2>8, <2>9, <2>10 DEF Opened
    <2>. QED
      BY <1>4, <1>5, <2>11, <2>12 DEF IInv
  <1>. QED
    BY <1>6, <1>7 DEF Open

-----------------------------------------------------------------------------
(* A step of one reading task of an open archive.                          *)
OthersKeep(k) ==
    \A j \in Readers : j # k =>
        /\ pc'[j] = pc[j] /\ batch'[j] = batch[j] /\ located'[j] = located[j]
        /\ dir'[j] = dir[j] /\ pointer'[j] = pointer[j]

(* The readers' part of the types.                                         *)
TaskTypes ==
    /\ pc \in [Readers -> Places] /\ batch \in [Readers -> Batches \cup {None}]
    /\ located \in [Readers -> Seq(Locations \cup {None})]
    /\ dir = [k \in Readers |-> dir[k]] /\ pointer = [k \in Readers |-> pointer[k]]

(* A task is under way only in an open archive.                            *)
LEMMA OpenMeans ==
    ASSUME IInv, NEW k \in Readers, pc[k] # "idle" \/ phase = "open"
    PROVE  /\ TypesInv /\ TaskTypes /\ phase = "open" /\ tiles \in Archives
           /\ \E w : WholeOf(w) /\ Opened(w)
  <1>1. TypesInv /\ (phase # "open" => NotOpened)
    BY DEF IInv
  <1>2. phase = "open"
    BY <1>1 DEF NotOpened
  <1>. QED
    BY <1>1, <1>2 DEF IInv, TypesInv, TaskTypes

(* A step of one reader leaves the others' tasks and the archive alone:    *)
(* the cache and the own task are left to show.                            *)
LEMMA TaskStep ==
    ASSUME TypesInv, phase = "open", UNCHANGED <<tiles, phase, writer, file, opened>>,
           NEW k \in Readers, OthersKeep(k), TaskTypes', NEW w, WholeOf(w), Opened(w),
           CacheOf(w, file, leaves'),
           TaskOf(w, file, tiles, pc'[k], batch'[k], located'[k], dir'[k], pointer'[k])
    PROVE  IInv'
  <1>1. TypesInv'
    BY DEF TypesInv, TaskTypes, writer
  <1>2. WholeOf(w)'
    BY DEF WholeOf
  <1>3. HeaderRead(w)'
    BY DEF Opened, HeaderRead, opened
  <1>4. CacheOf(w, file, leaves)'
    OBVIOUS
  <1>5. TasksOf(w)'
    <2>1. ASSUME NEW j \in Readers
          PROVE  TaskOf(w, file, tiles, pc'[j], batch'[j], located'[j], dir'[j], pointer'[j])
      <3>1. CASE j = k
        BY <3>1
      <3>2. CASE j # k
        <4>1. /\ pc'[j] = pc[j] /\ batch'[j] = batch[j] /\ located'[j] = located[j]
              /\ dir'[j] = dir[j] /\ pointer'[j] = pointer[j]
          BY <3>2 DEF OthersKeep
        <4>2. TaskOf(w, file, tiles, pc[j], batch[j], located[j], dir[j], pointer[j])
          BY DEF Opened, TasksOf
        <4>. QED
          BY <4>1, <4>2
      <3>. QED
        BY <3>1, <3>2
    <2>. QED
      BY <2>1 DEF TasksOf
  <1>6. Opened(w)'
    BY <1>3, <1>4, <1>5 DEF Opened
  <1>. QED
    BY <1>1, <1>2, <1>6 DEF IInv

(* A call starts with nothing found.                                       *)
LEMMA AskKeeps ==
    ASSUME IInv, NEW k \in Readers, NEW b \in Batches, Ask(k, b)
    PROVE  IInv'
  <1>1. /\ phase = "open" /\ pc[k] = "idle"
        /\ pc' = [pc EXCEPT ![k] = "locate"] /\ batch' = [batch EXCEPT ![k] = b]
        /\ located' = [located EXCEPT ![k] = <<>>] /\ dir' = [dir EXCEPT ![k] = root]
        /\ UNCHANGED <<tiles, phase, writer, file, opened, leaves, pointer>>
    BY DEF Ask
  <1>2. TypesInv /\ TaskTypes
    BY <1>1, OpenMeans
  <1>3. PICK w : WholeOf(w) /\ Opened(w)
    BY <1>1, OpenMeans
  <1>4. OthersKeep(k)
    BY <1>1, <1>2 DEF OthersKeep, TaskTypes
  <1>5. <<>> \in Seq(Locations \cup {None}) /\ Len(<<>>) = 0
    OBVIOUS
  <1>6. TaskTypes'
    BY <1>1, <1>2, <1>5 DEF TaskTypes, Places
  <1>7. CacheOf(w, file, leaves')
    BY <1>1, <1>3 DEF Opened
  <1>8. /\ pc'[k] = "locate" /\ batch'[k] = b /\ located'[k] = <<>> /\ dir'[k] = root
    BY <1>1, <1>2 DEF TaskTypes
  <1>9. root = RootDir(w) /\ Len(b) \in Nat
    BY <1>3, PmTilesAssumption DEF Opened, HeaderRead
  <1>10. TaskOf(w, file, tiles, "locate", b, <<>>, root, pointer'[k])
    BY <1>5, <1>9 DEF TaskOf
  <1>. QED
    BY <1>1, <1>2, <1>3, <1>4, <1>6, <1>7, <1>8, <1>10, TaskStep

(* A return leaves the reader idle.                                        *)
LEMMA ReturnKeeps ==
    ASSUME IInv, NEW k \in Readers, pc[k] # "idle", NEW answer, Return(k, answer)
    PROVE  IInv'
  <1>1. /\ pc' = [pc EXCEPT ![k] = "idle"] /\ batch' = [batch EXCEPT ![k] = None]
        /\ located' = [located EXCEPT ![k] = <<>>] /\ dir' = [dir EXCEPT ![k] = None]
        /\ pointer' = [pointer EXCEPT ![k] = None]
        /\ UNCHANGED <<tiles, phase, writer, file, opened, leaves>>
    BY DEF Return
  <1>2. TypesInv /\ TaskTypes /\ phase = "open"
    BY OpenMeans
  <1>3. PICK w : WholeOf(w) /\ Opened(w)
    BY OpenMeans
  <1>4. OthersKeep(k)
    BY <1>1, <1>2 DEF OthersKeep, TaskTypes
  <1>5. <<>> \in Seq(Locations \cup {None})
    OBVIOUS
  <1>6. TaskTypes'
    BY <1>1, <1>2, <1>5 DEF TaskTypes, Places
  <1>7. CacheOf(w, file, leaves')
    BY <1>1, <1>3 DEF Opened
  <1>8. pc'[k] = "idle" /\ batch'[k] = None /\ located'[k] = <<>>
    BY <1>1, <1>2 DEF TaskTypes
  <1>9. TaskOf(w, file, tiles, "idle", None, <<>>, dir'[k], pointer'[k])
    BY DEF TaskOf
  <1>. QED
    BY <1>1, <1>2, <1>3, <1>4, <1>6, <1>7, <1>8, <1>9, TaskStep

-----------------------------------------------------------------------------
(* What a task knows while it is under way.                                *)
LEMMA TaskIs ==
    ASSUME NEW k \in Readers, pc[k] # "idle", TaskTypes, NEW w, Opened(w)
    PROVE  /\ batch[k] \in Batches /\ batch[k] \in Seq(Tiles)
           /\ located[k] \in Seq(Locations \cup {None})
           /\ Len(located[k]) \in Nat /\ Len(batch[k]) \in Nat /\ Len(located[k]) <= Len(batch[k])
           /\ \A i \in 1..Len(located[k]) : FoundFor(w, tiles, batch[k][i], located[k][i])
           /\ pc[k] = "locate" => \/ dir[k] = RootDir(w)
                                  \/ /\ Len(located[k]) < Len(batch[k])
                                     /\ InDir(w, batch[k][Len(located[k]) + 1], dir[k])
           /\ pc[k] # "locate" => /\ Len(located[k]) < Len(batch[k])
                                  /\ pointer[k] = PointerFor(w, batch[k][Len(located[k]) + 1])
                                  /\ InLeaf(pointer[k]) /\ dir[k] # None
           /\ pc[k] = "insert" => dir[k] = LeafDir(w, pointer[k]) /\ LeafInFile(w, file, pointer[k])
  <1>1. TaskOf(w, file, tiles, pc[k], batch[k], located[k], dir[k], pointer[k])
    BY DEF Opened, TasksOf
  <1>2. batch[k] \in Seq(Tiles)
    BY <1>1, PmTilesAssumption DEF TaskOf
  <1>. QED
    BY <1>1, <1>2 DEF TaskOf

(* What the root says of a tile is one of its entries; one of a leaf is    *)
(* good.                                                                   *)
LEMMA PointerIs ==
    ASSUME NEW w, WholeOf(w), NEW t \in Tiles, InLeaf(PointerFor(w, t))
    PROVE  \E c \in 1..Len(RootDir(w)) :
               /\ PointerFor(w, t) = RootDir(w)[c] /\ IsLeaf(RootDir(w)[c])
               /\ RootDir(w)[c] \in DirEntries /\ GoodLeaf(w, RootDir(w)[c])
  <1>1. /\ RootDir(w) \in Seq(DirEntries)
        /\ \A c \in 1..Len(RootDir(w)) : IsLeaf(RootDir(w)[c]) => GoodLeaf(w, RootDir(w)[c])
        /\ \E c \in 1..Len(RootDir(w)) : PointerFor(w, t) = RootDir(w)[c]
    BY DEF WholeOf, ReadsRight, PointerFor
  <1>2. PICK c \in 1..Len(RootDir(w)) : PointerFor(w, t) = RootDir(w)[c]
    BY <1>1
  <1>3. IsLeaf(RootDir(w)[c])
    BY <1>2 DEF InLeaf
  <1>. QED
    BY <1>1, <1>2, <1>3

-----------------------------------------------------------------------------
(* find_entry of the directory at hand: an answer for the tile, or the     *)
(* pointer to its leaf.                                                    *)
LEMMA LookedUp ==
    ASSUME NEW w, WholeOf(w), NEW t \in Tiles, NEW d, d = RootDir(w) \/ InDir(w, t, d),
           NEW e, e = FindEntry(d, TileId(t))
    PROVE  /\ InLeaf(e) => e = PointerFor(w, t)
           /\ ~InLeaf(e) => AnswersFor(w, tiles, t, e)
  <1>1. Located(w, tiles, t)
    BY DEF WholeOf, ReadsRight
  <1>2. CASE d = RootDir(w)
    BY <1>1, <1>2 DEF Located, PointerFor
  <1>3. CASE InDir(w, t, d)
    BY <1>1, <1>3 DEF Located, PointerFor, InDir
  <1>. QED
    BY <1>2, <1>3

(* An answer is noted as the range of the tile's bytes.                    *)
LEMMA FoundIs ==
    ASSUME NEW w, NEW ts, NEW t, NEW e, AnswersFor(w, ts, t, e), NEW r,
           r = IF e = None THEN None ELSE [offset |-> e.offset, length |-> e.length]
    PROVE  FoundFor(w, ts, t, r) /\ r \in Locations \cup {None}
  <1>1. CASE t \notin DOMAIN ts
    BY <1>1 DEF AnswersFor, FoundFor
  <1>2. CASE t \in DOMAIN ts
    <2>1. /\ e \in DirEntries /\ e.length = Size[ts[t]]
          /\ e.offset + e.length <= w.header.dataLength
          /\ Piece(w.cells, w.header.dataOffset + e.offset, Bytes(ts[t]))
      BY <1>2 DEF AnswersFor
    <2>2. e # None
      BY <2>1, CodecAssumption
    <2>3. r = [offset |-> e.offset, length |-> e.length]
      BY <2>2
    <2>4. r \in Locations /\ r.offset = e.offset /\ r.length = e.length
      BY <2>1, <2>3 DEF DirEntries, Locations
    <2>. QED
      BY <1>2, <2>1, <2>4 DEF FoundFor
  <1>. QED
    BY <1>1, <1>2

(* One lookup: in the root, or in the leaf at hand, cached or not.         *)
LEMMA LocateKeeps ==
    ASSUME IInv, NEW k \in Readers, Locate(k)
    PROVE  IInv'
  <1>1. pc[k] = "locate" /\ Len(located[k]) < Len(batch[k])
        /\ UNCHANGED <<tiles, phase, writer, file, opened, batch, result>>
    BY DEF Locate
  <1>2. TypesInv /\ TaskTypes /\ phase = "open"
    BY <1>1, OpenMeans
  <1>3. PICK w : WholeOf(w) /\ Opened(w)
    BY <1>1, OpenMeans
  <1>0. PICK b, l : b = batch[k] /\ l = located[k]
    OBVIOUS
  <1>4. PICK n \in Nat, m \in Nat : b = batch[k] /\ l = located[k] /\ n = Len(l) /\ m = Len(b)
    BY <1>0, <1>1, <1>2, <1>3, TaskIs
  <1>5. /\ b \in Batches /\ b \in Seq(Tiles) /\ l \in Seq(Locations \cup {None}) /\ n < m
        /\ \A i \in 1..n : FoundFor(w, tiles, b[i], l[i])
        /\ dir[k] = RootDir(w) \/ InDir(w, b[n + 1], dir[k])
    BY <1>1, <1>2, <1>3, <1>4, TaskIs
  <1>6. PICK t \in Tiles : t = b[n + 1]
    <2>1. n + 1 \in 1..m
      BY <1>5
    <2>. QED
      BY <1>4, <1>5, <2>1
  <1>7. PICK e : e = FindEntry(dir[k], TileId(t))
    OBVIOUS
  <1>8. /\ InLeaf(e) => e = PointerFor(w, t)
        /\ ~InLeaf(e) => AnswersFor(w, tiles, t, e)
    BY <1>3, <1>5, <1>6, <1>7, LookedUp
  <1>9. \/ /\ ~InLeaf(e)
           /\ located' = [located EXCEPT ![k] = Append(@,
                  IF e = None THEN None ELSE [offset |-> e.offset, length |-> e.length])]
           /\ dir' = [dir EXCEPT ![k] = root]
           /\ UNCHANGED <<pc, pointer, leaves>>
        \/ /\ InLeaf(e)
           /\ \E i \in Cached(e.offset) :
                /\ dir' = [dir EXCEPT ![k] = Descend(k, i)]
                /\ leaves' = MostRecent(e.offset, leaves[i].dir)
           /\ UNCHANGED <<pc, pointer, located>>
        \/ /\ InLeaf(e)
           /\ Cached(e.offset) = {}
           /\ pc' = [pc EXCEPT ![k] = "read"]
           /\ pointer' = [pointer EXCEPT ![k] = e]
           /\ UNCHANGED <<located, dir, leaves>>
    BY <1>4, <1>6, <1>7 DEF Locate
  <1>10. CacheOf(w, file, leaves) /\ root = RootDir(w) /\ header = w.header
    BY <1>3 DEF Opened, HeaderRead
  <1>11. CASE /\ ~InLeaf(e)
              /\ located' = [located EXCEPT ![k] = Append(@,
                     IF e = None THEN None ELSE [offset |-> e.offset, length |-> e.length])]
              /\ dir' = [dir EXCEPT ![k] = root]
              /\ UNCHANGED <<pc, pointer, leaves>>
    <2>1. PICK r \in Locations \cup {None} :
              /\ r = IF e = None THEN None ELSE [offset |-> e.offset, length |-> e.length]
              /\ FoundFor(w, tiles, t, r)
      BY <1>8, <1>11, FoundIs
    <2>2. PICK g \in Seq(Locations \cup {None}) :
              /\ g = Append(l, r) /\ Len(g) = n + 1 /\ g[n + 1] = r /\ \A i \in 1..n : g[i] = l[i]
      <3>1. Append(l, r) \in Seq(Locations \cup {None}) /\ Len(Append(l, r)) = n + 1
        BY <1>4, <1>5
      <3>2. Append(l, r)[n + 1] = r /\ \A i \in 1..n : Append(l, r)[i] = l[i]
        BY <1>4, <1>5
      <3>. QED
        BY <3>1, <3>2
    <2>3. located' = [located EXCEPT ![k] = g]
      BY <1>4, <1>11, <2>1, <2>2
    <2>4. located'[k] = g /\ dir'[k] = root /\ pc'[k] = "locate" /\ batch'[k] = b
      BY <1>1, <1>2, <1>4, <1>11, <2>3 DEF TaskTypes
    <2>5. \A i \in 1..(n + 1) : FoundFor(w, tiles, b[i], g[i])
      <3>1. \A i \in 1..(n + 1) : i \in 1..n \/ i = n + 1
        OBVIOUS
      <3>. QED
        BY <1>5, <1>6, <2>1, <2>2, <3>1
    <2>6. n + 1 <= m
      BY <1>5
    <2>7. TaskOf(w, file, tiles, "locate", b, g, root, pointer'[k])
      BY <1>4, <1>5, <1>10, <2>2, <2>5, <2>6 DEF TaskOf
    <2>8. OthersKeep(k)
      BY <1>1, <1>2, <1>11, <2>3 DEF OthersKeep, TaskTypes
    <2>9. TaskTypes'
      BY <1>1, <1>2, <1>11, <2>3 DEF TaskTypes
    <2>10. CacheOf(w, file, leaves')
      BY <1>10, <1>11
    <2>. QED
      BY <1>1, <1>2, <1>3, <2>4, <2>7, <2>8, <2>9, <2>10, TaskStep
  <1>12. ASSUME InLeaf(e)
         PROVE  \E c \in 1..Len(RootDir(w)) :
                    /\ e = RootDir(w)[c] /\ IsLeaf(RootDir(w)[c])
                    /\ e \in DirEntries /\ GoodLeaf(w, e) /\ e = PointerFor(w, t)
    BY <1>3, <1>8, <1>12, PointerIs
  <1>13. CASE /\ InLeaf(e)
              /\ \E i \in Cached(e.offset) :
                   /\ dir' = [dir EXCEPT ![k] = Descend(k, i)]
                   /\ leaves' = MostRecent(e.offset, leaves[i].dir)
              /\ UNCHANGED <<pc, pointer, located>>
    <2>1. PICK i \in Cached(e.offset) :
              /\ dir' = [dir EXCEPT ![k] = Descend(k, i)]
              /\ leaves' = MostRecent(e.offset, leaves[i].dir)
      BY <1>13
    <2>2. PICK c \in 1..Len(RootDir(w)) :
              /\ e = RootDir(w)[c] /\ IsLeaf(RootDir(w)[c])
              /\ e \in DirEntries /\ GoodLeaf(w, e) /\ e = PointerFor(w, t)
      BY <1>12, <1>13
    <2>3. i \in 1..Len(leaves) /\ leaves[i].offset = e.offset /\ leaves[i] \in CachedLeaf
          /\ LeafAt(w, file, leaves[i].offset, leaves[i].dir)
      BY <1>10 DEF CacheOf, Cached
    <2>4. leaves[i].dir = LeafDir(w, e)
      <3>1. PICK d \in 1..Len(RootDir(w)) :
                /\ IsLeaf(RootDir(w)[d]) /\ RootDir(w)[d].offset = e.offset
                /\ leaves[i].dir = LeafDir(w, RootDir(w)[d])
        BY <2>3 DEF LeafAt
      <3>2. d = c
        BY <1>3, <2>2, <3>1 DEF WholeOf, ReadsRight
      <3>. QED
        BY <2>2, <3>1, <3>2
    <2>5. PICK o \in Nat, x \in Seq(DirEntries) :
              o = e.offset /\ x = leaves[i].dir /\ LeafAt(w, file, o, x)
      BY <2>2, <2>3 DEF CachedLeaf, DirEntries
    <2>6. CacheOf(w, file, leaves')
      BY <1>10, <2>1, <2>5, CacheKept
    <2>7. dir' = [dir EXCEPT ![k] = x]
      BY <2>1, <2>5 DEF Descend
    <2>8. dir'[k] = x /\ pc'[k] = "locate" /\ located'[k] = l /\ batch'[k] = b
      BY <1>1, <1>2, <1>4, <1>13, <2>7 DEF TaskTypes
    <2>9. InDir(w, b[n + 1], x)
      BY <1>6, <1>13, <2>2, <2>4, <2>5 DEF InDir
    <2>10. TaskOf(w, file, tiles, "locate", b, l, x, pointer'[k])
      BY <1>4, <1>5, <2>9 DEF TaskOf
    <2>11. OthersKeep(k)
      BY <1>1, <1>2, <1>13, <2>7 DEF OthersKeep, TaskTypes
    <2>12. TaskTypes'
      BY <1>1, <1>2, <1>13, <2>7 DEF TaskTypes
    <2>. QED
      BY <1>1, <1>2, <1>3, <2>6, <2>8, <2>10, <2>11, <2>12, TaskStep
  <1>14. CASE /\ InLeaf(e)
              /\ Cached(e.offset) = {}
              /\ pc' = [pc EXCEPT ![k] = "read"]
              /\ pointer' = [pointer EXCEPT ![k] = e]
              /\ UNCHANGED <<located, dir, leaves>>
    <2>1. e = PointerFor(w, b[n + 1]) /\ InLeaf(e)
      BY <1>6, <1>12, <1>14
    <2>2. pc'[k] = "read" /\ located'[k] = l /\ batch'[k] = b /\ dir'[k] = dir[k] /\ pointer'[k] = e
      BY <1>1, <1>2, <1>4, <1>14 DEF TaskTypes
    <2>3. dir[k] # None
      <3>1. dir[k] \in Seq(DirEntries)
        <4>1. CASE dir[k] = RootDir(w)
          BY <1>3, <4>1 DEF WholeOf, ReadsRight
        <4>2. CASE InDir(w, t, dir[k])
          <5>1. InLeaf(PointerFor(w, t)) /\ dir[k] = LeafDir(w, PointerFor(w, t))
            BY <4>2 DEF InDir
          <5>2. GoodLeaf(w, PointerFor(w, t))
            BY <1>3, <5>1, PointerIs
          <5>. QED
            BY <5>1, <5>2 DEF GoodLeaf
        <4>. QED
          BY <1>5, <1>6, <4>1, <4>2
      <3>. QED
        BY <3>1, CodecAssumption
    <2>4. TaskOf(w, file, tiles, "read", b, l, dir[k], e)
      BY <1>4, <1>5, <2>1, <2>3 DEF TaskOf
    <2>5. OthersKeep(k)
      BY <1>1, <1>2, <1>14 DEF OthersKeep, TaskTypes
    <2>6. TaskTypes'
      BY <1>1, <1>2, <1>14 DEF TaskTypes, Places
    <2>7. CacheOf(w, file, leaves')
      BY <1>10, <1>14
    <2>. QED
      BY <1>1, <1>2, <1>3, <2>2, <2>4, <2>5, <2>6, <2>7, TaskStep
  <1>. QED
    BY <1>9, <1>11, <1>13, <1>14

(* The leaf is fetched while others may change the cache.                  *)
LEMMA ReadLeafKeeps ==
    ASSUME IInv, NEW k \in Readers, ReadLeaf(k)
    PROVE  IInv'
  <1>1. /\ pc[k] = "read" /\ InFile(LeafOffset(k), pointer[k].length)
        /\ dir' = [dir EXCEPT ![k] = ParseDirectory(ReadRange(LeafOffset(k), pointer[k].length))]
        /\ pc' = [pc EXCEPT ![k] = "insert"]
        /\ UNCHANGED <<tiles, phase, writer, file, opened, leaves, batch, located, pointer, result>>
    BY DEF ReadLeaf
  <1>2. TypesInv /\ TaskTypes /\ phase = "open"
    BY <1>1, OpenMeans
  <1>3. PICK w : WholeOf(w) /\ Opened(w)
    BY <1>1, OpenMeans
  <1>0. PICK b, l : b = batch[k] /\ l = located[k]
    OBVIOUS
  <1>4. PICK n \in Nat, m \in Nat : b = batch[k] /\ l = located[k] /\ n = Len(l) /\ m = Len(b)
    BY <1>0, <1>1, <1>2, <1>3, TaskIs
  <1>5. PICK q : /\ q = pointer[k]
                 /\ b \in Batches /\ b \in Seq(Tiles) /\ l \in Seq(Locations \cup {None}) /\ n < m
                 /\ \A i \in 1..n : FoundFor(w, tiles, b[i], l[i])
                 /\ q = PointerFor(w, b[n + 1]) /\ InLeaf(q)
    BY <1>1, <1>2, <1>3, <1>4, TaskIs
  <1>6. b[n + 1] \in Tiles
    <2>1. n + 1 \in 1..m
      BY <1>5
    <2>. QED
      BY <1>4, <1>5, <2>1
  <1>7. q \in DirEntries /\ GoodLeaf(w, q)
    BY <1>3, <1>5, <1>6, PointerIs
  <1>8. header = w.header /\ CacheOf(w, file, leaves) /\ CutOff(w, file)
        /\ w.header \in Headers /\ w.cells \in Seq(Cells)
    BY <1>3 DEF Opened, HeaderRead, WholeOf, ReadsRight
  <1>9. PICK o \in Nat, z \in Nat : o = w.header.leafOffset + q.offset /\ z = q.length
    <2>1. w.header.leafOffset \in Nat
      BY <1>8 DEF Headers
    <2>2. q.offset \in Nat /\ q.length \in Nat
      BY <1>7 DEF DirEntries
    <2>3. w.header.leafOffset + q.offset \in Nat
      BY <2>1, <2>2
    <2>. QED
      BY <2>2, <2>3
  <1>10. InFile(o, z)
    BY <1>1, <1>5, <1>8, <1>9 DEF LeafOffset
  <1>11. ReadRange(o, z) = Part(w, o, z)
    BY <1>8, <1>10, ReadPart
  <1>12. PICK d : d = LeafDir(w, q)
    OBVIOUS
  <1>13. dir' = [dir EXCEPT ![k] = d]
    BY <1>1, <1>5, <1>8, <1>9, <1>11, <1>12 DEF LeafOffset, LeafDir
  <1>14. LeafInFile(w, file, q)
    BY <1>9, <1>10 DEF InFile, LeafInFile
  <1>15. d # None
    BY <1>7, <1>12, CodecAssumption DEF GoodLeaf
  <1>16. /\ pc'[k] = "insert" /\ batch'[k] = b /\ located'[k] = l /\ dir'[k] = d /\ pointer'[k] = q
    BY <1>1, <1>2, <1>4, <1>5, <1>13 DEF TaskTypes
  <1>17. TaskOf(w, file, tiles, "insert", b, l, d, q)
    BY <1>4, <1>5, <1>12, <1>14, <1>15 DEF TaskOf
  <1>18. OthersKeep(k)
    BY <1>1, <1>2, <1>13 DEF OthersKeep, TaskTypes
  <1>19. TaskTypes'
    BY <1>1, <1>2, <1>13 DEF TaskTypes, Places
  <1>20. CacheOf(w, file, leaves')
    BY <1>1, <1>8
  <1>. QED
    BY <1>1, <1>2, <1>3, <1>16, <1>17, <1>18, <1>19, <1>20, TaskStep

(* The leaf fetched is put into the cache as it is by now.                 *)
LEMMA InsertLeafKeeps ==
    ASSUME IInv, NEW k \in Readers, InsertLeaf(k)
    PROVE  IInv'
  <1>1. /\ pc[k] = "insert" /\ leaves' = MostRecent(pointer[k].offset, dir[k])
        /\ pc' = [pc EXCEPT ![k] = "locate"] /\ pointer' = [pointer EXCEPT ![k] = None]
        /\ UNCHANGED <<tiles, phase, writer, file, opened, batch, located, dir, result>>
    BY DEF InsertLeaf
  <1>2. TypesInv /\ TaskTypes /\ phase = "open"
    BY <1>1, OpenMeans
  <1>3. PICK w : WholeOf(w) /\ Opened(w)
    BY <1>1, OpenMeans
  <1>0. PICK b, l : b = batch[k] /\ l = located[k]
    OBVIOUS
  <1>4. PICK n \in Nat, m \in Nat : b = batch[k] /\ l = located[k] /\ n = Len(l) /\ m = Len(b)
    BY <1>0, <1>1, <1>2, <1>3, TaskIs
  <1>5. PICK q, d : /\ q = pointer[k] /\ d = dir[k]
                    /\ b \in Batches /\ b \in Seq(Tiles) /\ l \in Seq(Locations \cup {None}) /\ n < m
                    /\ \A i \in 1..n : FoundFor(w, tiles, b[i], l[i])
                    /\ q = PointerFor(w, b[n + 1]) /\ InLeaf(q)
                    /\ d = LeafDir(w, q) /\ LeafInFile(w, file, q)
    BY <1>1, <1>2, <1>3, <1>4, TaskIs
  <1>6. b[n + 1] \in Tiles
    <2>1. n + 1 \in 1..m
      BY <1>5
    <2>. QED
      BY <1>4, <1>5, <2>1
  <1>7. PICK c \in 1..Len(RootDir(w)) :
            /\ q = RootDir(w)[c] /\ IsLeaf(RootDir(w)[c])
            /\ RootDir(w)[c] \in DirEntries /\ GoodLeaf(w, RootDir(w)[c])
    BY <1>3, <1>5, <1>6, PointerIs
  <1>8. PICK o \in Nat : o = q.offset /\ LeafAt(w, file, o, d)
    BY <1>5, <1>7 DEF LeafAt, DirEntries
  <1>9. d \in Seq(DirEntries)
    BY <1>5, <1>7 DEF GoodLeaf
  <1>10. CacheOf(w, file, leaves)
    BY <1>3 DEF Opened
  <1>11. CacheOf(w, file, leaves')
    BY <1>1, <1>5, <1>8, <1>9, <1>10, CacheKept
  <1>12. /\ pc'[k] = "locate" /\ batch'[k] = b /\ located'[k] = l /\ dir'[k] = d
    BY <1>1, <1>2, <1>4, <1>5 DEF TaskTypes
  <1>13. InDir(w, b[n + 1], d)
    BY <1>5 DEF InDir
  <1>14. TaskOf(w, file, tiles, "locate", b, l, d, pointer'[k])
    BY <1>4, <1>5, <1>13 DEF TaskOf
  <1>15. OthersKeep(k)
    BY <1>1, <1>2 DEF OthersKeep, TaskTypes
  <1>16. TaskTypes'
    BY <1>1, <1>2 DEF TaskTypes, Places
  <1>. QED
    BY <1>1, <1>2, <1>3, <1>11, <1>12, <1>14, <1>15, <1>16, TaskStep

-----------------------------------------------------------------------------
(* Every step of the writer, of the kill and of any reader.                *)
LEMMA NextKeeps == IInv /\ [Next]_vars => IInv'
  <1>. SUFFICES ASSUME IInv, [Next]_vars
                PROVE  IInv'
    OBVIOUS
  <1>1. ASSUME NEW t \in DOMAIN tiles, Write(t)
        PROVE  IInv'
    BY <1>1, WriteKeeps
  <1>2. CASE Finish
    BY <1>2, FinishKeeps
  <1>3. CASE Open
    BY <1>3, OpenKeeps
  <1>4. ASSUME NEW k \in Readers, Locate(k)
        PROVE  IInv'
    BY <1>4, LocateKeeps
  <1>5. ASSUME NEW k \in Readers, Resume(k)
        PROVE  IInv'
    <2>1. CASE ReadLeaf(k)
      BY <2>1, ReadLeafKeeps
    <2>2. CASE InsertLeaf(k)
      BY <2>2, InsertLeafKeeps
    <2>3. ASSUME NEW answer, Return(k, answer), pc[k] # "idle"
          PROVE  IInv'
      BY <2>3, ReturnKeeps
    <2>4. CASE FetchData(k)
      <3>1. pc[k] # "idle" /\ \E answer : Return(k, answer)
        BY <2>4, Zenon DEF FetchData, AllLocated
      <3>. QED
        BY <2>3, <3>1
    <2>5. CASE ReadFails(k)
      <3>1. pc[k] # "idle" /\ Return(k, Failed)
        BY <2>5, Zenon DEF ReadFails, AllLocated
      <3>. QED
        BY <2>3, <3>1
    <2>. QED
      BY <1>5, <2>1, <2>2, <2>4, <2>5 DEF Resume
  <1>6. ASSUME NEW k \in Readers, NEW b \in Batches, Ask(k, b)
        PROVE  IInv'
    BY <1>6, AskKeeps
  <1>7. CASE UNCHANGED vars
    <2>1. TypesInv' /\ (NotOpened <=> NotOpened') /\ phase' = phase
      BY <1>7 DEF IInv, TypesInv, NotOpened, vars, writer, opened, task
    <2>2. \A w : WholeOf(w) => WholeOf(w)'
      BY <1>7 DEF WholeOf, vars
    <2>3. \A w : Opened(w) => Opened(w)'
      BY <1>7 DEF Opened, HeaderRead, TasksOf, vars, opened, task
    <2>. QED
      BY <2>1, <2>2, <2>3 DEF IInv
  <1>. QED
    BY <1>1, <1>2, <1>3, <1>4, <1>5, <1>6, <1>7 DEF Next

(* What is found, fetched and cached stays that of one archive, at any     *)
(* interleaving of the readers.                                            *)
THEOREM IInvHolds == Spec => []IInv
  BY InitHolds, NextKeeps, PTL DEF Spec

-----------------------------------------------------------------------------

(* PmTiles.TypeOK: the state keeps its types, and what the reader looks up *)
(* lies within the sections it reads.                                      *)
THEOREM TypesHold == Spec => []TypeOK
  <1>1. IInv => TypeOK
    <2>. SUFFICES ASSUME IInv
                  PROVE  TypeOK
      OBVIOUS
    <2>1. /\ TypesInv /\ tiles \in Archives /\ phase \in Phases
          /\ phase = "write" <=> file = None
          /\ pc \in [Readers -> Places] /\ StoredIn(tiles, data, dedup)
          /\ WrittenOf(tiles, entries, dedup)
      BY DEF IInv, TypesInv
    <2>2. DOMAIN dedup \subseteq Range(tiles)
      BY <2>1 DEF StoredIn
    <2>3. \A i \in DOMAIN entries : entries[i].offset + entries[i].length <= Len(data)
      <3>1. ASSUME NEW i \in DOMAIN entries
            PROVE  entries[i].offset + entries[i].length <= Len(data)
        <4>1. i \in 1..Len(entries)
          BY <2>1 DEF WrittenOf
        <4>2. PICK t \in DOMAIN tiles : tiles[t] \in DOMAIN dedup /\ entries[i] = EntryOf(tiles, dedup, t)
          BY <2>1, <4>1 DEF WrittenOf
        <4>3. /\ EntryOf(tiles, dedup, t).offset = dedup[tiles[t]]
              /\ EntryOf(tiles, dedup, t).length = Size[tiles[t]]
              /\ dedup[tiles[t]] + Size[tiles[t]] <= Len(data)
          BY <2>1, <4>2, EntryIs
        <4>. QED
          BY <4>2, <4>3
      <3>. QED
        BY <3>1
    <2>4. CASE phase # "open"
      <3>1. NotOpened
        BY <2>4 DEF IInv
      <3>2. header = None /\ Len(leaves) = 0
        BY <3>1 DEF NotOpened
      <3>3. Len(leaves) <= LeafCap
        BY <3>2, PmTilesAssumption
      <3>4. ASSUME NEW k \in Readers
            PROVE  /\ batch[k] = None /\ pc[k] = "idle"
                   /\ \A i \in DOMAIN located[k] : FALSE
        BY <3>1 DEF NotOpened
      <3>. QED
        BY <2>1, <2>2, <2>3, <2>4, <3>2, <3>3, <3>4 DEF TypeOK, Phases, Places
    <2>5. CASE phase = "open"
      <3>1. PICK w : WholeOf(w) /\ Opened(w)
        BY <2>1, <2>5 DEF IInv
      <3>2. /\ header = w.header /\ root = RootDir(w) /\ w.header \in Headers
            /\ RootDir(w) \in Seq(DirEntries) /\ Len(leaves) <= LeafCap
            /\ levels = IF DOMAIN tiles = {} THEN {0} ELSE LevelsOf(tiles)
            /\ LevelsOf(tiles) \subseteq Nat
        BY <3>1 DEF WholeOf, Opened, HeaderRead, ReadsRight, HeaderFor, CacheOf
      <3>3. header # None /\ root # None /\ levels \subseteq Nat
        BY <3>2, CodecAssumption, PmTilesAssumption
      <3>4. ASSUME NEW k \in Readers
            PROVE  /\ batch[k] \in Batches \cup {None}
                   /\ \A i \in DOMAIN located[k] : located[k][i] # None => InData(located[k][i])
                   /\ pc[k] \in {"read", "insert"} =>
                          pointer[k].offset + pointer[k].length <= header.leafLength
                   /\ pc[k] # "idle" => Len(located[k]) <= Len(batch[k]) /\ dir[k] # None
        <4>1. CASE pc[k] = "idle"
          <5>1. batch[k] = None /\ located[k] = <<>>
            BY <3>1, <4>1 DEF Opened, TasksOf, TaskOf
          <5>. QED
            BY <4>1, <5>1
        <4>2. CASE pc[k] # "idle"
          <5>1. TaskTypes
            BY <2>1 DEF TypesInv, TaskTypes
          <5>2. /\ batch[k] \in Batches /\ batch[k] \in Seq(Tiles)
                /\ located[k] \in Seq(Locations \cup {None})
                /\ Len(located[k]) <= Len(batch[k])
                /\ \A i \in 1..Len(located[k]) : FoundFor(w, tiles, batch[k][i], located[k][i])
            BY <3>1, <4>2, <5>1, TaskIs
          <5>3. \A i \in DOMAIN located[k] : located[k][i] # None => InData(located[k][i])
            BY <3>2, <5>2 DEF FoundFor, InData
          <5>4. dir[k] # None /\ (pc[k] # "locate" => GoodLeaf(w, pointer[k]))
            <6>1. PICK n \in Nat, m \in Nat, b \in Seq(Tiles) :
                      n = Len(located[k]) /\ m = Len(batch[k]) /\ b = batch[k]
              BY <3>1, <4>2, <5>1, TaskIs
            <6>2. n < m => b[n + 1] \in Tiles
              <7>1. n < m => n + 1 \in 1..m
                OBVIOUS
              <7>. QED
                BY <6>1, <7>1
            <6>3. CASE pc[k] # "locate"
              <7>1. /\ n < m /\ pointer[k] = PointerFor(w, b[n + 1]) /\ InLeaf(pointer[k])
                    /\ dir[k] # None
                BY <3>1, <4>2, <5>1, <6>1, <6>3, TaskIs
              <7>2. GoodLeaf(w, pointer[k])
                BY <3>1, <6>2, <7>1, PointerIs
              <7>. QED
                BY <7>1, <7>2
            <6>4. CASE pc[k] = "locate"
              <7>1. dir[k] = RootDir(w) \/ (n < m /\ InDir(w, b[n + 1], dir[k]))
                BY <3>1, <4>2, <5>1, <6>1, <6>4, TaskIs
              <7>2. CASE n < m /\ InDir(w, b[n + 1], dir[k])
                <8>1. InLeaf(PointerFor(w, b[n + 1])) /\ dir[k] = LeafDir(w, PointerFor(w, b[n + 1]))
                  BY <7>2 DEF InDir
                <8>2. GoodLeaf(w, PointerFor(w, b[n + 1]))
                  BY <3>1, <6>2, <7>2, <8>1, PointerIs
                <8>3. dir[k] \in Seq(DirEntries)
                  BY <8>1, <8>2 DEF GoodLeaf
                <8>. QED
                  BY <6>4, <8>3, CodecAssumption
              <7>. QED
                BY <3>2, <6>4, <7>1, <7>2, CodecAssumption
            <6>. QED
              BY <6>3, <6>4
          <5>5. pc[k] # "locate" => pointer[k].offset + pointer[k].length <= header.leafLength
            BY <3>2, <5>4 DEF GoodLeaf
          <5>. QED
            BY <5>2, <5>3, <5>4, <5>5
        <4>. QED
          BY <4>1, <4>2
      <3>. QED
        BY <2>1, <2>2, <2>3, <2>5, <3>2, <3>3, <3>4 DEF TypeOK, Phases, Places
    <2>. QED
      BY <2>4, <2>5
  <1>. QED
    BY <1>1, IInvHolds, PTL

-----------------------------------------------------------------------------
(* PmTiles.LeafCacheIsTruthful: the leaves that concurrent reads put into  *)
(* the cache (tiles/src/reader/pmtiles.rs, LeafCache) are the file's own,  *)
(* each once and no more than fit, for every capacity.                     *)
THEOREM LeafCacheHolds == Spec => []LeafCacheIsTruthful
  <1>1. IInv => LeafCacheIsTruthful
    <2>. SUFFICES ASSUME IInv
                  PROVE  LeafCacheIsTruthful
      OBVIOUS
    <2>1. CASE phase # "open"
      <3>1. leaves = <<>>
        BY <2>1 DEF IInv, NotOpened
      <3>2. {leaves[i].offset : i \in DOMAIN leaves} = {} /\ Len(leaves) = 0
        BY <3>1
      <3>3. Cardinality({leaves[i].offset : i \in DOMAIN leaves}) = Len(leaves)
        BY <3>2, FS_EmptySet
      <3>. QED
        BY <3>1, <3>3 DEF LeafCacheIsTruthful
    <2>2. CASE phase = "open"
      <3>1. PICK w : WholeOf(w) /\ Opened(w)
        BY <2>2 DEF IInv
      <3>2. /\ header = w.header /\ root = RootDir(w) /\ CacheOf(w, file, leaves)
            /\ CutOff(w, file) /\ w.header \in Headers /\ w.cells \in Seq(Cells)
            /\ RootDir(w) \in Seq(DirEntries)
            /\ \A c \in 1..Len(RootDir(w)) : IsLeaf(RootDir(w)[c]) => GoodLeaf(w, RootDir(w)[c])
        BY <3>1 DEF WholeOf, Opened, HeaderRead, ReadsRight
      <3>3. /\ leaves \in Seq(CachedLeaf)
            /\ \A i \in 1..Len(leaves) : LeafAt(w, file, leaves[i].offset, leaves[i].dir)
            /\ \A i, j \in 1..Len(leaves) : leaves[i].offset = leaves[j].offset => i = j
        BY <3>2 DEF CacheOf
      <3>4. PICK n \in Nat : n = Len(leaves) /\ DOMAIN leaves = 1..n
        BY <3>3
      <3>5. ASSUME NEW i \in DOMAIN leaves
            PROVE  \E e \in Range(root) :
                       /\ IsLeaf(e) /\ e.offset = leaves[i].offset
                       /\ leaves[i].dir = ParseDirectory(ReadRange(header.leafOffset + e.offset, e.length))
                       /\ leaves[i].dir[1].tile_id = e.tile_id
        <4>1. PICK c \in 1..Len(RootDir(w)) :
                  /\ IsLeaf(RootDir(w)[c]) /\ RootDir(w)[c].offset = leaves[i].offset
                  /\ leaves[i].dir = LeafDir(w, RootDir(w)[c]) /\ LeafInFile(w, file, RootDir(w)[c])
          BY <3>3, <3>4 DEF LeafAt
        <4>2. PICK e \in DirEntries : e = RootDir(w)[c] /\ GoodLeaf(w, e)
          BY <3>2, <4>1
        <4>3. e \in Range(root)
          BY <3>2, <4>2 DEF Range
        <4>4. PICK o \in Nat, z \in Nat : o = w.header.leafOffset + e.offset /\ z = e.length
          <5>1. w.header.leafOffset \in Nat
            BY <3>2 DEF Headers
          <5>2. e.offset \in Nat /\ e.length \in Nat
            BY DEF DirEntries
          <5>. QED
            BY <5>1, <5>2
        <4>5. InFile(o, z)
          BY <4>1, <4>2, <4>4 DEF LeafInFile, InFile
        <4>6. ReadRange(o, z) = Part(w, o, z)
          BY <3>2, <4>5, ReadPart
        <4>7. LeafDir(w, e) = ParseDirectory(ReadRange(header.leafOffset + e.offset, e.length))
          BY <3>2, <4>4, <4>6 DEF LeafDir
        <4>. QED
          BY <4>1, <4>2, <4>3, <4>7 DEF GoodLeaf
      <3>6. PICK O : O = {leaves[i].offset : i \in DOMAIN leaves}
        OBVIOUS
      <3>7. Cardinality(O) = n
        <4>1. PICK f : f = [i \in 1..n |-> leaves[i].offset]
          OBVIOUS
        <4>2. ExistsBijection(1..n, O)
          <5>1. f \in Bijection(1..n, O)
            <6>1. f \in [1..n -> O]
              BY <3>4, <3>6, <4>1
            <6>2. \A i, j \in 1..n : f[i] = f[j] => i = j
              BY <3>3, <3>4, <4>1
            <6>3. \A x \in O : \E i \in 1..n : f[i] = x
              BY <3>4, <3>6, <4>1
            <6>. QED
              BY <6>1, <6>2, <6>3 DEF Bijection, Injection, Surjection, IsInjective
          <5>. QED
            BY <5>1 DEF ExistsBijection
        <4>3. IsFiniteSet(1..n)
          BY FS_Interval
        <4>4. Cardinality(1..n) = n
          BY FS_Interval
        <4>. QED
          BY <4>2, <4>3, <4>4, FS_Bijection, Zenon
      <3>. QED
        BY <3>4, <3>5, <3>6, <3>7 DEF LeafCacheIsTruthful
    <2>. QED
      BY <2>1, <2>2
  <1>. QED
    BY <1>1, IInvHolds, PTL

-----------------------------------------------------------------------------

(* PmTiles.HeaderIsRight: the counts and the zoom range finish writes into *)
(* the header are those of the tiles added.                                *)
THEOREM HeaderHolds == Spec => []HeaderIsRight
  <1>1. IInv => HeaderIsRight
    <2>. SUFFICES ASSUME IInv
                  PROVE  HeaderIsRight
      OBVIOUS
    <2>1. ASSUME phase = "closed", file.header # None
          PROVE  /\ file.header.numAddressed = Cardinality(DOMAIN tiles)
                 /\ file.header.numEntries = Cardinality(StartsOf(tiles))
                 /\ file.header.numContents = Cardinality(Range(tiles))
      <3>1. PICK w : WholeOf(w)
        BY <2>1 DEF IInv
      <3>2. HeaderFor(w, tiles) /\ file.header = w.header
        BY <2>1, <3>1 DEF WholeOf, CutOff
      <3>. QED
        BY <3>2 DEF HeaderFor
    <2>2. ASSUME phase = "open"
          PROVE  levels = IF DOMAIN tiles = {} THEN {0} ELSE Levels
      <3>1. PICK w : Opened(w)
        BY <2>2 DEF IInv
      <3>. QED
        BY <3>1 DEF Opened, HeaderRead, LevelsOf, Levels
    <2>. QED
      BY <2>1, <2>2, Zenon DEF HeaderIsRight, StartsOf
  <1>. QED
    BY <1>1, IInvHolds, PTL

(* What is left of the last piece is a front of it.                        *)
LEMMA RestIsPrefix ==
    ASSUME NEW S, NEW s \in Seq(S), NEW u \in Seq(S), NEW f \in Seq(S), NEW D \in Nat,
           Piece(s, D, u), Len(s) = D + Len(u), Piece(s, 0, f)
    PROVE  IsPrefix(SubSeq(f, D + 1, Len(f)), u)
  <1>1. PICK n \in Nat, z \in Nat : n = Len(f) /\ z = Len(u)
    OBVIOUS
  <1>2. /\ n <= D + z /\ \A i \in 1..z : s[D + i] = u[i]
        /\ \A i \in 1..n : s[i] = f[i]
    <2>1. \A i \in 1..n : s[0 + i] = f[i] /\ 0 + i = i
      BY <1>1 DEF Piece
    <2>2. 0 + n <= Len(s)
      BY <1>1 DEF Piece
    <2>. QED
      BY <1>1, <2>1, <2>2 DEF Piece
  <1>3. PICK r : r = SubSeq(f, D + 1, n)
    OBVIOUS
  <1>4. CASE n <= D
    <2>1. r = <<>> /\ Len(r) = 0
      BY <1>1, <1>3, <1>4
    <2>2. SubSeq(u, 1, 0) = <<>>
      OBVIOUS
    <2>3. Len(r) <= Len(u) /\ SubSeq(r, 1, Len(r)) = SubSeq(u, 1, Len(r))
      BY <1>1, <2>1, <2>2
    <2>. QED
      BY <1>1, <1>3, <2>3 DEF IsPrefix
  <1>5. CASE n > D
    <2>1. PICK l \in Nat : n = D + l /\ l <= z
      <3>1. n - D \in Nat /\ n = D + (n - D) /\ n - D <= z
        BY <1>2, <1>5
      <3>. QED
        BY <3>1
    <2>2. r = Cutting(f, D, l)
      BY <1>3, <2>1 DEF Cutting
    <2>3. r \in Seq(S) /\ Len(r) = l /\ Piece(f, D, r)
      <3>1. D + l <= Len(f)
        BY <1>1, <2>1
      <3>2. Cutting(f, D, l) \in Seq(S) /\ Len(Cutting(f, D, l)) = l /\ Piece(f, D, Cutting(f, D, l))
        BY <3>1, CuttingIs
      <3>. QED
        BY <2>2, <3>2
    <2>4. \A i \in 1..l : r[i] = u[i]
      <3>1. ASSUME NEW i \in 1..l
            PROVE  r[i] = u[i]
        <4>1. i \in 1..z /\ D + i \in 1..n
          BY <2>1
        <4>2. f[D + i] = r[i]
          BY <2>3 DEF Piece
        <4>. QED
          BY <1>2, <4>1, <4>2
      <3>. QED
        BY <3>1
    <2>5. Piece(u, 0, r)
      <3>1. 0 + l <= Len(u) /\ \A i \in 1..l : u[0 + i] = r[i]
        BY <1>1, <2>1, <2>4
      <3>. QED
        BY <2>3, <3>1 DEF Piece
    <2>6. SubSeq(u, 0 + 1, 0 + l) = r
      BY <2>3, <2>5, PieceIs
    <2>7. Piece(r, 0, r)
      BY <2>3 DEF Piece
    <2>8. SubSeq(r, 0 + 1, 0 + l) = r
      BY <2>3, <2>7, PieceIs
    <2>9. 0 + 1 = 1 /\ 0 + l = l
      OBVIOUS
    <2>10. SubSeq(r, 1, l) = SubSeq(u, 1, l)
      BY <2>6, <2>8, <2>9
    <2>11. Len(r) <= Len(u) /\ SubSeq(r, 1, Len(r)) = SubSeq(u, 1, Len(r))
      BY <1>1, <2>1, <2>3, <2>10
    <2>. QED
      BY <1>1, <1>3, <2>11 DEF IsPrefix
  <1>. QED
    BY <1>4, <1>5

(* PmTiles.FileIsClustered: the data section finish copies has every       *)
(* content once, ordered by the first tile id that uses it, up to where a  *)
(* kill cut the file off.                                                  *)
THEOREM ClusteredHolds == Spec => []FileIsClustered
  <1>1. IInv => FileIsClustered
    <2>. SUFFICES ASSUME IInv, phase = "closed", file.header # None
                  PROVE  /\ file.header.dataLength = Len(SectionOf(tiles))
                         /\ IsPrefix(SubSeq(file.cells, file.header.dataOffset + 1, Len(file.cells)),
                                     SectionOf(tiles))
      BY Zenon DEF FileIsClustered, SectionOf, ContentsOf, FirstIdIn, FirstId
    <2>1. PICK w : WholeOf(w)
      BY DEF IInv
    <2>2. /\ CutOff(w, file) /\ SectionFor(w, tiles) /\ w.header \in Headers /\ w.cells \in Seq(Cells)
      BY <2>1 DEF WholeOf, ReadsRight
    <2>3. PICK s \in Seq(Cells), f \in Seq(Cells), u \in Seq(Cells) :
              s = w.cells /\ f = file.cells /\ u = SectionOf(tiles)
      BY <2>2 DEF CutOff, SectionFor
    <2>4. PICK D \in Nat : D = w.header.dataOffset
      BY <2>2 DEF Headers
    <2>5. Piece(s, D, u) /\ Len(s) = D + Len(u) /\ Piece(s, 0, f) /\ w.header.dataLength = Len(u)
      BY <2>2, <2>3, <2>4 DEF SectionFor, CutOff
    <2>6. IsPrefix(SubSeq(f, D + 1, Len(f)), u)
      BY <2>5, RestIsPrefix
    <2>. QED
      BY <2>2, <2>3, <2>4, <2>5, <2>6 DEF CutOff
  <1>. QED
    BY <1>1, IInvHolds, PTL

-----------------------------------------------------------------------------

(* When all are located and the blocks are inside the file, the batch's    *)
(* answer is what the tiles have.                                          *)
LEMMA AnswerIsRight ==
    ASSUME IInv, NEW k \in Readers, AllLocated(k), BlocksInFile(k)
    PROVE  [i \in DOMAIN located[k] |->
               IF located[k][i] = None THEN None ELSE Cut(k, located[k][i])]
           = Source!Right(batch[k])
  <1>1. pc[k] # "idle" /\ Len(located[k]) = Len(batch[k])
    BY DEF AllLocated
  <1>2. TaskTypes /\ tiles \in Archives
    BY <1>1, OpenMeans
  <1>3. PICK w : WholeOf(w) /\ Opened(w)
    BY <1>1, OpenMeans
  <1>4. /\ batch[k] \in Seq(Tiles) /\ located[k] \in Seq(Locations \cup {None})
        /\ \A i \in 1..Len(located[k]) : FoundFor(w, tiles, batch[k][i], located[k][i])
    BY <1>1, <1>2, <1>3, TaskIs
  <1>5. PICK W : W = Wanted(k) /\ WantedIn(k, W)
    BY <1>4, WantedIs
  <1>6. DOMAIN located[k] = DOMAIN batch[k]
    BY <1>1, <1>4
  <1>7. /\ CutOff(w, file) /\ header = w.header /\ w.header.dataOffset \in Nat
        /\ w.cells \in Seq(Cells)
    BY <1>3 DEF WholeOf, ReadsRight, Opened, HeaderRead, Headers
  <1>8. ASSUME NEW i \in DOMAIN batch[k]
        PROVE  (IF located[k][i] = None THEN None ELSE Cut(k, located[k][i]))
               = IF batch[k][i] \in DOMAIN tiles THEN Bytes(tiles[batch[k][i]]) ELSE None
    <2>1. PICK t, r : /\ t = batch[k][i] /\ r = located[k][i] /\ FoundFor(w, tiles, t, r)
                      /\ r \in Range(located[k])
      BY <1>4, <1>6 DEF Range
    <2>2. CASE t \notin DOMAIN tiles
      BY <2>1, <2>2 DEF FoundFor
    <2>3. CASE t \in DOMAIN tiles
      <3>1. PICK c \in Range(tiles) : c = tiles[t]
        BY <2>3 DEF Range
      <3>2. /\ r \in Locations /\ r.length = Size[c]
            /\ Piece(w.cells, w.header.dataOffset + r.offset, Bytes(c))
        BY <2>1, <2>3, <3>1 DEF FoundFor
      <3>3. r # None /\ r \in W
        BY <1>5, <2>1, <3>2, PmTilesAssumption DEF Wanted
      <3>4. PICK u \in Seq(Cells) : u = Bytes(c) /\ Len(u) = r.length
        BY <1>2, <3>2, ContentsAre
      <3>5. Piece(w.cells, w.header.dataOffset + r.offset, u)
        BY <3>2, <3>4
      <3>6. Cut(k, r) = u
        BY <1>5, <1>7, <3>3, <3>4, <3>5, CutIs
      <3>. QED
        BY <2>1, <2>3, <3>1, <3>3, <3>4, <3>6
    <2>. QED
      BY <2>2, <2>3
  <1>9. Source!Right(batch[k]) =
            [i \in DOMAIN batch[k] |->
                IF batch[k][i] \in DOMAIN tiles THEN Bytes(tiles[batch[k][i]]) ELSE None]
    <2>1. PICK f : f = [t \in DOMAIN tiles |-> Bytes(tiles[t])]
      OBVIOUS
    <2>2. DOMAIN f = DOMAIN tiles /\ \A t \in DOMAIN tiles : f[t] = Bytes(tiles[t])
      BY <2>1
    <2>3. Source!Right(batch[k]) =
              [i \in DOMAIN batch[k] |-> IF batch[k][i] \in DOMAIN f THEN f[batch[k][i]] ELSE None]
      BY <2>1, Zenon DEF Source!Right
    <2>4. \A i \in DOMAIN batch[k] :
              (IF batch[k][i] \in DOMAIN f THEN f[batch[k][i]] ELSE None)
              = IF batch[k][i] \in DOMAIN tiles THEN Bytes(tiles[batch[k][i]]) ELSE None
      BY <2>2, Zenon
    <2>. QED
      BY <2>3, <2>4
  <1>. QED
    BY <1>6, <1>8, <1>9

(* What the abstract specification sees.                                   *)
Asked == [k \in Readers |-> IF pc[k] = "idle" THEN None ELSE batch[k]]

(* The source's view of the state.                                         *)
Stored == [t \in DOMAIN tiles |-> Bytes(tiles[t])]

(* A return with that answer, or with an error, is the source's answer.    *)
LEMMA ReturnAnswers ==
    ASSUME IInv, NEW k \in Readers, pc[k] # "idle", NEW answer, Return(k, answer),
           answer \in {Source!Right(batch[k]), Failed}
    PROVE  Source!Answer(k)
  <1>1. /\ pc' = [pc EXCEPT ![k] = "idle"] /\ batch' = [batch EXCEPT ![k] = None]
        /\ result' = [result EXCEPT ![k] = answer] /\ tiles' = tiles
    BY DEF Return
  <1>2. TaskTypes
    BY OpenMeans
  <1>3. PICK w : WholeOf(w) /\ Opened(w)
    BY OpenMeans
  <1>4. batch[k] \in Batches /\ batch[k] # None
    BY <1>2, <1>3, TaskIs, PmTilesAssumption
  <1>5. Asked[k] = batch[k]
    BY DEF Asked
  <1>6. Asked' = [Asked EXCEPT ![k] = None]
    BY <1>1, <1>2 DEF Asked, TaskTypes
  <1>7. Stored' = Stored
    BY <1>1 DEF Stored
  <1>8. result' \in {[result EXCEPT ![k] = Source!Right(Asked[k])], [result EXCEPT ![k] = Failed]}
    BY <1>1, <1>5
  <1>. QED
    BY <1>4, <1>5, <1>6, <1>7, <1>8 DEF Source!Answer, Asked, Stored

(* Every step of the archive is one of the source or leaves it alone.      *)
LEMMA StepIsSource ==
    ASSUME IInv, [Next]_vars
    PROVE  Source!Next \/ (Stored' = Stored /\ Asked' = Asked /\ result' = result)
  <1>1. ASSUME tiles' = tiles, result' = result, Asked' = Asked
        PROVE  Stored' = Stored /\ Asked' = Asked /\ result' = result
    BY <1>1 DEF Stored
  <1>2. ASSUME NEW t \in DOMAIN tiles, Write(t)
        PROVE  Stored' = Stored /\ Asked' = Asked /\ result' = result
    BY <1>1, <1>2, Zenon DEF Write, task, Asked
  <1>3. CASE Finish
    BY <1>1, <1>3, Zenon DEF Finish, task, Asked
  <1>4. CASE Open
    BY <1>1, <1>4, Zenon DEF Open, task, Asked
  <1>5. CASE UNCHANGED vars
    BY <1>1, <1>5, Zenon DEF vars, task, Asked
  <1>6. ASSUME NEW k \in Readers, pc[k] # "idle", batch' = batch, tiles' = tiles, result' = result,
               NEW place, place # "idle", pc' = pc \/ pc' = [pc EXCEPT ![k] = place]
        PROVE  Stored' = Stored /\ Asked' = Asked /\ result' = result
    <2>1. TaskTypes
      BY <1>6, OpenMeans
    <2>2. Asked' = Asked
      BY <1>6, <2>1 DEF Asked, TaskTypes
    <2>. QED
      BY <1>1, <1>6, <2>2
  <1>7. ASSUME NEW k \in Readers, Locate(k)
        PROVE  Stored' = Stored /\ Asked' = Asked /\ result' = result
    <2>1. /\ pc[k] # "idle" /\ batch' = batch /\ tiles' = tiles /\ result' = result
          /\ pc' = pc \/ pc' = [pc EXCEPT ![k] = "read"]
      BY <1>7 DEF Locate
    <2>. QED
      BY <1>6, <2>1
  <1>8. ASSUME NEW k \in Readers, Resume(k)
        PROVE  Source!Answer(k) \/ (Stored' = Stored /\ Asked' = Asked /\ result' = result)
    <2>1. CASE ReadLeaf(k)
      <3>1. /\ pc[k] # "idle" /\ batch' = batch /\ tiles' = tiles /\ result' = result
            /\ pc' = [pc EXCEPT ![k] = "insert"]
        BY <2>1 DEF ReadLeaf
      <3>. QED
        BY <1>6, <3>1
    <2>2. CASE InsertLeaf(k)
      <3>1. /\ pc[k] # "idle" /\ batch' = batch /\ tiles' = tiles /\ result' = result
            /\ pc' = [pc EXCEPT ![k] = "locate"]
        BY <2>2 DEF InsertLeaf
      <3>. QED
        BY <1>6, <3>1
    <2>3. CASE FetchData(k)
      <3>1. PICK answer :
                answer = [i \in DOMAIN located[k] |->
                             IF located[k][i] = None THEN None ELSE Cut(k, located[k][i])]
        OBVIOUS
      <3>2. AllLocated(k) /\ BlocksInFile(k) /\ Return(k, answer)
        BY <2>3, <3>1, Zenon DEF FetchData
      <3>3. answer = Source!Right(batch[k])
        BY <3>1, <3>2, AnswerIsRight
      <3>4. pc[k] # "idle"
        BY <3>2 DEF AllLocated
      <3>. QED
        BY <3>2, <3>3, <3>4, ReturnAnswers
    <2>4. CASE ReadFails(k)
      <3>1. pc[k] # "idle" /\ Return(k, Failed)
        BY <2>4, Zenon DEF ReadFails, AllLocated
      <3>. QED
        BY <3>1, ReturnAnswers
    <2>. QED
      BY <1>8, <2>1, <2>2, <2>3, <2>4 DEF Resume
  <1>9. ASSUME NEW k \in Readers, NEW b \in Batches, Ask(k, b)
        PROVE  Source!Ask(k, b)
    <2>1. /\ phase = "open" /\ pc[k] = "idle" /\ tiles' = tiles
          /\ pc' = [pc EXCEPT ![k] = "locate"] /\ batch' = [batch EXCEPT ![k] = b]
          /\ result' = [result EXCEPT ![k] = None]
      BY <1>9 DEF Ask
    <2>2. TaskTypes
      BY <2>1, OpenMeans
    <2>3. Asked[k] = None
      BY <2>1 DEF Asked
    <2>4. Asked' = [Asked EXCEPT ![k] = b]
      BY <2>1, <2>2 DEF Asked, TaskTypes
    <2>5. Stored' = Stored
      BY <2>1 DEF Stored
    <2>. QED
      BY <2>1, <2>3, <2>4, <2>5 DEF Source!Ask, Asked, Stored
  <1>. QED
    BY <1>2, <1>3, <1>4, <1>5, <1>7, <1>8, <1>9 DEF Next, Source!Next

(* PmTiles.ReadsWhatWasWritten: the archive implements TileSource.         *)
(* Whatever was added, at any leaf size, cache capacity, merge gap and     *)
(* number of readers, and wherever a kill cut the file off, a read returns *)
(* the tiles' own bytes and no tile where there is none, or it fails.      *)
THEOREM ReadsAsWritten == Spec => ReadsWhatWasWritten
  <1>1. Init => Source!Init
    <2>. SUFFICES ASSUME Init
                  PROVE  Source!Init
      OBVIOUS
    <2>1. /\ tiles \in Archives /\ pc = [k \in Readers |-> "idle"]
          /\ result = [k \in Readers |-> None]
      BY DEF Init
    <2>2. Asked = [c \in Readers |-> None]
      BY <2>1 DEF Asked
    <2>. QED
      BY <2>1, <2>2 DEF Source!Init, Asked
  <1>2. IInv /\ [Next]_vars => [Source!Next]_<<Stored, Asked, result>>
    BY StepIsSource
  <1>. QED
    BY <1>1, <1>2, IInvHolds, PTL DEF Spec, ReadsWhatWasWritten, Source!Spec, Stored, Asked
=============================================================================
