----------------------------- MODULE FiniteSums -----------------------------
(***************************************************************************)
(* What the sums of the community modules add up to.  The functions these  *)
(* operators are built from are recursive, so the lemmas rest on           *)
(* induction: over the subsets of a finite set and over the numbers, each  *)
(* in the form of a set that is closed under the step.                     *)
(***************************************************************************)
EXTENDS Integers, FiniteSetsExt, FiniteSetTheorems, WellFoundedInduction, TLAPS

(* A set of subsets with the empty set, and with every other all of whose  *)
(* subsets short of one element it has, has them all.                      *)
LEMMA SetInduction ==
    ASSUME NEW S, IsFiniteSet(S), NEW Good, {} \in Good,
           \A s \in SUBSET S : s # {} /\ (\A x \in s : s \ {x} \in Good) => s \in Good
    PROVE  \A s \in SUBSET S : s \in Good
  <1>. DEFINE Bad == {s \in SUBSET S : s \notin Good}
              R == StrictSubsetOrdering(S)
  <1>1. IsWellFoundedOn(R, FiniteSubsetsOf(S))
    BY FS_StrictSubsetOrderingWellFounded
  <1>2. Bad \subseteq FiniteSubsetsOf(S)
    BY FS_FiniteSubsetsOfFinite
  <1>3. \A s, u \in SUBSET S : <<s, u>> \in R <=> s \subseteq u /\ s # u
    BY DEF StrictSubsetOrdering
  <1>4. ASSUME NEW s \in SUBSET S, s \notin Good
        PROVE  FALSE
    <2>. HIDE DEF R
    <2>1. PICK m \in Bad : \A u \in Bad : ~(<<u, m>> \in R)
      <3>. HIDE DEF Bad
      <3>1. Bad # {}
        BY <1>4 DEF Bad
      <3>. QED
        BY <1>1, <1>2, <3>1, WFMin
    <2>2. ASSUME NEW x \in m
          PROVE  m \ {x} \in Good
      <3>1. m \in SUBSET S /\ m \ {x} \in SUBSET S /\ m \ {x} # m
        BY <2>1, <2>2
      <3>2. <<m \ {x}, m>> \in R
        BY <1>3, <3>1
      <3>. QED
        BY <2>1, <3>1, <3>2
    <2>. QED
      BY <2>1, <2>2
  <1>. QED
    BY <1>4

(* A set of numbers with 0 and with the successor of each it has, has all. *)
LEMMA NumberInduction ==
    ASSUME NEW Good, 0 \in Good, \A n \in Nat : n \in Good => n + 1 \in Good
    PROVE  \A n \in Nat : n \in Good
  <1>. DEFINE Bad == {n \in Nat : n \notin Good}
              R == {ss \in Nat \X Nat : ss[1] < ss[2]}
  <1>1. IsWellFoundedOn(R, Nat)
    BY NatLessThanWellFounded DEF OpToRel
  <1>2. \A m, n \in Nat : <<n, m>> \in R <=> n < m
    OBVIOUS
  <1>. HIDE DEF R
  <1>3. ASSUME NEW n \in Nat, n \notin Good
        PROVE  FALSE
    <2>1. PICK m \in Bad : \A k \in Bad : ~(<<k, m>> \in R)
      <3>1. Bad # {} /\ Bad \subseteq Nat
        BY <1>3
      <3>. HIDE DEF Bad
      <3>. QED
        BY <1>1, <3>1, WFMin
    <2>2. m - 1 \in Nat /\ m - 1 < m
      BY <2>1
    <2>3. m - 1 \in Good
      BY <1>2, <2>1, <2>2
    <2>. QED
      BY <2>1, <2>2, <2>3
  <1>. QED
    BY <1>3

LEMMA DisjointUnion ==
    ASSUME NEW S, IsFiniteSet(S), NEW T, IsFiniteSet(T), S \cap T = {}
    PROVE  /\ IsFiniteSet(S \cup T)
           /\ Cardinality(S \cup T) = Cardinality(S) + Cardinality(T)
  <1>1. /\ IsFiniteSet(S \cup T)
        /\ Cardinality(S \cup T) = Cardinality(S) + Cardinality(T) - Cardinality(S \cap T)
    BY FS_Union
  <1>2. Cardinality(S) \in Nat /\ Cardinality(T) \in Nat /\ Cardinality(S \cap T) = 0
    BY FS_CardinalityType, FS_EmptySet
  <1>. QED
    BY <1>1, <1>2

(* Min of a set of numbers is one of them and above none.                  *)
LEMMA LeastIs ==
    ASSUME NEW S \in SUBSET Nat, S # {}
    PROVE  Min(S) \in S /\ \A y \in S : Min(S) <= y
  <1>. DEFINE Good == {n \in Nat : (\E x \in S : x <= n) => \E x \in S : \A y \in S : x <= y}
  <1>1. 0 \in Good
    OBVIOUS
  <1>2. ASSUME NEW n \in Nat, n \in Good
        PROVE  n + 1 \in Good
    <2>. SUFFICES ASSUME NEW z \in S, z <= n + 1
                  PROVE  \E x \in S : \A y \in S : x <= y
      OBVIOUS
    <2>1. CASE \E x \in S : x <= n
      BY <1>2, <2>1
    <2>2. CASE ~\E x \in S : x <= n
      <3>1. \A y \in S : z <= y
        BY <2>2
      <3>. QED
        BY <3>1
    <2>. QED
      BY <2>1, <2>2
  <1>. HIDE DEF Good
  <1>3. \A n \in Nat : n \in Good
    BY <1>1, <1>2, NumberInduction, Zenon
  <1>4. \E x \in S : \A y \in S : x <= y
    <2>1. PICK z : z \in S /\ z \in Nat
      OBVIOUS
    <2>2. z \in Good /\ z <= z
      BY <1>3, <2>1
    <2>. QED
      BY <2>1, <2>2 DEF Good
  <1>. QED
    BY <1>4 DEF Min

-----------------------------------------------------------------------------
(* As many pairs for each element of a set as the function counts for it.  *)
Units(f, S) == {u \in S \X Nat : u[2] \in 1..f[u[1]]}

LEMMA UnitsOfOne ==
    ASSUME NEW x, NEW n \in Nat
    PROVE  IsFiniteSet({x} \X (1..n)) /\ Cardinality({x} \X (1..n)) = n
  <1>1. IsFiniteSet({x}) /\ Cardinality({x}) = 1
    BY FS_Singleton
  <1>2. IsFiniteSet(1..n) /\ Cardinality(1..n) = n
    BY FS_Interval
  <1>3. Cardinality({x} \X (1..n)) = 1 * n /\ IsFiniteSet({x} \X (1..n))
    <2>. DEFINE One == {x}
                Upto == 1..n
    <2>. HIDE DEF One, Upto
    <2>1. IsFiniteSet(One \X Upto) /\ Cardinality(One \X Upto) = Cardinality(One) * Cardinality(Upto)
      BY <1>1, <1>2, FS_Product DEF One, Upto
    <2>. QED
      BY <1>1, <1>2, <2>1 DEF One, Upto
  <1>. QED
    BY <1>3

LEMMA UnitsOfMore ==
    ASSUME NEW f, NEW S, IsFiniteSet(Units(f, S)), NEW x, x \notin S, f[x] \in Nat
    PROVE  /\ IsFiniteSet(Units(f, S \cup {x}))
           /\ Cardinality(Units(f, S \cup {x})) = Cardinality(Units(f, S)) + f[x]
  <1>. DEFINE One == {x} \X (1..f[x])
  <1>1. Units(f, S \cup {x}) = Units(f, S) \cup One
    BY DEF Units
  <1>2. Units(f, S) \cap One = {}
    BY DEF Units
  <1>3. IsFiniteSet(One) /\ Cardinality(One) = f[x]
    BY UnitsOfOne
  <1>4. Cardinality(Units(f, S)) \in Nat
    BY FS_CardinalityType
  <1>. HIDE DEF One
  <1>5. /\ IsFiniteSet(Units(f, S) \cup One)
        /\ Cardinality(Units(f, S) \cup One)
              = Cardinality(Units(f, S)) + Cardinality(One) - Cardinality(Units(f, S) \cap One)
    BY <1>3, FS_Union, Zenon
  <1>6. Cardinality(Units(f, S) \cap One) = 0
    BY <1>2, FS_EmptySet
  <1>7. Cardinality(Units(f, S) \cup One) = Cardinality(Units(f, S)) + f[x] - 0
    BY <1>3, <1>5, <1>6, Zenon
  <1>8. \A a, b \in Nat : a + b - 0 = a + b
    OBVIOUS
  <1>. QED
    BY <1>1, <1>4, <1>5, <1>7, <1>8, Zenon

LEMMA UnitsAreFinite ==
    ASSUME NEW S, IsFiniteSet(S), NEW f, \A x \in S : f[x] \in Nat
    PROVE  \A s \in SUBSET S : IsFiniteSet(Units(f, s))
  <1>. DEFINE Good == {s \in SUBSET S : IsFiniteSet(Units(f, s))}
  <1>1. {} \in Good
    <2>1. Units(f, {}) = {}
      BY DEF Units
    <2>. QED
      BY <2>1, FS_EmptySet
  <1>2. ASSUME NEW s \in SUBSET S, s # {}, \A x \in s : s \ {x} \in Good
        PROVE  s \in Good
    <2>0. PICK x : x \in s
      BY <1>2
    <2>1. IsFiniteSet(Units(f, s \ {x})) /\ x \notin s \ {x} /\ f[x] \in Nat
      BY <1>2, <2>0
    <2>2. s = (s \ {x}) \cup {x}
      BY <2>0
    <2>. QED
      BY <2>1, <2>2, UnitsOfMore
  <1>. HIDE DEF Good
  <1>3. \A s \in SUBSET S : s \in Good
    BY <1>1, <1>2, SetInduction
  <1>. QED
    BY <1>3 DEF Good

-----------------------------------------------------------------------------
(* The function SumFunctionOnSet evaluates.                                *)
IsIter(f, S, g) ==
    g = [s \in SUBSET S |-> IF s = {} THEN 0
                            ELSE LET x == CHOOSE y \in s : TRUE IN f[x] + g[s \ {x}]]

LEMMA SumDef ==
    ASSUME NEW f, NEW S
    PROVE  SumFunctionOnSet(f, S) = (CHOOSE g : IsIter(f, S, g))[S]
  BY Zenon DEF SumFunctionOnSet, FoldFunctionOnSet, MapThenFoldSet, IsIter

LEMMA CountsAreIter ==
    ASSUME NEW S, IsFiniteSet(S), NEW f, \A x \in S : f[x] \in Nat
    PROVE  IsIter(f, S, [s \in SUBSET S |-> Cardinality(Units(f, s))])
  <1>. DEFINE G == [s \in SUBSET S |-> Cardinality(Units(f, s))]
  <1>1. ASSUME NEW s \in SUBSET S
        PROVE  G[s] = IF s = {} THEN 0
                      ELSE LET x == CHOOSE y \in s : TRUE IN f[x] + G[s \ {x}]
    <2>1. CASE s = {}
      <3>1. Units(f, {}) = {}
        BY DEF Units
      <3>. QED
        BY <2>1, <3>1, FS_EmptySet
    <2>2. CASE s # {}
      <3>. DEFINE x == CHOOSE y \in s : TRUE
      <3>1. x \in s
        BY <2>2
      <3>. HIDE DEF x
      <3>2. s \ {x} \in SUBSET S /\ s = (s \ {x}) \cup {x} /\ x \notin s \ {x} /\ f[x] \in Nat
        BY <3>1
      <3>3. IsFiniteSet(Units(f, s \ {x}))
        BY <3>2, UnitsAreFinite
      <3>4. Cardinality(Units(f, s)) = Cardinality(Units(f, s \ {x})) + f[x]
        BY <3>2, <3>3, UnitsOfMore
      <3>5. Cardinality(Units(f, s \ {x})) \in Nat
        BY <3>3, FS_CardinalityType
      <3>6. Cardinality(Units(f, s)) = f[x] + Cardinality(Units(f, s \ {x}))
        BY <3>2, <3>4, <3>5
      <3>. QED
        BY <2>2, <3>2, <3>6 DEF x
    <2>. QED
      BY <2>1, <2>2
  <1>. HIDE DEF G
  <1>2. G = [s \in SUBSET S |-> IF s = {} THEN 0
                                ELSE LET x == CHOOSE y \in s : TRUE IN f[x] + G[s \ {x}]]
    <2>1. G = [s \in SUBSET S |-> G[s]]
      BY DEF G
    <2>. QED
      BY <1>1, <2>1
  <1>. QED
    BY <1>2 DEF G, IsIter

LEMMA IterIsUnique ==
    ASSUME NEW S, IsFiniteSet(S), NEW f, NEW g, IsIter(f, S, g), NEW h, IsIter(f, S, h)
    PROVE  g[S] = h[S]
  <1>. DEFINE Good == {s \in SUBSET S : g[s] = h[s]}
  <1>1. ASSUME NEW s \in SUBSET S
        PROVE  /\ s = {} => g[s] = 0 /\ h[s] = 0
               /\ s # {} => LET x == CHOOSE y \in s : TRUE
                            IN  g[s] = f[x] + g[s \ {x}] /\ h[s] = f[x] + h[s \ {x}]
    BY Zenon DEF IsIter
  <1>2. {} \in Good
    BY <1>1
  <1>3. ASSUME NEW s \in SUBSET S, s # {}, \A x \in s : s \ {x} \in Good
        PROVE  s \in Good
    <2>. DEFINE x == CHOOSE y \in s : TRUE
    <2>1. g[s] = f[x] + g[s \ {x}] /\ h[s] = f[x] + h[s \ {x}]
      BY <1>1, <1>3
    <2>2. x \in s
      BY <1>3
    <2>. HIDE DEF x
    <2>. QED
      BY <1>3, <2>1, <2>2
  <1>. HIDE DEF Good
  <1>4. S \in Good
    BY <1>2, <1>3, SetInduction
  <1>. QED
    BY <1>4 DEF Good

(* The sum of a function over a finite set is the number of its units.     *)
LEMMA SumIsUnits ==
    ASSUME NEW S, IsFiniteSet(S), NEW f, \A x \in S : f[x] \in Nat
    PROVE  SumFunctionOnSet(f, S) = Cardinality(Units(f, S))
  <1>. DEFINE G == [s \in SUBSET S |-> Cardinality(Units(f, s))]
              I == CHOOSE g : IsIter(f, S, g)
  <1>1. IsIter(f, S, G)
    BY CountsAreIter
  <1>2. G[S] = Cardinality(Units(f, S))
    OBVIOUS
  <1>. HIDE DEF G
  <1>3. IsIter(f, S, I)
    BY <1>1, Zenon
  <1>. HIDE DEF I
  <1>4. I[S] = G[S]
    BY <1>1, <1>3, IterIsUnique
  <1>. QED
    BY <1>2, <1>4, SumDef DEF I

-----------------------------------------------------------------------------
(* What follows is all the users of a sum need.                            *)
LEMMA SumIsNat ==
    ASSUME NEW S, IsFiniteSet(S), NEW f, \A x \in S : f[x] \in Nat
    PROVE  SumFunctionOnSet(f, S) \in Nat
  BY SumIsUnits, UnitsAreFinite, FS_CardinalityType

LEMMA SumOfNothing ==
    ASSUME NEW f
    PROVE  SumFunctionOnSet(f, {}) = 0
  <1>1. Units(f, {}) = {}
    BY DEF Units
  <1>. QED
    BY <1>1, SumIsUnits, FS_EmptySet

LEMMA SumOfMore ==
    ASSUME NEW S, IsFiniteSet(S), NEW x, x \notin S, NEW f, \A y \in S \cup {x} : f[y] \in Nat
    PROVE  SumFunctionOnSet(f, S \cup {x}) = SumFunctionOnSet(f, S) + f[x]
  <1>1. IsFiniteSet(S \cup {x})
    BY FS_AddElement
  <1>2. IsFiniteSet(Units(f, S)) /\ f[x] \in Nat
    BY UnitsAreFinite
  <1>3. SumFunctionOnSet(f, S \cup {x}) = Cardinality(Units(f, S \cup {x}))
    BY <1>1, SumIsUnits
  <1>4. SumFunctionOnSet(f, S) = Cardinality(Units(f, S))
    BY SumIsUnits
  <1>. QED
    BY <1>2, <1>3, <1>4, UnitsOfMore

LEMMA SumOfSame ==
    ASSUME NEW S, IsFiniteSet(S), NEW f, NEW g, \A x \in S : f[x] \in Nat /\ g[x] = f[x]
    PROVE  SumFunctionOnSet(g, S) = SumFunctionOnSet(f, S)
  <1>1. Units(f, S) = Units(g, S)
    BY DEF Units
  <1>. QED
    BY <1>1, SumIsUnits
=============================================================================
