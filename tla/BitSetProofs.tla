---------------------------- MODULE BitSetProofs ----------------------------
(***************************************************************************)
(* What BitSet's operators compute, for every capacity, word size and      *)
(* block size: an atomic set adds one id, and the rank of an id is the     *)
(* number of members below it.                                             *)
(***************************************************************************)
EXTENDS BitSet, FiniteSums

Bits == 0..(WordBits - 1)

(* A division by the word size is unique: word and bit determine the id.   *)
LEMMA DivMod ==
    ASSUME NEW n \in Nat, NEW w \in Nat \ {0}
    PROVE  n = w * (n \div w) + (n % w) /\ n \div w \in Nat /\ n % w \in 0..(w - 1)
  BY SMT

(* An id below the capacity lies in one of the allocated words: the        *)
(* rounding up in BitSet::with_capacity leaves none out.                   *)
LEMMA WordOfId ==
    ASSUME NEW id \in Ids
    PROVE  id \div WordBits \in Words /\ id % WordBits \in Bits
  <1>1. id \in Nat /\ Capacity \in Nat /\ id < Capacity /\ WordBits \in Nat \ {0}
    BY BitSetAssumption DEF Ids
  <1>2. id \div WordBits <= (Capacity + WordBits - 1) \div WordBits - 1
    BY <1>1, SMT
  <1>3. id \div WordBits \in Nat /\ (Capacity + WordBits - 1) \div WordBits \in Int
    BY <1>1, SMT
  <1>. QED
    BY <1>1, <1>2, <1>3, DivMod DEF Words, Bits

(* Two ids with the same word and bit are one.                             *)
LEMMA WordAndBit ==
    ASSUME NEW m \in Ids, NEW n \in Ids,
           m \div WordBits = n \div WordBits, m % WordBits = n % WordBits
    PROVE  m = n
  <1>1. m \in Nat /\ n \in Nat /\ WordBits \in Nat \ {0}
    BY BitSetAssumption DEF Ids
  <1>. QED
    BY <1>1, DivMod

(* fetch_or of one bit keeps the words well formed.                        *)
LEMMA FetchOrType ==
    ASSUME NEW words \in [Words -> SUBSET Bits], NEW id \in Ids
    PROVE  FetchOr(words, id) \in [Words -> SUBSET Bits]
  BY WordOfId DEF FetchOr

(* fetch_or of one bit adds exactly that id to the set.                    *)
LEMMA FetchOrAdds ==
    ASSUME NEW words \in [Words -> SUBSET Bits], NEW id \in Ids, NEW n \in Ids
    PROVE  HasBit(FetchOr(words, id), n) <=> HasBit(words, n) \/ n = id
  <1>1. n < Capacity
    BY BitSetAssumption DEF Ids
  <1>2. id \div WordBits \in Words /\ n \div WordBits \in Words
    BY WordOfId
  <1>3. CASE n \div WordBits = id \div WordBits
    <2>1. FetchOr(words, id)[n \div WordBits] = words[n \div WordBits] \cup {id % WordBits}
      BY <1>2, <1>3 DEF FetchOr
    <2>2. n % WordBits = id % WordBits <=> n = id
      BY <1>3, WordAndBit
    <2>. QED
      BY <1>1, <2>1, <2>2 DEF HasBit
  <1>4. CASE n \div WordBits # id \div WordBits
    <2>1. FetchOr(words, id)[n \div WordBits] = words[n \div WordBits]
      BY <1>2, <1>4 DEF FetchOr
    <2>. QED
      BY <1>1, <1>4, <2>1 DEF HasBit
  <1>. QED
    BY <1>3, <1>4

-----------------------------------------------------------------------------
(* Words are laid out one after the other.                                 *)
LEMMA Products ==
    ASSUME NEW a \in Nat, NEW b \in Nat, NEW w \in Nat, a < b
    PROVE  w * a \in Nat /\ w * b \in Nat /\ w * a + w <= w * b
  <1>1. PICK c \in Nat : b = a + 1 + c
    <2>1. b - a - 1 \in Nat /\ b = a + 1 + (b - a - 1)
      OBVIOUS
    <2>. QED
      BY <2>1
  <1>2. w * b = w * a + w + w * c
    BY <1>1
  <1>3. w * c \in Nat /\ w * a \in Nat
    OBVIOUS
  <1>. QED
    BY <1>2, <1>3

LEMMA Divided ==
    ASSUME NEW w \in Nat \ {0}, NEW q \in Nat, NEW r \in 0..(w - 1)
    PROVE  /\ w * q + r \in Nat
           /\ (w * q + r) \div w = q
           /\ (w * q + r) % w = r
  <1>. DEFINE n == w * q + r
              p == n \div w
              s == n % w
  <1>1. w * q \in Nat /\ n \in Nat
    OBVIOUS
  <1>. HIDE DEF n
  <1>2. n = w * p + s /\ p \in Nat /\ s \in 0..(w - 1)
    BY <1>1, DivMod
  <1>. HIDE DEF p, s
  <1>3. w * p \in Nat
    BY <1>2
  <1>4. CASE p < q
    <2>1. w * p + w <= w * q
      BY <1>2, <1>4, Products
    <2>. QED
      BY <1>1, <1>2, <1>3, <2>1 DEF n
  <1>5. CASE q < p
    <2>1. w * q + w <= w * p
      BY <1>2, <1>5, Products
    <2>. QED
      BY <1>1, <1>2, <1>3, <2>1 DEF n
  <1>6. CASE p = q
    <2>1. s = r
      BY <1>1, <1>2, <1>3, <1>6 DEF n
    <2>. QED
      BY <1>1, <1>6, <2>1 DEF n, p, s
  <1>. QED
    BY <1>2, <1>4, <1>5, <1>6

(* An id comes before another by its word, then by its bit.                *)
LEMMA WordThenBit ==
    ASSUME NEW m \in Nat, NEW n \in Nat, NEW w \in Nat \ {0}
    PROVE  m < n <=> \/ m \div w < n \div w
                     \/ m \div w = n \div w /\ m % w < n % w
  <1>1. /\ m = w * (m \div w) + (m % w) /\ m \div w \in Nat /\ m % w \in 0..(w - 1)
        /\ n = w * (n \div w) + (n % w) /\ n \div w \in Nat /\ n % w \in 0..(w - 1)
    BY DivMod
  <1>2. \A a, b, c, d \in Nat : a < b /\ c \in 0..(w - 1) /\ d \in 0..(w - 1) => w * a + c < w * b + d
    <2>. SUFFICES ASSUME NEW a \in Nat, NEW b \in Nat, NEW c \in 0..(w - 1), NEW d \in 0..(w - 1), a < b
                  PROVE  w * a + c < w * b + d
      OBVIOUS
    <2>1. w * a \in Nat /\ w * b \in Nat /\ w * a + w <= w * b
      BY Products
    <2>. QED
      BY <2>1
  <1>3. \A a, c, d \in Nat : w * a + c < w * a + d <=> c < d
    <2>. SUFFICES ASSUME NEW a \in Nat, NEW c \in Nat, NEW d \in Nat
                  PROVE  w * a + c < w * a + d <=> c < d
      OBVIOUS
    <2>1. w * a \in Nat
      OBVIOUS
    <2>. QED
      BY <2>1
  <1>. QED
    BY <1>1, <1>2, <1>3

-----------------------------------------------------------------------------
(* The ids of the bits T of one word, and the set bits of some words.      *)
OfWord(w, T) == {WordBits * w + b : b \in T}
InWords(words, S) == {m \in Nat : m \div WordBits \in S /\ m % WordBits \in words[m \div WordBits]}

LEMMA OfWordIs ==
    ASSUME NEW w \in Nat, NEW T \in SUBSET Bits
    PROVE  OfWord(w, T) = {m \in Nat : m \div WordBits = w /\ m % WordBits \in T}
  <1>1. WordBits \in Nat \ {0}
    BY BitSetAssumption
  <1>2. ASSUME NEW b \in T
        PROVE  /\ WordBits * w + b \in Nat
               /\ (WordBits * w + b) \div WordBits = w
               /\ (WordBits * w + b) % WordBits = b
    BY <1>1, Divided DEF Bits
  <1>3. ASSUME NEW m \in Nat
        PROVE  m = WordBits * (m \div WordBits) + (m % WordBits)
    BY <1>1, DivMod
  <1>. QED
    BY <1>2, <1>3 DEF OfWord

LEMMA OfWordCounts ==
    ASSUME NEW w \in Nat, NEW T \in SUBSET Bits
    PROVE  IsFiniteSet(T) /\ IsFiniteSet(OfWord(w, T)) /\ Cardinality(OfWord(w, T)) = Cardinality(T)
  <1>1. WordBits \in Nat \ {0}
    BY BitSetAssumption
  <1>2. IsFiniteSet(T)
    <2>1. IsFiniteSet(Bits)
      BY <1>1, FS_Interval DEF Bits
    <2>. QED
      BY <2>1, FS_Subset
  <1>. DEFINE f == [b \in T |-> WordBits * w + b]
  <1>3. f \in Bijection(T, OfWord(w, T))
    <2>1. \A b \in T : f[b] % WordBits = b
      BY <1>1, Divided DEF Bits
    <2>2. f \in [T -> OfWord(w, T)] /\ \A m \in OfWord(w, T) : \E b \in T : f[b] = m
      BY DEF OfWord
    <2>. HIDE DEF f
    <2>3. IsInjective(f)
      BY <2>1, <2>2 DEF IsInjective
    <2>. QED
      BY <2>2, <2>3 DEF Bijection, Injection, Surjection
  <1>. HIDE DEF f
  <1>. QED
    BY <1>2, <1>3, FS_Bijection DEF ExistsBijection
LEMMA WordsType ==
    IsFiniteSet(Words) /\ Words \subseteq Nat /\ WordBits \in Nat \ {0}
  <1>1. WordBits \in Nat \ {0} /\ Capacity \in Nat /\ Capacity + WordBits - 1 \in Nat
    BY BitSetAssumption
  <1>2. (Capacity + WordBits - 1) \div WordBits \in Nat
    BY <1>1, DivMod
  <1>. QED
    BY <1>1, <1>2, FS_Interval DEF Words

(* CountOnes counts the set bits of its words.                             *)
LEMMA OnesAreMembers ==
    ASSUME NEW words \in [Words -> SUBSET Bits]
    PROVE  \A S \in SUBSET Words :
               /\ IsFiniteSet(InWords(words, S))
               /\ CountOnes(words, S) = Cardinality(InWords(words, S))
  <1>. DEFINE f == [w \in Words |-> Cardinality(words[w])]
              Good == {S \in SUBSET Words : /\ IsFiniteSet(InWords(words, S))
                                            /\ SumFunctionOnSet(f, S) = Cardinality(InWords(words, S))}
  <1>1. \A w \in Words : f[w] = Cardinality(words[w]) /\ f[w] \in Nat
    BY OfWordCounts, WordsType, FS_CardinalityType
  <1>. HIDE DEF f
  <1>2. {} \in Good
    <2>1. InWords(words, {}) = {}
      BY DEF InWords
    <2>. QED
      BY <2>1, FS_EmptySet, SumOfNothing
  <1>3. ASSUME NEW S \in SUBSET Words, S # {}, \A x \in S : S \ {x} \in Good
        PROVE  S \in Good
    <2>0. PICK w : w \in S
      BY <1>3
    <2>. DEFINE R == S \ {w}
                one == OfWord(w, words[w])
    <2>1. /\ w \in Words /\ w \in Nat /\ S = R \cup {w} /\ w \notin R /\ R \in SUBSET Words
          /\ words[w] \in SUBSET Bits
      BY <2>0, WordsType
    <2>2. /\ IsFiniteSet(InWords(words, R))
          /\ SumFunctionOnSet(f, R) = Cardinality(InWords(words, R))
      BY <1>3, <2>0
    <2>3. one = {m \in Nat : m \div WordBits = w /\ m % WordBits \in words[w]}
      BY <2>1, OfWordIs
    <2>4. IsFiniteSet(one) /\ Cardinality(one) = f[w]
      BY <1>1, <2>1, OfWordCounts
    <2>. HIDE DEF R, one
    <2>5. InWords(words, S) = InWords(words, R) \cup one /\ InWords(words, R) \cap one = {}
      BY <2>1, <2>3 DEF InWords
    <2>6. /\ IsFiniteSet(InWords(words, S))
          /\ Cardinality(InWords(words, S)) = Cardinality(InWords(words, R)) + f[w]
      BY <2>2, <2>4, <2>5, DisjointUnion
    <2>7. SumFunctionOnSet(f, S) = SumFunctionOnSet(f, R) + f[w]
      <3>1. IsFiniteSet(R)
        BY <2>1, WordsType, FS_Subset
      <3>. QED
        BY <1>1, <2>1, <3>1, SumOfMore
    <2>. QED
      BY <2>2, <2>6, <2>7
  <1>4. \A S \in SUBSET Words : S \in Good
    <2>. HIDE DEF Good
    <2>. QED
      BY <1>2, <1>3, WordsType, SetInduction
  <1>5. \A S \in SUBSET Words : CountOnes(words, S) = SumFunctionOnSet(f, S)
    <2>1. \A S \in SUBSET Words : S \cap Words = S
      OBVIOUS
    <2>. QED
      BY <2>1 DEF CountOnes, f
  <1>. QED
    BY <1>4, <1>5
(* A word with an id below the capacity is allocated.                      *)
LEMMA WordBelow ==
    ASSUME NEW w \in Nat, WordBits * w < Capacity
    PROVE  w \in Words
  <1>1. WordBits \in Nat \ {0} /\ Capacity \in Nat
    BY BitSetAssumption
  <1>2. 0 \in 0..(WordBits - 1) /\ WordBits * w \in Nat /\ WordBits * w + 0 = WordBits * w
    BY <1>1
  <1>3. (WordBits * w) \div WordBits = w
    <2>1. \A q \in Nat, r \in 0..(WordBits - 1) : (WordBits * q + r) \div WordBits = q
      BY <1>1, Divided
    <2>2. (WordBits * w + 0) \div WordBits = w
      BY <1>2, <2>1, Zenon
    <2>. QED
      BY <1>2, <2>2, Zenon
  <1>4. WordBits * w \in Ids
    BY <1>1, <1>2 DEF Ids
  <1>. QED
    BY <1>3, <1>4, WordOfId

(* RankedBitSet::rank: the members below an id, counted by whole blocks,   *)
(* then by whole words, then within the id's word; also for ids beyond the *)
(* capacity.                                                               *)
THEOREM RankCounts ==
    ASSUME NEW words \in [Words -> SUBSET Bits], NEW id \in Nat
    PROVE  /\ IsFiniteSet({m \in Members(words) : m < id})
           /\ Rank(words, id) = Cardinality({m \in Members(words) : m < id})
  <1>. DEFINE i     == IF id < Capacity THEN id ELSE Capacity
              word  == i \div WordBits
              block == word \div BlockWords
              first == 0..(block * BlockWords - 1)
              rest  == (block * BlockWords)..(word - 1)
              bits  == IF i % WordBits = 0 THEN {} ELSE {b \in words[word] : b < i % WordBits}
              last  == OfWord(word, bits)
              below == {m \in Members(words) : m < id}
  <1>1. WordBits \in Nat \ {0} /\ Capacity \in Nat /\ BlockWords \in Nat \ {0}
    BY BitSetAssumption
  <1>2. i \in Nat /\ i <= Capacity /\ \A m \in 0..(Capacity - 1) : m < id <=> m < i
    BY <1>1
  <1>3. Rank(words, id) = CountOnes(words, first) + CountOnes(words, rest)
                            + (IF i % WordBits = 0 THEN 0 ELSE Cardinality(bits))
    BY Zenon DEF Rank, BlockRank
  <1>. HIDE DEF i
  <1>4. word \in Nat /\ i % WordBits \in Bits /\ i = WordBits * word + (i % WordBits)
    BY <1>1, <1>2, DivMod DEF Bits
  <1>5. ASSUME NEW m \in Nat
        PROVE  /\ m < i <=> \/ m \div WordBits < word
                            \/ m \div WordBits = word /\ m % WordBits < i % WordBits
               /\ m \div WordBits \in Nat /\ m % WordBits \in Bits
    BY <1>1, <1>2, WordThenBit, DivMod DEF Bits
  <1>. HIDE DEF word
  <1>6. block * BlockWords \in Nat /\ block * BlockWords <= word
    <2>1. word = BlockWords * block + (word % BlockWords) /\ block \in Nat
          /\ word % BlockWords \in Nat
      <3>1. \A n \in Nat : n = BlockWords * (n \div BlockWords) + (n % BlockWords)
                /\ n \div BlockWords \in Nat /\ n % BlockWords \in Nat
        BY <1>1, DivMod
      <3>. QED
        BY <1>4, <3>1, Zenon
    <2>. HIDE DEF block
    <2>2. block * BlockWords = BlockWords * block /\ BlockWords * block \in Nat
      BY <1>1, <2>1
    <2>. QED
      BY <1>1, <1>4, <2>1, <2>2
  <1>7. \A w \in Nat : w < word => w \in Words
    <2>. SUFFICES ASSUME NEW w \in Nat, w < word
                  PROVE  w \in Words
      OBVIOUS
    <2>1. WordBits * w \in Nat /\ WordBits * word \in Nat /\ WordBits * w + WordBits <= WordBits * word
      BY <1>1, <1>4, Products
    <2>2. i % WordBits \in Nat
      BY <1>1, <1>4 DEF Bits
    <2>. HIDE DEF word
    <2>3. WordBits * w < Capacity
      BY <1>1, <1>2, <1>4, <2>1, <2>2
    <2>. QED
      BY <2>3, WordBelow
  <1>8. i % WordBits # 0 => word \in Words
    <2>1. WordBits * word \in Nat /\ i % WordBits \in Nat
      BY <1>1, <1>4 DEF Bits
    <2>2. i % WordBits # 0 => WordBits * word < Capacity
      BY <1>1, <1>2, <1>4, <2>1
    <2>. QED
      BY <1>4, <2>2, WordBelow
  <1>9. first \in SUBSET Words /\ rest \in SUBSET Words /\ first \cap rest = {}
        /\ \A w \in Nat : w \in first \/ w \in rest <=> w < word
    <2>. HIDE DEF block
    <2>. QED
      BY <1>4, <1>6, <1>7
  <1>10. bits \in SUBSET Bits /\ IsFiniteSet(bits) /\ IsFiniteSet(last)
         /\ Cardinality(last) = Cardinality(bits)
         /\ (IF i % WordBits = 0 THEN 0 ELSE Cardinality(bits)) = Cardinality(last)
    <2>1. bits \in SUBSET Bits
      BY <1>8
    <2>2. i % WordBits = 0 => Cardinality(bits) = 0
      BY FS_EmptySet
    <2>. HIDE DEF bits
    <2>3. IsFiniteSet(bits) /\ IsFiniteSet(last) /\ Cardinality(last) = Cardinality(bits)
      BY <1>4, <2>1, OfWordCounts
    <2>. QED
      BY <2>1, <2>2, <2>3
  <1>11. \A m : m \in last <=> m \in Nat /\ m \div WordBits = word /\ m % WordBits \in bits
    <2>. HIDE DEF bits
    <2>. QED
      BY <1>4, <1>10, OfWordIs
  <1>12. \A m \in Nat : m \div WordBits = word /\ m % WordBits \in bits
             <=> /\ m \div WordBits = word /\ m % WordBits < i % WordBits
                 /\ m % WordBits \in words[m \div WordBits]
    <2>. SUFFICES ASSUME NEW m \in Nat, m \div WordBits = word
                  PROVE  m % WordBits \in bits
                            <=> m % WordBits < i % WordBits /\ m % WordBits \in words[m \div WordBits]
      OBVIOUS
    <2>1. m % WordBits \in Nat
      BY <1>1, <1>5 DEF Bits
    <2>. QED
      BY <2>1
  <1>. HIDE DEF first, rest, last, bits
  <1>13. below = (InWords(words, first) \cup InWords(words, rest)) \cup last
    <2>. SUFFICES ASSUME NEW m
                  PROVE  m \in below <=> \/ m \in InWords(words, first) \/ m \in InWords(words, rest)
                                         \/ m \in last
      OBVIOUS
    <2>1. m \in below <=> m \in Nat /\ m < i /\ m % WordBits \in words[m \div WordBits]
      <3>1. m \in below <=> m \in 0..(Capacity - 1) /\ m < Capacity /\ m < id
                               /\ m % WordBits \in words[m \div WordBits]
        BY DEF Members, HasBit, Ids
      <3>2. m \in 0..(Capacity - 1) /\ m < Capacity /\ m < id <=> m \in Nat /\ m < i
        BY <1>1, <1>2
      <3>. HIDE DEF below
      <3>. QED
        BY <3>1, <3>2
    <2>2. m \in InWords(words, first) \/ m \in InWords(words, rest)
            <=> m \in Nat /\ m \div WordBits < word /\ m % WordBits \in words[m \div WordBits]
      BY <1>5, <1>9 DEF InWords
    <2>. HIDE DEF below
    <2>. QED
      BY <1>5, <1>11, <1>12, <2>1, <2>2
  <1>14. InWords(words, first) \cap InWords(words, rest) = {}
         /\ (InWords(words, first) \cup InWords(words, rest)) \cap last = {}
    <2>1. \A m : ~(m \in InWords(words, first) /\ m \in InWords(words, rest))
      BY <1>9 DEF InWords
    <2>2. \A m : ~((m \in InWords(words, first) \/ m \in InWords(words, rest)) /\ m \in last)
      BY <1>4, <1>5, <1>9, <1>11 DEF InWords
    <2>. QED
      BY <2>1, <2>2
  <1>15. /\ IsFiniteSet(InWords(words, first)) /\ IsFiniteSet(InWords(words, rest))
         /\ CountOnes(words, first) = Cardinality(InWords(words, first))
         /\ CountOnes(words, rest) = Cardinality(InWords(words, rest))
    BY <1>9, OnesAreMembers
  <1>16. /\ IsFiniteSet(below)
         /\ Cardinality(below) = Cardinality(InWords(words, first)) + Cardinality(InWords(words, rest))
                                    + Cardinality(last)
    <2>. HIDE DEF below
    <2>1. /\ IsFiniteSet(InWords(words, first) \cup InWords(words, rest))
          /\ Cardinality(InWords(words, first) \cup InWords(words, rest))
                = Cardinality(InWords(words, first)) + Cardinality(InWords(words, rest))
      BY <1>14, <1>15, DisjointUnion
    <2>2. /\ IsFiniteSet((InWords(words, first) \cup InWords(words, rest)) \cup last)
          /\ Cardinality((InWords(words, first) \cup InWords(words, rest)) \cup last)
                = Cardinality(InWords(words, first) \cup InWords(words, rest)) + Cardinality(last)
      BY <1>10, <1>14, <2>1, DisjointUnion
    <2>. QED
      BY <1>13, <2>1, <2>2
  <1>. QED
    BY <1>3, <1>10, <1>15, <1>16
=============================================================================
