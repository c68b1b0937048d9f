------------------------------- MODULE BitSet -------------------------------
(***************************************************************************)
(* BitSet and RankedBitSet of cache/src/bitset.rs: a bitset over           *)
(* 0..(Capacity - 1) kept in machine words, and its frozen form with a     *)
(* rank index over blocks of words.  A word is the set of its bits that    *)
(* are set.                                                                *)
(***************************************************************************)
EXTENDS Integers, FiniteSets, Functions

CONSTANTS
    WordBits,       \* bits per word (64)
    BlockWords,     \* words per rank block (16)
    Capacity        \* ids are 0..(Capacity - 1)

ASSUME BitSetAssumption ==
    /\ WordBits \in Nat \ {0}
    /\ BlockWords \in Nat \ {0}
    /\ Capacity \in Nat

Ids == 0..(Capacity - 1)

Words == 0..((Capacity + WordBits - 1) \div WordBits - 1)

EmptyWords == [w \in Words |-> {}]

HasBit(words, id) == id < Capacity /\ id % WordBits \in words[id \div WordBits]

(* The words after BitSet::set or test_and_set: one atomic fetch_or.       *)
(* Faults: a plain store of the mask; a mask of the whole id.              *)
StoreMask(words, id) == [words EXCEPT ![id \div WordBits] = {id % WordBits}]

WideMask(words, id) == [words EXCEPT ![id \div WordBits] = @ \cup {id}]

FetchOr(words, id) == [words EXCEPT ![id \div WordBits] = @ \cup {id % WordBits}]

Members(words) == {id \in Ids : HasBit(words, id)}

-----------------------------------------------------------------------------
CountOnes(words, S) == SumFunctionOnSet([w \in Words |-> Cardinality(words[w])], S \cap Words)

(* RankedBitSet::build: set bits before each block, and the total last.    *)
BlockRank(words, block) == CountOnes(words, 0..(block * BlockWords - 1))

(* RankedBitSet::rank.  Fault: the mask keeps the id's own bit.            *)
RankInclusive(words, id) ==
    LET i    == IF id < Capacity THEN id ELSE Capacity
        word == i \div WordBits
    IN  BlockRank(words, word \div BlockWords)
            + CountOnes(words, ((word \div BlockWords) * BlockWords)..(word - 1))
            + (IF i % WordBits = 0 THEN 0
               ELSE Cardinality({b \in words[word] : b <= i % WordBits}))

Rank(words, id) ==
    LET i    == IF id < Capacity THEN id ELSE Capacity
        word == i \div WordBits
    IN  BlockRank(words, word \div BlockWords)
            + CountOnes(words, ((word \div BlockWords) * BlockWords)..(word - 1))
            + (IF i % WordBits = 0 THEN 0
               ELSE Cardinality({b \in words[word] : b < i % WordBits}))
=============================================================================
