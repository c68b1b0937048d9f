---------------------------- MODULE PmTilesCodec ----------------------------
(***************************************************************************)
(* The PMTiles codec of util/src/pmtiles.rs and util/src/varint.rs, shared *)
(* by the writer and the reader: tile ids along the Hilbert curve, entries *)
(* as columns of varints, and their split into a root directory and        *)
(* leaves.                                                                 *)
(*                                                                         *)
(* A byte is its value.  The sizes the code fixes are constants, so that a *)
(* small instance gets varints of several bytes and several leaves.        *)
(***************************************************************************)
EXTENDS Integers, SequencesExt

CONSTANTS
    VarintBits,     \* bits of a number a byte of a varint holds (7)
    RootMax,        \* ROOT_MAX, bytes of a root directory (16384)
    MinLeaf,        \* entries of the first leaf size tried, at least (4096)
    LeafShare,      \* leaves the first leaf size aims at (3500)
    None            \* Rust's None

DirEntries == [tile_id : Nat, offset : Nat, length : Nat, run_length : Nat]

(* An Option of Rust is never both None and Some.                          *)
ASSUME CodecAssumption ==
    /\ VarintBits \in Nat \ {0}
    /\ RootMax \in Nat
    /\ MinLeaf \in Nat \ {0}
    /\ LeafShare \in Nat \ {0}
    /\ None \notin DirEntries /\ None \notin Seq(DirEntries)

(* A DirEntry; run_length = 0 makes it a pointer to a leaf.                *)
Entry(id, offset, length, run) ==
    [tile_id |-> id, offset |-> offset, length |-> length, run_length |-> run]

IsLeaf(e) == e.run_length = 0

(* A finite set as a sequence, by a key that no two elements share.        *)
InOrder(S, key) ==
    [n \in 1..Cardinality(S) |->
        CHOOSE x \in S : Cardinality({y \in S : key[y] < key[x]}) = n - 1]

-----------------------------------------------------------------------------
(* hilbert: at bit s of <<x, y>> the quadrant along the curve is counted,  *)
(* and the axes turn with it.  Fault: they do not.                         *)
Quadrant(s, p) ==
    LET rx == (p[1] \div s) % 2
        ry == (p[2] \div s) % 2
    IN  IF rx = 0 THEN ry ELSE 3 - ry

NeverTurned(n, s, p) == p

Turned(n, s, p) ==
    LET flipped == IF (p[1] \div s) % 2 = 1 THEN <<n - 1 - p[1], n - 1 - p[2]>> ELSE p
    IN  IF (p[2] \div s) % 2 = 0 THEN <<flipped[2], flipped[1]>> ELSE p

(* What bit s adds to the index of the bits below it; with no bit left it  *)
(* is 0.                                                                   *)
AtBit(n, s, below) ==
    [p \in Int \X Int |-> s * s * Quadrant(s, p) + below[Turned(n, s, p)]]

Hilbert(t) ==
    LET n == 2^t.z
        Index[s \in Nat] ==
            IF s = 0 THEN [p \in Int \X Int |-> 0] ELSE AtBit(n, s, Index[s \div 2])
    IN  Index[n \div 2][<<t.x, t.y>>]

(* The tiles of the levels above come first.                               *)
TileId(t) == (2^(2 * t.z) - 1) \div 3 + Hilbert(t)

-----------------------------------------------------------------------------
(* write_uvarint: the low digits first, each but the last with its flag.   *)
VarintBase == 2^VarintBits

Uvarint[v \in Nat] ==
    IF v < VarintBase THEN <<v>>
    ELSE <<VarintBase + (v % VarintBase)>> \o Uvarint[v \div VarintBase]

(* read_uvarint: the number some bytes are the digits of.                  *)
Value(s) ==
    SumFunction([i \in DOMAIN s |-> (s[i] % VarintBase) * 2^(VarintBits * (i - 1))])

(* read_uvarint over and over: the numbers a buffer holds, without the one *)
(* it ends in the middle of.                                               *)
Ends(buf) == {i \in DOMAIN buf : buf[i] < VarintBase}

Numbers(buf) ==
    LET end == InOrder(Ends(buf), [i \in Ends(buf) |-> i])
        Start(j) == IF j = 1 THEN 1 ELSE end[j - 1] + 1
    IN  [j \in DOMAIN end |-> Value(SubSeq(buf, Start(j), end[j]))]

(* serialize_directory: count, id deltas, run lengths, lengths, and the    *)
(* offsets, 0 for one that follows the previous entry's data.              *)
Follows(entries, i) == i > 1 /\ entries[i].offset = entries[i - 1].offset + entries[i - 1].length

Serialize(entries) ==
    LET Column(f(_)) == FlattenSeq([i \in DOMAIN entries |-> Uvarint[f(i)]])
        Delta(i)  == entries[i].tile_id - (IF i = 1 THEN 0 ELSE entries[i - 1].tile_id)
        Run(i)    == entries[i].run_length
        Length(i) == entries[i].length
        Offset(i) == IF Follows(entries, i) THEN 0 ELSE entries[i].offset + 1
    IN  Uvarint[Len(entries)]
            \o Column(Delta) \o Column(Run) \o Column(Length) \o Column(Offset)

(* parse_directory: n entries out of the numbers v after the count; None   *)
(* for a buffer with too few numbers.                                      *)
Columns(n, v) ==
    LET id[i \in 0..n] == IF i = 0 THEN 0 ELSE id[i - 1] + v[1 + i]
        run(i)    == v[1 + n + i]
        length(i) == v[1 + 2 * n + i]
        offset[i \in 1..n] ==
            IF v[1 + 3 * n + i] = 0 THEN offset[i - 1] + length(i - 1) ELSE v[1 + 3 * n + i] - 1
    IN  [i \in 1..n |-> Entry(id[i], offset[i], length(i), run(i))]

Parsed(v) == IF v = <<>> \/ Len(v) < 1 + 4 * v[1] THEN None ELSE Columns(v[1], v)

ParseDirectory(buf) == Parsed(Numbers(buf))

(* find_entry: the last entry at or before the id, if the id is in its run *)
(* or it is a leaf.                                                        *)
FindEntry(entries, id) ==
    LET upTo == {i \in DOMAIN entries : entries[i].tile_id <= id}
        e    == entries[Max(upTo)]
    IN  IF upTo # {} /\ (IsLeaf(e) \/ id < e.tile_id + e.run_length) THEN e ELSE None

-----------------------------------------------------------------------------
(* build_directories: leaves of `size` entries, and a root that points at  *)
(* them.                                                                   *)
Chunks(entries, size) ==
    [c \in 1..((Len(entries) + size - 1) \div size) |->
        SubSeq(entries, (c - 1) * size + 1,
               IF c * size < Len(entries) THEN c * size ELSE Len(entries))]

Pack(chunks, leaves) ==
    LET Start(c) == Len(FlattenSeq(SubSeq(leaves, 1, c - 1))) IN
    [root   |-> Serialize([c \in DOMAIN chunks |->
                    Entry(chunks[c][1].tile_id, Start(c), Len(leaves[c]), 0)]),
     leaves |-> FlattenSeq(leaves),
     count  |-> Len(chunks)]

Split(entries, size) ==
    LET chunks == Chunks(entries, size) IN
    Pack(chunks, [c \in DOMAIN chunks |-> Serialize(chunks[c])])

(* The first leaf size tried, doubled until the root fits.                 *)
FirstLeafSize(entries) ==
    IF Len(entries) \div LeafShare > MinLeaf THEN Len(entries) \div LeafShare ELSE MinLeaf

Fits(split) == Len(split.root) <= RootMax \/ split.count <= 1

LeafSize(entries) ==
    FirstLeafSize(entries) * 2^Min({k \in 0..Len(entries) :
                                       Fits(Split(entries, FirstLeafSize(entries) * 2^k))})

Directories(entries) ==
    IF Len(Serialize(entries)) <= RootMax
    THEN [root |-> Serialize(entries), leaves |-> <<>>, count |-> 0]
    ELSE Split(entries, LeafSize(entries))
=============================================================================
