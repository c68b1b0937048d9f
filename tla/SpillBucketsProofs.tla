------------------------- MODULE SpillBucketsProofs -------------------------
(***************************************************************************)
(* Theorems of SpillBuckets, for every number of workers, buckets and      *)
(* runs, every extract, routing and buffer size, with their proofs: no     *)
(* record is lost or doubled while no append fails, and a run announces    *)
(* the archive ArchiveBuild asks for or none.                              *)
(***************************************************************************)
EXTENDS SpillBuckets, FiniteSetTheorems, TLAPS

(* The records of the extract that belong to a bucket, and those of them   *)
(* that have reached it.                                                   *)
Of(b) == {r \in extract : BucketOf(r) = b}
Home(b) == {r \in Of(b) : r \notin pending /\ r \notin Range(hand)}

(* The cells of the records of a sequence, one after the other.            *)
CellsOf(q) ==
    [i \in 1..(2 * Len(q)) |->
        IF i % 2 = 1 THEN <<q[(i + 1) \div 2], "size">> ELSE <<q[i \div 2], "payload">>]

Distinct(q) == \A i, j \in DOMAIN q : q[i] = q[j] => i = j

(* Cells of the records of S, each whole and once, in some order.          *)
HoldsOnce(cells, S) ==
    \E q \in Seq(Records) : Distinct(q) /\ Range(q) = S /\ cells = CellsOf(q)

-----------------------------------------------------------------------------
(* The inductive invariant of stage 1.  Its types: those of TypeOK, but    *)
(* for what stage 2 has read and written.                                  *)
Stage1Types ==
    /\ runs \in 1..MaxRuns
    /\ extract \in Extracts
    /\ phase \in {"extract", "flush", "read", "wrote", "dead"}
    /\ disk \in [Buckets -> Seq(Cell) \cup {None}]
    /\ pending \subseteq extract
    /\ hand \in [Workers -> Records \cup {None}]
    /\ pc \in [Workers -> {"idle", "lock", "open", "write"}]
    /\ holder \in [Buckets -> Workers \cup {None}]
    /\ buffer \in [Buckets -> Seq(Cell) \cup {None}]
    /\ error \in BOOLEAN
    /\ cursor \in 0..BucketCount
    /\ skipped \subseteq Buckets

(* A worker that appends has a record of the extract, taken and its own.   *)
HandsAreDistinct ==
    /\ \A w \in Workers : pc[w] = "idle" <=> hand[w] = None
    /\ \A w \in Workers : hand[w] # None => hand[w] \in extract \ pending
    /\ \A v, w \in Workers : hand[v] = hand[w] /\ hand[v] # None => v = w

(* A worker that opens or writes a bucket holds its mutex, and a bucket    *)
(* with a buffer has a file.                                               *)
MutexDiscipline ==
    /\ \A w \in Workers : pc[w] \in {"open", "write"} => holder[BucketOf(hand[w])] = w
    /\ \A w \in Workers : pc[w] = "open" => buffer[BucketOf(hand[w])] = None
    /\ \A w \in Workers : pc[w] = "write" => buffer[BucketOf(hand[w])] # None
    /\ \A b \in Buckets : buffer[b] # None => disk[b] # None /\ Len(buffer[b]) <= BufferSize

(* What finish waits for, and how far its loop is.                         *)
JoinedAndFlushed ==
    /\ phase = "extract" => cursor = 0
    /\ phase \in {"flush", "read"} =>
        pending = {} /\ ~error /\ \A w \in Workers : pc[w] = "idle"
    /\ \A b \in Buckets :
        phase = "read" \/ (phase = "flush" /\ b < cursor) => buffer[b] \in {None, <<>>}

(* Until an append fails, a bucket's file and buffer hold what reached it. *)
BucketsHoldOnce ==
    phase \in {"extract", "flush", "read"} /\ ~error =>
        \A b \in Buckets : HoldsOnce(Spilled(b), Home(b))

SInv ==
    /\ Stage1Types
    /\ HandsAreDistinct
    /\ MutexDiscipline
    /\ JoinedAndFlushed
    /\ BucketsHoldOnce

-----------------------------------------------------------------------------
(* What stage 2 adds, in a directory used for one extract.  A file is of   *)
(* a bucket the extract has records for.                                   *)
FilesAreOfTheExtract == \A b \in Buckets : disk[b] # None => Of(b) # {}

(* What a worker has read of a bucket, and what the archive has of a tile. *)
OnceEach(S) == [r \in S |-> 1]
Payloads == UNION {[S -> Nat \ {0}] : S \in SUBSET Records}

Stage2Types ==
    /\ loaded \in [Workers -> {OnceEach(S) : S \in SUBSET Records} \cup {None}]
    /\ archive \in [TileKeys -> Seq(Payloads)]

TInv == SInv /\ FilesAreOfTheExtract /\ Stage2Types

(* A worker has read a whole bucket, and no other has the same.            *)
Has(w, b) == loaded[w] = OnceEach(Of(b))

LoadedAreBuckets ==
    phase = "read" =>
        /\ \A w \in Workers : loaded[w] # None =>
              \E b \in Buckets : b < cursor /\ Of(b) # {} /\ Has(w, b)
        /\ \A v, w \in Workers : loaded[v] = loaded[w] /\ loaded[v] # None => v = w

(* The tiles of the buckets that are through are written, the others not.  *)
Through(b) == b < cursor /\ \A w \in Workers : ~Has(w, b)

WrittenIsThrough ==
    /\ phase \in {"extract", "flush"} =>
        archive = [t \in TileKeys |-> <<>>] /\ \A w \in Workers : loaded[w] = None
    /\ phase = "read" =>
        archive = [t \in TileKeys |->
                      IF Through(Route[t]) THEN Build!ArchiveOf(extract)[t] ELSE <<>>]

RInv == TInv /\ LoadedAreBuckets /\ WrittenIsThrough

-----------------------------------------------------------------------------
(* Cells of a sequence of records.                                         *)
LEMMA Halves ==
    ASSUME NEW n \in Nat, NEW i \in 1..(2 * n)
    PROVE  \E k \in 1..n : \/ i = 2 * k - 1 /\ i % 2 = 1 /\ (i + 1) \div 2 = k
                           \/ i = 2 * k /\ i % 2 = 0 /\ i \div 2 = k
  <1>1. CASE i % 2 = 1
    <2>1. (i + 1) \div 2 \in 1..n /\ i = 2 * ((i + 1) \div 2) - 1
      BY <1>1
    <2>. QED
      BY <1>1, <2>1
  <1>2. CASE i % 2 = 0
    <2>1. i \div 2 \in 1..n /\ i = 2 * (i \div 2)
      BY <1>2
    <2>. QED
      BY <1>2, <2>1
  <1>. QED
    BY <1>1, <1>2

LEMMA CellsOfType ==
    ASSUME NEW q \in Seq(Records)
    PROVE  /\ CellsOf(q) \in Seq(Cell)
           /\ Len(CellsOf(q)) = 2 * Len(q)
           /\ DOMAIN CellsOf(q) = 1..(2 * Len(q))
           /\ \A k \in 1..Len(q) : /\ CellsOf(q)[2 * k - 1] = <<q[k], "size">>
                                   /\ CellsOf(q)[2 * k] = <<q[k], "payload">>
  <1>1. \A i \in 1..(2 * Len(q)) : CellsOf(q)[i] \in Cell
    <2>. TAKE i \in 1..(2 * Len(q))
    <2>1. PICK k \in 1..Len(q) : \/ i = 2 * k - 1 /\ i % 2 = 1 /\ (i + 1) \div 2 = k
                                 \/ i = 2 * k /\ i % 2 = 0 /\ i \div 2 = k
      BY Halves
    <2>2. q[k] \in Records
      OBVIOUS
    <2>. QED
      BY <2>1, <2>2 DEF CellsOf, Cell
  <1>2. CellsOf(q) \in Seq(Cell) /\ Len(CellsOf(q)) = 2 * Len(q)
    BY <1>1 DEF CellsOf
  <1>3. ASSUME NEW k \in 1..Len(q)
        PROVE  /\ CellsOf(q)[2 * k - 1] = <<q[k], "size">>
               /\ CellsOf(q)[2 * k] = <<q[k], "payload">>
    <2>1. /\ 2 * k - 1 \in 1..(2 * Len(q)) /\ 2 * k \in 1..(2 * Len(q))
          /\ (2 * k - 1) % 2 = 1 /\ (2 * k - 1 + 1) \div 2 = k
          /\ (2 * k) % 2 = 0 /\ (2 * k) \div 2 = k
      OBVIOUS
    <2>. QED
      BY <2>1 DEF CellsOf
  <1>. QED
    BY <1>2, <1>3 DEF CellsOf

LEMMA ConcatenatedAt ==
    ASSUME NEW S, NEW s \in Seq(S), NEW u \in Seq(S)
    PROVE  /\ s \o u \in Seq(S)
           /\ Len(s \o u) = Len(s) + Len(u)
           /\ \A i \in 1..(Len(s) + Len(u)) :
                 (s \o u)[i] = IF i <= Len(s) THEN s[i] ELSE u[i - Len(s)]
  OBVIOUS

(* A record appended whole adds itself to the sequence.                    *)
LEMMA CellsOfAppend ==
    ASSUME NEW q \in Seq(Records), NEW r \in Records
    PROVE  CellsOf(Append(q, r)) = CellsOf(q) \o Cells(r)
  <1>. DEFINE p == Append(q, r)
              n == Len(q)
  <1>1. /\ n \in Nat /\ p \in Seq(Records) /\ Len(p) = n + 1
        /\ \A k \in 1..n : p[k] = q[k]
        /\ p[n + 1] = r
    OBVIOUS
  <1>2. Cells(r) \in Seq(Cell) /\ Len(Cells(r)) = 2
    BY DEF Cells, Cell
  <1>3. CellsOf(q) \in Seq(Cell) /\ Len(CellsOf(q)) = 2 * n
    BY CellsOfType
  <1>4. CellsOf(p) \in Seq(Cell) /\ Len(CellsOf(p)) = 2 * (n + 1)
    <2>. HIDE DEF p, n
    <2>. QED
      BY <1>1, CellsOfType
  <1>5. CellsOf(q) \o Cells(r) \in Seq(Cell) /\ Len(CellsOf(q) \o Cells(r)) = 2 * (n + 1)
    <2>. HIDE DEF n
    <2>1. /\ CellsOf(q) \o Cells(r) \in Seq(Cell)
          /\ Len(CellsOf(q) \o Cells(r)) = Len(CellsOf(q)) + Len(Cells(r))
      BY <1>2, <1>3, ConcatenatedAt, Zenon
    <2>. QED
      BY <1>1, <1>2, <1>3, <2>1
  <1>6. ASSUME NEW i \in 1..(2 * (n + 1)) PROVE CellsOf(p)[i] = (CellsOf(q) \o Cells(r))[i]
    <2>. HIDE DEF p, n
    <2>0. n + 1 \in Nat
      BY <1>1
    <2>1. PICK k \in 1..(n + 1) : i = 2 * k - 1 \/ i = 2 * k
      BY <2>0, Halves, Zenon
    <2>2. /\ CellsOf(p)[2 * k - 1] = <<p[k], "size">>
          /\ CellsOf(p)[2 * k] = <<p[k], "payload">>
      BY <1>1, CellsOfType
    <2>3. (CellsOf(q) \o Cells(r))[i]
             = IF i <= 2 * n THEN CellsOf(q)[i] ELSE Cells(r)[i - 2 * n]
      <3>1. i \in 1..(Len(CellsOf(q)) + Len(Cells(r)))
        BY <1>1, <1>2, <1>3
      <3>2. (CellsOf(q) \o Cells(r))[i] =
               IF i <= Len(CellsOf(q)) THEN CellsOf(q)[i] ELSE Cells(r)[i - Len(CellsOf(q))]
        BY <1>2, <1>3, <3>1, ConcatenatedAt, Zenon
      <3>. QED
        BY <1>3, <3>2
    <2>4. CASE k \in 1..n
      <3>1. /\ CellsOf(q)[2 * k - 1] = <<q[k], "size">>
            /\ CellsOf(q)[2 * k] = <<q[k], "payload">>
        BY <2>4, CellsOfType DEF n
      <3>2. i <= 2 * n
        BY <1>1, <2>1, <2>4
      <3>. QED
        BY <1>1, <2>1, <2>2, <2>3, <2>4, <3>1, <3>2
    <2>5. CASE k = n + 1
      <3>1. ~(i <= 2 * n) /\ (i - 2 * n = 1 <=> i = 2 * k - 1) /\ (i - 2 * n = 2 <=> i = 2 * k)
        BY <1>1, <2>1, <2>5
      <3>2. Cells(r)[1] = <<r, "size">> /\ Cells(r)[2] = <<r, "payload">>
        BY DEF Cells
      <3>. QED
        BY <1>1, <2>1, <2>2, <2>3, <2>5, <3>1, <3>2
    <2>. QED
      <3>1. k \in 1..n \/ k = n + 1
        BY <1>1
      <3>. QED
        BY <2>4, <2>5, <3>1
  <1>. HIDE DEF p, n
  <1>7. CellsOf(p) = CellsOf(q) \o Cells(r)
    BY <1>1, <1>4, <1>5, <1>6
  <1>. QED
    BY <1>7 DEF p

(* In the cells of distinct records each of the two cells of a record is   *)
(* at one place.                                                           *)
LEMMA CellPlaces ==
    ASSUME NEW q \in Seq(Records), Distinct(q), NEW r, NEW p \in {"size", "payload"}
    PROVE  Cardinality({i \in DOMAIN CellsOf(q) : CellsOf(q)[i] = <<r, p>>})
              = IF r \in Range(q) THEN 1 ELSE 0
  <1>. DEFINE At == {i \in DOMAIN CellsOf(q) : CellsOf(q)[i] = <<r, p>>}
              place(k) == IF p = "size" THEN 2 * k - 1 ELSE 2 * k
  <1>1. \A i \in At : \E k \in 1..Len(q) : q[k] = r /\ i = place(k)
    <2>. TAKE i \in At
    <2>0. Len(q) \in Nat /\ i \in 1..(2 * Len(q))
      BY CellsOfType
    <2>1. PICK k \in 1..Len(q) : i = 2 * k - 1 \/ i = 2 * k
      BY <2>0, Halves, Zenon
    <2>2. q[k] = r /\ i = place(k)
      BY <2>1, CellsOfType
    <2>. QED
      BY <2>2
  <1>2. \A k \in 1..Len(q) : q[k] = r => place(k) \in At
    BY CellsOfType
  <1>3. CASE r \in Range(q)
    <2>1. PICK k \in 1..Len(q) : q[k] = r
      BY <1>3 DEF Range
    <2>2. \A m \in 1..Len(q) : q[m] = r => m = k
      BY <2>1 DEF Distinct
    <2>3. At = {place(k)}
      BY <1>1, <1>2, <2>1, <2>2, Zenon
    <2>. QED
      BY <1>3, <2>3, FS_Singleton
  <1>4. CASE r \notin Range(q)
    <2>1. At = {}
      BY <1>1, <1>4 DEF Range
    <2>. QED
      BY <1>4, <2>1, FS_EmptySet
  <1>. QED
    BY <1>3, <1>4
LEMMA NoCells ==
    /\ <<>> \in Seq(Cell) /\ Len(<<>>) = 0
    /\ HoldsOnce(<<>>, {})
  <1>1. <<>> \in Seq(Records) /\ Distinct(<<>>) /\ Range(<<>>) = {}
    BY DEF Distinct, Range
  <1>2. CellsOf(<<>>) = <<>>
    <2>1. CellsOf(<<>>) \in Seq(Cell) /\ Len(CellsOf(<<>>)) = 2 * Len(<<>>)
      BY <1>1, CellsOfType, Zenon
    <2>. QED
      BY <2>1
  <1>3. HoldsOnce(<<>>, {})
    BY <1>1, <1>2, Zenon DEF HoldsOnce
  <1>. QED
    BY <1>3

LEMMA OneMoreCells ==
    ASSUME NEW S, NEW cells, HoldsOnce(cells, S), NEW r \in Records, r \notin S
    PROVE  HoldsOnce(cells \o Cells(r), S \cup {r})
  <1>1. PICK q \in Seq(Records) : Distinct(q) /\ Range(q) = S /\ cells = CellsOf(q)
    BY DEF HoldsOnce
  <1>. DEFINE p == Append(q, r)
  <1>2. /\ p \in Seq(Records) /\ Len(p) = Len(q) + 1
        /\ \A k \in 1..Len(q) : p[k] = q[k]
        /\ p[Len(q) + 1] = r
    OBVIOUS
  <1>3. CellsOf(p) = cells \o Cells(r)
    BY <1>1, CellsOfAppend
  <1>. HIDE DEF p
  <1>4. \A k \in 1..Len(q) : q[k] # r
    BY <1>1 DEF Range
  <1>5. Distinct(p)
    BY <1>1, <1>2, <1>4 DEF Distinct
  <1>6. Range(p) = S \cup {r}
    BY <1>1, <1>2 DEF Range
  <1>. QED
    BY <1>2, <1>3, <1>5, <1>6 DEF HoldsOnce

-----------------------------------------------------------------------------
LEMMA SpillConstants ==
    /\ None \notin Records /\ None \notin Workers /\ None \notin Seq(Cell)
    /\ \A r \in Records : BucketOf(r) \in Buckets
    /\ \A E \in Extracts : E \subseteq Records
    /\ BufferSize \in Nat /\ BucketCount \in Nat
    /\ MaxRuns \in Nat /\ 1 <= MaxRuns
  BY SpillAssumption DEF BucketOf

LEMMA CellsType ==
    ASSUME NEW r \in Records
    PROVE  Cells(r) \in Seq(Cell) /\ Len(Cells(r)) = 2
  BY DEF Cells, Cell

(* Which records a worker has in hand.                                     *)
LEMMA InHand ==
    ASSUME Stage1Types, NEW r
    PROVE  r \in Range(hand) <=> \E w \in Workers : hand[w] = r
  BY DEF Stage1Types, Range

(* What matters to the buckets' contents.                                  *)
LEMMA SpillUnchanged ==
    ASSUME UNCHANGED <<extract, pending, hand, disk, buffer>>
    PROVE  \A b : Spilled(b)' = Spilled(b) /\ Home(b)' = Home(b)
  BY DEF Spilled, Home, Of

LEMMA InitSInv ==
    ASSUME Init
    PROVE  SInv
  <1>1. Stage1Types
    <2>1. runs \in 1..MaxRuns /\ cursor \in 0..BucketCount
      BY SpillConstants DEF Init
    <2>. QED
      BY <2>1 DEF Init, Stage1Types
  <1>2. HandsAreDistinct /\ MutexDiscipline
    BY DEF Init, HandsAreDistinct, MutexDiscipline
  <1>3. JoinedAndFlushed
    BY DEF Init, JoinedAndFlushed
  <1>4. BucketsHoldOnce
    <2>1. \A b \in Buckets : Spilled(b) = <<>> /\ Home(b) = {}
      BY DEF Init, Spilled, Home, Of
    <2>. QED
      BY <2>1, NoCells DEF BucketsHoldOnce
  <1>. QED
    BY <1>1, <1>2, <1>3, <1>4 DEF SInv

(* Each step keeps the invariant of stage 1.                               *)
LEMMA StartRunSInv ==
    ASSUME SInv, StartRun
    PROVE  SInv'
  <1>1. Stage1Types'
    <2>1. runs' \in 1..MaxRuns /\ cursor' \in 0..BucketCount
      BY SpillConstants DEF SInv, StartRun, Stage1Types
    <2>2. disk' \in [Buckets -> Seq(Cell) \cup {None}]
      BY DEF SInv, StartRun, Stage1Types
    <2>3. /\ hand' \in [Workers -> Records \cup {None}]
          /\ pc' \in [Workers -> {"idle", "lock", "open", "write"}]
          /\ holder' \in [Buckets -> Workers \cup {None}]
          /\ buffer' \in [Buckets -> Seq(Cell) \cup {None}]
      BY DEF StartRun
    <2>. QED
      BY <2>1, <2>2, <2>3 DEF StartRun, Stage1Types
  <1>2. HandsAreDistinct' /\ MutexDiscipline'
    BY DEF SInv, Stage1Types, StartRun, HandsAreDistinct, MutexDiscipline
  <1>3. JoinedAndFlushed'
    BY DEF StartRun, JoinedAndFlushed
  <1>4. BucketsHoldOnce'
    <2>1. \A b \in Buckets : Spilled(b)' = <<>> /\ Home(b)' = {}
      BY DEF StartRun, Spilled, Home, Of
    <2>. QED
      BY <2>1, NoCells DEF BucketsHoldOnce
  <1>. QED
    BY <1>1, <1>2, <1>3, <1>4 DEF SInv

LEMMA KillSInv ==
    ASSUME SInv, Kill
    PROVE  SInv'
  <1>1. Stage1Types'
    BY DEF SInv, Kill, Stage1Types, stage1, stage2
  <1>2. HandsAreDistinct' /\ MutexDiscipline'
    BY DEF SInv, Kill, HandsAreDistinct, MutexDiscipline, stage1
  <1>3. JoinedAndFlushed' /\ BucketsHoldOnce'
    BY DEF Kill, JoinedAndFlushed, BucketsHoldOnce
  <1>. QED
    BY <1>1, <1>2, <1>3 DEF SInv

LEMMA TakeSInv ==
    ASSUME SInv, NEW w \in Workers, Take(w)
    PROVE  SInv'
  <1>1. PICK r \in pending : hand' = [hand EXCEPT ![w] = r] /\ pending' = pending \ {r}
    BY DEF Take
  <1>2. r \in extract /\ r \in Records /\ hand[w] = None
    BY SpillConstants DEF SInv, Stage1Types, HandsAreDistinct, Take
  <1>3. Stage1Types'
    BY <1>1, <1>2 DEF SInv, Stage1Types, Take, stage2
  <1>4. HandsAreDistinct'
    BY <1>1, <1>2, SpillConstants DEF SInv, Stage1Types, HandsAreDistinct, Take
  <1>5. MutexDiscipline'
    BY <1>1 DEF SInv, Stage1Types, MutexDiscipline, Take
  <1>6. JoinedAndFlushed'
    BY DEF SInv, JoinedAndFlushed, Take
  <1>7. \A b : Spilled(b)' = Spilled(b) /\ Home(b)' = Home(b)
    <2>1. ASSUME NEW x \in Records
          PROVE  x \in Range(hand)' <=> x = r \/ x \in Range(hand)
      BY <1>1, <1>2, <1>3, SpillConstants DEF SInv, Stage1Types, Range
    <2>2. \A x \in extract : x \in Records
      BY SpillConstants DEF SInv, Stage1Types
    <2>3. \A b : Home(b)' = Home(b)
      BY <1>1, <1>2, <2>1, <2>2 DEF Home, Of, Take
    <2>. QED
      BY <2>3 DEF Spilled, Take
  <1>8. BucketsHoldOnce'
    BY <1>7 DEF SInv, BucketsHoldOnce, Take
  <1>. QED
    BY <1>3, <1>4, <1>5, <1>6, <1>8 DEF SInv

LEMMA LockSInv ==
    ASSUME SInv, NEW w \in Workers, Lock(w)
    PROVE  SInv'
  <1>1. hand[w] \in extract /\ hand[w] \in Records /\ BucketOf(hand[w]) \in Buckets
    BY SpillConstants DEF SInv, Stage1Types, HandsAreDistinct, Lock
  <1>2. Stage1Types'
    BY <1>1 DEF SInv, Stage1Types, Lock, stage2
  <1>3. HandsAreDistinct'
    BY DEF SInv, Stage1Types, HandsAreDistinct, Lock
  <1>4. MutexDiscipline'
    <2>1. \A v \in Workers : pc[v] \in {"open", "write"} => BucketOf(hand[v]) # BucketOf(hand[w])
      BY SpillConstants DEF SInv, Stage1Types, MutexDiscipline, Lock, Free
    <2>. QED
      BY <1>1, <2>1 DEF SInv, Stage1Types, MutexDiscipline, Lock
  <1>5. JoinedAndFlushed'
    BY DEF SInv, JoinedAndFlushed, Lock
  <1>6. BucketsHoldOnce'
    BY SpillUnchanged DEF SInv, BucketsHoldOnce, Lock
  <1>. QED
    BY <1>2, <1>3, <1>4, <1>5, <1>6 DEF SInv

LEMMA OpenSInv ==
    ASSUME SInv, NEW w \in Workers, Open(w)
    PROVE  SInv'
  <1>. DEFINE b == BucketOf(hand[w])
  <1>1. /\ hand[w] \in Records /\ b \in Buckets
        /\ holder[b] = w /\ buffer[b] = None
    BY SpillConstants DEF SInv, Stage1Types, HandsAreDistinct, MutexDiscipline, Open
  <1>2. /\ disk' = [disk EXCEPT ![b] = <<>>] /\ buffer' = [buffer EXCEPT ![b] = <<>>]
        /\ pc' = [pc EXCEPT ![w] = "write"] /\ pc[w] = "open" /\ phase = "extract"
        /\ UNCHANGED <<runs, extract, phase, pending, hand, holder, error, cursor, skipped>>
    BY DEF Open, stage2
  <1>3. <<>> \in Seq(Cell) /\ Len(<<>>) = 0 /\ None # <<>>
    BY SpillConstants, NoCells
  <1>. HIDE DEF b
  <1>4. Stage1Types'
    BY <1>1, <1>2, <1>3 DEF SInv, Stage1Types
  <1>5. HandsAreDistinct'
    BY <1>2 DEF SInv, Stage1Types, HandsAreDistinct
  <1>6. MutexDiscipline'
    <2>1. ASSUME NEW v \in Workers, v # w, pc[v] \in {"open", "write"}
          PROVE  BucketOf(hand[v]) # b
      BY <1>1, <2>1 DEF SInv, MutexDiscipline
    <2>2. \A v \in Workers : BucketOf(hand'[v]) = BucketOf(hand[v])
      BY <1>2
    <2>3. \A v \in Workers :
             /\ pc'[v] \in {"open", "write"} => holder'[BucketOf(hand'[v])] = v
             /\ pc'[v] = "open" => buffer'[BucketOf(hand'[v])] = None
             /\ pc'[v] = "write" => buffer'[BucketOf(hand'[v])] # None
      BY <1>1, <1>2, <1>3, <2>1, <2>2 DEF SInv, Stage1Types, MutexDiscipline, b
    <2>4. \A c \in Buckets : buffer'[c] # None => disk'[c] # None /\ Len(buffer'[c]) <= BufferSize
      BY <1>1, <1>2, <1>3, SpillConstants DEF SInv, Stage1Types, MutexDiscipline
    <2>. QED
      BY <1>2, <2>3, <2>4 DEF MutexDiscipline, BucketOf
  <1>7. JoinedAndFlushed'
    BY <1>2 DEF SInv, JoinedAndFlushed
  <1>8. \A c \in Buckets : Spilled(c)' = Spilled(c) /\ Home(c)' = Home(c)
    <2>1. \A c \in Buckets : Home(c)' = Home(c)
      BY <1>2 DEF Home, Of
    <2>2. disk'[b] = <<>> /\ buffer'[b] = <<>>
      BY <1>1, <1>2 DEF SInv, Stage1Types
    <2>3. \A c \in Buckets : c # b => disk'[c] = disk[c] /\ buffer'[c] = buffer[c]
      BY <1>1, <1>2 DEF SInv, Stage1Types
    <2>4. <<>> \o <<>> = <<>>
      OBVIOUS
    <2>5. ASSUME NEW c \in Buckets PROVE Spilled(c)' = Spilled(c)
      <3>1. CASE c = b
        BY <1>1, <1>3, <2>2, <2>4, <3>1 DEF Spilled
      <3>2. CASE c # b
        BY <2>3, <3>2 DEF Spilled
      <3>. QED
        BY <3>1, <3>2
    <2>. QED
      BY <2>1, <2>5
  <1>9. BucketsHoldOnce'
    BY <1>2, <1>8 DEF SInv, BucketsHoldOnce
  <1>. QED
    BY <1>4, <1>5, <1>6, <1>7, <1>9 DEF SInv

(* A worker that lets go of its record and its bucket disturbs no other.   *)
LEMMA UnlockKeeps ==
    ASSUME SInv, NEW w \in Workers, pc[w] \in {"open", "write"},
           pc' = [pc EXCEPT ![w] = "idle"], Unlock(w), UNCHANGED <<extract, pending>>,
           \A c \in Buckets : c # BucketOf(hand[w]) => disk'[c] = disk[c] /\ buffer'[c] = buffer[c],
           buffer'[BucketOf(hand[w])] # None =>
              /\ disk'[BucketOf(hand[w])] # None
              /\ Len(buffer'[BucketOf(hand[w])]) <= BufferSize
    PROVE  /\ hand' \in [Workers -> Records \cup {None}]
           /\ pc' \in [Workers -> {"idle", "lock", "open", "write"}]
           /\ holder' \in [Buckets -> Workers \cup {None}]
           /\ HandsAreDistinct' /\ MutexDiscipline'
  <1>1. BucketOf(hand[w]) \in Buckets /\ holder[BucketOf(hand[w])] = w
    BY SpillConstants DEF SInv, Stage1Types, HandsAreDistinct, MutexDiscipline
  <1>2. /\ hand' \in [Workers -> Records \cup {None}]
        /\ pc' \in [Workers -> {"idle", "lock", "open", "write"}]
        /\ holder' \in [Buckets -> Workers \cup {None}]
    BY DEF SInv, Stage1Types, Unlock
  <1>3. \A v \in Workers : /\ v # w => hand'[v] = hand[v] /\ pc'[v] = pc[v]
                           /\ v = w => hand'[v] = None /\ pc'[v] = "idle"
    BY DEF SInv, Stage1Types, Unlock
  <1>4. HandsAreDistinct'
    BY <1>3 DEF SInv, HandsAreDistinct
  <1>5. MutexDiscipline'
    <2>1. ASSUME NEW v \in Workers, v # w, pc[v] \in {"open", "write"}
          PROVE  /\ BucketOf(hand[v]) \in Buckets
                 /\ BucketOf(hand[v]) # BucketOf(hand[w])
                 /\ holder'[BucketOf(hand[v])] = v
                 /\ buffer'[BucketOf(hand[v])] = buffer[BucketOf(hand[v])]
      <3>1. BucketOf(hand[v]) \in Buckets /\ holder[BucketOf(hand[v])] = v
        BY <2>1, SpillConstants DEF SInv, Stage1Types, HandsAreDistinct, MutexDiscipline
      <3>2. BucketOf(hand[v]) # BucketOf(hand[w])
        BY <1>1, <2>1, <3>1
      <3>. QED
        BY <3>1, <3>2 DEF SInv, Stage1Types, Unlock
    <2>2. \A v \in Workers : pc'[v] \in {"open", "write"} =>
             v # w /\ pc[v] = pc'[v] /\ BucketOf(hand'[v]) = BucketOf(hand[v])
      BY <1>3
    <2>3. \A v \in Workers :
             /\ pc'[v] \in {"open", "write"} => holder'[BucketOf(hand'[v])] = v
             /\ pc'[v] = "open" => buffer'[BucketOf(hand'[v])] = None
             /\ pc'[v] = "write" => buffer'[BucketOf(hand'[v])] # None
      BY <2>1, <2>2 DEF SInv, MutexDiscipline
    <2>4. \A c \in Buckets : buffer'[c] # None => disk'[c] # None /\ Len(buffer'[c]) <= BufferSize
      BY DEF SInv, MutexDiscipline
    <2>. QED
      BY <2>3, <2>4 DEF MutexDiscipline, BucketOf
  <1>. QED
    BY <1>2, <1>4, <1>5

LEMMA WriteSInv ==
    ASSUME SInv, NEW w \in Workers, Write(w)
    PROVE  SInv'
  <1>0. PICK b \in Buckets : b = BucketOf(hand[w])
    BY SpillConstants DEF SInv, Stage1Types, HandsAreDistinct, Write
  <1>. DEFINE new == (IF Flushes(w) THEN <<>> ELSE buffer[b])
                        \o (IF Direct(w) THEN <<>> ELSE Cells(hand[w]))
  <1>1. /\ hand[w] \in Records /\ hand[w] \in extract \ pending /\ b \in Buckets
        /\ buffer[b] \in Seq(Cell) /\ disk[b] \in Seq(Cell)
        /\ Len(buffer[b]) <= BufferSize /\ buffer[b] # None /\ pc[w] = "write"
    BY <1>0, SpillConstants DEF SInv, Stage1Types, HandsAreDistinct, MutexDiscipline, Write
  <1>2. Cells(hand[w]) \in Seq(Cell) /\ Len(Cells(hand[w])) = 2 /\ BufferSize \in Nat
    BY <1>1, CellsType, SpillConstants
  <1>3. /\ Outgoing(w) \in Seq(Cell) /\ new \in Seq(Cell) /\ Len(new) <= BufferSize
        /\ disk[b] \o Outgoing(w) \in Seq(Cell)
    <2>. DEFINE kept == IF Flushes(w) THEN <<>> ELSE buffer[b]
                more == IF Direct(w) THEN <<>> ELSE Cells(hand[w])
                first == IF Flushes(w) THEN buffer[b] ELSE <<>>
                second == IF Direct(w) THEN Cells(hand[w]) ELSE <<>>
    <2>1. /\ kept \in Seq(Cell) /\ more \in Seq(Cell)
          /\ first \in Seq(Cell) /\ second \in Seq(Cell)
      BY <1>1, <1>2
    <2>2. Len(kept) + Len(more) <= BufferSize
      <3>1. /\ Flushes(w) => kept = <<>>
            /\ ~Flushes(w) => kept = buffer[b] /\ 2 <= BufferSize - Len(buffer[b])
            /\ Direct(w) => more = <<>>
            /\ ~Direct(w) => Len(more) = 2 /\ 2 < BufferSize
        BY <1>0, <1>1, <1>2 DEF Flushes, Direct, Spare
      <3>2. Len(<<>>) = 0 /\ Len(buffer[b]) \in Nat
        BY <1>1
      <3>. HIDE DEF kept, more
      <3>3. Len(kept) = 0 \/ (Len(kept) = Len(buffer[b]) /\ 2 <= BufferSize - Len(buffer[b]))
        BY <3>1, <3>2
      <3>4. Len(more) = 0 \/ (Len(more) = 2 /\ 2 < BufferSize)
        BY <3>1, <3>2
      <3>5. Len(kept) \in Nat /\ Len(more) \in Nat
        BY <3>2, <3>3, <3>4
      <3>6. Len(buffer[b]) <= BufferSize /\ BufferSize \in Nat
        BY <1>1, <1>2
      <3>7. ASSUME NEW k \in Nat, NEW m \in Nat, NEW l \in Nat, NEW size \in Nat, l <= size,
                   k = 0 \/ (k = l /\ 2 <= size - l), m = 0 \/ (m = 2 /\ 2 < size)
            PROVE  k + m <= size
        BY <3>7
      <3>. QED
        BY <3>2, <3>3, <3>4, <3>5, <3>6, <3>7, Zenon
    <2>3. Outgoing(w) = first \o second
      BY <1>0 DEF Outgoing
    <2>. HIDE DEF kept, more, first, second
    <2>4. first \o second \in Seq(Cell)
      BY <2>1
    <2>5. kept \o more \in Seq(Cell) /\ Len(kept \o more) = Len(kept) + Len(more)
      BY <2>1
    <2>6. disk[b] \o (first \o second) \in Seq(Cell)
      BY <1>1, <2>4
    <2>. QED
      BY <2>2, <2>3, <2>4, <2>5, <2>6 DEF kept, more
  <1>4. /\ disk' = [disk EXCEPT ![b] = disk[b] \o Outgoing(w)]
        /\ buffer' = [buffer EXCEPT ![b] = new]
        /\ pc' = [pc EXCEPT ![w] = "idle"] /\ phase = "extract" /\ Unlock(w)
        /\ UNCHANGED <<runs, extract, phase, pending, error, cursor, skipped>>
    BY <1>0 DEF Write, stage2
  <1>5. disk'[b] = disk[b] \o Outgoing(w) /\ buffer'[b] = new
    BY <1>1, <1>4 DEF SInv, Stage1Types
  <1>6. \A c \in Buckets : c # b => disk'[c] = disk[c] /\ buffer'[c] = buffer[c]
    BY <1>4 DEF SInv, Stage1Types
  <1>7. disk'[b] # None /\ buffer'[b] # None
    BY <1>3, <1>5, SpillConstants
  <1>8. HandsAreDistinct' /\ MutexDiscipline' /\ Stage1Types'
    <2>1. /\ hand' \in [Workers -> Records \cup {None}]
          /\ pc' \in [Workers -> {"idle", "lock", "open", "write"}]
          /\ holder' \in [Buckets -> Workers \cup {None}]
          /\ HandsAreDistinct' /\ MutexDiscipline'
      BY <1>0, <1>1, <1>3, <1>4, <1>5, <1>6, <1>7, UnlockKeeps
    <2>2. /\ disk' \in [Buckets -> Seq(Cell) \cup {None}]
          /\ buffer' \in [Buckets -> Seq(Cell) \cup {None}]
      <3>. HIDE DEF new
      <3>. QED
        BY <1>3, <1>4 DEF SInv, Stage1Types
    <2>. QED
      BY <1>4, <2>1, <2>2 DEF SInv, Stage1Types
  <1>9. JoinedAndFlushed'
    BY <1>4 DEF SInv, JoinedAndFlushed
  <1>10. Spilled(b)' = Spilled(b) \o Cells(hand[w])
    <2>1. Direct(w) /\ ~Flushes(w) => buffer[b] = <<>>
      <3>1. Direct(w) /\ ~Flushes(w) => Len(buffer[b]) = 0
        BY <1>0, <1>1, <1>2 DEF Direct, Flushes, Spare
      <3>. QED
        BY <1>1, <3>1
    <2>2. (disk[b] \o Outgoing(w)) \o new = (disk[b] \o buffer[b]) \o Cells(hand[w])
      <3>. DEFINE c == Cells(hand[w])
                  goes == IF Flushes(w) THEN buffer[b] ELSE <<>>
                  follows == IF Direct(w) THEN c ELSE <<>>
                  stays == IF Flushes(w) THEN <<>> ELSE buffer[b]
                  joins == IF Direct(w) THEN <<>> ELSE c
      <3>1. Outgoing(w) = goes \o follows /\ new = stays \o joins
        BY <1>0 DEF Outgoing
      <3>2. \/ goes = buffer[b] /\ follows = c /\ stays = <<>> /\ joins = <<>>
            \/ goes = buffer[b] /\ follows = <<>> /\ stays = <<>> /\ joins = c
            \/ /\ goes = <<>> /\ follows = c /\ stays = buffer[b] /\ joins = <<>>
               /\ buffer[b] = <<>>
            \/ goes = <<>> /\ follows = <<>> /\ stays = buffer[b] /\ joins = c
        BY <2>1
      <3>3. /\ c \in Seq(Cell) /\ goes \in Seq(Cell) /\ follows \in Seq(Cell)
            /\ stays \in Seq(Cell) /\ joins \in Seq(Cell)
        BY <1>1, <1>2
      <3>. HIDE DEF new, c, goes, follows, stays, joins
      <3>4. (disk[b] \o (goes \o follows)) \o (stays \o joins) = (disk[b] \o buffer[b]) \o c
        <4>1. PICK D \in Seq(Cell), F \in Seq(Cell) : D = disk[b] /\ F = buffer[b]
          BY <1>1
        <4>2. \/ goes = F /\ follows = c /\ stays = <<>> /\ joins = <<>>
              \/ goes = F /\ follows = <<>> /\ stays = <<>> /\ joins = c
              \/ goes = <<>> /\ follows = c /\ stays = F /\ joins = <<>> /\ F = <<>>
              \/ goes = <<>> /\ follows = <<>> /\ stays = F /\ joins = c
          BY <3>2, <4>1
        <4>3. (D \o (goes \o follows)) \o (stays \o joins) = (D \o F) \o c
          <5>1. CASE goes = F /\ follows = c /\ stays = <<>> /\ joins = <<>>
            BY <3>3, <5>1
          <5>2. CASE goes = F /\ follows = <<>> /\ stays = <<>> /\ joins = c
            BY <3>3, <5>2
          <5>3. CASE goes = <<>> /\ follows = c /\ stays = F /\ joins = <<>> /\ F = <<>>
            BY <3>3, <5>3
          <5>4. CASE goes = <<>> /\ follows = <<>> /\ stays = F /\ joins = c
            BY <3>3, <5>4
          <5>. QED
            BY <4>2, <5>1, <5>2, <5>3, <5>4, Zenon
        <4>. QED
          BY <4>1, <4>3
      <3>. QED
        BY <3>1, <3>4, Zenon DEF c
    <2>3. Spilled(b)' = disk'[b] \o buffer'[b] /\ Spilled(b) = disk[b] \o buffer[b]
      <3>1. Spilled(b)' = IF buffer'[b] = None THEN <<>> ELSE disk'[b] \o buffer'[b]
        BY DEF Spilled
      <3>. QED
        BY <1>1, <1>7, <3>1 DEF Spilled
    <2>. HIDE DEF new
    <2>. QED
      BY <1>5, <2>2, <2>3
  <1>11. \A c \in Buckets : c # b => Spilled(c)' = Spilled(c)
    BY <1>6 DEF Spilled
  <1>12. \A x \in Records : x \in Range(hand)' <=> x \in Range(hand) /\ x # hand[w]
    <2>1. \A v \in Workers : hand[v] = hand[w] => v = w
      BY <1>1, SpillConstants DEF SInv, HandsAreDistinct
    <2>. QED
      BY <1>1, <1>4, <2>1, SpillConstants DEF SInv, Stage1Types, Unlock, Range
  <1>13. /\ hand[w] \notin Home(b) /\ Home(b)' = Home(b) \cup {hand[w]}
         /\ \A c \in Buckets : c # b => Home(c)' = Home(c)
    <2>1. hand[w] \in Range(hand) /\ \A x \in extract : x \in Records
      BY SpillConstants DEF SInv, Stage1Types, Range
    <2>. QED
      BY <1>0, <1>1, <1>4, <1>12, <2>1 DEF Home, Of
  <1>14. BucketsHoldOnce'
    <2>1. SUFFICES ASSUME ~error, NEW c \in Buckets
                   PROVE  HoldsOnce(Spilled(c)', Home(c)')
      BY <1>4 DEF BucketsHoldOnce, HoldsOnce
    <2>2. HoldsOnce(Spilled(c), Home(c))
      BY <1>4, <2>1 DEF SInv, BucketsHoldOnce
    <2>3. CASE c = b
      <3>1. HoldsOnce(Spilled(b) \o Cells(hand[w]), Home(b) \cup {hand[w]})
        BY <1>1, <1>13, <2>2, <2>3, OneMoreCells
      <3>. QED
        BY <1>10, <1>13, <2>3, <3>1, Zenon
    <2>4. CASE c # b
      BY <1>11, <1>13, <2>2, <2>4
    <2>. QED
      BY <2>3, <2>4
  <1>. QED
    BY <1>8, <1>9, <1>14 DEF SInv

LEMMA KeepErrorSInv ==
    ASSUME SInv, NEW w \in Workers, KeepError(w)
    PROVE  SInv'
  <1>0. PICK b \in Buckets : b = BucketOf(hand[w])
    BY SpillConstants DEF SInv, Stage1Types, HandsAreDistinct, KeepError, Fail
  <1>1. /\ pc' = [pc EXCEPT ![w] = "idle"] /\ phase = "extract" /\ Unlock(w) /\ error' = TRUE
        /\ UNCHANGED <<runs, extract, phase, pending, cursor, skipped>>
        /\ pc[w] \in {"open", "write"}
    BY DEF KeepError, Fail, stage2
  <1>2. /\ disk' \in [Buckets -> Seq(Cell) \cup {None}]
        /\ buffer' \in [Buckets -> Seq(Cell) \cup {None}]
        /\ \A c \in Buckets : c # b => disk'[c] = disk[c] /\ buffer'[c] = buffer[c]
        /\ buffer'[b] # None => disk'[b] # None /\ Len(buffer'[b]) <= BufferSize
    <2>1. CASE pc[w] = "open"
      <3>1. UNCHANGED <<disk, buffer>>
        BY <2>1 DEF KeepError, Fail
      <3>. QED
        BY <3>1, <1>0 DEF SInv, Stage1Types, MutexDiscipline
    <2>2. CASE pc[w] = "write"
      <3>1. PICK n \in 0..(Len(Outgoing(w)) - 1) :
               /\ disk' = [disk EXCEPT ![b] = @ \o SubSeq(Outgoing(w), 1, n)]
               /\ buffer' = [buffer EXCEPT ![b] =
                               IF Flushes(w) THEN SubSeq(@, n + 1, Len(@)) ELSE @]
        BY <1>0, <2>2 DEF KeepError, Fail
      <3>2. /\ buffer[b] \in Seq(Cell) /\ disk[b] \in Seq(Cell) /\ hand[w] \in Records
            /\ Len(buffer[b]) <= BufferSize /\ BufferSize \in Nat
        BY <1>0, <2>2, SpillConstants DEF SInv, Stage1Types, HandsAreDistinct, MutexDiscipline
      <3>3. Outgoing(w) \in Seq(Cell)
        <4>. DEFINE first == IF Flushes(w) THEN buffer[b] ELSE <<>>
                    second == IF Direct(w) THEN Cells(hand[w]) ELSE <<>>
        <4>1. first \in Seq(Cell) /\ second \in Seq(Cell) /\ Outgoing(w) = first \o second
          BY <1>0, <3>2, CellsType DEF Outgoing
        <4>. HIDE DEF first, second
        <4>. QED
          BY <4>1
      <3>4. n \in Nat /\ n <= Len(Outgoing(w))
        BY <3>3
      <3>5. SubSeq(Outgoing(w), 1, n) \in Seq(Cell)
        BY <3>3, <3>4
      <3>6. disk[b] \o SubSeq(Outgoing(w), 1, n) \in Seq(Cell)
        BY <3>2, <3>5
      <3>7. /\ SubSeq(buffer[b], n + 1, Len(buffer[b])) \in Seq(Cell)
            /\ Len(SubSeq(buffer[b], n + 1, Len(buffer[b]))) <= BufferSize
        BY <3>2, <3>4
      <3>. DEFINE rest == IF Flushes(w) THEN SubSeq(buffer[b], n + 1, Len(buffer[b])) ELSE buffer[b]
                  out == disk[b] \o SubSeq(Outgoing(w), 1, n)
      <3>8. rest \in Seq(Cell) /\ Len(rest) <= BufferSize /\ out \in Seq(Cell) /\ out # None
        BY <3>2, <3>6, <3>7, SpillConstants
      <3>9. disk' = [disk EXCEPT ![b] = out] /\ buffer' = [buffer EXCEPT ![b] = rest]
        BY <3>1
      <3>. HIDE DEF rest, out
      <3>. QED
        BY <3>8, <3>9 DEF SInv, Stage1Types
    <2>. QED
      BY <1>1, <2>1, <2>2
  <1>3. /\ hand' \in [Workers -> Records \cup {None}]
        /\ pc' \in [Workers -> {"idle", "lock", "open", "write"}]
        /\ holder' \in [Buckets -> Workers \cup {None}]
        /\ HandsAreDistinct' /\ MutexDiscipline'
    BY <1>0, <1>1, <1>2, UnlockKeeps
  <1>4. Stage1Types'
    BY <1>1, <1>2, <1>3 DEF SInv, Stage1Types
  <1>5. JoinedAndFlushed' /\ BucketsHoldOnce'
    BY <1>1 DEF SInv, JoinedAndFlushed, BucketsHoldOnce
  <1>. QED
    BY <1>3, <1>4, <1>5 DEF SInv

LEMMA FinishSInv ==
    ASSUME SInv, Finish
    PROVE  SInv'
  <1>1. /\ phase = "extract" /\ pending = {} /\ \A w \in Workers : pc[w] = "idle"
        /\ \/ ~error /\ phase' = "flush" /\ disk' = disk
           \/ error /\ phase' = "dead" /\ disk' = Dropped
        /\ UNCHANGED <<runs, extract, pending, hand, pc, holder, error, buffer, cursor, skipped>>
    BY DEF Finish, stage1, stage2
  <1>2. /\ Dropped \in [Buckets -> Seq(Cell) \cup {None}]
        /\ \A b \in Buckets : buffer[b] # None => Dropped[b] # None
    <2>1. ASSUME NEW b \in Buckets, buffer[b] # None
          PROVE  disk[b] \o buffer[b] \in Seq(Cell) /\ disk[b] \o buffer[b] # None
      <3>1. disk[b] \in Seq(Cell) /\ buffer[b] \in Seq(Cell)
        BY <2>1 DEF SInv, Stage1Types, MutexDiscipline
      <3>2. disk[b] \o buffer[b] \in Seq(Cell)
        BY <3>1
      <3>. QED
        BY <3>2, SpillConstants
    <2>. QED
      BY <2>1 DEF SInv, Stage1Types, Dropped
  <1>3. Stage1Types' /\ HandsAreDistinct' /\ MutexDiscipline'
    BY <1>1, <1>2 DEF SInv, Stage1Types, HandsAreDistinct, MutexDiscipline, BucketOf
  <1>4. JoinedAndFlushed'
    <2>1. cursor' = 0 /\ \A b \in Buckets : ~(b < 0)
      BY <1>1 DEF SInv, JoinedAndFlushed, Buckets
    <2>. QED
      BY <1>1, <2>1 DEF SInv, Stage1Types, JoinedAndFlushed
  <1>5. BucketsHoldOnce'
    BY <1>1, SpillUnchanged DEF SInv, BucketsHoldOnce
  <1>. QED
    BY <1>3, <1>4, <1>5 DEF SInv

LEMMA FlushBucketSInv ==
    ASSUME SInv, FlushBucket
    PROVE  SInv'
  <1>1. /\ phase = "flush" /\ cursor \in Buckets /\ cursor + 1 \in 0..BucketCount
        /\ UNCHANGED <<runs, extract, pending, hand, pc, holder, error, skipped>>
    BY SpillConstants DEF SInv, Stage1Types, FlushBucket, Buckets, stage1, stage2
  <1>2. CASE phase' = "dead"
    <2>1. buffer' = buffer /\ cursor' = cursor /\ disk' = [Dropped EXCEPT ![cursor] = disk[cursor]]
      BY <1>1, <1>2 DEF FlushBucket
    <2>2. ASSUME NEW b \in Buckets
          PROVE  /\ disk'[b] \in Seq(Cell) \cup {None}
                 /\ buffer[b] # None => disk'[b] # None
      <3>1. disk'[b] = IF b = cursor \/ buffer[b] = None THEN disk[b] ELSE disk[b] \o buffer[b]
        BY <1>1, <2>1 DEF Dropped
      <3>2. CASE b = cursor \/ buffer[b] = None
        BY <3>1, <3>2 DEF SInv, Stage1Types, MutexDiscipline
      <3>3. CASE ~(b = cursor \/ buffer[b] = None)
        <4>1. disk[b] \in Seq(Cell) /\ buffer[b] \in Seq(Cell)
          BY <3>3 DEF SInv, Stage1Types, MutexDiscipline
        <4>2. disk[b] \o buffer[b] \in Seq(Cell)
          BY <4>1
        <4>. QED
          BY <3>1, <3>3, <4>2, SpillConstants
      <3>. QED
        BY <3>2, <3>3
    <2>3. disk' \in [Buckets -> Seq(Cell) \cup {None}]
      BY <2>1, <2>2 DEF Dropped
    <2>4. Stage1Types' /\ HandsAreDistinct' /\ MutexDiscipline'
      BY <1>1, <1>2, <2>1, <2>2, <2>3
         DEF SInv, Stage1Types, HandsAreDistinct, MutexDiscipline, BucketOf
    <2>5. JoinedAndFlushed' /\ BucketsHoldOnce'
      BY <1>2 DEF JoinedAndFlushed, BucketsHoldOnce
    <2>. QED
      BY <2>4, <2>5 DEF SInv
  <1>3. CASE phase' = "flush"
    <2>1. /\ disk' = [disk EXCEPT ![cursor] =
                         IF buffer[cursor] = None THEN @ ELSE @ \o buffer[cursor]]
          /\ buffer' = [buffer EXCEPT ![cursor] = IF @ = None THEN None ELSE <<>>]
          /\ cursor' = cursor + 1
      BY <1>1, <1>3 DEF FlushBucket
    <2>2. ASSUME NEW b \in Buckets, b # cursor
          PROVE  disk'[b] = disk[b] /\ buffer'[b] = buffer[b]
      BY <2>1, <2>2 DEF SInv, Stage1Types
    <2>3. CASE buffer[cursor] = None
      <3>1. disk' = disk /\ buffer' = buffer
        BY <2>1, <2>3 DEF SInv, Stage1Types
      <3>2. Stage1Types' /\ HandsAreDistinct' /\ MutexDiscipline'
        BY <1>1, <1>3, <2>1, <3>1
           DEF SInv, Stage1Types, HandsAreDistinct, MutexDiscipline, BucketOf
      <3>3. JoinedAndFlushed'
        <4>1. \A b \in Buckets : b < cursor + 1 => b < cursor \/ b = cursor
          BY SpillConstants DEF SInv, Stage1Types, Buckets
        <4>. QED
          BY <1>1, <1>3, <2>1, <2>3, <3>1, <4>1 DEF SInv, JoinedAndFlushed
      <3>4. BucketsHoldOnce'
        BY <1>1, <1>3, <3>1, SpillUnchanged DEF SInv, BucketsHoldOnce
      <3>. QED
        BY <3>2, <3>3, <3>4 DEF SInv
    <2>4. CASE buffer[cursor] # None
      <3>1. /\ disk[cursor] \in Seq(Cell) /\ buffer[cursor] \in Seq(Cell)
            /\ disk'[cursor] = disk[cursor] \o buffer[cursor] /\ buffer'[cursor] = <<>>
        BY <1>1, <2>1, <2>4 DEF SInv, Stage1Types, MutexDiscipline
      <3>2. /\ disk[cursor] \o buffer[cursor] \in Seq(Cell)
            /\ disk[cursor] \o buffer[cursor] # None
            /\ (disk[cursor] \o buffer[cursor]) \o <<>> = disk[cursor] \o buffer[cursor]
        <4>1. disk[cursor] \o buffer[cursor] \in Seq(Cell)
          BY <3>1
        <4>2. \A cells \in Seq(Cell) : cells \o <<>> = cells
          OBVIOUS
        <4>. QED
          BY <4>1, <4>2, SpillConstants, Zenon
      <3>3. <<>> \in Seq(Cell) /\ <<>> # None /\ Len(<<>>) <= BufferSize
        <4>1. Len(<<>>) = 0 /\ 0 <= BufferSize
          BY SpillConstants
        <4>. QED
          BY <4>1, NoCells, SpillConstants, Zenon
      <3>4. Stage1Types'
        <4>1. /\ disk' \in [Buckets -> Seq(Cell) \cup {None}]
              /\ buffer' \in [Buckets -> Seq(Cell) \cup {None}]
          BY <1>1, <2>1, <3>2, <3>3 DEF SInv, Stage1Types
        <4>. QED
          BY <1>1, <1>3, <2>1, <4>1 DEF SInv, Stage1Types
      <3>5. HandsAreDistinct' /\ MutexDiscipline'
        <4>1. \A b \in Buckets : buffer'[b] # None => disk'[b] # None /\ Len(buffer'[b]) <= BufferSize
          BY <2>2, <3>1, <3>2, <3>3 DEF SInv, MutexDiscipline
        <4>2. \A w \in Workers : pc'[w] \notin {"open", "write"}
          BY <1>1 DEF SInv, JoinedAndFlushed
        <4>. QED
          BY <1>1, <4>1, <4>2 DEF SInv, HandsAreDistinct, MutexDiscipline
      <3>6. JoinedAndFlushed'
        <4>1. \A b \in Buckets : b < cursor + 1 => b < cursor \/ b = cursor
          BY SpillConstants DEF SInv, Stage1Types, Buckets
        <4>. QED
          BY <1>1, <1>3, <2>1, <2>2, <3>1, <4>1 DEF SInv, JoinedAndFlushed
      <3>7. \A b \in Buckets : Spilled(b)' = Spilled(b) /\ Home(b)' = Home(b)
        <4>1. \A b \in Buckets : Home(b)' = Home(b)
          BY <1>1 DEF Home, Of
        <4>2. PICK c \in Buckets : c = cursor
          BY <1>1
        <4>3. Spilled(c)' = Spilled(c)
          BY <3>1, <3>2, <3>3, <2>4, <4>2 DEF Spilled
        <4>4. \A b \in Buckets : b # c => Spilled(b)' = Spilled(b)
          BY <2>2, <4>2 DEF Spilled
        <4>. QED
          BY <4>1, <4>3, <4>4
      <3>8. BucketsHoldOnce'
        BY <1>1, <1>3, <3>7 DEF SInv, BucketsHoldOnce
      <3>. QED
        BY <3>4, <3>5, <3>6, <3>8 DEF SInv
    <2>. QED
      BY <2>3, <2>4
  <1>. QED
    BY <1>1, <1>2, <1>3 DEF FlushBucket

(* The steps that touch neither files nor buffers nor hands.               *)
LEMMA Stage2SInv ==
    ASSUME SInv,
           \/ BeginStage2 \/ SkipBucket \/ Finalize
           \/ \E w \in Workers : LoadBucket(w) \/ WriteTiles(w)
    PROVE  SInv'
  <1>1. /\ phase \in {"flush", "read"} /\ phase' \in {"read", "wrote", "dead"}
        /\ phase = "flush" => cursor = BucketCount
        /\ UNCHANGED <<runs, extract, disk, pending, hand, pc, holder, error, buffer>>
    BY DEF BeginStage2, SkipBucket, Finalize, LoadBucket, WriteTiles, stage1, stage2
  <1>2. cursor' \in 0..BucketCount /\ skipped' \subseteq Buckets
    BY SpillConstants DEF SInv, Stage1Types, BeginStage2, SkipBucket, Finalize,
          LoadBucket, WriteTiles, Buckets, stage2
  <1>3. Stage1Types' /\ HandsAreDistinct' /\ MutexDiscipline'
    BY <1>1, <1>2 DEF SInv, Stage1Types, HandsAreDistinct, MutexDiscipline, BucketOf
  <1>4. JoinedAndFlushed'
    <2>1. \A b \in Buckets : b < BucketCount
      BY SpillConstants DEF Buckets
    <2>2. \A b \in Buckets : buffer[b] \in {None, <<>>}
      BY <1>1, <2>1 DEF SInv, JoinedAndFlushed
    <2>. QED
      BY <1>1, <2>2 DEF SInv, JoinedAndFlushed
  <1>5. BucketsHoldOnce'
    BY <1>1, SpillUnchanged DEF SInv, BucketsHoldOnce
  <1>. QED
    BY <1>3, <1>4, <1>5 DEF SInv

THEOREM SInvHolds == Spec => []SInv
  <1>1. Init => SInv
    BY InitSInv
  <1>2. SInv /\ [Next]_vars => SInv'
    <2>. SUFFICES ASSUME SInv, [Next]_vars
                  PROVE  SInv'
      OBVIOUS
    <2>1. CASE StartRun
      BY <2>1, StartRunSInv
    <2>2. CASE Kill
      BY <2>2, KillSInv
    <2>3. ASSUME NEW w \in Workers, Work(w)
          PROVE  SInv'
      BY <2>3, TakeSInv, LockSInv, OpenSInv, WriteSInv, KeepErrorSInv, Stage2SInv DEF Work
    <2>4. CASE Main
      BY <2>4, FinishSInv, FlushBucketSInv, Stage2SInv DEF Main
    <2>5. CASE UNCHANGED vars
      <3>1. /\ UNCHANGED <<runs, extract, phase, disk, pending, hand, pc, holder, error,
                            buffer, cursor, skipped>>
        BY <2>5 DEF vars, stage1, stage2
      <3>. QED
        BY <3>1, SpillUnchanged DEF SInv, Stage1Types, HandsAreDistinct, MutexDiscipline,
              JoinedAndFlushed, BucketsHoldOnce, BucketOf
    <2>. QED
      BY <2>1, <2>2, <2>3, <2>4, <2>5 DEF Next
  <1>. QED
    BY <1>1, <1>2, PTL DEF Spec

(* What the buckets hold when they hold each record once: each of its two  *)
(* cells at one place, and its length before its payload.                  *)
LEMMA CellsInOrder ==
    ASSUME NEW q \in Seq(Records), NEW i \in DOMAIN CellsOf(q)
    PROVE  /\ CellsOf(q)[i][1] \in Range(q)
           /\ i % 2 = 1 => SubSeq(CellsOf(q), i, i + 1) = Cells(CellsOf(q)[i][1])
  <1>1. /\ Len(q) \in Nat /\ i \in 1..(2 * Len(q))
        /\ CellsOf(q) \in Seq(Cell) /\ Len(CellsOf(q)) = 2 * Len(q)
    BY CellsOfType
  <1>2. PICK k \in 1..Len(q) : \/ i = 2 * k - 1 /\ i % 2 = 1 /\ (i + 1) \div 2 = k
                               \/ i = 2 * k /\ i % 2 = 0 /\ i \div 2 = k
    BY <1>1, Halves, Zenon
  <1>3. /\ CellsOf(q)[2 * k - 1] = <<q[k], "size">>
        /\ CellsOf(q)[2 * k] = <<q[k], "payload">>
    BY CellsOfType
  <1>4. CellsOf(q)[i][1] = q[k] /\ q[k] \in Range(q)
    BY <1>2, <1>3 DEF Range
  <1>5. ASSUME i % 2 = 1
        PROVE  SubSeq(CellsOf(q), i, i + 1) = Cells(q[k])
    <2>1. i = 2 * k - 1 /\ i + 1 = 2 * k /\ i + 1 \in 1..(2 * Len(q)) /\ i \in Nat
      BY <1>1, <1>2, <1>5
    <2>. DEFINE cells == CellsOf(q)
    <2>2. cells \in Seq(Cell) /\ Len(cells) = 2 * Len(q)
      BY <1>1
    <2>3. cells[i] = <<q[k], "size">> /\ cells[i + 1] = <<q[k], "payload">>
      BY <1>3, <2>1
    <2>. HIDE DEF cells
    <2>4. SubSeq(cells, i, i + 1) \in Seq(Cell) /\ Len(SubSeq(cells, i, i + 1)) = 2
      BY <1>1, <2>1, <2>2
    <2>5. SubSeq(cells, i, i + 1)[1] = cells[i] /\ SubSeq(cells, i, i + 1)[2] = cells[i + 1]
      BY <1>1, <2>1, <2>2
    <2>6. /\ Cells(q[k]) \in Seq(Cell) /\ Len(Cells(q[k])) = 2
          /\ Cells(q[k])[1] = <<q[k], "size">> /\ Cells(q[k])[2] = <<q[k], "payload">>
      BY CellsType DEF Cells
    <2>7. \A j \in 1..2 : j = 1 \/ j = 2
      OBVIOUS
    <2>8. SubSeq(cells, i, i + 1) = Cells(q[k])
      <3>1. \A s, u \in Seq(Cell) : Len(s) = 2 /\ Len(u) = 2 /\ s[1] = u[1] /\ s[2] = u[2] => s = u
        BY <2>7
      <3>. QED
        BY <2>3, <2>4, <2>5, <2>6, <3>1, Zenon
    <2>. QED
      BY <2>8 DEF cells
  <1>. QED
    BY <1>4, <1>5

(* Until an append fails, every record of the extract is untaken, in a     *)
(* worker's hand, or once, whole and in order, in its bucket; a bucket     *)
(* this run has opened holds nothing else.  Whatever the directory held,   *)
(* and whichever extract it held it of.                                    *)
THEOREM NothingIsLost == Spec => []NothingLost
  <1>1. SInv => NothingLost
    <2>. SUFFICES ASSUME SInv, phase \in {"extract", "flush", "read"}, ~error
                  PROVE  /\ \A r \in Records : \A p \in {"size", "payload"} :
                               Occurrences(BucketOf(r), <<r, p>>)
                                 = IF r \in extract \ pending /\ r \notin Range(hand) THEN 1 ELSE 0
                         /\ \A b \in Buckets : \A i \in DOMAIN Spilled(b) :
                               /\ BucketOf(Spilled(b)[i][1]) = b
                               /\ i % 2 = 1 => SubSeq(Spilled(b), i, i + 1) = Cells(Spilled(b)[i][1])
      BY Zenon DEF NothingLost
    <2>1. ASSUME NEW b \in Buckets
          PROVE  \E q \in Seq(Records) :
                    Distinct(q) /\ Range(q) = Home(b) /\ Spilled(b) = CellsOf(q)
      BY DEF SInv, BucketsHoldOnce, HoldsOnce
    <2>2. ASSUME NEW r \in Records, NEW p \in {"size", "payload"}
          PROVE  Occurrences(BucketOf(r), <<r, p>>)
                   = IF r \in extract \ pending /\ r \notin Range(hand) THEN 1 ELSE 0
      <3>1. PICK q \in Seq(Records) :
               Distinct(q) /\ Range(q) = Home(BucketOf(r)) /\ Spilled(BucketOf(r)) = CellsOf(q)
        BY <2>1, SpillConstants
      <3>2. r \in Home(BucketOf(r)) <=> r \in extract \ pending /\ r \notin Range(hand)
        BY DEF Home, Of
      <3>3. Occurrences(BucketOf(r), <<r, p>>) = IF r \in Range(q) THEN 1 ELSE 0
        <4>1. Cardinality({i \in DOMAIN CellsOf(q) : CellsOf(q)[i] = <<r, p>>})
                = IF r \in Range(q) THEN 1 ELSE 0
          BY <2>2, <3>1, CellPlaces, Zenon
        <4>. QED
          BY <3>1, <4>1, Zenon DEF Occurrences
      <3>. QED
        BY <3>1, <3>2, <3>3
    <2>3. ASSUME NEW b \in Buckets, NEW i \in DOMAIN Spilled(b)
          PROVE  /\ BucketOf(Spilled(b)[i][1]) = b
                 /\ i % 2 = 1 => SubSeq(Spilled(b), i, i + 1) = Cells(Spilled(b)[i][1])
      <3>1. PICK q \in Seq(Records) :
               Distinct(q) /\ Range(q) = Home(b) /\ Spilled(b) = CellsOf(q)
        BY <2>1
      <3>2. CellsOf(q)[i][1] \in Range(q)
            /\ (i % 2 = 1 => SubSeq(CellsOf(q), i, i + 1) = Cells(CellsOf(q)[i][1]))
        BY <2>3, <3>1, CellsInOrder
      <3>. QED
        BY <3>1, <3>2 DEF Home, Of
    <2>. QED
      BY <2>2, <2>3
  <1>. QED
    BY <1>1, SInvHolds, PTL

-----------------------------------------------------------------------------
(* A bucket that holds each record once reads back as each record once.    *)
LEMMA CountedOnce ==
    ASSUME NEW q \in Seq(Records), Distinct(q)
    PROVE  ~Torn(CellsOf(q)) /\ Counted(CellsOf(q)) = OnceEach(Range(q))
  <1>1. Len(q) \in Nat /\ Len(CellsOf(q)) = 2 * Len(q)
    BY CellsOfType
  <1>2. ~Torn(CellsOf(q))
    BY <1>1 DEF Torn
  <1>3. {c[1] : c \in Range(CellsOf(q))} = Range(q)
    <2>1. \A c \in Range(CellsOf(q)) : c[1] \in Range(q)
      BY CellsInOrder DEF Range
    <2>2. ASSUME NEW r \in Range(q)
          PROVE  \E c \in Range(CellsOf(q)) : c[1] = r
      <3>1. PICK k \in 1..Len(q) : q[k] = r
        BY DEF Range
      <3>2. 2 * k \in DOMAIN CellsOf(q) /\ CellsOf(q)[2 * k] = <<q[k], "payload">>
        BY <1>1, CellsOfType
      <3>3. <<q[k], "payload">> \in Range(CellsOf(q))
        BY <3>2, Zenon DEF Range
      <3>. QED
        BY <3>1, <3>3
    <2>. QED
      BY <2>1, <2>2
  <1>4. \A r : r \in Range(q) =>
           Cardinality({i \in DOMAIN CellsOf(q) : CellsOf(q)[i] = <<r, "payload">>}) = 1
    <2>. TAKE r
    <2>1. Cardinality({i \in DOMAIN CellsOf(q) : CellsOf(q)[i] = <<r, "payload">>})
             = IF r \in Range(q) THEN 1 ELSE 0
      BY CellPlaces, Zenon
    <2>. QED
      BY <2>1
  <1>. QED
    BY <1>2, <1>3, <1>4 DEF Counted, OnceEach

LEMMA OnceEachType ==
    /\ \A S \in SUBSET Records : OnceEach(S) # None
    /\ \A S, T : OnceEach(S) = OnceEach(T) => S = T
  <1>1. ASSUME NEW S \in SUBSET Records
        PROVE  OnceEach(S) # None
    <2>1. OnceEach(S) \in [S -> Nat]
      BY DEF OnceEach
    <2>. QED
      BY <2>1, SpillAssumption
  <1>2. ASSUME NEW S, NEW T, OnceEach(S) = OnceEach(T)
        PROVE  S = T
    <2>1. DOMAIN OnceEach(S) = S /\ DOMAIN OnceEach(T) = T
      BY DEF OnceEach
    <2>. QED
      BY <1>2, <2>1
  <1>. QED
    BY <1>1, <1>2

(* In stage 2 every record of the extract is home; a bucket it has records *)
(* for was opened in this run and its file is whole, and another has none. *)
LEMMA BucketsAreWhole ==
    ASSUME SInv, phase = "read", NEW b \in Buckets
    PROVE  /\ disk[b] = None => Of(b) = {}
           /\ FilesAreOfTheExtract /\ disk[b] # None =>
                 Of(b) # {} /\ ~Torn(disk[b]) /\ Counted(disk[b]) = OnceEach(Of(b))
  <1>1. Home(b) = Of(b)
    <2>1. \A x \in Records : x \notin Range(hand)
      BY SpillConstants DEF SInv, Stage1Types, HandsAreDistinct, JoinedAndFlushed, Range
    <2>. QED
      BY <2>1, SpillConstants DEF SInv, Stage1Types, JoinedAndFlushed, Home, Of
  <1>2. PICK q \in Seq(Records) : Distinct(q) /\ Range(q) = Of(b) /\ Spilled(b) = CellsOf(q)
    BY <1>1 DEF SInv, JoinedAndFlushed, BucketsHoldOnce, HoldsOnce
  <1>3. Spilled(b) = <<>> => Of(b) = {}
    <2>1. Len(q) \in Nat /\ Len(CellsOf(q)) = 2 * Len(q)
      BY CellsOfType
    <2>2. CellsOf(q) = <<>> => Len(q) = 0
      BY <2>1
    <2>3. Len(q) = 0 => Range(q) = {}
      BY DEF Range
    <2>. QED
      BY <1>2, <2>2, <2>3
  <1>4. ASSUME disk[b] = None
        PROVE  Of(b) = {}
    BY <1>3, <1>4 DEF SInv, MutexDiscipline, Spilled
  <1>5. ASSUME FilesAreOfTheExtract, disk[b] # None
        PROVE  Of(b) # {} /\ ~Torn(disk[b]) /\ Counted(disk[b]) = OnceEach(Of(b))
    <2>1. Of(b) # {}
      BY <1>5 DEF FilesAreOfTheExtract
    <2>2. buffer[b] = <<>>
      BY <1>3, <2>1 DEF SInv, JoinedAndFlushed, Spilled
    <2>3. disk[b] \in Seq(Cell) /\ buffer[b] # None
      BY <1>5, <2>2, NoCells, SpillConstants DEF SInv, Stage1Types
    <2>4. Spilled(b) = disk[b]
      <3>1. \A cells \in Seq(Cell) : cells \o <<>> = cells
        OBVIOUS
      <3>. QED
        BY <2>2, <2>3, <3>1, Zenon DEF Spilled
    <2>. QED
      BY <1>2, <2>1, <2>4, CountedOnce
  <1>. QED
    BY <1>4, <1>5

LEMMA InitTInv ==
    ASSUME Init
    PROVE  TInv
  <1>1. FilesAreOfTheExtract
    BY DEF Init, FilesAreOfTheExtract
  <1>2. Stage2Types
    BY DEF Init, Stage2Types
  <1>. QED
    BY <1>1, <1>2, InitSInv DEF TInv

(* What a worker writes of a bucket is a payload.                          *)
LEMMA PayloadOfTile ==
    ASSUME NEW S \in SUBSET Records, NEW recs \in SUBSET S
    PROVE  /\ Restrict(OnceEach(S), recs) \in Payloads
           /\ Restrict(OnceEach(S), recs) = OnceEach(recs)
  <1>1. Restrict(OnceEach(S), recs) = OnceEach(recs)
    BY DEF Restrict, OnceEach
  <1>2. OnceEach(recs) \in [recs -> Nat \ {0}] /\ recs \in SUBSET Records
    BY DEF OnceEach
  <1>. QED
    BY <1>1, <1>2 DEF Payloads

(* In a directory used for one extract each step keeps the types of stage  *)
(* 2 as well.                                                              *)
LEMMA StepTInv ==
    ASSUME TInv, SInv', [Next]_vars, ReuseForOther = FALSE
    PROVE  TInv'
  <1>1. CASE StartRun
    <2>1. FilesAreOfTheExtract'
      BY <1>1 DEF TInv, SInv, Stage1Types, StartRun, FilesAreOfTheExtract, Of
    <2>2. Stage2Types'
      BY <1>1 DEF StartRun, Stage2Types
    <2>. QED
      BY <2>1, <2>2 DEF TInv
  <1>2. ASSUME NEW w \in Workers, Open(w)
        PROVE  TInv'
    <2>1. /\ hand[w] \in Of(BucketOf(hand[w])) /\ extract' = extract
          /\ disk' = [disk EXCEPT ![BucketOf(hand[w])] = <<>>]
      BY <1>2, SpillConstants DEF TInv, SInv, Stage1Types, HandsAreDistinct, Open, Of
    <2>2. FilesAreOfTheExtract'
      BY <2>1 DEF TInv, SInv, Stage1Types, FilesAreOfTheExtract, Of
    <2>3. Stage2Types'
      BY <1>2 DEF TInv, Stage2Types, Open, stage2
    <2>. QED
      BY <2>2, <2>3 DEF TInv
  <1>3. ASSUME \A b \in Buckets : disk'[b] # None => disk[b] # None, extract' = extract, Stage2Types'
        PROVE  TInv'
    BY <1>3 DEF TInv, FilesAreOfTheExtract, Of
  <1>4. ASSUME NEW w \in Workers, Take(w) \/ Lock(w)
        PROVE  TInv'
    BY <1>3, <1>4 DEF TInv, Stage2Types, Take, Lock, stage2
  <1>5. ASSUME NEW w \in Workers, Write(w) \/ KeepError(w)
        PROVE  TInv'
    <2>1. BucketOf(hand[w]) \in Buckets
      BY <1>5, SpillConstants
         DEF TInv, SInv, Stage1Types, HandsAreDistinct, Write, KeepError, Fail
    <2>2. \/ UNCHANGED disk
          \/ /\ disk[BucketOf(hand[w])] # None
             /\ \E cells : disk' = [disk EXCEPT ![BucketOf(hand[w])] = cells]
      <3>1. pc[w] = "write" => disk[BucketOf(hand[w])] # None
        BY <2>1 DEF TInv, SInv, MutexDiscipline
      <3>2. CASE Write(w)
        BY <3>1, <3>2 DEF Write
      <3>3. CASE KeepError(w)
        <4>1. \/ UNCHANGED disk
              \/ /\ pc[w] = "write"
                 /\ \E n \in 0..(Len(Outgoing(w)) - 1) :
                       disk' = [disk EXCEPT ![BucketOf(hand[w])] =
                                   disk[BucketOf(hand[w])] \o SubSeq(Outgoing(w), 1, n)]
          BY <3>3 DEF KeepError, Fail
        <4>. QED
          BY <3>1, <4>1
      <3>. QED
        BY <1>5, <3>2, <3>3
    <2>3. \A b \in Buckets : disk'[b] # None => disk[b] # None
      BY <2>1, <2>2 DEF TInv, SInv, Stage1Types
    <2>. QED
      BY <1>3, <1>5, <2>3 DEF TInv, Stage2Types, Write, KeepError, stage2
  <1>6. ASSUME Finish \/ FlushBucket
        PROVE  TInv'
    <2>1. cursor \in Buckets \/ Finish
      BY <1>6, SpillConstants DEF TInv, SInv, Stage1Types, FlushBucket, Buckets
    <2>2. \A b \in Buckets : buffer[b] # None => disk[b] # None
      BY DEF TInv, SInv, MutexDiscipline
    <2>3. \A b \in Buckets : disk'[b] # None => disk[b] # None
      BY <1>6, <2>1, <2>2 DEF TInv, SInv, Stage1Types, Finish, FlushBucket, Dropped
    <2>. QED
      BY <1>3, <1>6, <2>3 DEF TInv, Stage2Types, Finish, FlushBucket, stage2
  <1>7. ASSUME BeginStage2 \/ SkipBucket \/ Finalize \/ Kill
        PROVE  TInv'
    BY <1>3, <1>7 DEF TInv, Stage2Types, BeginStage2, SkipBucket, Finalize, Kill, stage2
  <1>8. ASSUME NEW w \in Workers, LoadBucket(w)
        PROVE  TInv'
    <2>1. PICK b \in Buckets : b = cursor
      BY <1>8, SpillConstants DEF TInv, SInv, Stage1Types, LoadBucket, Buckets
    <2>2. loaded' = [loaded EXCEPT ![w] = OnceEach(Of(b))]
      BY <1>8, <2>1, BucketsAreWhole DEF TInv, LoadBucket
    <2>3. Of(b) \in SUBSET Records
      BY SpillConstants DEF TInv, SInv, Stage1Types, Of
    <2>. QED
      BY <1>3, <1>8, <2>2, <2>3 DEF TInv, Stage2Types, LoadBucket
  <1>9. ASSUME NEW w \in Workers, WriteTiles(w)
        PROVE  TInv'
    <2>1. PICK S \in SUBSET Records : loaded[w] = OnceEach(S)
      BY <1>9 DEF TInv, Stage2Types, WriteTiles
    <2>2. ASSUME NEW t \in TileKeys, NEW recs \in SUBSET S
          PROVE  Append(archive[t], Restrict(OnceEach(S), recs)) \in Seq(Payloads)
      <3>1. archive[t] \in Seq(Payloads) /\ Restrict(OnceEach(S), recs) \in Payloads
        BY PayloadOfTile DEF TInv, Stage2Types
      <3>. QED
        BY <3>1
    <2>3. DOMAIN loaded[w] = S
      BY <2>1 DEF OnceEach
    <2>4. archive' \in [TileKeys -> Seq(Payloads)]
      BY <1>9, <2>1, <2>2, <2>3 DEF TInv, Stage2Types, WriteTiles
    <2>. QED
      BY <1>3, <1>9, <2>4 DEF TInv, Stage2Types, WriteTiles
  <1>10. CASE UNCHANGED vars
    BY <1>3, <1>10 DEF TInv, Stage2Types, vars, stage2
  <1>. QED
    BY <1>1, <1>2, <1>4, <1>5, <1>6, <1>7, <1>8, <1>9, <1>10 DEF Next, Work, Main

THEOREM TInvHolds ==
    ASSUME ReuseForOther = FALSE
    PROVE  Spec => []TInv
  <1>1. Init => TInv
    BY InitTInv
  <1>2. TInv /\ SInv' /\ [Next]_vars => TInv'
    BY StepTInv
  <1>. QED
    BY <1>1, <1>2, SInvHolds, PTL DEF Spec

(* Every variable of the spill has its type, in a directory that is not    *)
(* reused for another extract: what a worker reads of a bucket and writes  *)
(* for a tile has each of its records at least once, in every run and      *)
(* whichever runs died before it.                                          *)
THEOREM SpillTypes ==
    ASSUME ReuseForOther = FALSE
    PROVE  Spec => []TypeOK
  <1>1. TInv => TypeOK
    <2>. SUFFICES ASSUME TInv
                  PROVE  TypeOK
      OBVIOUS
    <2>1. /\ runs \in 1..MaxRuns /\ extract \in Extracts
          /\ phase \in {"extract", "flush", "read", "wrote", "dead"}
          /\ \A b \in Buckets : disk[b] = None \/ disk[b] \in Seq(Cell)
          /\ pending \subseteq Records
          /\ hand \in [Workers -> Records \cup {None}]
          /\ pc \in [Workers -> {"idle", "lock", "open", "write"}]
          /\ holder \in [Buckets -> Workers \cup {None}]
          /\ error \in BOOLEAN /\ cursor \in 0..BucketCount /\ skipped \subseteq Buckets
      BY SpillConstants DEF TInv, SInv, Stage1Types
    <2>2. \A b \in Buckets :
             buffer[b] = None \/ (buffer[b] \in Seq(Cell) /\ Len(buffer[b]) <= BufferSize)
      BY DEF TInv, SInv, Stage1Types, MutexDiscipline
    <2>3. \A w \in Workers : loaded[w] = None \/ IsPayload(loaded[w])
      BY DEF TInv, Stage2Types, IsPayload, OnceEach
    <2>4. \A p \in Payloads : IsPayload(p)
      BY DEF Payloads, IsPayload
    <2>5. \A t \in TileKeys : \A i \in DOMAIN archive[t] : IsPayload(archive[t][i])
      BY <2>4 DEF TInv, Stage2Types
    <2>. QED
      BY <2>1, <2>2, <2>3, <2>5 DEF TypeOK
  <1>. QED
    BY <1>1, TInvHolds, PTL

-----------------------------------------------------------------------------
(* The tiles of a bucket are those of its records.                         *)
LEMMA TileOfBucket ==
    ASSUME TInv, NEW b \in Buckets, NEW t \in TileKeys
    PROVE  /\ Route[t] \in Buckets
           /\ Of(b) \in SUBSET Records
           /\ {r \in Of(b) : TileOf[r] = t}
                 = IF Route[t] = b THEN {r \in extract : TileOf[r] = t} ELSE {}
  BY SpillConstants DEF TInv, SInv, Stage1Types, TileKeys, Of, BucketOf

(* Two buckets have no record in common.                                   *)
LEMMA BucketsAreApart ==
    ASSUME NEW b \in Buckets, NEW c \in Buckets, b # c, Of(b) # {}
    PROVE  OnceEach(Of(b)) # OnceEach(Of(c))
  BY OnceEachType DEF Of

LEMMA LoadRInv ==
    ASSUME RInv, NEW w \in Workers, LoadBucket(w), TInv'
    PROVE  RInv'
  <1>1. PICK b \in Buckets : b = cursor
    BY SpillConstants DEF RInv, TInv, SInv, Stage1Types, LoadBucket, Buckets
  <1>2. /\ loaded' = [loaded EXCEPT ![w] = OnceEach(Of(b))] /\ loaded[w] = None /\ Of(b) # {}
        /\ cursor' = b + 1 /\ phase = "read" /\ phase' = "read"
        /\ UNCHANGED <<extract, archive>>
    BY <1>1, BucketsAreWhole DEF RInv, TInv, LoadBucket
  <1>3. OnceEach(Of(b)) # None /\ loaded \in [Workers -> {OnceEach(S) : S \in SUBSET Records} \cup {None}]
    BY OnceEachType, SpillConstants DEF RInv, TInv, SInv, Stage1Types, Stage2Types, Of
  <1>4. \A c \in Buckets : c < b \/ c = b \/ ~(c < b + 1)
    BY DEF Buckets
  <1>5. \A c \in Buckets : c # b => OnceEach(Of(b)) # OnceEach(Of(c))
    BY <1>2, BucketsAreApart
  <1>6. \A c \in Buckets : Of(c)' = Of(c)
    BY <1>2 DEF Of
  <1>7. \A v \in Workers : loaded'[v] = IF v = w THEN OnceEach(Of(b)) ELSE loaded[v]
    BY <1>2, <1>3
  <1>8. \A v \in Workers : loaded[v] # OnceEach(Of(b))
    <2>1. ASSUME NEW v \in Workers, loaded[v] # None
          PROVE  \E c \in Buckets : c < b /\ loaded[v] = OnceEach(Of(c))
      BY <1>1, <1>2, <2>1 DEF RInv, LoadedAreBuckets, Has
    <2>2. \A c \in Buckets : c < b => c # b
      BY DEF Buckets
    <2>. QED
      BY <1>3, <1>5, <2>1, <2>2
  <1>9. LoadedAreBuckets'
    <2>1. ASSUME NEW v \in Workers, loaded'[v] # None
          PROVE  \E c \in Buckets : c < b + 1 /\ Of(c) # {} /\ loaded'[v] = OnceEach(Of(c))
      <3>1. CASE v = w
        <4>1. b < b + 1
          BY DEF Buckets
        <4>. QED
          BY <1>2, <1>7, <3>1, <4>1
      <3>2. CASE v # w
        <4>1. PICK c \in Buckets : c < b /\ Of(c) # {} /\ loaded[v] = OnceEach(Of(c))
          BY <1>1, <1>2, <1>7, <2>1, <3>2 DEF RInv, LoadedAreBuckets, Has
        <4>2. c < b + 1
          BY <4>1 DEF Buckets
        <4>. QED
          BY <1>7, <3>2, <4>1, <4>2
      <3>. QED
        BY <3>1, <3>2
    <2>2. \A u, v \in Workers : loaded'[u] = loaded'[v] /\ loaded'[u] # None => u = v
      BY <1>2, <1>7, <1>8 DEF RInv, LoadedAreBuckets
    <2>. QED
      BY <1>2, <1>6, <2>1, <2>2 DEF LoadedAreBuckets, Has
  <1>10. WrittenIsThrough'
    <2>1. ASSUME NEW c \in Buckets
          PROVE  Through(c)' <=> Through(c)
      <3>1. Through(c)' <=> c < b + 1 /\ \A v \in Workers : loaded'[v] # OnceEach(Of(c))
        BY <1>2, <1>6 DEF Through, Has
      <3>2. CASE c = b
        BY <1>1, <1>7, <3>1, <3>2 DEF Through, Buckets
      <3>3. CASE c # b
        <4>1. \A v \in Workers : loaded'[v] # OnceEach(Of(c)) <=> loaded[v] # OnceEach(Of(c))
          <5>1. Of(c) \in SUBSET Records
            BY SpillConstants DEF RInv, TInv, SInv, Stage1Types, Of
          <5>2. OnceEach(Of(c)) # None /\ OnceEach(Of(b)) # OnceEach(Of(c))
            BY <1>5, <3>3, <5>1, OnceEachType
          <5>. QED
            BY <1>2, <1>7, <5>2
        <4>2. c < b + 1 <=> c < b
          BY <3>3 DEF Buckets
        <4>. QED
          BY <1>1, <3>1, <4>1, <4>2 DEF Through, Has
      <3>. QED
        BY <3>2, <3>3
    <2>2. \A t \in TileKeys : Route[t] \in Buckets
      BY <1>1, TileOfBucket DEF RInv
    <2>3. archive' = [t \in TileKeys |->
                         IF Through(Route[t])' THEN Build!ArchiveOf(extract')[t] ELSE <<>>]
      BY <1>2, <2>1, <2>2 DEF RInv, WrittenIsThrough
    <2>. QED
      BY <1>2, <2>3 DEF WrittenIsThrough, Through, Has
  <1>. QED
    BY <1>9, <1>10 DEF RInv

LEMMA WriteTilesRInv ==
    ASSUME RInv, NEW w \in Workers, WriteTiles(w), TInv'
    PROVE  RInv'
  <1>1. PICK b \in Buckets : b < cursor /\ Of(b) # {} /\ loaded[w] = OnceEach(Of(b))
    BY DEF RInv, LoadedAreBuckets, Has, WriteTiles
  <1>2. /\ loaded' = [loaded EXCEPT ![w] = None] /\ phase = "read" /\ phase' = "read"
        /\ UNCHANGED <<extract, cursor>> /\ loaded[w] # None
    BY DEF WriteTiles
  <1>3. \A v \in Workers : loaded'[v] = IF v = w THEN None ELSE loaded[v]
    BY <1>2 DEF RInv, TInv, Stage2Types
  <1>4. \A c \in Buckets : Of(c)' = Of(c)
    BY <1>2 DEF Of
  <1>5. LoadedAreBuckets'
    <2>1. \A v \in Workers : loaded'[v] # None => v # w /\ loaded'[v] = loaded[v]
      BY <1>3
    <2>2. \A v \in Workers : loaded'[v] # None =>
             \E c \in Buckets : c < cursor' /\ Of(c)' # {} /\ loaded'[v] = OnceEach(Of(c)')
      BY <1>2, <1>4, <2>1 DEF RInv, LoadedAreBuckets, Has
    <2>3. \A u, v \in Workers : loaded'[u] = loaded'[v] /\ loaded'[u] # None => u = v
      BY <1>2, <2>1 DEF RInv, LoadedAreBuckets
    <2>. QED
      BY <2>2, <2>3 DEF LoadedAreBuckets, Has
  <1>6. ASSUME NEW c \in Buckets
        PROVE  Through(c)' <=> Through(c) \/ c = b
    <2>1. OnceEach(Of(c)) # None
      BY OnceEachType, SpillConstants DEF RInv, TInv, SInv, Stage1Types, Of
    <2>2. Through(c)' <=> c < cursor /\ \A v \in Workers : v # w => loaded[v] # OnceEach(Of(c))
      BY <1>2, <1>3, <1>4, <2>1 DEF Through, Has
    <2>3. CASE c = b
      BY <1>1, <1>2, <2>2, <2>3 DEF RInv, LoadedAreBuckets
    <2>4. CASE c # b
      BY <1>1, <2>2, <2>4, BucketsAreApart DEF Through, Has
    <2>. QED
      BY <2>3, <2>4
  <1>7. ASSUME NEW t \in TileKeys
        PROVE  archive'[t] = IF Through(Route[t])' THEN Build!ArchiveOf(extract)[t] ELSE <<>>
    <2>. DEFINE recs == {r \in Of(b) : TileOf[r] = t}
                all == {r \in extract : TileOf[r] = t}
    <2>1. DOMAIN loaded[w] = Of(b)
      BY <1>1 DEF OnceEach
    <2>2. archive'[t] = IF recs = {} THEN archive[t]
                                     ELSE Append(archive[t], Restrict(OnceEach(Of(b)), recs))
      BY <1>1, <2>1 DEF WriteTiles
    <2>3. archive[t] = IF Through(Route[t]) THEN Build!ArchiveOf(extract)[t] ELSE <<>>
      BY <1>2 DEF RInv, WrittenIsThrough
    <2>4. /\ Route[t] \in Buckets /\ Of(b) \in SUBSET Records
          /\ recs = IF Route[t] = b THEN all ELSE {}
      BY TileOfBucket DEF RInv
    <2>5. Build!ArchiveOf(extract)[t] = IF all = {} THEN <<>> ELSE <<OnceEach(all)>>
      BY DEF Build!ArchiveOf, Build!TileKeys, TileKeys, OnceEach
    <2>6. CASE Route[t] # b
      BY <1>6, <2>2, <2>3, <2>4, <2>6
    <2>7. CASE Route[t] = b
      <3>1. ~Through(b) /\ archive[t] = <<>> /\ recs = all /\ Through(Route[t])'
        BY <1>1, <1>6, <2>3, <2>4, <2>7 DEF Through, Has
      <3>2. Restrict(OnceEach(Of(b)), recs) = OnceEach(all)
        BY <2>4, <3>1, PayloadOfTile
      <3>3. archive'[t] = IF all = {} THEN <<>> ELSE Append(<<>>, OnceEach(all))
        BY <2>2, <3>1, <3>2
      <3>. HIDE DEF all, recs
      <3>. QED
        BY <2>5, <3>1, <3>3
    <2>. QED
      BY <2>6, <2>7
  <1>8. WrittenIsThrough'
    <2>1. archive' = [t \in TileKeys |->
                         IF Through(Route[t])' THEN Build!ArchiveOf(extract')[t] ELSE <<>>]
      BY <1>2, <1>7 DEF WriteTiles
    <2>. QED
      BY <1>2, <2>1 DEF WrittenIsThrough, Through, Has
  <1>. QED
    BY <1>5, <1>8 DEF RInv

(* A bucket passed over has no records, and so no tiles.                   *)
LEMMA SkipRInv ==
    ASSUME RInv, SkipBucket, TInv', OpenMayFail = FALSE
    PROVE  RInv'
  <1>1. PICK b \in Buckets : b = cursor
    BY SpillConstants DEF RInv, TInv, SInv, Stage1Types, SkipBucket, Buckets
  <1>2. /\ cursor' = b + 1 /\ phase = "read" /\ phase' = "read" /\ disk[b] = None
        /\ UNCHANGED <<extract, loaded, archive>>
    BY <1>1 DEF SkipBucket
  <1>3. Of(b) = {}
    BY <1>2, BucketsAreWhole DEF RInv, TInv
  <1>4. \A c \in Buckets : (c < b + 1 <=> c < b \/ c = b) /\ (c < b => c < b + 1)
    BY DEF Buckets
  <1>5. LoadedAreBuckets'
    BY <1>1, <1>2, <1>4 DEF RInv, LoadedAreBuckets, Has, Of
  <1>6. ASSUME NEW c \in Buckets
        PROVE  Through(c)' <=> Through(c) \/ c = b
    <2>1. \A v \in Workers : loaded[v] # OnceEach(Of(b))
      <3>1. OnceEach(Of(b)) # None
        BY OnceEachType, SpillConstants DEF RInv, TInv, SInv, Stage1Types, Of
      <3>2. ASSUME NEW v \in Workers, loaded[v] = OnceEach(Of(b))
            PROVE  FALSE
        <4>1. PICK d \in Buckets : Of(d) # {} /\ loaded[v] = OnceEach(Of(d))
          BY <1>2, <3>1, <3>2 DEF RInv, LoadedAreBuckets, Has
        <4>. QED
          BY <1>3, <3>2, <4>1, OnceEachType
      <3>. QED
        BY <3>2
    <2>. QED
      BY <1>1, <1>2, <1>4, <2>1 DEF Through, Has, Of
  <1>7. ASSUME NEW t \in TileKeys
        PROVE  archive[t] = IF Through(Route[t])' THEN Build!ArchiveOf(extract)[t] ELSE <<>>
    <2>1. archive[t] = IF Through(Route[t]) THEN Build!ArchiveOf(extract)[t] ELSE <<>>
      BY <1>2 DEF RInv, WrittenIsThrough
    <2>2. Route[t] \in Buckets /\ (Route[t] = b => {r \in extract : TileOf[r] = t} = {})
      BY <1>3, TileOfBucket DEF RInv
    <2>3. Route[t] = b => Build!ArchiveOf(extract)[t] = <<>>
      BY <2>2 DEF Build!ArchiveOf, Build!TileKeys, TileKeys
    <2>. QED
      BY <1>6, <2>1, <2>2, <2>3
  <1>8. WrittenIsThrough'
    <2>1. archive' = [t \in TileKeys |->
                         IF Through(Route[t])' THEN Build!ArchiveOf(extract')[t] ELSE <<>>]
      <3>1. DOMAIN archive = TileKeys /\ archive = [t \in TileKeys |-> archive[t]]
        BY DEF RInv, TInv, Stage2Types
      <3>. QED
        BY <1>2, <1>7, <3>1
    <2>. QED
      BY <1>2, <2>1 DEF WrittenIsThrough, Through, Has
  <1>. QED
    BY <1>5, <1>8 DEF RInv

LEMMA StepRInv ==
    ASSUME RInv, TInv', [Next]_vars, OpenMayFail = FALSE
    PROVE  RInv'
  <1>1. CASE StartRun
    BY <1>1 DEF RInv, StartRun, LoadedAreBuckets, WrittenIsThrough
  <1>2. ASSUME phase = phase', UNCHANGED <<extract, cursor, loaded, archive>>
        PROVE  RInv'
    BY <1>2 DEF RInv, LoadedAreBuckets, WrittenIsThrough, Through, Has, Of
  <1>3. ASSUME NEW w \in Workers, Take(w) \/ Lock(w) \/ Open(w) \/ Write(w) \/ KeepError(w)
        PROVE  RInv'
    BY <1>2, <1>3 DEF Take, Lock, Open, Write, KeepError, stage2
  <1>4. ASSUME phase' \in {"wrote", "dead"}
        PROVE  RInv'
    BY <1>4 DEF RInv, LoadedAreBuckets, WrittenIsThrough
  <1>5. ASSUME phase \in {"extract", "flush"}, phase' = "flush", UNCHANGED <<loaded, archive>>
        PROVE  RInv'
    BY <1>5 DEF RInv, LoadedAreBuckets, WrittenIsThrough
  <1>6. CASE Finish \/ FlushBucket
    BY <1>4, <1>5, <1>6 DEF Finish, FlushBucket, stage2
  <1>7. CASE BeginStage2
    <2>1. /\ phase = "flush" /\ phase' = "read" /\ cursor' = 0 /\ UNCHANGED <<extract, loaded, archive>>
      BY <1>7 DEF BeginStage2, stage2
    <2>2. \A b \in Buckets : ~(b < 0)
      BY DEF Buckets
    <2>3. \A b \in Buckets : ~Through(b)'
      BY <2>1, <2>2 DEF Through
    <2>4. \A t \in TileKeys : Route[t] \in Buckets
      BY SpillConstants DEF TileKeys, BucketOf
    <2>5. archive' = [t \in TileKeys |->
                         IF Through(Route[t])' THEN Build!ArchiveOf(extract')[t] ELSE <<>>]
      BY <2>1, <2>3, <2>4 DEF RInv, WrittenIsThrough
    <2>6. WrittenIsThrough'
      BY <2>1, <2>5 DEF WrittenIsThrough, Through, Has
    <2>7. LoadedAreBuckets'
      BY <2>1 DEF RInv, LoadedAreBuckets, WrittenIsThrough
    <2>. QED
      BY <2>6, <2>7 DEF RInv
  <1>8. CASE Finalize \/ Kill
    BY <1>4, <1>8 DEF Finalize, Kill
  <1>9. CASE UNCHANGED vars
    BY <1>2, <1>9 DEF vars, stage2
  <1>. QED
    BY <1>1, <1>3, <1>6, <1>7, <1>8, <1>9, SkipRInv, LoadRInv, WriteTilesRInv DEF Next, Work, Main

THEOREM RInvHolds ==
    ASSUME ReuseForOther = FALSE, OpenMayFail = FALSE
    PROVE  Spec => []RInv
  <1>1. Init => RInv
    BY InitTInv DEF Init, RInv, LoadedAreBuckets, WrittenIsThrough
  <1>2. RInv /\ TInv' /\ [Next]_vars => RInv'
    BY StepRInv
  <1>. QED
    BY <1>1, <1>2, TInvHolds, PTL DEF Spec

-----------------------------------------------------------------------------
(* The run as ArchiveBuild sees it.                                        *)
Status == IF phase \in {"wrote", "dead"} THEN phase ELSE "running"
Announced == IF phase = "wrote" THEN archive ELSE [t \in {TileOf[r] : r \in Records} |-> <<>>]

(* When every bucket is through, the archive is that of the extract.       *)
LEMMA AllAreThrough ==
    ASSUME RInv, Finalize
    PROVE  archive = Build!ArchiveOf(extract)
  <1>1. \A b \in Buckets : b < cursor
    BY SpillConstants DEF Finalize, Buckets
  <1>2. \A b \in Buckets, w \in Workers : ~Has(w, b)
    <2>1. \A b \in Buckets : OnceEach(Of(b)) # None
      BY OnceEachType, SpillConstants DEF RInv, TInv, SInv, Stage1Types, Of
    <2>. QED
      BY <2>1 DEF Finalize, Has
  <1>3. \A t \in TileKeys : Through(Route[t])
    BY <1>1, <1>2, SpillConstants DEF TileKeys, BucketOf, Through
  <1>. QED
    BY <1>3 DEF RInv, WrittenIsThrough, Finalize, Build!ArchiveOf, Build!TileKeys, TileKeys

(* A step of a run in progress is none of ArchiveBuild, or the run's death *)
(* or its end.                                                             *)
LEMMA StepIsBuild ==
    ASSUME RInv, [Next]_vars
    PROVE  [Build!Next]_<<extract, Status, Announced>>
  <1>. USE DEF Status, Announced
  <1>1. CASE StartRun
    BY <1>1 DEF StartRun, Build!Next, Build!Restart, Build!Nothing, Build!TileKeys
  <1>2. CASE Finalize
    <2>1. archive = Build!ArchiveOf(extract)
      BY <1>2, AllAreThrough
    <2>2. phase = "read" /\ phase' = "wrote" /\ UNCHANGED <<extract, archive>>
      BY <1>2 DEF Finalize, stage2
    <2>3. Build!Announce
      BY <2>1, <2>2 DEF Build!Announce
    <2>. QED
      BY <2>3 DEF Build!Next
  <1>3. ASSUME phase \notin {"wrote", "dead"}, phase' = "dead", UNCHANGED extract
        PROVE  Build!Next
    BY <1>3 DEF Build!Next, Build!Die
  <1>4. ASSUME phase \notin {"wrote", "dead"}, phase' \notin {"wrote", "dead"}, UNCHANGED extract
        PROVE  UNCHANGED <<extract, Status, Announced>>
    BY <1>4
  <1>5. CASE \E w \in Workers : Work(w)
    BY <1>3, <1>4, <1>5 DEF Work, Take, Lock, Open, Write, KeepError, LoadBucket, WriteTiles
  <1>6. CASE Finish \/ FlushBucket \/ BeginStage2 \/ SkipBucket \/ Kill
    BY <1>3, <1>4, <1>6 DEF Finish, FlushBucket, BeginStage2, SkipBucket, Kill
  <1>7. CASE UNCHANGED vars
    BY <1>7 DEF vars, stage2
  <1>. QED
    BY <1>1, <1>2, <1>5, <1>6, <1>7 DEF Next, Main

(* A run keeps the promise of ArchiveBuild, whatever writes fail and       *)
(* whenever it is killed, and whichever runs of the extract died before it *)
(* in the same directory: the archive it announces holds every record of   *)
(* its extract once, grouped by tile, and nothing else.                    *)
THEOREM BuildIsKept ==
    ASSUME ReuseForOther = FALSE, OpenMayFail = FALSE
    PROVE  Spec => BuildSpec
  <1>1. Init => Build!Init
    BY DEF Init, Build!Init, Build!Nothing, Build!TileKeys
  <1>2. RInv /\ [Next]_vars => [Build!Next]_<<extract, Status, Announced>>
    BY StepIsBuild
  <1>. QED
    BY <1>1, <1>2, RInvHolds, PTL DEF Spec, BuildSpec, Build!Spec, Status, Announced
=============================================================================
