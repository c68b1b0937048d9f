---------------------------- MODULE SpillBuckets ----------------------------
(***************************************************************************)
(* The spill between the two stages of build_tiles: BucketWriter and       *)
(* BucketReader of cache/src/bucket.rs, SpillWriter and SpillReader of     *)
(* build_tiles/src/tiler/spill.rs, and the part of main.rs that joins      *)
(* them.  Workers append the records of the extract to bucket files, each  *)
(* behind a mutex and a write buffer; the buffers are flushed; workers     *)
(* read the buckets back, group their records by tile and write the tiles  *)
(* into the archive.                                                       *)
(*                                                                         *)
(* The bucket directory outlives a run: a run may be killed or panic, and  *)
(* the next one may be pointed at the same directory.                      *)
(***************************************************************************)
EXTENDS Integers, SequencesExt

CONSTANTS
    Workers,        \* threads of the rayon pool
    BucketCount,    \* TileParams::bucket_count
    Records, TileOf, Extracts,      \* as in ArchiveBuild
    Route,          \* TileParams::route: tile -> bucket
    BufferSize,     \* BUCKET_BUF, in cells
    OpenMayFail,    \* whether stage 2 may fail to open an existing bucket
    ReuseForOther,  \* whether a directory may be reused for another extract
    MaxRuns,        \* bound on the number of runs
    None

Buckets == 0..(BucketCount - 1)

(* A record on disk: its length prefix and its payload.                    *)
Cell == Records \X {"size", "payload"}
Cells(r) == <<<<r, "size">>, <<r, "payload">>>>

ASSUME SpillAssumption ==
    /\ BucketCount \in Nat \ {0}
    /\ DOMAIN TileOf = Records
    /\ Extracts \subseteq SUBSET Records
    /\ \A r \in Records : Route[TileOf[r]] \in Buckets
    /\ BufferSize \in Nat \ {0}
    /\ None \notin Records \cup Workers \cup Seq(Cell)
    /\ \A S \in SUBSET Records : None \notin [S -> Nat]
    /\ {OpenMayFail, ReuseForOther} \subseteq BOOLEAN
    /\ MaxRuns \in Nat \ {0}

VARIABLES
    runs,           \* how many runs were started
    extract,        \* the records of this run's extract
    phase,          \* where main is
    disk,           \* bucket files: their cells, None if there is no file
    pending,        \* records no worker has taken yet
    hand,           \* the record a worker is appending
    pc,             \* where in append it is
    holder,         \* the worker holding a bucket's mutex
    buffer,         \* a bucket's BufWriter: what it buffers, None if not open
    error,          \* BucketWriter::error is set
    cursor,         \* next bucket: of finish's loop, of BucketReader
    loaded,         \* what a worker has read of a bucket, None if nothing
    skipped,        \* buckets BucketReader has passed over
    archive         \* the payloads written for each tile

stage1 == <<pending, hand, pc, holder, error>>
stage2 == <<loaded, skipped, archive>>
vars == <<runs, extract, phase, disk, stage1, buffer, cursor, stage2>>

Build == INSTANCE ArchiveBuild WITH
    status <- IF phase \in {"wrote", "dead"} THEN phase ELSE "running",
    archive <- IF phase = "wrote" THEN archive ELSE [t \in {TileOf[r] : r \in Records} |-> <<>>]

TileKeys == {TileOf[r] : r \in Records}
BucketOf(r) == Route[TileOf[r]]

-----------------------------------------------------------------------------
Init ==
    /\ runs = 1
    /\ extract \in Extracts
    /\ pending = extract
    /\ phase = "extract"
    /\ disk = [b \in Buckets |-> None]
    /\ hand = [w \in Workers |-> None]
    /\ pc = [w \in Workers |-> "idle"]
    /\ holder = [b \in Buckets |-> None]
    /\ buffer = [b \in Buckets |-> None]
    /\ error = FALSE
    /\ cursor = 0
    /\ loaded = [w \in Workers |-> None]
    /\ skipped = {}
    /\ archive = [t \in TileKeys |-> <<>>]

(* The next run, its memory new: BucketWriter::create and BucketReader     *)
(* touch no bucket file.  The user has emptied the directory, or not.      *)
StartRun ==
    /\ phase \in {"wrote", "dead"}
    /\ runs < MaxRuns
    /\ runs' = runs + 1
    /\ extract' \in Extracts
    /\ pending' = extract'
    /\ phase' = "extract"
    /\ \/ disk' = [b \in Buckets |-> None]
       \/ (ReuseForOther \/ extract' = extract) /\ UNCHANGED disk
    /\ hand' = [w \in Workers |-> None]
    /\ pc' = [w \in Workers |-> "idle"]
    /\ holder' = [b \in Buckets |-> None]
    /\ buffer' = [b \in Buckets |-> None]
    /\ error' = FALSE
    /\ cursor' = 0
    /\ loaded' = [w \in Workers |-> None]
    /\ skipped' = {}
    /\ archive' = [t \in TileKeys |-> <<>>]

(* The process is killed; what the buffers held is lost.                   *)
Kill ==
    /\ phase \notin {"wrote", "dead"}
    /\ phase' = "dead"
    /\ UNCHANGED <<runs, extract, disk, stage1, buffer, cursor, stage2>>

(* What panicking leaves of the buckets: dropping a BufWriter flushes it.  *)
Dropped == [b \in Buckets |-> IF buffer[b] = None THEN disk[b] ELSE disk[b] \o buffer[b]]

-----------------------------------------------------------------------------
(* A worker takes a record of the shapes it clips.                         *)
Take(w) ==
    /\ phase = "extract"
    /\ pc[w] = "idle"
    /\ \E r \in pending :
        /\ hand' = [hand EXCEPT ![w] = r]
        /\ pending' = pending \ {r}
    /\ pc' = [pc EXCEPT ![w] = "lock"]
    /\ UNCHANGED <<runs, extract, phase, disk, holder, buffer, error, cursor, stage2>>

(* The bucket's mutex is taken.  Fault: it is not waited for.              *)
NoMutex(b) == TRUE

Free(b) == holder[b] = None

Lock(w) ==
    /\ phase = "extract"
    /\ pc[w] = "lock"
    /\ Free(BucketOf(hand[w]))
    /\ holder' = [holder EXCEPT ![BucketOf(hand[w])] = w]
    /\ pc' = [pc EXCEPT ![w] = IF buffer[BucketOf(hand[w])] = None THEN "open" ELSE "write"]
    /\ UNCHANGED <<runs, extract, phase, disk, pending, hand, buffer, error, cursor, stage2>>

(* The bucket's first write of this run opens its file, truncating it.     *)
(* Fault: what an earlier run left is kept (append instead of truncate).   *)
OpenToAppend(w) ==
    LET b == BucketOf(hand[w]) IN
    /\ phase = "extract"
    /\ pc[w] = "open"
    /\ disk' = [disk EXCEPT ![b] = IF @ = None THEN <<>> ELSE @]
    /\ buffer' = [buffer EXCEPT ![b] = <<>>]
    /\ pc' = [pc EXCEPT ![w] = "write"]
    /\ UNCHANGED <<runs, extract, phase, pending, hand, holder, error, cursor, stage2>>

Open(w) ==
    LET b == BucketOf(hand[w]) IN
    /\ phase = "extract"
    /\ pc[w] = "open"
    /\ disk' = [disk EXCEPT ![b] = <<>>]
    /\ buffer' = [buffer EXCEPT ![b] = <<>>]
    /\ pc' = [pc EXCEPT ![w] = "write"]
    /\ UNCHANGED <<runs, extract, phase, pending, hand, holder, error, cursor, stage2>>

(* BufWriter::write_all: what of buffer and record goes to the file now.   *)
(* Fault: what the buffer holds already is not counted.                    *)
WholeBuffer(b) == BufferSize

Spare(b) == BufferSize - Len(buffer[b])
Flushes(w) == Len(Cells(hand[w])) > Spare(BucketOf(hand[w]))
Direct(w) == Len(Cells(hand[w])) >= BufferSize
Outgoing(w) ==
    (IF Flushes(w) THEN buffer[BucketOf(hand[w])] ELSE <<>>)
        \o (IF Direct(w) THEN Cells(hand[w]) ELSE <<>>)

(* The worker is done with its record and lets go of the bucket.           *)
(* Fault: the bucket stays locked.                                         *)
LeakGuard(w) == hand' = [hand EXCEPT ![w] = None] /\ UNCHANGED holder

Unlock(w) ==
    /\ holder' = [holder EXCEPT ![BucketOf(hand[w])] = None]
    /\ hand' = [hand EXCEPT ![w] = None]

Write(w) ==
    LET b == BucketOf(hand[w]) IN
    /\ phase = "extract"
    /\ pc[w] = "write"
    /\ disk' = [disk EXCEPT ![b] = @ \o Outgoing(w)]
    /\ buffer' = [buffer EXCEPT ![b] =
           (IF Flushes(w) THEN <<>> ELSE @) \o (IF Direct(w) THEN <<>> ELSE Cells(hand[w]))]
    /\ pc' = [pc EXCEPT ![w] = "idle"]
    /\ Unlock(w)
    /\ UNCHANGED <<runs, extract, phase, pending, error, cursor, stage2>>

(* try_append returns an error: the file cannot be opened, or only part of *)
(* what is due reaches it; a record that was to be buffered is not.  The   *)
(* error is kept for finish.                                               *)
Fail(w) ==
    LET b == BucketOf(hand[w]) IN
    \/ /\ pc[w] = "open"
       /\ UNCHANGED <<disk, buffer>>
    \/ /\ pc[w] = "write"
       /\ \E n \in 0..(Len(Outgoing(w)) - 1) :
           /\ disk' = [disk EXCEPT ![b] = @ \o SubSeq(Outgoing(w), 1, n)]
           /\ buffer' = [buffer EXCEPT ![b] = IF Flushes(w) THEN SubSeq(@, n + 1, Len(@)) ELSE @]

KeepError(w) ==
    /\ phase = "extract"
    /\ Fail(w)
    /\ pc' = [pc EXCEPT ![w] = "idle"]
    /\ error' = TRUE
    /\ Unlock(w)
    /\ UNCHANGED <<runs, extract, phase, pending, cursor, stage2>>

-----------------------------------------------------------------------------
(* The passes have joined their workers: BucketWriter::finish.  An append  *)
(* error is returned, and main panics on it.                               *)
Finish ==
    /\ phase = "extract"
    /\ pending = {}
    /\ \A w \in Workers : pc[w] = "idle"
    /\ IF error THEN phase' = "dead" /\ disk' = Dropped
                ELSE phase' = "flush" /\ UNCHANGED disk
    /\ UNCHANGED <<runs, extract, stage1, buffer, cursor, stage2>>

(* finish's loop: the next bucket is flushed if it was opened, and main    *)
(* panics if that fails.                                                   *)
FlushBucket ==
    /\ phase = "flush"
    /\ cursor < BucketCount
    /\ \/ /\ disk' = [disk EXCEPT ![cursor] = IF buffer[cursor] = None THEN @ ELSE @ \o buffer[cursor]]
          /\ buffer' = [buffer EXCEPT ![cursor] = IF @ = None THEN None ELSE <<>>]
          /\ cursor' = cursor + 1
          /\ UNCHANGED phase
       \/ /\ buffer[cursor] \notin {None, <<>>}
          /\ phase' = "dead"
          /\ disk' = [Dropped EXCEPT ![cursor] = disk[cursor]]
          /\ UNCHANGED <<buffer, cursor>>
    /\ UNCHANGED <<runs, extract, stage1, stage2>>

(* PmTilesWriter and BucketReader are created.                             *)
BeginStage2 ==
    /\ phase = "flush"
    /\ cursor = BucketCount
    /\ phase' = "read"
    /\ cursor' = 0
    /\ UNCHANGED <<runs, extract, disk, stage1, buffer, stage2>>

(* BucketReader::next passes over a bucket it cannot open.                 *)
SkipBucket ==
    /\ phase = "read"
    /\ cursor < BucketCount
    /\ disk[cursor] = None \/ OpenMayFail
    /\ skipped' = skipped \cup {cursor}
    /\ cursor' = cursor + 1
    /\ UNCHANGED <<runs, extract, phase, disk, stage1, buffer, loaded, archive>>

(* SpillReader over a whole bucket: it panics on a record cut off in the   *)
(* middle.                                                                 *)
Torn(cells) == Len(cells) % 2 = 1

(* The records of a bucket file, and how often it has each.                *)
Counted(cells) ==
    [r \in {c[1] : c \in Range(cells)} |->
        Cardinality({i \in DOMAIN cells : cells[i] = <<r, "payload">>})]

LoadBucket(w) ==
    /\ phase = "read"
    /\ cursor < BucketCount
    /\ disk[cursor] # None
    /\ loaded[w] = None
    /\ IF Torn(disk[cursor])
       THEN phase' = "dead" /\ UNCHANGED loaded
       ELSE loaded' = [loaded EXCEPT ![w] = Counted(disk[cursor])] /\ UNCHANGED phase
    /\ cursor' = cursor + 1
    /\ UNCHANGED <<runs, extract, disk, stage1, buffer, skipped, archive>>

(* The bucket's records, grouped by tile, are written under the writer's   *)
(* lock.                                                                   *)
WriteTiles(w) ==
    /\ phase = "read"
    /\ loaded[w] # None
    /\ archive' = [t \in TileKeys |->
           LET recs == {r \in DOMAIN loaded[w] : TileOf[r] = t} IN
           IF recs = {} THEN archive[t] ELSE Append(archive[t], Restrict(loaded[w], recs))]
    /\ loaded' = [loaded EXCEPT ![w] = None]
    /\ UNCHANGED <<runs, extract, phase, disk, stage1, buffer, cursor, skipped>>

(* Every bucket is through; PmTilesWriter::finish, "Wrote ...".            *)
Finalize ==
    /\ phase = "read"
    /\ cursor = BucketCount
    /\ \A w \in Workers : loaded[w] = None
    /\ phase' = "wrote"
    /\ UNCHANGED <<runs, extract, disk, stage1, buffer, cursor, stage2>>

-----------------------------------------------------------------------------
Work(w) == Take(w) \/ Lock(w) \/ Open(w) \/ Write(w) \/ KeepError(w) \/ LoadBucket(w) \/ WriteTiles(w)

Main == Finish \/ FlushBucket \/ BeginStage2 \/ SkipBucket \/ Finalize

Next == (\E w \in Workers : Work(w)) \/ Main \/ Kill \/ StartRun

Spec == Init /\ [][Next]_vars

(* The pool's threads and main run on.                                     *)
FairSpec == Spec /\ WF_vars(Main) /\ \A w \in Workers : WF_vars(Work(w))

-----------------------------------------------------------------------------
IsPayload(p) == DOMAIN p \subseteq Records /\ \A r \in DOMAIN p : p[r] >= 1

(* Every variable has its type.                                            *)
TypeOK ==
    /\ runs \in 1..MaxRuns
    /\ extract \in Extracts
    /\ phase \in {"extract", "flush", "read", "wrote", "dead"}
    /\ \A b \in Buckets : disk[b] = None \/ disk[b] \in Seq(Cell)
    /\ pending \subseteq Records
    /\ hand \in [Workers -> Records \cup {None}]
    /\ pc \in [Workers -> {"idle", "lock", "open", "write"}]
    /\ holder \in [Buckets -> Workers \cup {None}]
    /\ \A b \in Buckets :
        buffer[b] = None \/ (buffer[b] \in Seq(Cell) /\ Len(buffer[b]) <= BufferSize)
    /\ error \in BOOLEAN
    /\ cursor \in 0..BucketCount
    /\ \A w \in Workers : loaded[w] = None \/ IsPayload(loaded[w])
    /\ skipped \subseteq Buckets
    /\ \A t \in TileKeys : \A i \in DOMAIN archive[t] : IsPayload(archive[t][i])

(* Until an append fails, every record of the extract is in exactly one    *)
(* place: not yet taken, in a worker's hand, or once, whole and in order,  *)
(* in its bucket's file and buffer together; and a bucket this run has     *)
(* opened holds nothing else.                                              *)
Spilled(b) == IF buffer[b] = None THEN <<>> ELSE disk[b] \o buffer[b]
Occurrences(b, c) == Cardinality({i \in DOMAIN Spilled(b) : Spilled(b)[i] = c})
NothingLost ==
    phase \in {"extract", "flush", "read"} /\ ~error =>
        /\ \A r \in Records :
            LET home == IF r \in extract \ pending /\ r \notin Range(hand) THEN 1 ELSE 0 IN
            \A p \in {"size", "payload"} : Occurrences(BucketOf(r), <<r, p>>) = home
        /\ \A b \in Buckets : \A i \in DOMAIN Spilled(b) :
            /\ BucketOf(Spilled(b)[i][1]) = b
            /\ i % 2 = 1 => SubSeq(Spilled(b), i, i + 1) = Cells(Spilled(b)[i][1])

(* The run keeps the promise of ArchiveBuild, with failing writes, kills,  *)
(* panics and reruns in between.                                           *)
BuildSpec == Build!Spec

(* A run comes to its end: no worker waits for a bucket for ever.          *)
RunEnds == phase = "extract" ~> phase \in {"wrote", "dead"}
=============================================================================
