------------------------------- MODULE PmTiles -------------------------------
(***************************************************************************)
(* A PMTiles archive from end to end: PmTilesWriter of                     *)
(* build_tiles/src/tiler/pmtiles.rs, whose `write` the workers of stage 2  *)
(* call in whatever order their buckets are done, and PmTilesReader of     *)
(* tiles/src/reader/pmtiles.rs, whose tasks share a cache of parsed leaf   *)
(* directories that is not locked across a read.                           *)
(*                                                                         *)
(* The file is its header and a sequence of cells: the bytes of the        *)
(* directories, the levels the metadata lists, the bytes of the tiles; the *)
(* header's 127 bytes are left out of all offsets.  The writer may be      *)
(* killed while it assembles the file, and the reader given what there is. *)
(***************************************************************************)
EXTENDS PmTilesCodec

CONSTANTS
    Archives,       \* what may be written: sets of tiles with their contents
    Size,           \* content -> its length in bytes
    Readers,        \* tasks that call tiles()
    Batches,        \* the batches they ask for
    Gap,            \* COALESCE_GAP
    LeafCap,        \* LEAF_CACHE_CAP
    Cuts,           \* bound on where a kill may cut the file off, in cells
    ReadMayFail,    \* whether a ranged read may fail by itself
    Failed          \* an io::Error

(* The tiles of the world: a level is 2^z tiles each way.                  *)
Tiles == {t \in [z : Nat, x : Nat, y : Nat] : t.x < 2^t.z /\ t.y < 2^t.z}

(* A range of the data section, the header as far as it is modelled, and   *)
(* the file: numbers, and the bytes of the contents.                       *)
Locations == [offset : Nat, length : Nat]
Headers == [root : Nat, metadata : Nat, leafOffset : Nat, leafLength : Nat,
            dataOffset : Nat, dataLength : Nat, numAddressed : Nat, numEntries : Nat,
            numContents : Nat, minZoom : Nat, maxZoom : Nat]
Cells == Nat \cup ((UNION {Range(a) : a \in Archives}) \X Nat)
PmFiles == [header : Headers \cup {None}, cells : Seq(Cells)]

(* zstd makes no empty blobs, so no content is empty.  The routes of the   *)
(* tiler and the ranges of the view are clamped to the world.              *)
ASSUME PmTilesAssumption ==
    /\ \A a \in Archives :
        /\ IsFiniteSet(DOMAIN a)
        /\ \A t \in DOMAIN a : t \in Tiles /\ Size[a[t]] \in Nat \ {0}
    /\ Batches \subseteq Seq(Tiles)
    /\ None \notin Batches /\ None \notin Locations
    /\ None \notin Headers /\ None \notin PmFiles
    /\ Gap \in Nat
    /\ LeafCap \in Nat
    /\ Cuts \subseteq Nat
    /\ ReadMayFail \in BOOLEAN

VARIABLES
    tiles,          \* the tiles to be written, with their contents
    phase,          \* where the archive is
    data,           \* the temp data file
    entries,        \* PmTilesWriter::entries
    dedup,          \* content -> offset it is stored at
    file,           \* the archive: header and cells
    header,         \* the reader's header, root directory and levels
    root,
    levels,
    leaves,         \* LeafCache: [offset, dir], least recently used first
    pc,             \* where each reading task is
    batch,          \* the tiles it was asked for
    located,        \* the data ranges found so far, None for an absent tile
    dir,            \* the directory its lookup is at
    pointer,        \* the leaf it reads
    result          \* its last answer

writer == <<data, entries, dedup>>
opened == <<header, root, levels>>
task == <<pc, batch, located, dir, pointer, result>>
vars == <<tiles, phase, writer, file, opened, leaves, task>>

Bytes(c) == [i \in 1..Size[c] |-> <<c, i>>]

Source == INSTANCE TileSource WITH
    Callers <- Readers,
    Contents <- {[t \in DOMAIN a |-> Bytes(a[t])] : a \in Archives},
    stored <- [t \in DOMAIN tiles |-> Bytes(tiles[t])],
    asked <- [k \in Readers |-> IF pc[k] = "idle" THEN None ELSE batch[k]]

-----------------------------------------------------------------------------
(* finish: the entries by tile id.                                         *)
ByTileId(es) == InOrder(Range(es), [e \in Range(es) |-> e.tile_id])

(* Each distinct content is laid out at its first appearance, and the      *)
(* offsets follow it.  Fault: its own length is counted in.                *)
FirstOf(es, i) == Min({j \in DOMAIN es : es[j].offset = es[i].offset})
Firsts(es) == {j \in DOMAIN es : FirstOf(es, j) = j}

EndOffset(es, i) ==
    SumFunctionOnSet([j \in DOMAIN es |-> es[j].length], {j \in Firsts(es) : j <= FirstOf(es, i)})

NewOffset(es, i) ==
    SumFunctionOnSet([j \in DOMAIN es |-> es[j].length], {j \in Firsts(es) : j < FirstOf(es, i)})

Clustered(es) == [i \in DOMAIN es |-> [es[i] EXCEPT !.offset = NewOffset(es, i)]]

(* The blobs in the order they are copied.  Fault: as they were written.   *)
TempFile(es) == data

CopiedData(es) ==
    LET plan == InOrder(Firsts(es), [i \in Firsts(es) |-> i]) IN
    FlattenSeq([n \in DOMAIN plan |->
        SubSeq(data, es[plan[n]].offset + 1, es[plan[n]].offset + es[plan[n]].length)])

(* Consecutive ids at one offset become a run.                             *)
(* Fault: the ids are not compared.                                        *)
SameOffset(run, e) == run.offset = e.offset

Extends(run, e) == run.offset = e.offset /\ run.tile_id + run.run_length = e.tile_id

Runs(es) ==
    FoldLeft(LAMBDA runs, e :
                 IF runs # <<>> /\ Extends(Last(runs), e)
                 THEN [runs EXCEPT ![Len(runs)].run_length = @ + 1]
                 ELSE Append(runs, e),
             <<>>, es)

(* num_addressed.  Fault: the entries are counted.                         *)
CountRuns(runs) == Len(runs)

Addressed(runs) == SumFunction([i \in DOMAIN runs |-> runs[i].run_length])

(* The header and the sections after it.                                   *)
Levels == {t.z : t \in DOMAIN tiles}

Assembled(runs, dirs, metadata, blobs) ==
    LET leafOffset == Len(dirs.root) + Len(metadata)
    IN  [header |-> [root |-> Len(dirs.root), metadata |-> Len(metadata),
                     leafOffset |-> leafOffset, leafLength |-> Len(dirs.leaves),
                     dataOffset |-> leafOffset + Len(dirs.leaves), dataLength |-> Len(data),
                     numAddressed |-> Addressed(runs), numEntries |-> Len(runs),
                     numContents |-> Cardinality(DOMAIN dedup),
                     minZoom |-> IF runs = <<>> THEN 0 ELSE Min(Levels),
                     maxZoom |-> IF runs = <<>> THEN 0 ELSE Max(Levels)],
         cells |-> dirs.root \o metadata \o dirs.leaves \o blobs]

Archive(sorted) ==
    LET runs == Runs(Clustered(sorted)) IN
    Assembled(runs, Directories(runs), InOrder(Levels, [z \in Levels |-> z]),
              CopiedData(sorted))

(* What a kill at any point of the copy leaves.                            *)
Torn(whole) ==
    {[header |-> None, cells |-> <<>>]}
        \cup {[whole EXCEPT !.cells = SubSeq(@, 1, n)] : n \in {c \in Cuts : c < Len(whole.cells)}}

Files(whole) == {whole} \cup Torn(whole)

-----------------------------------------------------------------------------
Init ==
    /\ tiles \in Archives
    /\ phase = "write"
    /\ data = <<>>
    /\ entries = <<>>
    /\ dedup = <<>>
    /\ file = None
    /\ header = None
    /\ root = None
    /\ levels = {}
    /\ leaves = <<>>
    /\ pc = [k \in Readers |-> "idle"]
    /\ batch = [k \in Readers |-> None]
    /\ located = [k \in Readers |-> <<>>]
    /\ dir = [k \in Readers |-> None]
    /\ pointer = [k \in Readers |-> None]
    /\ result = [k \in Readers |-> None]

(* PmTilesWriter::write of a tile that is still to come.                   *)
Write(t) ==
    LET c == tiles[t]
        known == c \in DOMAIN dedup
        offset == IF known THEN dedup[c] ELSE Len(data)
    IN  /\ phase = "write"
        /\ \A i \in DOMAIN entries : entries[i].tile_id # TileId(t)
        /\ data' = IF known THEN data ELSE data \o Bytes(c)
        /\ dedup' = [d \in DOMAIN dedup \cup {c} |-> IF d = c THEN offset ELSE dedup[d]]
        /\ entries' = Append(entries, Entry(TileId(t), offset, Size[c], 1))
        /\ UNCHANGED <<tiles, phase, file, opened, leaves, task>>

(* Stage 2 has joined: finish assembles the archive and main ends, or it   *)
(* is killed while it copies.                                              *)
Finish ==
    /\ phase = "write"
    /\ Len(entries) = Cardinality(DOMAIN tiles)
    /\ file' \in Files(Archive(ByTileId(entries)))
    /\ phase' = "closed"
    /\ data' = <<>> /\ entries' = <<>> /\ dedup' = <<>>
    /\ UNCHANGED <<tiles, opened, leaves, task>>

-----------------------------------------------------------------------------
(* read_range of a local file: the whole range or an error.                *)
InFile(offset, length) == offset + length <= Len(file.cells)
ReadRange(offset, length) == SubSeq(file.cells, offset + 1, offset + length)

(* parse_zoom_levels: an empty list does not parse, and the header's range *)
(* stands in for it.                                                       *)
ParseLevels(h) ==
    IF h.metadata = 0 THEN h.minZoom..h.maxZoom ELSE Range(ReadRange(h.root, h.metadata))

Readable == file.header # None /\ InFile(0, file.header.root + file.header.metadata)

(* PmTilesReader::open.                                                    *)
Open ==
    /\ phase = "closed"
    /\ \/ /\ Readable
          /\ header' = file.header
          /\ root' = ParseDirectory(ReadRange(0, header'.root))
          /\ levels' = ParseLevels(header')
          /\ phase' = "open"
       \/ /\ Readable => ReadMayFail
          /\ phase' = "unreadable"
          /\ UNCHANGED opened
    /\ UNCHANGED <<tiles, writer, file, leaves, task>>

(* tiles() is called; tile() is the call for one tile.                     *)
Ask(k, b) ==
    /\ phase = "open"
    /\ pc[k] = "idle"
    /\ pc' = [pc EXCEPT ![k] = "locate"]
    /\ batch' = [batch EXCEPT ![k] = b]
    /\ located' = [located EXCEPT ![k] = <<>>]
    /\ dir' = [dir EXCEPT ![k] = root]
    /\ result' = [result EXCEPT ![k] = None]
    /\ UNCHANGED <<tiles, phase, writer, file, opened, leaves, pointer>>

Cached(offset) == {i \in DOMAIN leaves : leaves[i].offset = offset}

(* LeafCache::get and insert: the leaf becomes the most recently used, and *)
(* the least recently used gives way.  Fault: what another task inserted   *)
(* meanwhile is not replaced.                                              *)
AllLeaves(offset) == leaves

OtherLeaves(offset) ==
    LET rest   == DOMAIN leaves \ Cached(offset)
        others == InOrder(rest, [i \in rest |-> i])
    IN  [n \in DOMAIN others |-> leaves[others[n]]]

MostRecent(offset, d) ==
    LET cache == Append(OtherLeaves(offset), [offset |-> offset, dir |-> d]) IN
    IF Len(cache) > LeafCap THEN Tail(cache) ELSE cache

(* The directory a cached leaf leads to.  Fault: the lookup stays where it *)
(* is.                                                                     *)
StayAt(k, i) == dir[k]

Descend(k, i) == leaves[i].dir

InLeaf(e) == e # None /\ IsLeaf(e)

(* One turn of locate's loop: the next tile of the batch is found, is      *)
(* absent, or is in a leaf.                                                *)
Locate(k) ==
    /\ pc[k] = "locate"
    /\ Len(located[k]) < Len(batch[k])
    /\ \E id \in {TileId(batch[k][Len(located[k]) + 1])} : \E e \in {FindEntry(dir[k], id)} :
        \/ /\ ~InLeaf(e)
           /\ located' = [located EXCEPT ![k] = Append(@,
                  IF e = None THEN None ELSE [offset |-> e.offset, length |-> e.length])]
           /\ dir' = [dir EXCEPT ![k] = root]
           /\ UNCHANGED <<pc, pointer, leaves>>
        \/ /\ InLeaf(e)
           /\ \E i \in Cached(e.offset) :
                /\ dir' = [dir EXCEPT ![k] = Descend(k, i)]
                /\ leaves' = MostRecent(e.offset, leaves[i].dir)
           /\ UNCHANGED <<pc, pointer, located>>
        \/ /\ InLeaf(e)
           /\ Cached(e.offset) = {}
           /\ pc' = [pc EXCEPT ![k] = "read"]
           /\ pointer' = [pointer EXCEPT ![k] = e]
           /\ UNCHANGED <<located, dir, leaves>>
    /\ UNCHANGED <<tiles, phase, writer, file, opened, batch, result>>

(* The leaf is read and parsed, without the lock.                          *)
LeafOffset(k) == header.leafOffset + pointer[k].offset

ReadLeaf(k) ==
    /\ pc[k] = "read"
    /\ InFile(LeafOffset(k), pointer[k].length)
    /\ dir' = [dir EXCEPT ![k] = ParseDirectory(ReadRange(LeafOffset(k), pointer[k].length))]
    /\ pc' = [pc EXCEPT ![k] = "insert"]
    /\ UNCHANGED <<tiles, phase, writer, file, opened, leaves, batch, located, pointer, result>>

InsertLeaf(k) ==
    /\ pc[k] = "insert"
    /\ leaves' = MostRecent(pointer[k].offset, dir[k])
    /\ pc' = [pc EXCEPT ![k] = "locate"]
    /\ pointer' = [pointer EXCEPT ![k] = None]
    /\ UNCHANGED <<tiles, phase, writer, file, opened, batch, located, dir, result>>

-----------------------------------------------------------------------------
(* coalesce_blocks: a block starts at a range that none before it reaches  *)
(* within Gap, and ends with the last of those up to the next start.       *)
Wanted(k) == Range(located[k]) \ {None}

Starts(k) ==
    {r \in Wanted(k) : \A q \in Wanted(k) :
        q.offset < r.offset => q.offset + q.length + Gap < r.offset}

StartOf(k, r) == CHOOSE s \in Starts(k) :
    s.offset <= r.offset /\ \A q \in Starts(k) : q.offset <= r.offset => q.offset <= s.offset

Block(k, s) ==
    [s EXCEPT !.length =
        Max({q.offset + q.length : q \in {r \in Wanted(k) : StartOf(k, r) = s}}) - s.offset]

(* A tile's bytes, cut out of the last block that starts at or before it.  *)
Cut(k, r) ==
    LET block == Block(k, StartOf(k, r))
        bytes == ReadRange(header.dataOffset + block.offset, block.length)
    IN  SubSeq(bytes, r.offset - block.offset + 1, r.offset - block.offset + r.length)

AllLocated(k) == pc[k] = "locate" /\ Len(located[k]) = Len(batch[k])

BlocksInFile(k) ==
    \A s \in Starts(k) : InFile(header.dataOffset + s.offset, Block(k, s).length)

(* The call returns, and what it worked with is gone.                      *)
Return(k, answer) ==
    /\ result' = [result EXCEPT ![k] = answer]
    /\ pc' = [pc EXCEPT ![k] = "idle"]
    /\ batch' = [batch EXCEPT ![k] = None]
    /\ located' = [located EXCEPT ![k] = <<>>]
    /\ dir' = [dir EXCEPT ![k] = None]
    /\ pointer' = [pointer EXCEPT ![k] = None]
    /\ UNCHANGED <<tiles, phase, writer, file, opened, leaves>>

(* The blocks are read, at once, and the tiles cut out of them.            *)
FetchData(k) ==
    /\ AllLocated(k)
    /\ BlocksInFile(k)
    /\ Return(k, [i \in DOMAIN located[k] |->
           IF located[k][i] = None THEN None ELSE Cut(k, located[k][i])])

(* A read fails, by itself or beyond the end of the file, and the call     *)
(* with it.                                                                *)
ReadFails(k) ==
    /\ \/ /\ pc[k] = "read"
          /\ ReadMayFail \/ ~InFile(LeafOffset(k), pointer[k].length)
       \/ /\ AllLocated(k)
          /\ (ReadMayFail /\ Wanted(k) # {}) \/ ~BlocksInFile(k)
    /\ Return(k, Failed)

-----------------------------------------------------------------------------
(* What a waiting task does next.                                          *)
Waits(k) == pc[k] \in {"read", "insert"} \/ AllLocated(k)
Resume(k) == ReadLeaf(k) \/ InsertLeaf(k) \/ FetchData(k) \/ ReadFails(k)

Next ==
    \/ \E t \in DOMAIN tiles : Write(t)
    \/ Finish
    \/ Open
    \/ \E k \in Readers : Locate(k) \/ Resume(k) \/ \E b \in Batches : Ask(k, b)

Spec == Init /\ [][Next]_vars

(* tokio polls a woken task, and a read ends one way or the other.  The    *)
(* second conjunct is weak fairness of what a waiting task does next: each *)
(* of those steps ends the wait, so one of them is enabled exactly while   *)
(* it lasts.                                                               *)
FairSpec ==
    /\ Spec
    /\ \A k \in Readers :
        /\ WF_vars(Locate(k))
        /\ []<>~Waits(k) \/ []<><<Resume(k)>>_vars

-----------------------------------------------------------------------------
InData(r) == r.offset + r.length <= header.dataLength

(* Every variable has its type, and what the reader looks up lies within   *)
(* the sections it reads.                                                  *)
TypeOK ==
    /\ tiles \in Archives
    /\ phase \in {"write", "closed", "open", "unreadable"}
    /\ DOMAIN dedup \subseteq Range(tiles)
    /\ \A i \in DOMAIN entries : entries[i].offset + entries[i].length <= Len(data)
    /\ phase = "write" <=> file = None
    /\ phase = "open" <=> header # None
    /\ phase = "open" => root # None /\ levels \subseteq Nat
    /\ Len(leaves) <= LeafCap
    /\ pc \in [Readers -> {"idle", "locate", "read", "insert"}]
    /\ \A k \in Readers :
        /\ batch[k] \in Batches \cup {None}
        /\ \A i \in DOMAIN located[k] : located[k][i] # None => InData(located[k][i])
        /\ pc[k] \in {"read", "insert"} =>
               pointer[k].offset + pointer[k].length <= header.leafLength
        /\ pc[k] # "idle" => Len(located[k]) <= Len(batch[k]) /\ dir[k] # None

(* What the writer stored, in whatever order, is what the reader answers:  *)
(* dedup, clustering, runs, leaves and varints are undone, tasks that      *)
(* share the leaf cache never see each other's directories, and a file cut *)
(* off by a kill makes a call fail but never answer wrongly.               *)
ReadsWhatWasWritten == Source!Spec

(* The cache holds what the file holds: each leaf is cached once, however  *)
(* many tasks fetched it at once, under the offset its pointer in the root *)
(* has, and is the directory written there.                                *)
LeafCacheIsTruthful ==
    /\ \A i \in DOMAIN leaves : \E e \in Range(root) :
        /\ IsLeaf(e) /\ e.offset = leaves[i].offset
        /\ leaves[i].dir = ParseDirectory(ReadRange(header.leafOffset + e.offset, e.length))
        /\ leaves[i].dir[1].tile_id = e.tile_id
    /\ Cardinality({leaves[i].offset : i \in DOMAIN leaves}) = Len(leaves)

(* The data section of a finished archive holds each distinct content      *)
(* once, in the order of the first tile along the curve that has it, so it *)
(* does not depend on the order the workers wrote in.  That is the layout  *)
(* of finish (tiler/pmtiles.rs 124-146), which line 12 of that file still  *)
(* calls deferred.                                                         *)
FirstId(c) == Min({TileId(t) : t \in {u \in DOMAIN tiles : tiles[u] = c}})
FileIsClustered ==
    phase = "closed" /\ file.header # None =>
        LET inOrder == InOrder(Range(tiles), [c \in Range(tiles) |-> FirstId(c)])
            section == FlattenSeq([i \in DOMAIN inOrder |-> Bytes(inOrder[i])])
            start   == file.header.dataOffset
        IN  /\ file.header.dataLength = Len(section)
            /\ IsPrefix(SubSeq(file.cells, start + 1, Len(file.cells)), section)

(* The header counts the tiles, their runs of one content and the          *)
(* contents, and the reader learns the levels that were materialized, gaps *)
(* included (of an empty archive it takes level 0 for one).                *)
HeaderIsRight ==
    /\ phase = "closed" /\ file.header # None =>
        LET starts == {t \in DOMAIN tiles : \A u \in DOMAIN tiles :
                          TileId(u) + 1 = TileId(t) => tiles[u] # tiles[t]}
        IN  /\ file.header.numAddressed = Cardinality(DOMAIN tiles)
            /\ file.header.numEntries = Cardinality(starts)
            /\ file.header.numContents = Cardinality(Range(tiles))
    /\ phase = "open" => levels = IF DOMAIN tiles = {} THEN {0} ELSE Levels

(* The ids of every level written or asked for are a path over all its     *)
(* tiles that goes from each tile to a neighbour: no two tiles share an    *)
(* id, and what is close in the file is close on the map.                  *)
Depths == (UNION {{t.z : t \in Range(b)} : b \in Batches})
              \cup (UNION {{t.z : t \in DOMAIN a} : a \in Archives})
Level(z) == [z : {z}, x : 0..(2^z - 1), y : 0..(2^z - 1)]
IdsArePath == [z \in Depths |->
    /\ {Hilbert(t) : t \in Level(z)} = 0..(2^(2 * z) - 1)
    /\ \A t, u \in Level(z) : Hilbert(u) = Hilbert(t) + 1 =>
           <<u.x - t.x, u.y - t.y>> \in {<<0, 1>>, <<0, -1>>, <<1, 0>>, <<-1, 0>>}]
HilbertIsAPath == \A z \in Depths \cup Levels : IdsArePath[z]

(* Every call returns.                                                     *)
CallReturns == \A k \in Readers : pc[k] # "idle" ~> pc[k] = "idle"
=============================================================================
