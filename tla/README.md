# Formal models of shashlik-tiles

shashlik-tiles turns an OpenStreetMap extract (`.osm.pbf`) into a PMTiles archive
of vector tiles (`build_tiles`) and reads that archive back for drawing (`tiles`,
`preview_tiles`).  This directory holds TLA+ models of it: of the parts whose
correctness depends on the order of steps (shared caches, parallel passes, files
that outlive a run), and of the way a shape takes from the extract to the screen,
through passes, grids, tiles and welds that must all agree.  TLC checks them on
small instances; TLAPS proves the most important properties for every value of the
constants.

    tlc -workers 2 -config MCTileCache_pan.cfg MCTileCache   # one run
    tlapm TileCacheProofs.tla                                # one proof module

`PROJECT.json` lists the runs, the source lines each definition stands for, the
faults each property was tried against, the hazards and the theorems.

## 1. Inventory

How the parts interact: `build_tiles/src/main.rs` indexes the PBF, collects the
referenced node ids in a bitset, builds or reuses the node store, detects road
junctions, extracts shapes in parallel passes into a `TileSink`, which clips and
quantises them and appends records to spill buckets (stage 1); then every bucket
is read back, its records grouped by tile, encoded and handed to the archive
writer behind a mutex (stage 2).  The client opens the archive with a
`PmTilesReader` over a file or HTTP range reader, wraps it in a `TileCache`, and
asks it for the tiles of a camera; `SceneView` joins the decoded tiles into one
scene that the preview uploads and draws.

| component | state | operations | what is hard | correct when |
|---|---|---|---|---|
| tile cache and view (`tiles/src/view.rs`) | LRU map, byte account, touch clock behind one mutex; zoom levels, budget, ring | `update`, `load_missing`, `spawn_prefetch`, `get`, `evict` | the mutex is released across `source.tiles().await`; several updates and prefetch tasks at once; batches fail as a whole | the byte account is exact, eviction spares the viewport being loaded and ends, a failed read is never remembered as absence, a frame is one snapshot, failed tiles come back |
| tile geometry (`tiles/src/lib.rs`, `tiles/src/view.rs`) | none | `parent`, `TileRange::tiles`, `target_level`, `visible_range` | ties between levels, clamping at the world's edge | each level and range is the one the camera needs |
| PMTiles reader (`tiles/src/reader`) | header, root directory, leaf cache behind a mutex | `tile`, `tiles`, `locate`, `coalesce_blocks` | the leaf cache is released across awaits; nested and adjacent ranges; directory of directories | each tile gets its own bytes, or None exactly if it is not in the archive |
| tile decoder and scene (`tiles/src/decode.rs`) | decoded tiles, key of the last scene | `decode_tile`, `Scene::from_visible`, road welding, `SceneView::update` | the scene is rebuilt only when its key changes; pieces of one road come from several tiles, in either direction | a kept scene is the one a rebuild would give; roads cut by tile borders are whole again, lanes and junctions in place |
| bit sets (`cache/src/bitset.rs`) | words, rank index | `set`, `test_and_set`, `contains`, `rank` | lock-free use by a whole pool; borders of words and blocks | no set bit is lost, rank counts |
| road connectivity (`extractor.rs` 256-319) | two bitsets | `detect_road_connectivity`, `is_junction` | test-and-set and mark are two steps | junctions are the nodes roads reference twice |
| extraction passes (`extractor.rs`, `relation_features.rs`) | ways wanted by relations, member ways, the sink | scan and rescan of relations, ways, members, multipolygons, places | the passes must agree on what is kept; blocks in any order; holes go to the ring that has them | every shape of the map reaches the sink once, at its nodes' places |
| node location cache (`node_cache.rs`, `cache/src/store.rs`) | `.nodes` memory map, `.bbox` sidecar, per-worker bounds | build, reuse check, `get`, bounds | files outlive runs that die; filters change | a store in use is complete and of this run's nodes |
| PBF section index (`cache/src/index.rs`) | `.idx` file | `open_or_create`, parallel reduction of block kinds | reduction in any order, a file of an earlier run | sections cover exactly the blocks of their kind |
| spill buckets (`cache/src/bucket.rs`, `tiler/spill.rs`) | bucket files, write buffers, first error | `append`, `finish`, `BucketReader::next`, `SpillReader::next` | concurrent appends, torn writes, reused directories | each record reaches stage 2 once, or the run announces nothing |
| build pipeline (`main.rs`) | the phase of the run | joins the stages | what is flushed, dropped or left behind by a panic | "Wrote ..." means a complete archive |
| tile routing (`tiler/mod.rs`) | zooms, bucket zoom, extent | `bucket_count`, `tile_id`, `route` | Morton bits, levels coarser than the bucket zoom | all records of a tile share a bucket |
| archive writer and codec (`tiler/pmtiles.rs`, `util/src/pmtiles.rs`, `varint.rs`) | entries, dedup map, directories | `write`, `finish`, Hilbert ids, directory codec | dedup, clustering, run lengths and leaf split all renumber | the reader finds what was written |
| tile sink (`tiler/sink.rs`) | bucket writer, zoom policy | `push`, `push_aggregated`, `finish` | build zooms, display zooms, levels and aggregation are decided in four files | a shape is in each level it belongs to, and shown exactly from its zoom on |
| clipping and tile format (`clip.rs`, `grid.rs`, `record.rs`, `format.rs`, `util/src/tileformat.rs`) | none | clip, quantise, simplify, encode, decode | a piece per tile, edges on borders, field order and codes on both sides | the pieces of a shape cover it once; decoding inverts encoding |
| classification and shapes (`classifier.rs`, `shapes.rs`, `util/src/feature.rs`) | string table of a block | tags to kinds, names, layers, lanes, floors | string ids and texts are compared in turn; the coarse filters of `main.rs` are written apart | the filters let through whatever the classifiers recognise |
| relation features and aggregation (`relation_features.rs`, `route_roads.rs`, `borders.rs`, `major_roads.rs`, `mask.rs`) | claims, resolved ways, raster mask | chain polylines, drop parallels, burn polygons | members come out of a hash set in any order; countries share borders | each stretch of border once, a motorway route covered along its length |
| OSM PBF reader (`osm_pbf`) | file position | blocks, delta decoding, dense nodes, tag filters | deltas run across fields, sections start inside the file | all nodes, ways and relations are read once |
| preview (`preview_tiles`) | origin, buffers, uniform | `resumed`, pan, zoom, resize, `apply_camera` | old buffers with a new origin | buffers and origin belong together |
| mercator, bounding boxes (`util`) | none | formulas | floating point | - |
| generated protobuf code | none | - | - | - |

The hazards behind the fourth column are listed line by line in `PROJECT.json`.

## 2. Plan

In the order they were written:

1. the client's cache: `TileGrid`, `TileCache`, `TileCacheProofs`;
2. the shared bitsets: `BitSet`, `RoadConnectivity`;
3. what survives a run: `ArchiveBuild`, `SpillBuckets`, `NodeCache`;
4. the archive: `PmTilesCodec`, `TileSource`, `PmTiles`;
5. the window: `Preview`;
6. the extraction: `FeatureKinds`, `OsmPbf`, `Classifier`, `Multipolygon`, `Strokes`, `Extract`;
7. the tiler and the scene: `TileAddress`, `TileClip`, `TileFormat`, `SceneWeld`, `TilePipeline`.

    Preview       EXTENDS TileCache EXTENDS TileGrid
    Extract       EXTENDS RoadConnectivity EXTENDS BitSet
                  EXTENDS Classifier EXTENDS OsmPbf, FeatureKinds
                  EXTENDS Multipolygon, Strokes
    TilePipeline  EXTENDS TileClip EXTENDS TileAddress
                  EXTENDS TileFormat EXTENDS FeatureKinds
                  EXTENDS SceneWeld,  INSTANCE TileGrid
    NodeCache     EXTENDS BitSet
    PmTiles       EXTENDS PmTilesCodec,  INSTANCE TileSource    (refinement)
    SpillBuckets  INSTANCE ArchiveBuild                         (refinement)

The proofs, in the order they were written; each module EXTENDS the one it proves
about:

    FiniteSums                          induction in first-order form, sums
    TileCacheProofs, PreviewProofs      EXTENDS TileCacheProofs
    BitSetProofs, NodeCacheProofs       EXTENDS BitSetProofs
    ExtractProofs                       EXTENDS BitSetProofs; connectivity, rings,
                                        strokes, filters, passes
    SpillBucketsProofs                  the refinement of ArchiveBuild
    PmTilesProofs                       tile ids, codec, archive, the refinement of
                                        TileSource

What is left: the shapes.  `TileClip`, `SceneWeld` and `TilePipeline` rest on RECURSIVE
operators (welds, simplification, the quadtree); proofs about them need these written as
recursive functions over the sets they walk, as the rings of `Multipolygon`, the strokes of
`Strokes` and the numbers of `PmTilesCodec` are.

## 3. Modules

### TileGrid

Tiles, their ancestors, `target_level` and `visible_range` over a square world
of `2^FineZoom` integer units.  A camera is north-up: a centre, half-extents and
an effective zoom in half levels, so ties between two levels are representable
(the code breaks them toward the coarser one).  The Mercator projection and the
rotation of the viewport are left out; they decide which rectangle is visible and
nothing else.

### TileCache

`TileCache<S, T>` of `view.rs`: any number of `update` calls (`Updaters`) and
spawned prefetch tasks (`Prefetchers`) over one cache.  A task's `pc` is its
place in the code:

    update:    idle -> fetch -> insert <-> evict -> collect -> idle
    prefetch:  idle -> scan -> fetch -> insert <-> evict -> idle

| variable | code |
|---|---|
| `entries` | `Lru::map`; an entry holds a payload or, `data = None`, a tombstone |
| `used` | `Lru::used` |
| `older` | the order of `Entry::touched`; the clock itself is unbounded and only its order is ever read |
| `lock` | who holds the `Mutex` |
| `missing`, `batch` | `missing` and the zipped answers still to insert |
| `todo`, `frame` | the slots of the visible range still to fill, and the `VisibleTiles` so far |

`BeginUpdate` is `update` up to the await (level, range, scan for missing tiles);
`FetchOk`/`FetchErr` resolve the batched read; `InsertTile`, `Evict`,
`EvictDone` are one loop turn each of the insert loop and of `Lru::evict` under the
lock; `FillSlot` is one visible slot, including `nearest_ancestor` when the camera
is beyond the source's levels (every tile the walk looks at is touched, as
`Lru::get` does); `Return` gives the frame back and spawns the prefetch;
`ScanRing` is the prefetch's scan; `Get` is `TileView::get`.  A viewport is a
whole rectangle of one level, and `IsFirst` keeps the row-major order of insertion
and filling.  `Prefetchers` bounds the prefetch tasks in flight: when all are
busy, `Return` behaves as if the new task's read failed, which the code allows
at any time.

### Preview

The window over one `TileCache`: `AppInit`; `Resumed` and `NewState` (opening, with
the first scene); `PanPixels`, `ZoomBy`, `Resize`, each of which moves the camera and
begins an update; `Load`, the cache's own steps; then `SameScene` or `NewScene`, as
`SceneView::update` finds its key unchanged or not.  One thread does all of it and
blocks on the update, so the return, the key, the tessellation and the writes of
the GPU buffers are one step.  `running`, `configured`, `last_key`, `origin` (with
target zoom and extent), `buffers` and `uniform` are the fields of the same names or
roles.  The key is a 64-bit hash in the code and taken to be injective.  A shape is
the tile that holds it and the zoom its class is displayed from; a position is
the origin it is relative to.

### BitSet, RoadConnectivity

A word of the bitset is the set of its set bits; `FetchOr` is one atomic
`fetch_or` and `Rank` the block sum, word sum and masked word of
`RankedBitSet::rank`.  Widths are constants (64 and 16 in the code).
`RoadConnectivity` is `detect_road_connectivity`: each PBF block is a process, as
`par_bridge` may run any number of blocks at a time; `TestAndSet` and `SetShared`
are the two atomic steps per reference, `NextWay` goes on to the next way and
passes over ways that are no roads.  What a block holds is the constant `Ways`, which
lets the proofs speak of every file; `Extract` ties it to the file's bytes
(`ExtractAssumption`).

### OsmPbf, FeatureKinds, Classifier, Multipolygon, Strokes, Extract

`Extract` is `main` up to the tiler, pass by pass: index, scan and rescan of the
filtered relations, node bitset, node store, connectivity, ways, member ways,
multipolygons, places, water polygons, claims, member resolution, routes, borders.
`pass` is where `main` is, `todo` the blocks of the section no worker has finished; a
pass takes them in any order and `Join` is the end of the parallel iterator.  What a
block does is one step, since it only adds to sets and maps that no one reads
before the join; the connectivity pass keeps the fine steps of `RoadConnectivity`.
`index`/`idxFile` are `OsmPbfIndex` and the `.idx` file, `stored` the node store,
`sink` the bag of shapes pushed.  `BuildRoutes` and `BuildBorders` take the members in
any order, as a `HashSet` gives them.

The helpers are pure.  `OsmPbf` is the file: blobs at byte positions, dense
and plain nodes, ways and relations by deltas, string tables, the filters of
`tag_filter`.  `FeatureKinds` is `util/src/feature.rs`: kinds, their codes, build and
display zooms.  `Classifier` goes from tags to shapes, with the texts-as-numbers a
table (`ParsedInt`, `ParsedTenths`).  `Multipolygon` assembles rings from fragments
(`AssembleRings`; `Stitch` is a round of its inner loop, `StartRing` one of the outer) and
gives holes to rings.  `Strokes` chains polylines (`ChainGroup`, with `Grow` and `Seed`) and
drops parallel ones.  A loop of the code is a recursive function of the number of rounds,
with as many rounds as can change anything.  The projection is a table (`ToX`, `ToY`),
so coordinates are small integers.

### TileAddress, TileClip, TileFormat, SceneWeld, TilePipeline

`TilePipeline` is the other half: `Push` takes a shape through `TileSink::push` at
every level (zoom policy, simplification, clipping, records) and burns a forest
into the mask; `GoOn` is `main` going on to the merged forests, to the strokes and to
stage 2; `PushMerged` pushes those; `BuildBucket` groups a bucket's records by
tile and encodes them; `Look` decodes the tiles under a camera and builds the scene.
A push is one step, so two shapes meet in the same order in every tile they share;
the finer interleaving of appends is `SpillBuckets`.

`TileAddress` has tile ids, Morton codes, routes, quantisation and coverings;
`TileClip` clips lines, areas by quadtree, and points; `TileFormat` has the
spill record and the tile, both ways, field by field; `SceneWeld` gathers what
tiles hold and welds cut roads.  A world is `2^GridZoom` tiles of `Extent` integer
units each way; intersections are exact fractions, then rounded; polygons are
rectangles with rectangular holes; the contour of a forest is its blob's border.  The
crate `contour` runs through the middles of the pixel borders and so cuts the corners,
half a pixel of area in all: `MergedForests` takes that off the area it compares with
`MIN_BLOB_PIXELS` and keeps the corners in the outline, so `AreasCoverOnce` does not see
them cut.
Simplification is Visvalingam-Whyatt by triangle area.  The weld takes its seeds in
the order of hash cells, as the code does.

### ArchiveBuild, SpillBuckets

`ArchiveBuild` is the promise of one run: if it announces an archive, the archive
is `ArchiveOf(extract)` - one payload per tile with every record of the tile once -
and otherwise the run dies.

`SpillBuckets` is how the code keeps it.  `Take` (a shape's record reaches
`TileSink::push`), `Lock`, `Open`, `Write`, `KeepError` are the steps of
`BucketWriter::append`; the write buffer (external: `std::io::BufWriter`) holds at
most `BufferSize` cells, a record being two cells (length prefix and payload), so a
write may be buffered, flush the buffer first, or go straight to the file; a
failing write leaves any proper prefix of what was due in the file.  `Finish`,
`FlushBucket` are `BucketWriter::finish`, `SkipBucket`, `LoadBucket`,
`WriteTiles`, `Finalize` stage 2 with its workers.  `Kill` ends the process at any point; a panic drops the
writers, which flushes what they buffer (`Dropped`).  `StartRun` is the next run in
the same directory, emptied or not; the workers of a killed run are gone with it, so
the steps of an append are those of stage 1 only.  Within stage 2 a bucket is loaded in one step:
the files no longer change and nobody else reads them.

The refinement mapping: `status` is `phase` with all working phases as
"running", `archive` is the writer's map once announced.

### NodeCache

The decision in `main.rs` to reuse or rebuild, `SparseStoreBuilder` (create,
set length, fill through the map, flush), `build_node_store`'s parallel fill with
its per-worker bounds, `save_bbox`'s two steps (truncate, write), and a kill between
any two of them.  Of a coordinate one axis is kept.  The files `store` and
`sidecar` survive `StartRun`; everything else is new.  The page cache survives the
process, so what a killed run wrote through the map is in the file.

### PmTilesCodec, TileSource, PmTiles

`TileSource` is what the trait of that name promises: a batch is answered, in
order, with each tile's stored bytes or None, or the call fails.  `PmTiles` is how
`PmTilesWriter` and `PmTilesReader` keep it together, over the codec they share
(`PmTilesCodec`: Hilbert ids, varints, the columns of a directory, `find_entry`,
the split into root and leaves).  `AtBit` is one turn of the loop of `hilbert`, which goes
from the highest bit down; its index is a function of all integer points, as the code's
flips with the side of the level touch bits it has already read.

A sort by keys that differ is `InOrder`: the element with n - 1 lower ones comes n-th
(the entries by tile id, the plan of the copy, the levels of the metadata, the leaves that
stay cached by their place).  `Numbers` is what `read_uvarint` called again and again
returns: a number ends at each byte without the flag, and its `Value` is the sum of the
digits by their weight.  Integers are unbounded here: the ids of the levels in use, offsets
and lengths of an archive stay below the code's 64 and 32 bits, and a number the
writer wrote never reaches `read_uvarint`'s check for overlong ones.

The writer's variables are those of the struct (`data` is the temp file; the set of
levels is read off the tiles).  `Write` takes the tiles in any order, as the workers
of stage 2 do; `Finish` sorts, clusters, collapses runs, splits the directories and
writes the file, or a kill cuts it off anywhere.  A file is its header and a
sequence of cells: directory bytes (a byte is its value), the levels of the metadata
(one cell each), and the bytes of the contents.  The 127 bytes of the header are left
out of every offset.

A reading task's `pc` is its place in `tiles()`:

    idle -> locate <-> read -> insert -> locate ... -> idle

`Ask` is the call.  `Locate` is one turn of `locate`: the lookup in the directory at
hand (`dir`) ends, or goes on in a cached leaf, or has to read one.  `ReadLeaf` is
the ranged read and the parse, with the cache unlocked; `InsertLeaf` takes the lock
again; between the two other tasks may have inserted the same leaf or evicted this
one.  The cache is a sequence, least recently used first, which is the order the
code's clock gives its entries.  `FetchData` coalesces the located ranges, reads the
blocks and cuts the tiles out: the file does not change any more, so the concurrent
reads of the blocks are one step.  `ReadFails` ends a call at either kind of read.

The refinement mapping: `stored` is the tiles with their bytes, `asked` the batch of a
task that is not idle.

## 4. Runs

| run | checks | instance | states |
|---|---|---|---|
| `pan` | `TypeOK`, `UsedIsSum`, `OlderIsTotal`, `CacheIsTruthful`, `OverBudgetOnlyForAViewport`, `OwnViewportKept` | two updaters, a prefetch, a 2x2 level with one tile missing, two cameras sharing a tile, budget 4 below a viewport's 5 bytes, failing reads | 334332 |
| `zoom` | `FrameIsSnapshot`, `UpdateReturns` | an updater and a prefetch over three levels, the finest beyond the archive, budget 3, failing reads | 13512 |
| `scene` | `SceneIsCurrent`, `BlankMeansAbsent`, `RetryHeals` | one window, five cameras over a three-level world, an archive that ends at level 1, budget 4, failing reads, no prefetch | 10376 |
| `drawn` (violation) | `DrawnInPlace` | as `scene` | |
| `extract` | `TypeOK`, `SharedMeansTwice`, `JunctionsExact`, `RankIsCount`, `MapIsExtracted`, `NodesAreStored`, `FilterCoversClassifier`, `StrokesAreWhole`, `RingsUseEveryFragment`, `PassTerminates` | a header and eight data blocks: 22 nodes in two dense blocks and a plain one, 13 ways in three, 6 relations in two; words of 4 bits; with and without an earlier run's index | 1774 |
| `missing` (violation) | `MissingNodesAreSkipped` | the extract is cut without node 6 | |
| `tagless` (violation) | `TaglessNodesAreRead` | dense blocks without tags leave `keys_vals` empty | |
| `nodes` | `TypeOK`, `StoreIsRight`, `BboxIsRight`, `RunEnds` | two workers, four nodes in three blocks, three runs over the same filter (of three nodes, or of none), killed anywhere | 1539 |
| `rebuild` (violation) | `StoreIsRight` | the filter may change between the three runs | |
| `spill` | `TypeOK`, `NothingLost`, `BuildSpec`, `RunEnds` | two workers, two buckets, three records of two tiles, buffers of three cells, two runs in one directory, failing writes, kills | 6749 |
| `tiles` | `ShapesAreShown`, `AreasCoverOnce`, `StrokesAreWelded`, `JunctionsHold` | grid zoom 14, levels 8, 10, 12 and 14, bucket zoom 6, 64 units a tile, thirteen camera zooms; a map of roads and strokes, one of areas, one for each label class, POI and road kind | 5383 |
| `archive` | `TypeOK`, `LeafCacheIsTruthful`, `FileIsClustered`, `HeaderIsRight`, `HilbertIsAPath`, `ReadsWhatWasWritten`, `CallReturns` | six tiles of two levels with a level between left out, four contents, or no tile at all; two tasks and three batches; three leaves, a cache of two; failing reads, files cut off at four places | 9134 |

What the passing runs show:

* `pan`: two tasks that both found a tile missing insert it twice, and the byte
  account (`UsedIsSum`) and the order of recency (`OlderIsTotal`) survive it; a
  budget too small for a viewport ends eviction without a victim, and is exceeded
  only by tiles of one viewport.
* `zoom`: each frame is one state of the cache, with the tile, its nearest
  cached ancestor when overzooming, or nothing; each `update` returns.
* `scene`: after any sequence of pans, zooms, resizes and failed reads, a scene that
  was kept is the one a rebuild would give, and its transform is for its own origin;
  without prefetch a blank slot after a successful read is a tile the archive lacks;
  what a failed batch left out is drawn in the end.
* `extract`: however the workers take the blocks, the sink gets exactly the shapes the
  map calls for (`MapIsExtracted` computes them from the map's elements, with none of
  the file's encoding, passes, stores or indices); the passes agree on what is kept, so that
  what is drawn has its nodes in the store (`NodesAreStored`); the coarse filters cover the
  classifiers' vocabulary; borders shared by two countries are drawn once; ring
  assembly uses every fragment of every closed set of three or four.  Within it the
  connectivity pass, whatever its interleaving, marks exactly the nodes referenced
  twice by roads.
* `nodes`: for one filter, runs killed anywhere never leave a store that a later
  run takes for complete; the bounds cover all nodes however the blocks are shared.
* `spill`: the run implements `ArchiveBuild`; until an error, every record is in
  exactly one place.
* `tiles`: from whatever order of pushes, a label, symbol or road kind is on the
  screen exactly from its display zoom on; the pieces of an area cover it once, holes
  out; a road cut by tile borders is one stroke again with each lane on its side;
  roads that share a junction still do after simplification at every level.
* `archive`: whatever the order of writing, the file is the same clustered file and
  its header counts right; two tasks that share the leaf cache get the bytes that were
  written or an error, also from a file cut off by a kill; ids of a level are a path of
  neighbours; every call returns.

### What disagrees with a comment

* `drawn`: `apply_camera` takes over the new scene's origin and then returns early when
  that scene is empty; the old buffers and uniform stay, and the next call that gets no
  new scene writes the uniform for the new origin.  The vertices are relative to the
  old one.
* `missing`: each referenced node has a slot in the store, and a slot never written
  reads as coordinate (0, 0): a node the extract was cut without is not skipped, as
  `extractor.rs` says, but drawn to (0, 0).
* `tagless`: the dense decoder zips ids with tag lists, so a block whose `keys_vals` is
  empty, which the format's comment allows, yields no node.
* `rebuild`: a rebuild sets the full length of `.nodes` first and replaces `.bbox`
  last.  Killed in between after a filter change, the next run finds the right
  length and a readable (old) sidecar and uses a store with unwritten slots.

Smaller ones that have no run of their own:

* The head of `view.rs` (5-7) and `TileView::update` (158-159) promise a cached coarser
  ancestor "for any tile not yet loaded so there are no blank gaps".  `update` falls back
  only beyond the archive's levels (342-362): at a level the archive has, a tile whose
  batch failed is left blank though an ancestor is cached.  The comment at 342-347 agrees
  with the code, but takes each such miss for a genuine absence.  `FrameIsSnapshot` states
  what the code does, the blank included; `RetryHeals` says that a later frame fills it.
* Prefetched tiles are inserted unpinned, so between `load_missing` and the slot loop
  a prefetch may evict what the update has just loaded (`view.rs` 343);
  `BlankMeansAbsent` holds only with prefetch off, as the preview has it.
* A road that references a node twice (a roundabout's first node) makes it a junction,
  though the comment asks for two roads (`extractor.rs` 258, 274).
* `BucketReader` takes any error of open for "never created" (`bucket.rs` 50): with
  `OpenMayFail = TRUE` in `MCSpillBuckets.cfg`, `BuildSpec` fails.
* A bucket left over from another extract is truncated only if it is written
  (`bucket.rs` 72), and stage 2 reads it: with `ReuseForOther = TRUE` there, `BuildSpec`
  fails.
* `decode.rs` 531-532 speaks of the highest layer of a welded road; the code takes the
  layer most of its vertices have.  At 523 it says that real junctions stay split; the
  straightest line through one is welded.
* `tiler/pmtiles.rs` 12 calls the clustered layout deferred; `finish` (124-146) lays the
  data section out by tile id and sets the header's flag (192), which is what
  `FileIsClustered` says.
* `node_cache.rs` 151-152 counts service roads among the ways that are never emitted; the
  classifier makes roads of them (`classifier.rs` 285-288), so their nodes are stored.
  Footways and paths are indeed left out.
* The argument's text at `main.rs` 92 says roads are never simplified; `sink.rs`
  simplifies them, keeping junctions.
* Road kinds that are built from zoom 16 only are in no level of a pyramid that ends
  at 14: they are not drawn at all (`ShapesAreShown` says so).

### Bounds, and why they are enough

Two updaters and a prefetch give every pair of tasks that meet at the lock; a third
updater meets them in the same pairs.  The archive of `pan` has distinct byte
sizes, so an account that gives back the wrong entry's bytes shows, and the budget
is crossed by each viewport.  Three levels give both an ancestor hit and
a walk past an uncached ancestor.  In `scene` one camera sees an empty scene and the
others do not, one zoom change keeps the tiles and adds shapes, one pan keeps the
key and moves the camera, and the tiles together exceed the budget.

In `extract` three blocks of ways share a node, so a race of three is reached; the
capacity is no multiple of the word, and the words are no multiple of the rank
block.  The map has roads with lanes, a bridge, a oneway, a layer and a node passed
twice; areas from a way and from relations, one of two outer rings, with a hole in a ring
of two fragments that only relations reach; a way no filter wants; a relation that only
another one reaches; a border two countries share; a motorway's route with a parallel
carriageway, and a route without a motorway; a town and a signal.  The blocks have
different granularities and offsets.  `FilterCoversClassifier` goes through all words of
the code's filters and highway and railway tables.  Ring fragments are all lists of three
and four over four nodes.

In `tiles` the maps lie around a corner where the tiles of all levels, and the
buckets, have a border, so each shape is cut at every level; shapes also end and bend
next to a border.  The levels are the default's (14, 12, 10, 8, 6, 4) down to 8 and hold both sides of
each threshold (aggregation, full detail, each kind's zooms), and the camera looks
from both sides of every change of level.  Each class of label, POI and road has a map.

In `nodes`, three runs are the shortest sequence in
which a run completes, one is killed in a rebuild, and one reuses; in `spill` two
runs are what it takes to meet files of a dead one, and a buffer of three cells and
records of two give both outcomes of a write (the third, a record larger than the
buffer, needs `BufferSize` of 2 or less; the definitions cover it).  In `archive` the entries overflow the root, and the first leaf size
tried too, so the leaf size is doubled once; with base-8 varints lengths and offsets
take one and two bytes; a view finds ranges that merge across a gap, ranges that do
not, and a tile twice; two tasks fetch one leaf at once, and a third leaf evicts.  The
sea is a run of two ids and one more tile after a gap, so dedup and runs differ.
`MaxRuns`
stops the model where the user would stop, so deadlock is off in those runs.

### Fairness

* `TileCache`: each task in a step keeps going (`WF_vars(Step(k))`): tokio polls a
  woken task, a read ends with an answer or an error, a loop under the mutex runs
  on.  Nothing makes a caller begin an update.
* `Preview` (`AppFairSpec`): the thread runs on while it has work, and two things "a
  later frame retries" takes for granted: the user keeps moving the camera, and the
  source does not fail one camera's batch for ever (strong fairness).
* `Extract` (`ExtractFairSpec`): the workers of the connectivity pass and of every other
  pass go on, which rayon and main do as long as the process lives.
* `PmTiles`: each reading task keeps going, as in `TileCache`.  Weak fairness of what
  a waiting task does next is written out as `[]<>~Waits(k) \/ []<><<Resume(k)>>_vars`,
  which is the same because one of those steps is enabled exactly while the task waits
  and each of them ends the wait; TLC checks it much faster.
* `SpillBuckets`, `NodeCache`: the threads of the pool and main
  run on.  `Kill` and `StartRun` are never forced.

## 5. Proofs

All theorems rest only on the constants' assumptions (named `...Assumption`), which TLC
evaluates in the runs, and on the hypotheses named below.  Every leaf is checked by
TLAPS.

`FiniteSums` states induction so that the provers can use it: a set of numbers closed
under successor, or of subsets closed under one more element, is complete
(`NumberInduction`, `SetInduction`, both from the library's minimal elements of a
well-founded relation).  From it follow what `SumFunctionOnSet` adds up to (as many as there
are pairs of an element and a number up to its value, `SumIsUnits`), and what happens
when one element comes, goes or changes.

`TileCacheProofs` (any tasks, cameras, archive, budget, failures):

* `TypeCorrect`, `CacheTellsTheTruth` (`CacheIsTruthful`).  Alone neither is
  inductive: an inserted entry is as good as the answer it is made from, and
  eviction reads `entries[v].bytes` of a victim.  The inductive invariant `TInv`
  adds that waiting answers are the archive's (`BatchIsTruthful`), who may hold the
  lock where (`LockDiscipline`), and that a task at work has a camera (`AtWork`).
* `AccountIsExact` (`UsedIsSum`).  An insert gives back the bytes of the entry it
  replaces and eviction those of its victim; `AInv` adds the type invariant, since the
  sum is over a finite set of numbers.
* `FrameIsASnapshot` (`FrameIsSnapshot`).  Between the slots of a frame other tasks
  want the lock and do not get it, so the cache the frame began with is the one it ends
  with: `FInv` says what every slot filled so far shows of the cache as it is.
* `OwnViewportSurvives` (`OwnViewportKept`): only `Evict` and `InsertTile` change
  `entries`; a step while an update holds the lock is its own or one that leaves the
  entries alone (`LockDiscipline`), and its victims are outside its viewport.
* `BudgetIsKept` (`OverBudgetOnlyForAViewport`): the loop's exit leaves the cache in
  budget or with only protected tiles, which are one viewport's.
* `RecencyIsTotal` (`OlderIsTotal`): touching a set of tiles keeps a strict total
  order, provided those touched in one step are of distinct levels
  (`WalkLevels`: a walk up the pyramid is).

`PreviewProofs` (any moves of the camera, any window, archive and failures):

* Each step of the window is one of its caller's (`AppIsACaller`), so the invariants above
  hold of its cache too; `AppTypes` (`AppTypeOK`, which no run checks: it says no more than
  the types) needs them, as a frame's tiles become buffers.
* `BlanksAreAbsent` (`BlankMeansAbsent`).  `OnItsWay` says where each tile of the viewport is
  between a successful read and the frame: still in the batch, in the cache, or already in
  the frame, and that without prefetch nobody else evicts it.
* `SceneStaysCurrent` (`SceneIsCurrent`).  `SceneInv` ties key, origin and buffers to the
  frame of the last new scene (`LastScene`), and `KeyTells` that two frames with one key give
  one scene; the key does not hold the camera's position, and the lemma shows that it need
  not.

`BitSetProofs` (any capacity, word and block size): `FetchOrAdds`, and `RankCounts`, that
`rank`'s block sum, word sums and masked word add up to the members below an id, at
borders of words and blocks and beyond the capacity too.

`ExtractProofs` (any extract and index of an earlier run, any order of the blocks, word and
block size; the assumption `ExtractAssumption` says that the file has the sections its index
tells, that strings are a sequence, and that the connectivity pass goes over the file's ways).

*Connectivity.*

* `TypeCorrect`, `SharedIsTwice` (`SharedMeansTwice`), `JunctionsAreExact`
  (`JunctionsExact`).  The invariant `IInv` adds that the first bitset is exactly the
  nodes of the references tested so far (`SeenExact`) and that a pending mark is for
  a node tested twice (`PendingIsTwice`).  With every block finished nothing is
  pending and every reference is tested, which gives the junctions.  `RankIsACount`
  (`RankIsCount`) follows from `RankCounts`.
* `ExtractConnects`: `ExtractSpec => Spec`, a refinement: the other passes stutter.
  `JunctionsOfExtract` states the four properties of the whole extraction, which is what
  the run `extract` checks.

*Passes.*  `NodesAreKept` (`NodesAreStored`).  What a pass owes to a block it has finished is
`Scanned`, `Kept` and `Placed`: the ways of its filtered relations are known, the nodes of its
ways have slots, its nodes are in them.  `PassesHold` says that the owing pass has paid for
every block not in `todo`, and any later pass for all blocks of the section (`JoinStep`).  A
later pass does not ask the filters again: `MembersStep` and `ResolveStep` find the nodes of a
way by its being a member, since the bitset pass kept it for that; `ClaimsStep` needs that a
claimed border is a relation the first pass let through, which is `FilterKeepsRelations`.  A
border's way that only a relation of a relation names would do as well.

*Filters.*  `FilterKeepsWays` and `FilterKeepsRelations`: for every string table and list of
tags, what is classified or claimed as a border passes the coarse filter.  `FiltersHold`
(`FilterCoversClassifier`) is the run's property, of the words of filters and classifiers.

*Rings and strokes.*

* `RingsAreWhole`: for fragments of any number and length that close up (each node the end of
  an even number of them, no two of them the same single edge), `assemble_rings` returns closed
  rings that pass over every stretch as often as the fragments do: none is left over, used
  twice or dropped as dangling.  The invariant of the inner loop, `RingHolds`, is about parity:
  while the ring is open, what is left ends oddly at the ring's two loose ends alone, so
  something goes on; when it closes, what is left ends evenly again.  `RingRound` adds the count
  of fragments that shows there are rounds enough.  Two equal edges are excluded because
  they come back to their start as a ring of three nodes, which the code takes for open.
  `RingsHold` (`RingsUseEveryFragment`) is the run's property.
* `ChainsAreWhole`: whatever continuations `chain_group` takes for the straightest, its
  strokes pass over each stretch as often as the lines (`StrokeHolds`, `StrokesUpTo`).  What
  `dedup_parallel` then drops is left to TLC.

Each loop is a function `after` of the number of rounds; `CloseRingRounds` and its like show
that the recursion defines one, by induction on the domain.

`NodeCacheProofs` (any workers, blocks, nodes, number of runs, kills):

* `NodeCacheTypes` (`TypeOK`) and `BoundsAreRight` (`BboxIsRight`).  The bounds of a worker
  are the hull of the nodes it has seen (`BoundsAreOfNodes`); `FoldIsHull` shows that
  merging them gives the hull of all, in whatever order the fold takes the workers.  An
  extract without a referenced node gets the box from `Zero` to `Zero`, as `main.rs` has it.
* `StoreStaysRight` (`StoreIsRight`), if `FilterMayChange = FALSE`.  The difficulty is
  the sidecar: it is written after the flush, so its being readable is what vouches for the
  slots (`SidecarVouches`), and only for a store of this filter.  `NInv` holds without
  the hypothesis.  What happens without it is the run `rebuild`.

`SpillBucketsProofs` (any workers, buckets, records, buffers, failing writes, kills):

* `NothingIsLost` (`NothingLost`), without hypotheses: `SInv` says for each record where its
  cells are, that the lock's holder is in an append, and that an opened bucket starts
  empty.
* `SpillTypes` (`TypeOK`), if `ReuseForOther = FALSE`: cells of another extract's records
  are no cells of this one.
* `BuildIsKept`, the refinement of `ArchiveBuild` (`BuildSpec`), if `ReuseForOther = FALSE`
  and `OpenMayFail = FALSE`.  `RInv` carries `NothingLost` from the files to what stage 2 has
  loaded and written, over the files earlier runs left of the same extract.  Both
  hypotheses are true divergences of the code, the hazards at `bucket.rs` 72 and 50; without
  either `BuildSpec` fails.

`PmTilesProofs` (any archive and order of the writes, level, leaf size, root limit, bits of
a varint byte, cache capacity, merge gap, number of readers, failing reads, and place where
a kill cuts the file off).  All properties of `PmTiles` but the liveness one are
theorems: `TypesHold` (`TypeOK`), `HeaderHolds` (`HeaderIsRight`), `ClusteredHolds`
(`FileIsClustered`), `LeafCacheHolds` (`LeafCacheIsTruthful`), `ReadsAsWritten`
(`ReadsWhatWasWritten`, the refinement of `TileSource`), and `IdsAreAPath`.

*Ids.*

* `HilbertNumbersTheLevel`: `hilbert` is one to one from the tiles of a level onto the
  numbers below `4^z`, and consecutive numbers are neighbours.  `IdsAreAPath`
  (`HilbertIsAPath`) states it of the levels written and asked for.  The induction goes over
  the bits from the lowest up (`CurveOfTwice`): four curves through the quadrants, turned
  as the code turns them, join at their ends.  `CurveSteps` shows that the recursion
  defines a function; powers of two are counted by the subsets of a set.
* `IdsAreDistinct`: no two tiles of any levels share an id, and the ids of a level end
  before those of the next one begin.

*Codec.*

* `ParseSerialize`: `parse_directory` undoes `serialize_directory`.  A number comes back from
  its varint (`HoldsMore`: `Holds(buf, ns)` says that reading `buf` to its end
  gives `ns`), a column from its numbers (`HoldsList`), the ids from their deltas and the
  offsets, written as 0 where data follow each other, from those before
  (`IdsAreRead`, `OffsetsAreRead`).
* `DirectoriesAreGood`: `build_directories` returns a root, or a root and leaves, that
  answer every id as the entries do (`TwoLevels`).  That the doubled leaf size fits at
  some time is `LeafSizeIs`: with as many entries as there are in one leaf, there is one leaf.
* `RunsKeepTheAnswers`: the fold over the entries keeps `RunsAre` (no two runs
  overlap, each has the ids of its entries and no others) and `Counted` (the header's counts).

*Writer.*  `StoredIn` and `WrittenOf` say of the temp file that each content is where
`dedup` has it and each entry is of one tile.  From there `finish` is followed step by step:
sorting lays the entries out by the tiles' ids (`SortedIsLaidOut`); the new offset of an
entry is the sum of what is copied before (`OffsetsAreFronts`), so the bytes at it are its
tile's (`OffsetHolds`); contents have bytes, so two tiles share an offset exactly if they
share their content (`SameOffsets`), on which the runs and the counts rest (`StartsCounted`);
`ArchiveIsRight` puts it together.

*Readers.*  The inductive invariant is

    IInv == /\ TypesInv                                    types, what the writer stored
            /\ phase # "open" => NotOpened
            /\ phase # "write" => \E w : WholeOf(w) /\ (phase = "open" => Opened(w))

where `w` is the archive `finish` assembled.  A kill may leave only a front of it, so no
variable has it, yet everything a task finds must be said of it: `WholeOf` that `w` answers
every tile rightly (`ReadsRight`), has the header and the data section of the tiles, and that
the file is a front of it; `Opened` that header and root are those of `w`, that each
cached leaf is the one `w` has at its offset and lies in the file (`CacheOf`), and for each task
what it knows at its `pc` (`TaskOf`): the ranges located so far hold the bytes of their tiles,
the directory at hand is the root or the leaf of the tile at hand, the leaf about to be inserted
is the one its pointer names.  None of the properties is inductive without it: a lookup is
right only if the leaf cached by another task is, and that leaf is right only because
the pointer of the task that read it was.  `TaskStep` reduces a step to the cache and the
moving task.  TLC cannot enumerate `w`; it checks the properties `IInv` implies.

`CutIs` shows that the tile cut out of a merged block has its own bytes, whatever `Gap`
merges; then `AnswerIsRight`, and `StepIsSource` maps each step to one of `TileSource` or a
stutter.  A task whose read leaves the file fails, which `TileSource` allows.

Only model-checked:

* liveness, which needs fairness and ENABLED: `UpdateReturns`, `RetryHeals`,
  `PassTerminates`, `CallReturns`, `RunEnds`;
* `MapIsExtracted` and `StrokesAreWhole` of `Extract`: they compare the sink with the map
  the instance's file was encoded from, which are two constants of the instance; there
  is no encoder to prove about;
* all properties of `TilePipeline`: welding, simplification and the quadtree are RECURSIVE
  operators, which take the provers' SMT backend away.

## 6. Not modelled, and why

* Protobuf and zlib decoding and the generated code: a block is the record its message
  decodes to.  Files damaged or cut off inside a block: nothing checks them.
* Floating point: Mercator and bounding boxes.  The extraction
  projects by a table and the tiler works on an integer grid; polygons there are
  rectangles, with which areas, holes and quadtree cuts are exact.
* `clip_ring` (`clip.rs` 121-210), `bucket_local_id` and `bucket_local_xyz` have no
  caller; `morph_close` runs with radius 0, which changes nothing.
* The clip of water polygons to the extract and `geo`'s union of them: the water of the
  instance does not overlap.
* `RoadKind::width_m` and `is_link`, triangles, colours and the GPU: what is drawn with
  a shape once it is in the buffers.
* Counts cut to 16 bits in the tile format: no instance is that large, and a smaller
  width would be another format.
* HTTP statuses and short answers: a ranged read gives the whole range or fails.  Empty
  tile blobs, which zstd never makes, and failing writes of the archive.
* A kill inside the write of the `.idx`, which its length tells from a whole one.
* Poisoned mutexes: a panic inside a critical section ends the modelled run.  Files
  damaged by a power loss: the page cache survives, as it does when a process is
  killed.  Two runs of `build_tiles` over the same files at the same time.
* Progress bars, logging and argument parsing.
