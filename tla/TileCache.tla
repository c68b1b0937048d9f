------------------------------ MODULE TileCache ------------------------------
(***************************************************************************)
(* TileCache<S, T> of tiles/src/view.rs: an LRU cache with a byte budget   *)
(* under concurrent `update` calls, the prefetch task each of them spawns, *)
(* and a source whose batched reads may fail.                              *)
(*                                                                         *)
(* The cache is behind a Mutex that is released across the await of        *)
(* source.tiles(): a task scans the cache for missing tiles, fetches them  *)
(* with the lock free, and locks again to insert.  Each loop iteration     *)
(* made under the lock is an action of its own, with `lock` naming the     *)
(* task that holds it.                                                     *)
(*                                                                         *)
(* Entry::touched is drawn from a clock that ticks on every access, so all *)
(* the code can learn from it is who was touched first.  `older` keeps     *)
(* that order, the pairs <<a, b>> with a.touched < b.touched, in place of  *)
(* the unbounded clock.                                                    *)
(***************************************************************************)
EXTENDS TileGrid, Functions

CONSTANTS
    Updaters,       \* callers of TileView::update
    Prefetchers,    \* bound on the prefetch tasks in flight
    Cameras,        \* the cameras the callers may ask for
    Archive,        \* the tiles the source has: tile -> payload byte_size
    SourceMaxZoom,  \* TileSource::max_zoom
    SourceMayFail,  \* whether a batched read may return Err
    Ring,           \* prefetch_ring
    Budget,         \* budget_bytes
    Nominal,        \* bytes a tombstone is accounted
    None            \* Rust's None

Tasks == Updaters \cup Prefetchers

Entry == [data : Tiles \cup {None}, bytes : Nat]

ASSUME CacheAssumption ==
    /\ Updaters \cap Prefetchers = {}
    /\ DOMAIN Archive \subseteq Tiles
    /\ \A t \in DOMAIN Archive : Archive[t] \in Nat
    /\ SourceMaxZoom \in Nat
    /\ SourceMayFail \in BOOLEAN
    /\ Ring \in Nat
    /\ Budget \in Nat
    /\ Nominal \in Nat
    /\ None \notin Tiles
    /\ None \notin Entry
    /\ None \notin Tasks
    /\ None \notin Cameras

VARIABLES
    entries,        \* Lru::map: the entry of each cached tile, None otherwise
    older,          \* order of Entry::touched
    used,           \* Lru::used
    lock,           \* holder of the Mutex, or None
    pc,             \* where each task is
    camera,         \* the camera a task works for
    missing,        \* tiles a task is fetching
    batch,          \* the answers to its fetch it has still to insert
    todo,           \* visible slots an update has still to fill
    frame,          \* the VisibleTiles an update has collected
    failed          \* whether the batch of an update's last fetch failed

vars == <<entries, older, used, lock, pc, camera, missing, batch, todo, frame, failed>>
cacheVars == <<entries, older, used>>

-----------------------------------------------------------------------------
Cached == {t \in Tiles : entries[t] # None}

(* Fault: a tombstone is handed out as data.                               *)
TombstoneIsData(t) == t \in Cached

HasData(t) == t \in Cached /\ entries[t].data # None

(* TileSource::tile: the tile's payload, or None if the archive lacks it.  *)
Lookup(t) == IF t \in DOMAIN Archive THEN t ELSE None

(* The entry an answer is cached as: a payload, or a tombstone.            *)
Stored(answer) ==
    [data |-> answer, bytes |-> IF answer = None THEN Nominal ELSE Archive[answer]]

(* Fault: the bytes of a replaced entry are not given back.                *)
NoBytesBack(e) == 0

BytesOf(e) == IF e = None THEN 0 ELSE e.bytes

Protected(k) == IF k \in Updaters THEN Visible(camera[k]) ELSE {}

Overzoom(cam) == TargetLevel(cam) > SourceMaxZoom

(* The Mutex guard, taken or kept from the previous iteration.             *)
(* Fault: it is dropped at the end of each iteration.                      *)
GuardPerIteration(k) == lock \in {None, k} /\ lock' = None

Guard(k) == lock \in {None, k} /\ lock' = k

(* The tiles of S, all in `cached`, become the most recently used ones;    *)
(* among them the finer were touched first.                                *)
(* Fault: their earlier stamps are not forgotten.                          *)
TouchTwice(S, cached) ==
    older \cup {p \in (cached \ S) \X S : TRUE} \cup {p \in S \X S : p[1].z > p[2].z}

Touch(S, cached) ==
    {p \in older : p[1] \notin S /\ p[2] \notin S}
        \cup {p \in (cached \ S) \X S : TRUE}
        \cup {p \in S \X S : p[1].z > p[2].z}

(* Lru::evict: the least recently used of the unprotected entries.         *)
(* Fault: eviction spares nothing.                                         *)
NothingSpared(k) == Cached

Unprotected(k) == Cached \ Protected(k)

IsVictim(v, k) ==
    /\ v \in Unprotected(k)
    /\ \A u \in Unprotected(k) : <<u, v>> \notin older

(* When Lru::evict's loop ends: `while used > budget`, or no victim left.  *)
(* Faults: it evicts once only; it spins when all that is left is          *)
(* protected.                                                              *)
EvictOnce(k) == TRUE

NeverGivesUp(k) == used <= Budget

EvictionEnds(k) == used <= Budget \/ Unprotected(k) = {}

(* Lru::nearest_ancestor: how far up the walk from t finds data; 0 if it   *)
(* reaches the root without.                                               *)
Hits(t) == {k \in 1..t.z : HasData(Ancestor(t, k))}

Nearest(t) ==
    IF Hits(t) = {} THEN 0 ELSE CHOOSE k \in Hits(t) : \A j \in Hits(t) : k <= j

Walked(t) ==
    {Ancestor(t, k) : k \in 1..(IF Nearest(t) = 0 THEN t.z ELSE Nearest(t))}

-----------------------------------------------------------------------------
Init ==
    /\ entries = [t \in Tiles |-> None]
    /\ older = {}
    /\ used = 0
    /\ lock = None
    /\ pc = [k \in Tasks |-> "idle"]
    /\ camera = [k \in Tasks |-> None]
    /\ missing = [k \in Tasks |-> {}]
    /\ batch = [k \in Tasks |-> {}]
    /\ todo = [u \in Updaters |-> {}]
    /\ frame = [u \in Updaters |-> {}]
    /\ failed = [u \in Updaters |-> FALSE]

(* update, up to the await: pick the level and the visible tiles, and scan *)
(* the cache for the missing ones.                                         *)
BeginUpdate(u, c) ==
    /\ pc[u] = "idle"
    /\ lock = None
    /\ LET absent == Visible(c) \ Cached IN
        /\ missing' = [missing EXCEPT ![u] = absent]
        /\ pc' = [pc EXCEPT ![u] = IF absent = {} THEN "collect" ELSE "fetch"]
    /\ camera' = [camera EXCEPT ![u] = c]
    /\ todo' = [todo EXCEPT ![u] = Visible(c)]
    /\ frame' = [frame EXCEPT ![u] = {}]
    /\ failed' = [failed EXCEPT ![u] = FALSE]
    /\ UNCHANGED <<cacheVars, lock, batch>>

(* The spawned prefetch task scans the cache for the ring around the       *)
(* viewport.                                                               *)
ScanRing(p) ==
    /\ pc[p] = "scan"
    /\ lock = None
    /\ LET c      == camera[p]
           absent == VisibleRange(c, TargetLevel(c), Ring) \ Cached IN
        /\ missing' = [missing EXCEPT ![p] = absent]
        /\ pc' = [pc EXCEPT ![p] = IF absent = {} THEN "idle" ELSE "fetch"]
    /\ UNCHANGED <<cacheVars, lock, camera, batch, todo, frame, failed>>

(* source.tiles(missing) resolves, one answer per tile.  A prefetch keeps  *)
(* only the tiles the archive has: it inserts no tombstones.               *)
FetchOk(k) ==
    /\ pc[k] = "fetch"
    /\ LET answers == {[tile |-> t, answer |-> Lookup(t)] : t \in missing[k]}
           kept    == IF k \in Updaters THEN answers
                                        ELSE {a \in answers : a.answer # None} IN
        /\ batch' = [batch EXCEPT ![k] = kept]
        /\ pc' = [pc EXCEPT ![k] = IF kept = {} THEN "idle" ELSE "insert"]
    /\ missing' = [missing EXCEPT ![k] = {}]
    /\ UNCHANGED <<cacheVars, lock, camera, todo, frame, failed>>

(* Fault: a failed batch is taken for one without tiles.                   *)
FetchErrAsAbsent(k) ==
    /\ SourceMayFail
    /\ pc[k] = "fetch"
    /\ batch' = [batch EXCEPT ![k] = {[tile |-> t, answer |-> None] : t \in missing[k]}]
    /\ missing' = [missing EXCEPT ![k] = {}]
    /\ pc' = [pc EXCEPT ![k] = "insert"]
    /\ UNCHANGED <<cacheVars, lock, camera, todo, frame, failed>>

(* source.tiles(missing) returns Err: the whole batch is dropped.          *)
FetchErr(k) ==
    /\ SourceMayFail
    /\ pc[k] = "fetch"
    /\ missing' = [missing EXCEPT ![k] = {}]
    /\ IF k \in Updaters
       THEN /\ pc' = [pc EXCEPT ![k] = "collect"]
            /\ failed' = [failed EXCEPT ![k] = TRUE]
       ELSE /\ pc' = [pc EXCEPT ![k] = "idle"]
            /\ UNCHANGED failed
    /\ UNCHANGED <<cacheVars, lock, camera, batch, todo, frame>>

(* Lru::insert and Lru::insert_absent of the batch's next tile, up to the  *)
(* call of evict.  A tile another task inserted meanwhile is replaced.     *)
InsertTile(k) ==
    /\ pc[k] = "insert"
    /\ Guard(k)
    /\ \E a \in batch[k] :
        /\ IsFirst(a.tile, {b.tile : b \in batch[k]})
        /\ entries' = [entries EXCEPT ![a.tile] = Stored(a.answer)]
        /\ used' = used - BytesOf(entries[a.tile]) + Stored(a.answer).bytes
        /\ older' = Touch({a.tile}, Cached \cup {a.tile})
        /\ batch' = [batch EXCEPT ![k] = @ \ {a}]
    /\ pc' = [pc EXCEPT ![k] = "evict"]
    /\ UNCHANGED <<camera, missing, todo, frame, failed>>

(* One turn of Lru::evict's loop.                                          *)
Evict(k) ==
    /\ pc[k] = "evict"
    /\ used > Budget
    /\ \E v \in Tiles :
        /\ IsVictim(v, k)
        /\ entries' = [entries EXCEPT ![v] = None]
        /\ used' = used - entries[v].bytes
        /\ older' = {p \in older : p[1] # v /\ p[2] # v}
    /\ UNCHANGED <<lock, pc, camera, missing, batch, todo, frame, failed>>

(* The loop ends, within budget or with nothing but protected entries      *)
(* left; after the batch's last tile the lock is released.                 *)
EvictDone(k) ==
    /\ pc[k] = "evict"
    /\ EvictionEnds(k)
    /\ IF batch[k] # {}
       THEN /\ pc' = [pc EXCEPT ![k] = "insert"]
            /\ UNCHANGED lock
       ELSE /\ pc' = [pc EXCEPT ![k] = IF k \in Updaters THEN "collect" ELSE "idle"]
            /\ lock' = None
    /\ UNCHANGED <<cacheVars, camera, missing, batch, todo, frame, failed>>

(* update's second critical section, one visible slot: the tile itself,    *)
(* or when overzooming its nearest cached ancestor, or nothing.            *)
FillSlot(u) ==
    /\ pc[u] = "collect"
    /\ Guard(u)
    /\ \E t \in todo[u] :
        /\ IsFirst(t, todo[u])
        /\ LET walks  == ~HasData(t) /\ Overzoom(camera[u])
               source == IF HasData(t) THEN {t}
                         ELSE IF walks /\ Nearest(t) # 0 THEN {Ancestor(t, Nearest(t))}
                         ELSE {}
               looked == {t} \cup (IF walks THEN Walked(t) ELSE {}) IN
            /\ frame' = [frame EXCEPT ![u] =
                   @ \cup {[tile |-> t, data |-> entries[s].data, source |-> s] : s \in source}]
            /\ older' = Touch(looked \cap Cached, Cached)
        /\ todo' = [todo EXCEPT ![u] = @ \ {t}]
    /\ UNCHANGED <<entries, used, pc, camera, missing, batch, failed>>

(* update returns its frame and spawns the prefetch.  With every slot of   *)
(* Prefetchers busy the spawned task is one whose fetch fails: it changes  *)
(* nothing.                                                                *)
Return(u) ==
    /\ pc[u] = "collect"
    /\ todo[u] = {}
    /\ lock \in {None, u}
    /\ lock' = None
    /\ \/ /\ Ring > 0
          /\ \E p \in Prefetchers :
              /\ pc[p] = "idle"
              /\ pc' = [pc EXCEPT ![u] = "idle", ![p] = "scan"]
              /\ camera' = [camera EXCEPT ![p] = camera[u]]
       \/ /\ Ring = 0 \/ \A p \in Prefetchers : pc[p] # "idle"
          /\ pc' = [pc EXCEPT ![u] = "idle"]
          /\ UNCHANGED camera
    /\ UNCHANGED <<cacheVars, missing, batch, todo, frame, failed>>

(* TileView::get, the non-blocking peek: it too marks the tile used.       *)
Get(t) ==
    /\ lock = None
    /\ t \in Cached
    /\ older' = Touch({t}, Cached)
    /\ UNCHANGED <<entries, used, lock, pc, camera, missing, batch, todo, frame, failed>>

Next ==
    \/ \E u \in Updaters, c \in Cameras : BeginUpdate(u, c)
    \/ \E u \in Updaters : FillSlot(u) \/ Return(u)
    \/ \E p \in Prefetchers : ScanRing(p)
    \/ \E k \in Tasks :
           FetchOk(k) \/ FetchErr(k) \/ InsertTile(k) \/ Evict(k) \/ EvictDone(k)
    \/ \E t \in Tiles : Get(t)

Spec == Init /\ [][Next]_vars

(* Every task that can go on does: tokio polls a woken task, a read ends   *)
(* one way or the other, and a loop under the lock runs on.  Nothing makes *)
(* a caller begin an update.                                               *)
Step(k) ==
    \/ FetchOk(k) \/ FetchErr(k) \/ InsertTile(k) \/ Evict(k) \/ EvictDone(k)
    \/ k \in Prefetchers /\ ScanRing(k)
    \/ k \in Updaters /\ (FillSlot(k) \/ Return(k))

FairSpec == Spec /\ \A k \in Tasks : WF_vars(Step(k))

-----------------------------------------------------------------------------
(* Every variable has its type.  `used` is an Int here: that it never goes *)
(* below zero is UsedIsSum's business.                                     *)
TypeOK ==
    /\ entries \in [Tiles -> Entry \cup {None}]
    /\ older \subseteq Tiles \X Tiles
    /\ used \in Int
    /\ lock \in Tasks \cup {None}
    /\ pc \in [Tasks -> {"idle", "scan", "fetch", "insert", "evict", "collect"}]
    /\ camera \in [Tasks -> Cameras \cup {None}]
    /\ missing \in [Tasks -> SUBSET Tiles]
    /\ batch \in [Tasks -> SUBSET [tile : Tiles, answer : Tiles \cup {None}]]
    /\ todo \in [Updaters -> SUBSET Tiles]
    /\ frame \in [Updaters -> SUBSET [tile : Tiles, data : Tiles, source : Tiles]]
    /\ failed \in [Updaters -> BOOLEAN]

(* The byte account is exact: Lru::used is the sum of the cached entries'  *)
(* bytes in every state, although two tasks may insert the same tile and   *)
(* an insert may replace a payload or a tombstone.                         *)
UsedIsSum == used = SumFunction([t \in Cached |-> entries[t].bytes])

(* The touched order Lru::evict picks its victim by is a strict total      *)
(* order of the cached tiles, so there is exactly one least recently used. *)
OlderIsTotal ==
    /\ older \subseteq Cached \X Cached
    /\ \A a, b \in Cached : a = b <=> (<<a, b>> \notin older /\ <<b, a>> \notin older)
    /\ \A a, b, c \in Cached : <<a, b>> \in older /\ <<b, c>> \in older => <<a, c>> \in older

(* What is cached agrees with the archive: a tombstone stands only for a   *)
(* tile the archive lacks (never for a failed read), and a payload is the  *)
(* tile's own.                                                             *)
CacheIsTruthful == \A t \in Cached : entries[t].data = Lookup(t)

(* The budget is exceeded only by tiles of one viewport: once no task is   *)
(* in the middle of an eviction, either the cache fits its budget or all   *)
(* that is cached is visible to a single camera.                           *)
OverBudgetOnlyForAViewport ==
    used > Budget =>
        \/ \E k \in Tasks : pc[k] = "evict"
        \/ \E c \in Cameras : Cached \subseteq Visible(c)

(* Making room for its own tiles, an update never throws out a tile of the *)
(* viewport it is loading (the `protected` set).                           *)
EvictsOwnViewport ==
    \E u \in Updaters : lock = u /\ \E t \in Visible(camera[u]) : t \in Cached \ Cached'
OwnViewportKept == [][~EvictsOwnViewport]_vars

(* The frame is a snapshot of the cache: while it is collected, each slot  *)
(* already passed shows the tile's own payload when the cache has it,      *)
(* else, beyond the source's levels only, that of the nearest cached       *)
(* ancestor, else nothing.  A tile whose read failed is blank too, as the  *)
(* code (view.rs 342-362) has it; lines 5-7 and 158-159 promise a cached   *)
(* ancestor there.                                                         *)
SlotIsRight(u, t) ==
    LET drawn == {f \in frame[u] : f.tile = t} IN
    IF HasData(t) THEN drawn = {[tile |-> t, data |-> t, source |-> t]}
    ELSE IF Overzoom(camera[u]) /\ \E k \in 1..t.z : HasData(Ancestor(t, k))
    THEN \E k \in 1..t.z :
            /\ drawn = {[tile |-> t, data |-> Ancestor(t, k), source |-> Ancestor(t, k)]}
            /\ \A j \in 1..(k - 1) : ~HasData(Ancestor(t, j))
    ELSE drawn = {}
FrameIsSnapshot ==
    \A u \in Updaters :
        pc[u] = "collect" => \A t \in Visible(camera[u]) \ todo[u] : SlotIsRight(u, t)

(* "A miss at a materialized level means the feature is genuinely absent   *)
(* there" (view.rs): a slot an update left blank, when its batch was read, *)
(* is a tile the archive does not have.                                    *)
BlankMeansAbsent ==
    \A u \in Updaters :
        pc[u] = "idle" /\ camera[u] # None /\ ~failed[u] =>
            \A t \in Visible(camera[u]) \cap DOMAIN Archive :
                \E f \in frame[u] : f.tile = t

(* Every update returns: its eviction loops end, also when all that is     *)
(* left is protected, and it never waits for the lock for ever.            *)
UpdateReturns == \A u \in Updaters : pc[u] # "idle" ~> pc[u] = "idle"

(* "Transient I/O on the batch: skip; a later frame retries" (view.rs): if *)
(* a camera is drawn over and over, each tile of the archive it sees is    *)
(* drawn over and over, however many batches fail in between.              *)
Drawn(u, t) == \E f \in frame[u] : f.tile = t /\ f.source = t
RetryHeals ==
    \A u \in Updaters, c \in Cameras :
        []<>(pc[u] = "idle" /\ camera[u] = c) =>
            \A t \in Visible(c) \cap DOMAIN Archive :
                []<>(pc[u] = "idle" /\ camera[u] = c /\ Drawn(u, t))
=============================================================================
