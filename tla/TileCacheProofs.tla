-------------------------- MODULE TileCacheProofs --------------------------
(***************************************************************************)
(* Theorems of TileCache, for every pyramid, archive, budget and number of *)
(* tasks, with their proofs.                                               *)
(***************************************************************************)
EXTENDS TileCache, FiniteSums, TLAPS

(* A nonempty set of numbers has a least element.                          *)
LEMMA LeastNat ==
    ASSUME NEW S \in SUBSET Nat, S # {}
    PROVE  \E m \in S : \A n \in S : m <= n
  <1>. DEFINE R == {ss \in Nat \X Nat : ss[1] < ss[2]}
  <1>1. IsWellFoundedOn(R, Nat)
    BY NatLessThanWellFounded DEF OpToRel
  <1>2. \A m, n \in Nat : <<n, m>> \in R <=> n < m
    OBVIOUS
  <1>. HIDE DEF R
  <1>3. PICK m \in S : \A n \in S : ~(<<n, m>> \in R)
    BY <1>1, WFMin
  <1>4. ASSUME NEW n \in S PROVE m <= n
    <2>1. m \in Nat /\ n \in Nat
      OBVIOUS
    <2>2. ~(n < m)
      BY <1>2, <1>3, <2>1, Zenon
    <2>. QED
      BY <2>1, <2>2
  <1>. QED
    BY <1>4

LEMMA TileType ==
    ASSUME NEW t \in Tiles
    PROVE  t.z \in Nat
  BY ZoomLevelsAssumption DEF Tiles

(* nearest_ancestor finds a cached ancestor with data, and no finer one    *)
(* has data.                                                               *)
LEMMA NearestIsAHit ==
    ASSUME NEW t \in Tiles
    PROVE  /\ Nearest(t) \in Nat
           /\ Nearest(t) # 0 =>
                 /\ Nearest(t) \in 1..t.z
                 /\ HasData(Ancestor(t, Nearest(t)))
  <1>1. CASE Hits(t) = {}
    BY <1>1 DEF Nearest
  <1>2. CASE Hits(t) # {}
    <2>1. Hits(t) \in SUBSET Nat /\ Hits(t) \subseteq 1..t.z
      BY TileType DEF Hits
    <2>2. \E k \in Hits(t) : \A j \in Hits(t) : k <= j
      BY <1>2, <2>1, LeastNat
    <2>3. Nearest(t) = CHOOSE k \in Hits(t) : \A j \in Hits(t) : k <= j
      BY <1>2 DEF Nearest
    <2>4. Nearest(t) \in Hits(t)
      BY <2>2, <2>3
    <2>. QED
      BY <2>1, <2>4 DEF Hits
  <1>. QED
    BY <1>1, <1>2

LEMMA VisibleType ==
    ASSUME NEW cam, NEW level, NEW margin
    PROVE  VisibleRange(cam, level, margin) \subseteq Tiles /\ Visible(cam) \subseteq Tiles
  BY DEF Visible, VisibleRange

LEMMA LookupType ==
    ASSUME NEW t \in Tiles
    PROVE  Lookup(t) \in Tiles \cup {None}
  BY DEF Lookup

-----------------------------------------------------------------------------
(* An answer waiting to be inserted is the archive's.                      *)
BatchIsTruthful == \A k \in Tasks : \A a \in batch[k] : a.answer = Lookup(a.tile)

(* A task that evicts holds the lock, and the holder is in one of the      *)
(* loops made under it.                                                    *)
LockDiscipline ==
    \A k \in Tasks :
        /\ pc[k] = "evict" => lock = k
        /\ lock = k => pc[k] \in {"insert", "evict", "collect"}

(* A task at work has a camera, and only updates collect frames.           *)
AtWork ==
    /\ \A k \in Tasks : pc[k] # "idle" => camera[k] \in Cameras
    /\ \A k \in Tasks : pc[k] = "collect" => k \in Updaters

LEMMA CacheConstants ==
    /\ None \notin Tiles
    /\ None \notin Entry
    /\ None \notin Tasks
    /\ None \notin Cameras
    /\ Updaters \subseteq Tasks
    /\ Prefetchers \subseteq Tasks
    /\ \A k \in Prefetchers : k \notin Updaters
    /\ Nominal \in Nat /\ Budget \in Nat
  BY CacheAssumption DEF Tasks

(* What an answer is cached as.                                            *)
LEMMA StoredType ==
    ASSUME NEW t \in Tiles
    PROVE  Stored(Lookup(t)) \in Entry /\ Stored(Lookup(t)).data = Lookup(t)
  <1>1. CASE t \in DOMAIN Archive
    BY <1>1, CacheAssumption DEF Lookup, Stored, Entry
  <1>2. CASE t \notin DOMAIN Archive
    BY <1>2, CacheAssumption DEF Lookup, Stored, Entry
  <1>. QED
    BY <1>1, <1>2

(* The part of the invariant on which type correctness rests.              *)
TInv == TypeOK /\ BatchIsTruthful /\ CacheIsTruthful /\ LockDiscipline /\ AtWork

LEMMA InitTInv == Init => TInv
  BY CacheConstants DEF Init, TInv, TypeOK, BatchIsTruthful, CacheIsTruthful,
      LockDiscipline, AtWork, Cached

LEMMA TouchType ==
    ASSUME older \subseteq Tiles \X Tiles, NEW S \in SUBSET Tiles, NEW C \in SUBSET Tiles
    PROVE  Touch(S, C) \subseteq Tiles \X Tiles
  BY DEF Touch

(* Each action keeps the first part of the invariant.                      *)
LEMMA BeginUpdateTInv ==
    ASSUME TInv, NEW u \in Updaters, NEW c \in Cameras, BeginUpdate(u, c)
    PROVE  TInv'
  <1>1. u \in Tasks /\ None \notin Tasks
    BY CacheConstants
  <1>2. Visible(c) \subseteq Tiles
    BY VisibleType
  <1>3. TypeOK'
    BY <1>1, <1>2 DEF TInv, TypeOK, BeginUpdate, cacheVars
  <1>4. AtWork' /\ LockDiscipline'
    BY <1>1 DEF TInv, TypeOK, BeginUpdate, AtWork, LockDiscipline
  <1>5. CacheIsTruthful' /\ BatchIsTruthful'
    BY DEF TInv, BeginUpdate, CacheIsTruthful, BatchIsTruthful, cacheVars, Cached
  <1>. QED
    BY <1>3, <1>4, <1>5 DEF TInv

LEMMA ScanRingTInv ==
    ASSUME TInv, NEW p \in Prefetchers, ScanRing(p)
    PROVE  TInv'
  <1>1. p \in Tasks /\ None \notin Tasks
    BY CacheConstants
  <1>2. VisibleRange(camera[p], TargetLevel(camera[p]), Ring) \subseteq Tiles
    BY VisibleType
  <1>3. TypeOK'
    BY <1>1, <1>2 DEF TInv, TypeOK, ScanRing, cacheVars
  <1>4. AtWork' /\ LockDiscipline'
    BY <1>1 DEF TInv, TypeOK, ScanRing, AtWork, LockDiscipline
  <1>5. CacheIsTruthful' /\ BatchIsTruthful'
    BY DEF TInv, ScanRing, CacheIsTruthful, BatchIsTruthful, cacheVars, Cached
  <1>. QED
    BY <1>3, <1>4, <1>5 DEF TInv

LEMMA FetchOkTInv ==
    ASSUME TInv, NEW k \in Tasks, FetchOk(k)
    PROVE  TInv'
  <1>. DEFINE answers == {[tile |-> t, answer |-> Lookup(t)] : t \in missing[k]}
  <1>1. missing[k] \subseteq Tiles
    BY DEF TInv, TypeOK
  <1>2. batch' \in [Tasks -> SUBSET [tile : Tiles, answer : Tiles \cup {None}]]
    <2>1. answers \subseteq [tile : Tiles, answer : Tiles \cup {None}]
      BY <1>1, LookupType
    <2>2. \A S \in SUBSET [tile : Tiles, answer : Tiles \cup {None}] :
              [batch EXCEPT ![k] = S] \in [Tasks -> SUBSET [tile : Tiles, answer : Tiles \cup {None}]]
      BY DEF TInv, TypeOK
    <2>. QED
      BY <2>1, <2>2 DEF FetchOk
  <1>3. batch'[k] \subseteq answers /\ \A j \in Tasks : j # k => batch'[j] = batch[j]
    BY DEF TInv, TypeOK, FetchOk
  <1>4. TypeOK'
    BY <1>2 DEF TInv, TypeOK, FetchOk, cacheVars
  <1>5. BatchIsTruthful'
    BY <1>3 DEF TInv, BatchIsTruthful, Lookup
  <1>6. AtWork' /\ LockDiscipline'
    BY DEF TInv, TypeOK, FetchOk, AtWork, LockDiscipline
  <1>7. CacheIsTruthful'
    BY DEF TInv, FetchOk, CacheIsTruthful, cacheVars, Cached
  <1>. QED
    BY <1>4, <1>5, <1>6, <1>7 DEF TInv

LEMMA FetchErrTInv ==
    ASSUME TInv, NEW k \in Tasks, FetchErr(k)
    PROVE  TInv'
  <1>1. TypeOK'
    BY DEF TInv, TypeOK, FetchErr, cacheVars
  <1>2. AtWork' /\ LockDiscipline'
    BY DEF TInv, TypeOK, FetchErr, AtWork, LockDiscipline
  <1>3. CacheIsTruthful' /\ BatchIsTruthful'
    BY DEF TInv, FetchErr, CacheIsTruthful, BatchIsTruthful, cacheVars, Cached
  <1>. QED
    BY <1>1, <1>2, <1>3 DEF TInv

LEMMA InsertTileTInv ==
    ASSUME TInv, NEW k \in Tasks, InsertTile(k)
    PROVE  TInv'
  <1>1. PICK a \in batch[k] :
            /\ entries' = [entries EXCEPT ![a.tile] = Stored(a.answer)]
            /\ used' = used - BytesOf(entries[a.tile]) + Stored(a.answer).bytes
            /\ older' = Touch({a.tile}, Cached \cup {a.tile})
            /\ batch' = [batch EXCEPT ![k] = @ \ {a}]
    BY DEF InsertTile
  <1>2. a.tile \in Tiles /\ a.answer = Lookup(a.tile)
    BY DEF TInv, TypeOK, BatchIsTruthful
  <1>3. Stored(a.answer) \in Entry /\ Stored(a.answer).data = Lookup(a.tile) /\ Stored(a.answer) # None
    BY <1>2, StoredType, CacheConstants
  <1>4. TypeOK'
    <2>1. entries' \in [Tiles -> Entry \cup {None}]
      BY <1>1, <1>2, <1>3 DEF TInv, TypeOK
    <2>2. older' \subseteq Tiles \X Tiles
      BY <1>1, <1>2, TouchType DEF TInv, TypeOK, Cached
    <2>3. used' \in Int
      <3>1. BytesOf(entries[a.tile]) \in Int
        BY <1>2 DEF TInv, TypeOK, BytesOf, Entry
      <3>2. Stored(a.answer).bytes \in Int
        BY <1>3 DEF Entry
      <3>. QED
        BY <1>1, <3>1, <3>2 DEF TInv, TypeOK
    <2>4. batch' \in [Tasks -> SUBSET [tile : Tiles, answer : Tiles \cup {None}]]
      <3>1. batch[k] \ {a} \in SUBSET [tile : Tiles, answer : Tiles \cup {None}]
        BY DEF TInv, TypeOK
      <3>. QED
        BY <1>1, <3>1 DEF TInv, TypeOK
    <2>5. lock' \in Tasks \cup {None}
      BY DEF InsertTile, Guard
    <2>6. pc' \in [Tasks -> {"idle", "scan", "fetch", "insert", "evict", "collect"}]
      BY DEF TInv, TypeOK, InsertTile
    <2>. QED
      BY <2>1, <2>2, <2>3, <2>4, <2>5, <2>6 DEF TInv, TypeOK, InsertTile
  <1>5. CacheIsTruthful'
    BY <1>1, <1>2, <1>3 DEF TInv, TypeOK, CacheIsTruthful, Cached, Lookup
  <1>6. BatchIsTruthful'
    BY <1>1 DEF TInv, TypeOK, BatchIsTruthful, Lookup
  <1>7. AtWork'
    BY DEF TInv, TypeOK, InsertTile, AtWork
  <1>8. LockDiscipline'
    BY CacheConstants DEF TInv, TypeOK, InsertTile, Guard, LockDiscipline
  <1>. QED
    BY <1>4, <1>5, <1>6, <1>7, <1>8 DEF TInv

LEMMA EvictTInv ==
    ASSUME TInv, NEW k \in Tasks, Evict(k)
    PROVE  TInv'
  <1>1. PICK v \in Tiles :
            /\ IsVictim(v, k)
            /\ entries' = [entries EXCEPT ![v] = None]
            /\ used' = used - entries[v].bytes
            /\ older' = {p \in older : p[1] # v /\ p[2] # v}
    BY DEF Evict
  <1>2. entries[v] \in Entry
    BY <1>1 DEF TInv, TypeOK, IsVictim, Unprotected, Cached
  <1>3. TypeOK'
    <2>1. used' \in Int
      BY <1>1, <1>2 DEF TInv, TypeOK, Entry
    <2>. QED
      BY <1>1, <2>1 DEF TInv, TypeOK, Evict
  <1>4. CacheIsTruthful'
    BY <1>1 DEF TInv, TypeOK, CacheIsTruthful, Cached, Lookup
  <1>5. BatchIsTruthful' /\ AtWork' /\ LockDiscipline'
    BY DEF TInv, Evict, BatchIsTruthful, AtWork, LockDiscipline, Lookup
  <1>. QED
    BY <1>3, <1>4, <1>5 DEF TInv

LEMMA EvictDoneTInv ==
    ASSUME TInv, NEW k \in Tasks, EvictDone(k)
    PROVE  TInv'
  <1>1. TypeOK'
    BY CacheConstants DEF TInv, TypeOK, EvictDone, cacheVars
  <1>2. CacheIsTruthful' /\ BatchIsTruthful'
    BY DEF TInv, EvictDone, CacheIsTruthful, BatchIsTruthful, cacheVars, Cached, Lookup
  <1>3. AtWork'
    BY DEF TInv, TypeOK, EvictDone, AtWork
  <1>4. LockDiscipline'
    BY CacheConstants DEF TInv, TypeOK, EvictDone, LockDiscipline
  <1>. QED
    BY <1>1, <1>2, <1>3, <1>4 DEF TInv

(* The slot's tile and the tiles the overzoom walk looks up.               *)
LEMMA FillSlotTInv ==
    ASSUME TInv, NEW u \in Updaters, FillSlot(u)
    PROVE  TInv'
  <1>. DEFINE walks(t)  == ~HasData(t) /\ Overzoom(camera[u])
              source(t) == IF HasData(t) THEN {t}
                           ELSE IF walks(t) /\ Nearest(t) # 0 THEN {Ancestor(t, Nearest(t))}
                           ELSE {}
              looked(t) == {t} \cup (IF walks(t) THEN Walked(t) ELSE {})
              drawn(t)  == {[tile |-> t, data |-> entries[s].data, source |-> s] : s \in source(t)}
  <1>1. PICK t \in todo[u] :
            /\ frame' = [frame EXCEPT ![u] = @ \cup drawn(t)]
            /\ older' = Touch(looked(t) \cap Cached, Cached)
            /\ todo' = [todo EXCEPT ![u] = @ \ {t}]
    BY DEF FillSlot
  <1>2. t \in Tiles
    BY DEF TInv, TypeOK
  <1>3. \A s \in source(t) : HasData(s)
    BY <1>2, NearestIsAHit
  <1>4. \A s : HasData(s) => s \in Tiles /\ entries[s].data \in Tiles
    BY DEF TInv, TypeOK, HasData, Cached, Entry
  <1>5. drawn(t) \subseteq [tile : Tiles, data : Tiles, source : Tiles]
    BY <1>2, <1>3, <1>4
  <1>6. u \in Tasks
    BY CacheConstants
  <1>7. TypeOK'
    <2>1. older' \subseteq Tiles \X Tiles
      <3>. DEFINE L == looked(t) \cap Cached
      <3>1. L \in SUBSET Tiles /\ Cached \in SUBSET Tiles
        BY DEF Cached
      <3>. HIDE DEF L
      <3>. QED
        BY <1>1, <3>1, TouchType DEF TInv, TypeOK, L
    <2>2. frame' \in [Updaters -> SUBSET [tile : Tiles, data : Tiles, source : Tiles]]
      <3>. DEFINE D == drawn(t)
      <3>1. frame' = [frame EXCEPT ![u] = @ \cup D] /\ D \subseteq [tile : Tiles, data : Tiles, source : Tiles]
        BY <1>1, <1>5
      <3>. HIDE DEF D
      <3>. QED
        BY <3>1 DEF TInv, TypeOK
    <2>3. todo' \in [Updaters -> SUBSET Tiles]
      BY <1>1 DEF TInv, TypeOK
    <2>4. lock' \in Tasks \cup {None}
      BY <1>6 DEF FillSlot, Guard
    <2>. QED
      BY <2>1, <2>2, <2>3, <2>4 DEF TInv, TypeOK, FillSlot
  <1>8. CacheIsTruthful' /\ BatchIsTruthful'
    BY DEF TInv, FillSlot, CacheIsTruthful, BatchIsTruthful, Cached, Lookup
  <1>9. AtWork'
    BY DEF TInv, FillSlot, AtWork
  <1>10. LockDiscipline'
    BY <1>6, CacheConstants DEF TInv, TypeOK, FillSlot, Guard, LockDiscipline
  <1>. QED
    BY <1>7, <1>8, <1>9, <1>10 DEF TInv

LEMMA ReturnTInv ==
    ASSUME TInv, NEW u \in Updaters, Return(u)
    PROVE  TInv'
  <1>1. u \in Tasks /\ \A p \in Prefetchers : p \in Tasks /\ p # u
    BY CacheConstants
  <1>2. camera[u] \in Cameras
    BY <1>1 DEF TInv, AtWork, Return
  <1>3. TypeOK'
    BY <1>1 DEF TInv, TypeOK, Return, cacheVars
  <1>4. CacheIsTruthful' /\ BatchIsTruthful'
    BY DEF TInv, Return, CacheIsTruthful, BatchIsTruthful, cacheVars, Cached, Lookup
  <1>5. AtWork'
    BY <1>1, <1>2 DEF TInv, TypeOK, Return, AtWork
  <1>6. LockDiscipline'
    BY <1>1, CacheConstants DEF TInv, TypeOK, Return, LockDiscipline
  <1>. QED
    BY <1>3, <1>4, <1>5, <1>6 DEF TInv

LEMMA GetTInv ==
    ASSUME TInv, NEW t \in Tiles, Get(t)
    PROVE  TInv'
  <1>1. older' \subseteq Tiles \X Tiles
    BY TouchType DEF TInv, TypeOK, Get, Cached
  <1>2. TypeOK'
    BY <1>1 DEF TInv, TypeOK, Get
  <1>3. CacheIsTruthful' /\ BatchIsTruthful' /\ AtWork' /\ LockDiscipline'
    BY DEF TInv, Get, CacheIsTruthful, BatchIsTruthful, Cached, Lookup, AtWork, LockDiscipline
  <1>. QED
    BY <1>2, <1>3 DEF TInv

LEMMA NextTInv == TInv /\ [Next]_vars => TInv'
  <1>. SUFFICES ASSUME TInv, [Next]_vars PROVE TInv'
    OBVIOUS
  <1>1. CASE \E u \in Updaters, c \in Cameras : BeginUpdate(u, c)
    BY <1>1, BeginUpdateTInv
  <1>2. CASE \E u \in Updaters : FillSlot(u) \/ Return(u)
    BY <1>2, FillSlotTInv, ReturnTInv
  <1>3. CASE \E p \in Prefetchers : ScanRing(p)
    BY <1>3, ScanRingTInv
  <1>4. CASE \E k \in Tasks :
                FetchOk(k) \/ FetchErr(k) \/ InsertTile(k) \/ Evict(k) \/ EvictDone(k)
    BY <1>4, FetchOkTInv, FetchErrTInv, InsertTileTInv, EvictTInv, EvictDoneTInv
  <1>5. CASE \E t \in Tiles : Get(t)
    BY <1>5, GetTInv
  <1>6. CASE UNCHANGED vars
    BY <1>6 DEF vars, cacheVars, TInv, TypeOK, BatchIsTruthful, CacheIsTruthful, Cached, Lookup,
                LockDiscipline, AtWork
  <1>. QED
    BY <1>1, <1>2, <1>3, <1>4, <1>5, <1>6 DEF Next

LEMMA TInvHolds == Spec => []TInv
  BY InitTInv, NextTInv, PTL DEF Spec

-----------------------------------------------------------------------------
(* Every variable keeps its type: also the frame of an update that walked  *)
(* to an ancestor holds tiles of the pyramid only.                         *)
THEOREM TypeCorrect == Spec => []TypeOK
  <1>1. TInv => TypeOK
    BY DEF TInv
  <1>. QED
    BY <1>1, TInvHolds, PTL

(* The cache never contradicts the archive, however updates, prefetches    *)
(* and failed reads interleave (view.rs load_missing and prefetch).        *)
THEOREM CacheTellsTheTruth == Spec => []CacheIsTruthful
  <1>1. TInv => CacheIsTruthful
    BY DEF TInv
  <1>. QED
    BY <1>1, TInvHolds, PTL

(* An update's own viewport survives its evictions (Lru::evict's           *)
(* `protected`), whoever else is evicting: the lock keeps them apart.      *)
LEMMA StepKeepsViewport == TInv /\ [Next]_vars => [~EvictsOwnViewport]_vars
  <1>. SUFFICES ASSUME TInv, Next, NEW u \in Updaters, lock = u,
                       NEW t \in Visible(camera[u]), t \in Cached, t \notin Cached'
                PROVE  FALSE
    BY DEF EvictsOwnViewport
  <1>1. t \in Tiles /\ entries[t] # None /\ entries'[t] = None
    BY DEF Cached
  <1>2. CASE entries' = entries
    BY <1>1, <1>2
  <1>3. CASE \E k \in Tasks : InsertTile(k)
    <2>1. PICK k \in Tasks : InsertTile(k)
      BY <1>3
    <2>2. PICK a \in batch[k] : entries' = [entries EXCEPT ![a.tile] = Stored(a.answer)]
      BY <2>1 DEF InsertTile
    <2>3. a.tile \in Tiles /\ Stored(a.answer) # None
      BY StoredType, CacheConstants DEF TInv, TypeOK, BatchIsTruthful
    <2>. QED
      BY <1>1, <2>2, <2>3 DEF TInv, TypeOK
  <1>4. CASE \E k \in Tasks : Evict(k)
    <2>1. PICK k \in Tasks : Evict(k)
      BY <1>4
    <2>2. k = u
      BY <2>1 DEF TInv, LockDiscipline, Evict
    <2>3. PICK v \in Tiles : IsVictim(v, k) /\ entries' = [entries EXCEPT ![v] = None]
      BY <2>1 DEF Evict
    <2>4. v \notin Visible(camera[u])
      BY <2>2, <2>3 DEF IsVictim, Unprotected, Protected
    <2>. QED
      BY <1>1, <2>3, <2>4 DEF TInv, TypeOK
  <1>5. entries' = entries \/ (\E k \in Tasks : InsertTile(k)) \/ (\E k \in Tasks : Evict(k))
    BY DEF Next, BeginUpdate, FillSlot, Return, ScanRing, FetchOk, FetchErr, EvictDone, Get, cacheVars
  <1>. QED
    BY <1>2, <1>3, <1>4, <1>5

THEOREM OwnViewportSurvives == Spec => OwnViewportKept
  BY TInvHolds, StepKeepsViewport, PTL DEF Spec, OwnViewportKept

-----------------------------------------------------------------------------
(* The budget: the step that ends an eviction is the one that matters.     *)
LEMMA EvictDoneBudget ==
    ASSUME TInv, NEW k \in Tasks, EvictDone(k)
    PROVE  OverBudgetOnlyForAViewport'
  <1>1. used' = used /\ Cached' = Cached /\ camera' = camera
    BY DEF EvictDone, cacheVars, Cached
  <1>2. camera[k] \in Cameras
    BY DEF TInv, AtWork, EvictDone
  <1>3. used > Budget => Cached \subseteq Protected(k)
    BY CacheConstants DEF EvictDone, EvictionEnds, Unprotected, TInv, TypeOK
  <1>4. Protected(k) \subseteq Visible(camera[k])
    BY DEF Protected
  <1>5. used > Budget => \E c \in Cameras : Cached \subseteq Visible(c)
    BY <1>2, <1>3, <1>4
  <1>. QED
    BY <1>1, <1>5 DEF OverBudgetOnlyForAViewport

LEMMA NextBudget == TInv /\ OverBudgetOnlyForAViewport /\ [Next]_vars => OverBudgetOnlyForAViewport'
  <1>. SUFFICES ASSUME TInv, OverBudgetOnlyForAViewport, [Next]_vars
                PROVE  OverBudgetOnlyForAViewport'
    OBVIOUS
  <1>1. CASE /\ entries' = entries /\ used' = used
             /\ \A k \in Tasks : pc[k] = "evict" => pc'[k] = "evict"
    <2>1. Cached' = Cached
      BY <1>1 DEF Cached
    <2>. QED
      BY <1>1, <2>1 DEF OverBudgetOnlyForAViewport
  <1>2. CASE \E k \in Tasks : pc'[k] = "evict"
    BY <1>2 DEF OverBudgetOnlyForAViewport
  <1>3. CASE \E k \in Tasks : EvictDone(k)
    BY <1>3, EvictDoneBudget
  <1>4. CASE \E u \in Updaters, c \in Cameras : BeginUpdate(u, c)
    BY <1>1, <1>4, CacheConstants DEF TInv, TypeOK, BeginUpdate, cacheVars
  <1>5. CASE \E u \in Updaters : FillSlot(u) \/ Return(u)
    BY <1>1, <1>5, CacheConstants DEF TInv, TypeOK, FillSlot, Return, cacheVars
  <1>6. CASE \E p \in Prefetchers : ScanRing(p)
    BY <1>1, <1>6, CacheConstants DEF TInv, TypeOK, ScanRing, cacheVars
  <1>7. CASE \E k \in Tasks : FetchOk(k) \/ FetchErr(k)
    BY <1>1, <1>7 DEF TInv, TypeOK, FetchOk, FetchErr, cacheVars
  <1>8. CASE \E k \in Tasks : InsertTile(k) \/ Evict(k)
    BY <1>2, <1>8 DEF TInv, TypeOK, InsertTile, Evict
  <1>9. CASE \E t \in Tiles : Get(t)
    BY <1>1, <1>9 DEF Get
  <1>10. CASE UNCHANGED vars
    BY <1>1, <1>10 DEF vars
  <1>. QED
    BY <1>3, <1>4, <1>5, <1>6, <1>7, <1>8, <1>9, <1>10 DEF Next

(* Eviction never stops early: outside one, the budget is exceeded only    *)
(* when everything cached belongs to one viewport.                         *)
THEOREM BudgetIsKept == Spec => []OverBudgetOnlyForAViewport
  <1>1. Init => OverBudgetOnlyForAViewport
    BY CacheConstants DEF Init, OverBudgetOnlyForAViewport
  <1>. QED
    BY <1>1, TInvHolds, NextBudget, PTL DEF Spec

-----------------------------------------------------------------------------
(* A strict total order of C.                                              *)
TotalOn(R, C) ==
    /\ R \subseteq C \X C
    /\ \A a, b \in C : a = b <=> (<<a, b>> \notin R /\ <<b, a>> \notin R)
    /\ \A a, b, c \in C : <<a, b>> \in R /\ <<b, c>> \in R => <<a, c>> \in R

(* Touching tiles of pairwise different levels, which the tiles of one     *)
(* overzoom walk are, keeps the order total.                               *)
LEMMA TouchIsTotal ==
    ASSUME NEW C \in SUBSET Tiles, NEW S \in SUBSET Tiles, TotalOn(older, C),
           \A a, b \in S : a.z = b.z => a = b
    PROVE  TotalOn(Touch(S, C \cup S), C \cup S)
  <1>. DEFINE N == Touch(S, C \cup S)
              Below(a, b) == \/ a \notin S /\ b \notin S /\ <<a, b>> \in older
                             \/ a \notin S /\ b \in S
                             \/ a \in S /\ b \in S /\ a.z > b.z
  <1>1. \A a \in C \cup S : a.z \in Nat
    BY TileType
  <1>2. ASSUME NEW a \in C \cup S, NEW b \in C \cup S
        PROVE  <<a, b>> \in N <=> Below(a, b)
    <2>1. <<a, b>> \in {p \in older : p[1] \notin S /\ p[2] \notin S}
              <=> a \notin S /\ b \notin S /\ <<a, b>> \in older
      OBVIOUS
    <2>2. <<a, b>> \in {p \in ((C \cup S) \ S) \X S : TRUE} <=> a \notin S /\ b \in S
      OBVIOUS
    <2>3. <<a, b>> \in {p \in S \X S : p[1].z > p[2].z} <=> a \in S /\ b \in S /\ a.z > b.z
      OBVIOUS
    <2>. QED
      BY <2>1, <2>2, <2>3 DEF Touch
  <1>3. N \subseteq (C \cup S) \X (C \cup S)
    BY DEF Touch, TotalOn
  <1>4. ASSUME NEW a \in C \cup S, NEW b \in C \cup S
        PROVE  a = b <=> (~Below(a, b) /\ ~Below(b, a))
    <2>1. CASE a \in S /\ b \in S
      BY <1>1, <2>1
    <2>2. CASE a \notin S /\ b \notin S
      BY <2>2 DEF TotalOn
    <2>3. CASE (a \in S) # (b \in S)
      BY <2>3
    <2>. QED
      BY <2>1, <2>2, <2>3
  <1>5. ASSUME NEW a \in C \cup S, NEW b \in C \cup S, NEW c \in C \cup S,
               Below(a, b), Below(b, c)
        PROVE  Below(a, c)
    <2>1. CASE a \in S
      BY <1>1, <1>5, <2>1
    <2>2. CASE a \notin S /\ c \in S
      BY <2>2
    <2>3. CASE a \notin S /\ c \notin S
      BY <1>5, <2>3 DEF TotalOn
    <2>. QED
      BY <2>1, <2>2, <2>3
  <1>. HIDE DEF Below
  <1>6. N \subseteq (C \cup S) \X (C \cup S)
          /\ (\A a, b \in C \cup S : a = b <=> (<<a, b>> \notin N /\ <<b, a>> \notin N))
          /\ (\A a, b, c \in C \cup S : <<a, b>> \in N /\ <<b, c>> \in N => <<a, c>> \in N)
    <2>. HIDE DEF N
    <2>. QED
      BY <1>2, <1>3, <1>4, <1>5
  <1>. QED
    BY <1>6 DEF TotalOn

LEMMA OlderAsTotal == OlderIsTotal <=> TotalOn(older, Cached)
  BY DEF OlderIsTotal, TotalOn

(* The tiles of an overzoom walk are of pairwise different levels.         *)
LEMMA WalkLevels ==
    ASSUME NEW t \in Tiles
    PROVE  \A a, b \in {t} \cup Walked(t) : a.z = b.z => a = b
  <1>1. ASSUME NEW a \in Walked(t)
        PROVE  \E k \in Nat \ {0} : a = Ancestor(t, k) /\ a.z = t.z - k
    BY TileType, NearestIsAHit DEF Walked, Ancestor
  <1>2. t.z \in Nat
    BY TileType
  <1>. QED
    BY <1>1, <1>2

LEMMA NextOlder == TInv /\ OlderIsTotal /\ [Next]_vars => OlderIsTotal'
  <1>. SUFFICES ASSUME TInv, TotalOn(older, Cached), [Next]_vars
                PROVE  TotalOn(older', Cached')
    BY OlderAsTotal DEF OlderIsTotal, TotalOn
  <1>0. Cached \in SUBSET Tiles
    BY DEF Cached
  <1>1. CASE entries' = entries /\ older' = older
    BY <1>1 DEF Cached
  <1>2. CASE \E k \in Tasks : InsertTile(k)
    <2>1. PICK k \in Tasks : InsertTile(k)
      BY <1>2
    <2>2. PICK a \in batch[k] : /\ entries' = [entries EXCEPT ![a.tile] = Stored(a.answer)]
                               /\ older' = Touch({a.tile}, Cached \cup {a.tile})
      BY <2>1 DEF InsertTile
    <2>3. a.tile \in Tiles /\ Stored(a.answer) # None
      BY StoredType, CacheConstants DEF TInv, TypeOK, BatchIsTruthful
    <2>4. Cached' = Cached \cup {a.tile}
      BY <2>2, <2>3 DEF TInv, TypeOK, Cached
    <2>. QED
      BY <1>0, <2>2, <2>3, <2>4, TouchIsTotal
  <1>3. CASE \E k \in Tasks : Evict(k)
    <2>1. PICK v \in Tiles : /\ entries' = [entries EXCEPT ![v] = None]
                            /\ older' = {p \in older : p[1] # v /\ p[2] # v}
      BY <1>3 DEF Evict
    <2>2. Cached' = Cached \ {v}
      BY <2>1 DEF TInv, TypeOK, Cached
    <2>. QED
      BY <2>1, <2>2 DEF TotalOn
  <1>4. CASE \E u \in Updaters : FillSlot(u)
    <2>1. PICK u \in Updaters : FillSlot(u)
      BY <1>4
    <2>. DEFINE Looked(t) == {t} \cup (IF ~HasData(t) /\ Overzoom(camera[u]) THEN Walked(t) ELSE {})
    <2>2. PICK t \in todo[u] : older' = Touch(Looked(t) \cap Cached, Cached)
      BY <2>1 DEF FillSlot
    <2>. DEFINE L == Looked(t)
    <2>3. t \in Tiles
      BY DEF TInv, TypeOK
    <2>4. L \cap Cached \in SUBSET Tiles /\ Cached = Cached \cup (L \cap Cached)
      BY <1>0
    <2>5. \A a, b \in L \cap Cached : a.z = b.z => a = b
      BY <2>3, WalkLevels
    <2>6. Cached' = Cached
      BY <2>1 DEF FillSlot, Cached
    <2>. HIDE DEF L
    <2>7. older' = Touch(L \cap Cached, Cached)
      BY <2>2 DEF L
    <2>. QED
      BY <1>0, <2>4, <2>5, <2>6, <2>7, TouchIsTotal
  <1>5. CASE \E t \in Tiles : Get(t)
    <2>1. PICK t \in Cached : older' = Touch({t}, Cached) /\ entries' = entries
      BY <1>5 DEF Get
    <2>2. Cached = Cached \cup {t} /\ Cached' = Cached /\ {t} \in SUBSET Tiles
      BY <1>0, <2>1 DEF Cached
    <2>. QED
      BY <1>0, <2>1, <2>2, TouchIsTotal
  <1>6. \/ entries' = entries /\ older' = older
        \/ \E k \in Tasks : InsertTile(k) \/ Evict(k)
        \/ \E u \in Updaters : FillSlot(u)
        \/ \E t \in Tiles : Get(t)
    BY DEF Next, vars, BeginUpdate, Return, ScanRing, FetchOk, FetchErr, EvictDone, cacheVars
  <1>. QED
    BY <1>1, <1>2, <1>3, <1>4, <1>5, <1>6

(* There is always exactly one least recently used tile, although a single *)
(* critical section touches a whole chain of ancestors.                    *)
THEOREM RecencyIsTotal == Spec => []OlderIsTotal
  <1>1. Init => OlderIsTotal
    BY DEF Init, OlderIsTotal, Cached
  <1>. QED
    BY <1>1, TInvHolds, NextOlder, PTL DEF Spec

-----------------------------------------------------------------------------
(* The byte account.  The tiles a map has entries for, and what a set of   *)
(* them takes.                                                             *)
In(E) == {t \in Tiles : E[t] # None}
Bytes(E, S) == SumFunctionOnSet([t \in In(E) |-> E[t].bytes], S)

LEMMA BytesAre ==
    ASSUME NEW E \in [Tiles -> Entry \cup {None}]
    PROVE  \A t \in In(E) : E[t] \in Entry /\ E[t].bytes \in Nat
  BY DEF In, Entry

(* What a tile takes and what the others take.                             *)
LEMMA BytesWithout ==
    ASSUME NEW E \in [Tiles -> Entry \cup {None}], IsFiniteSet(In(E)), NEW t \in Tiles
    PROVE  /\ Bytes(E, In(E) \ {t}) \in Nat
           /\ BytesOf(E[t]) \in Nat
           /\ Bytes(E, In(E)) = Bytes(E, In(E) \ {t}) + BytesOf(E[t])
  <1>. DEFINE f == [s \in In(E) |-> E[s].bytes]
  <1>1. \A s \in In(E) : f[s] \in Nat
    BY BytesAre
  <1>2. IsFiniteSet(In(E) \ {t}) /\ t \notin In(E) \ {t}
    BY FS_RemoveElement
  <1>3. Bytes(E, In(E) \ {t}) \in Nat
    <2>. HIDE DEF f
    <2>1. \A s \in In(E) \ {t} : f[s] \in Nat
      BY <1>1
    <2>. QED
      BY <1>2, <2>1, SumIsNat DEF Bytes, f
  <1>4. BytesOf(E[t]) \in Nat
    BY DEF BytesOf, Entry
  <1>5. CASE t \in In(E)
    <2>1. f[t] = BytesOf(E[t])
      BY <1>5 DEF BytesOf, In
    <2>2. (In(E) \ {t}) \cup {t} = In(E)
      BY <1>5
    <2>. HIDE DEF f
    <2>3. SumFunctionOnSet(f, (In(E) \ {t}) \cup {t}) = SumFunctionOnSet(f, In(E) \ {t}) + f[t]
      BY <1>1, <1>2, <2>2, SumOfMore
    <2>. QED
      BY <1>3, <1>4, <2>1, <2>2, <2>3 DEF Bytes, f
  <1>6. CASE t \notin In(E)
    <2>1. BytesOf(E[t]) = 0 /\ In(E) \ {t} = In(E)
      BY <1>6 DEF BytesOf, In
    <2>. QED
      BY <1>3, <2>1
  <1>. QED
    BY <1>3, <1>4, <1>5, <1>6

(* Changing the entry of one tile changes what that tile takes.            *)
LEMMA BytesOfChange ==
    ASSUME NEW E \in [Tiles -> Entry \cup {None}], IsFiniteSet(In(E)),
           NEW t \in Tiles, NEW e \in Entry \cup {None}
    PROVE  LET F == [E EXCEPT ![t] = e] IN
           /\ IsFiniteSet(In(F))
           /\ Bytes(F, In(F)) = Bytes(E, In(E)) - BytesOf(E[t]) + BytesOf(e)
  <1>. DEFINE F == [E EXCEPT ![t] = e]
              f == [s \in In(E) |-> E[s].bytes]
              g == [s \in In(F) |-> F[s].bytes]
              D == In(E) \ {t}
  <1>1. F \in [Tiles -> Entry \cup {None}] /\ F[t] = e /\ \A s \in Tiles : s # t => F[s] = E[s]
    OBVIOUS
  <1>. HIDE DEF F
  <1>2. D = In(F) \ {t}
    BY <1>1 DEF In
  <1>3. IsFiniteSet(D)
    BY FS_RemoveElement
  <1>4. IsFiniteSet(In(F))
    <2>1. In(F) \in SUBSET (D \cup {t})
      BY <1>2
    <2>2. IsFiniteSet(D \cup {t})
      BY <1>3, FS_AddElement
    <2>. QED
      BY <2>1, <2>2, FS_Subset
  <1>5. \A s \in D : f[s] \in Nat /\ g[s] = f[s]
    BY <1>1, <1>2, BytesAre DEF In
  <1>6. Bytes(F, In(F) \ {t}) = Bytes(E, D)
    <2>. HIDE DEF f, g, D
    <2>1. SumFunctionOnSet(g, D) = SumFunctionOnSet(f, D)
      BY <1>3, <1>5, SumOfSame
    <2>. QED
      BY <1>2, <2>1 DEF Bytes, f, g
  <1>7. /\ Bytes(E, D) \in Nat /\ BytesOf(E[t]) \in Nat
        /\ Bytes(E, In(E)) = Bytes(E, D) + BytesOf(E[t])
    BY BytesWithout
  <1>8. /\ BytesOf(e) \in Nat
        /\ Bytes(F, In(F)) = Bytes(E, D) + BytesOf(e)
    BY <1>1, <1>4, <1>6, BytesWithout
  <1>9. Bytes(F, In(F)) = Bytes(E, In(E)) - BytesOf(E[t]) + BytesOf(e)
    <2>1. \A a, b, c \in Nat : a + c = (a + b) - b + c
      OBVIOUS
    <2>2. Bytes(E, D) + BytesOf(e) = (Bytes(E, D) + BytesOf(E[t])) - BytesOf(E[t]) + BytesOf(e)
      BY <1>7, <1>8, <2>1, Zenon
    <2>. QED
      BY <1>7, <1>8, <2>2, Zenon
  <1>. QED
    BY <1>4, <1>9 DEF F

AInv == IsFiniteSet(In(entries)) /\ used = Bytes(entries, In(entries))

LEMMA NextAccount == TInv /\ AInv /\ [Next]_vars => AInv'
  <1>. SUFFICES ASSUME TInv, AInv, [Next]_vars
                PROVE  AInv'
    OBVIOUS
  <1>1. entries \in [Tiles -> Entry \cup {None}] /\ used \in Int
    BY DEF TInv, TypeOK
  <1>2. CASE UNCHANGED <<entries, used>>
    BY <1>2 DEF AInv
  <1>3. ASSUME NEW t \in Tiles, NEW e \in Entry \cup {None},
               entries' = [entries EXCEPT ![t] = e],
               used' = used - BytesOf(entries[t]) + BytesOf(e)
        PROVE  AInv'
    BY <1>1, <1>3, BytesOfChange DEF AInv
  <1>4. CASE \E k \in Tasks : InsertTile(k)
    <2>1. PICK k \in Tasks : InsertTile(k)
      BY <1>4
    <2>2. PICK a \in batch[k] :
             /\ entries' = [entries EXCEPT ![a.tile] = Stored(a.answer)]
             /\ used' = used - BytesOf(entries[a.tile]) + Stored(a.answer).bytes
      BY <2>1 DEF InsertTile
    <2>3. a.tile \in Tiles /\ Stored(a.answer) \in Entry /\ Stored(a.answer) # None
      BY StoredType, CacheConstants DEF TInv, TypeOK, BatchIsTruthful
    <2>4. BytesOf(Stored(a.answer)) = Stored(a.answer).bytes
      BY <2>3 DEF BytesOf
    <2>. QED
      BY <1>3, <2>2, <2>3, <2>4
  <1>5. CASE \E k \in Tasks : Evict(k)
    <2>1. PICK v \in Tiles : /\ v \in Cached
                            /\ entries' = [entries EXCEPT ![v] = None]
                            /\ used' = used - entries[v].bytes
      BY <1>5 DEF Evict, IsVictim, Unprotected
    <2>2. BytesOf(entries[v]) = entries[v].bytes /\ BytesOf(None) = 0
      BY <2>1 DEF BytesOf, Cached
    <2>3. entries[v].bytes \in Nat
      BY <1>1, <2>1 DEF Cached, Entry
    <2>4. used' = used - BytesOf(entries[v]) + BytesOf(None)
      BY <1>1, <2>1, <2>2, <2>3
    <2>. QED
      BY <1>3, <2>1, <2>4
  <1>6. \/ UNCHANGED <<entries, used>>
        \/ \E k \in Tasks : InsertTile(k) \/ Evict(k)
    BY DEF Next, vars, BeginUpdate, FillSlot, Return, ScanRing, FetchOk, FetchErr, EvictDone,
           Get, cacheVars
  <1>. QED
    BY <1>2, <1>4, <1>5, <1>6

(* The byte account is exact in every state, although two tasks may insert *)
(* the same tile and an insert may replace an entry (Lru::insert, evict):  *)
(* `used` never drifts, and never goes below zero.                         *)
THEOREM AccountIsExact == Spec => []UsedIsSum
  <1>1. Init => AInv
    <2>. SUFFICES ASSUME Init
                  PROVE  AInv
      OBVIOUS
    <2>1. In(entries) = {} /\ used = 0
      BY DEF Init, In
    <2>2. Bytes(entries, {}) = 0
      BY SumOfNothing DEF Bytes
    <2>. QED
      BY <2>1, <2>2, FS_EmptySet DEF AInv
  <1>2. AInv => UsedIsSum
    BY DEF AInv, UsedIsSum, Bytes, In, Cached, SumFunction
  <1>. QED
    BY <1>1, <1>2, TInvHolds, NextAccount, PTL DEF Spec

-----------------------------------------------------------------------------
(* The frame of an update.  What it has collected is the cached tiles' own *)
(* data; it starts with all slots to fill, and once it has filled one the  *)
(* lock is its own.                                                        *)
FrameOf(u) ==
    /\ \A f \in frame[u] : f.data = f.source
    /\ pc[u] \in {"fetch", "insert", "evict"} =>
          todo[u] = Visible(camera[u]) /\ frame[u] = {}
    /\ pc[u] = "collect" =>
          /\ todo[u] \subseteq Visible(camera[u])
          /\ \A f \in frame[u] : f.tile \in Visible(camera[u]) \ todo[u]
          /\ todo[u] # Visible(camera[u]) => lock = u
          /\ \A t \in Visible(camera[u]) \ todo[u] : SlotIsRight(u, t)
    /\ pc[u] # "scan"
FInv == \A u \in Updaters : FrameOf(u)

(* The data of a cached tile is the tile's own.                            *)
LEMMA DataIsOwn ==
    ASSUME TInv, NEW s, HasData(s)
    PROVE  s \in Tiles /\ entries[s].data = s
  BY DEF TInv, CacheIsTruthful, HasData, Cached, Lookup

(* Where the walk from a tile ends.                                        *)
LEMMA NearestIsFirst ==
    ASSUME NEW t \in Tiles
    PROVE  /\ (\E k \in 1..t.z : HasData(Ancestor(t, k))) => Nearest(t) # 0
           /\ Nearest(t) # 0 => \A j \in 1..(Nearest(t) - 1) : ~HasData(Ancestor(t, j))
  <1>1. t.z \in Nat /\ Hits(t) \in SUBSET Nat /\ 0 \notin Hits(t)
    BY TileType DEF Hits
  <1>2. CASE Hits(t) = {}
    BY <1>2 DEF Hits, Nearest
  <1>3. CASE Hits(t) # {}
    <2>1. \E k \in Hits(t) : \A j \in Hits(t) : k <= j
      BY <1>1, <1>3, LeastNat
    <2>2. Nearest(t) \in Hits(t) /\ \A j \in Hits(t) : Nearest(t) <= j
      BY <1>3, <2>1 DEF Nearest
    <2>3. Nearest(t) # 0 /\ Nearest(t) \in 1..t.z
      BY <1>1, <2>2 DEF Hits
    <2>4. \A j \in 1..(Nearest(t) - 1) : j \in 1..t.z /\ ~(Nearest(t) <= j)
      BY <1>1, <2>3
    <2>5. \A j \in 1..(Nearest(t) - 1) : ~HasData(Ancestor(t, j))
      BY <2>2, <2>4 DEF Hits
    <2>. QED
      BY <2>3, <2>5
  <1>. QED
    BY <1>2, <1>3

(* What FillSlot draws in a slot is right.                                 *)
LEMMA DrawnIsRight ==
    ASSUME TInv, NEW u \in Updaters, NEW t \in Tiles, NEW walks \in BOOLEAN,
           walks <=> ~HasData(t) /\ Overzoom(camera[u]),
           NEW source, NEW drawn,
           source = IF HasData(t) THEN {t}
                    ELSE IF walks /\ Nearest(t) # 0 THEN {Ancestor(t, Nearest(t))}
                    ELSE {},
           drawn = {[tile |-> t, data |-> entries[s].data, source |-> s] : s \in source}
    PROVE  IF HasData(t) THEN drawn = {[tile |-> t, data |-> t, source |-> t]}
           ELSE IF Overzoom(camera[u]) /\ \E k \in 1..t.z : HasData(Ancestor(t, k))
           THEN \E k \in 1..t.z :
                   /\ drawn = {[tile |-> t, data |-> Ancestor(t, k), source |-> Ancestor(t, k)]}
                   /\ \A j \in 1..(k - 1) : ~HasData(Ancestor(t, j))
           ELSE drawn = {}
  <1>1. CASE HasData(t)
    BY <1>1, DataIsOwn
  <1>2. CASE ~HasData(t) /\ Overzoom(camera[u]) /\ \E k \in 1..t.z : HasData(Ancestor(t, k))
    <2>. DEFINE n == Nearest(t)
                a == Ancestor(t, n)
    <2>1. n \in 1..t.z /\ HasData(a) /\ \A j \in 1..(n - 1) : ~HasData(Ancestor(t, j))
      BY <1>2, NearestIsAHit, NearestIsFirst
    <2>2. source = {a} /\ entries[a].data = a
      BY <1>2, <2>1, NearestIsFirst, DataIsOwn
    <2>3. drawn = {[tile |-> t, data |-> a, source |-> a]}
      <3>. HIDE DEF a
      <3>. QED
        BY <2>2
    <2>. QED
      BY <1>2, <2>1, <2>3
  <1>3. CASE ~HasData(t) /\ ~(Overzoom(camera[u]) /\ \E k \in 1..t.z : HasData(Ancestor(t, k)))
    <2>1. source = {}
      BY <1>3, NearestIsAHit
    <2>. QED
      BY <1>3, <2>1
  <1>. QED
    BY <1>1, <1>2, <1>3

(* A step that is not the update's own leaves its frame, and the cache too *)
(* once the update has begun to collect.                                   *)
LEMMA FrameUntouched ==
    ASSUME NEW u \in Updaters, FrameOf(u),
           pc'[u] = pc[u], camera'[u] = camera[u], todo'[u] = todo[u], frame'[u] = frame[u],
           pc[u] = "collect" /\ lock = u => UNCHANGED <<entries, lock>>
    PROVE  FrameOf(u)'
  <1>1. CASE pc[u] = "collect" /\ todo[u] # Visible(camera[u])
    <2>1. UNCHANGED <<entries, lock>> /\ lock = u
      BY <1>1 DEF FrameOf
    <2>2. \A t : HasData(t)' = HasData(t)
      BY <2>1 DEF HasData, Cached
    <2>3. \A t : SlotIsRight(u, t)' <=> SlotIsRight(u, t)
      BY <2>2, Zenon DEF SlotIsRight
    <2>. QED
      BY <1>1, <2>1, <2>3 DEF FrameOf
  <1>2. CASE pc[u] = "collect" /\ todo[u] = Visible(camera[u])
    BY <1>2 DEF FrameOf
  <1>3. CASE pc[u] # "collect"
    BY <1>3 DEF FrameOf
  <1>. QED
    BY <1>1, <1>2, <1>3

(* The steps of a task: none disturbs an update of another.                *)
LEMMA OthersFrames ==
    ASSUME TInv, NEW u \in Updaters, FrameOf(u), NEW k \in Tasks, k # u,
           \/ FetchOk(k) \/ FetchErr(k) \/ InsertTile(k) \/ Evict(k) \/ EvictDone(k)
           \/ k \in Prefetchers /\ ScanRing(k)
           \/ k \in Updaters /\ (FillSlot(k) \/ Return(k) \/ \E c \in Cameras : BeginUpdate(k, c))
    PROVE  FrameOf(u)'
  <1>1. u \in Tasks /\ u # None /\ \A p \in Prefetchers : p # u
    BY CacheConstants
  <1>2. /\ pc'[u] = pc[u] /\ camera'[u] = camera[u] /\ todo'[u] = todo[u] /\ frame'[u] = frame[u]
    BY <1>1 DEF TInv, TypeOK, FetchOk, FetchErr, InsertTile, Evict, EvictDone, ScanRing, FillSlot,
                Return, BeginUpdate
  <1>3. lock = u => UNCHANGED <<entries, lock>>
    BY <1>1 DEF TInv, LockDiscipline, FetchOk, FetchErr, InsertTile, Evict, EvictDone, ScanRing,
                FillSlot, Return, BeginUpdate, Guard, cacheVars
  <1>. QED
    BY <1>2, <1>3, FrameUntouched

(* An update's own steps keep its frame in order.                          *)
LEMMA LoadFrames ==
    ASSUME TInv, NEW u \in Updaters, FrameOf(u),
           \/ FetchOk(u) \/ FetchErr(u) \/ InsertTile(u) \/ Evict(u) \/ EvictDone(u)
           \/ Return(u) \/ \E c \in Cameras : BeginUpdate(u, c)
    PROVE  FrameOf(u)'
  <1>1. u \in Tasks /\ \A p \in Prefetchers : p # u
    BY CacheConstants
  <1>2. CASE \E c \in Cameras : BeginUpdate(u, c)
    <2>1. PICK c \in Cameras : BeginUpdate(u, c)
      BY <1>2
    <2>2. /\ pc'[u] \in {"collect", "fetch"} /\ camera'[u] = c
          /\ todo'[u] = Visible(c) /\ frame'[u] = {}
      BY <1>1, <2>1 DEF TInv, TypeOK, BeginUpdate
    <2>. QED
      BY <2>2 DEF FrameOf
  <1>3. CASE Return(u)
    <2>1. pc'[u] = "idle" /\ frame' = frame
      BY <1>1, <1>3 DEF TInv, TypeOK, Return
    <2>. QED
      BY <2>1 DEF FrameOf
  <1>4. CASE FetchOk(u) \/ FetchErr(u) \/ InsertTile(u) \/ Evict(u) \/ EvictDone(u)
    <2>1. /\ pc[u] \in {"fetch", "insert", "evict"} /\ UNCHANGED <<camera, todo, frame>>
          /\ pc'[u] # "scan"
      BY <1>1, <1>4 DEF TInv, TypeOK, FetchOk, FetchErr, InsertTile, Evict, EvictDone
    <2>2. todo[u] = Visible(camera[u]) /\ frame[u] = {}
      BY <2>1 DEF FrameOf
    <2>. QED
      BY <2>1, <2>2 DEF FrameOf
  <1>. QED
    BY <1>2, <1>3, <1>4

LEMMA FillSlotFrames ==
    ASSUME TInv, NEW u \in Updaters, FrameOf(u), FillSlot(u)
    PROVE  FrameOf(u)'
  <1>. DEFINE walks(t)  == ~HasData(t) /\ Overzoom(camera[u])
              source(t) == IF HasData(t) THEN {t}
                           ELSE IF walks(t) /\ Nearest(t) # 0 THEN {Ancestor(t, Nearest(t))}
                           ELSE {}
              drawn(t)  == {[tile |-> t, data |-> entries[s].data, source |-> s] : s \in source(t)}
  <1>1. PICK t \in todo[u] :
            /\ frame' = [frame EXCEPT ![u] = @ \cup drawn(t)]
            /\ todo' = [todo EXCEPT ![u] = @ \ {t}]
    BY DEF FillSlot
  <1>2. /\ pc[u] = "collect" /\ pc' = pc /\ lock' = u /\ UNCHANGED <<entries, camera>>
        /\ t \in Visible(camera[u]) /\ t \in Tiles
    BY VisibleType DEF FillSlot, Guard, FrameOf
  <1>3. \A s : HasData(s)' = HasData(s)
    BY <1>2 DEF HasData, Cached
  <1>4. \A f \in drawn(t) : f.tile = t /\ f.data = f.source
    <2>1. \A s \in source(t) : HasData(s)
      BY <1>2, NearestIsAHit
    <2>2. \A s \in source(t) : entries[s].data = s
      BY <2>1, DataIsOwn
    <2>. QED
      BY <2>2
  <1>5. frame'[u] = frame[u] \cup drawn(t) /\ todo'[u] = todo[u] \ {t}
    BY <1>1 DEF TInv, TypeOK
  <1>6. {f \in frame'[u] : f.tile = t} = drawn(t)
    <2>1. \A f \in frame[u] : f.tile # t
      BY <1>1, <1>2 DEF FrameOf
    <2>. HIDE DEF drawn
    <2>. QED
      BY <1>4, <1>5, <2>1
  <1>7. SlotIsRight(u, t)'
    <2>. DEFINE w == walks(t)
                s == source(t)
                d == drawn(t)
    <2>1. IF HasData(t) THEN d = {[tile |-> t, data |-> t, source |-> t]}
          ELSE IF Overzoom(camera[u]) /\ \E k \in 1..t.z : HasData(Ancestor(t, k))
          THEN \E k \in 1..t.z :
                  /\ d = {[tile |-> t, data |-> Ancestor(t, k), source |-> Ancestor(t, k)]}
                  /\ \A j \in 1..(k - 1) : ~HasData(Ancestor(t, j))
          ELSE d = {}
      <3>1. w \in BOOLEAN /\ (w <=> ~HasData(t) /\ Overzoom(camera[u]))
        OBVIOUS
      <3>2. s = IF HasData(t) THEN {t}
                ELSE IF w /\ Nearest(t) # 0 THEN {Ancestor(t, Nearest(t))} ELSE {}
        OBVIOUS
      <3>3. d = {[tile |-> t, data |-> entries[x].data, source |-> x] : x \in s}
        OBVIOUS
      <3>. HIDE DEF w, s, d
      <3>. QED
        BY <1>2, <3>1, <3>2, <3>3, DrawnIsRight
    <2>. HIDE DEF d
    <2>2. {f \in frame'[u] : f.tile = t} = d
      BY <1>6 DEF d
    <2>. QED
      BY <1>2, <1>3, <2>1, <2>2, Zenon DEF SlotIsRight
  <1>8. ASSUME NEW s \in Visible(camera[u]) \ todo[u]
        PROVE  SlotIsRight(u, s)'
    <2>1. SlotIsRight(u, s) /\ s # t
      BY <1>1, <1>2 DEF FrameOf
    <2>2. {f \in frame'[u] : f.tile = s} = {f \in frame[u] : f.tile = s}
      <3>. HIDE DEF drawn
      <3>. QED
        BY <1>4, <1>5, <2>1
    <2>. QED
      BY <1>2, <1>3, <2>1, <2>2, Zenon DEF SlotIsRight
  <1>9. \A f \in frame'[u] : f.data = f.source /\ f.tile \in Visible(camera[u]) \ (todo[u] \ {t})
    <2>. HIDE DEF drawn
    <2>. QED
      BY <1>2, <1>4, <1>5 DEF FrameOf
  <1>10. \A s \in Visible(camera[u]) \ (todo[u] \ {t}) : SlotIsRight(u, s)'
    BY <1>7, <1>8
  <1>. QED
    BY <1>2, <1>5, <1>9, <1>10 DEF FrameOf

LEMMA NextFrames == TInv /\ FInv /\ [Next]_vars => FInv'
  <1>. SUFFICES ASSUME TInv, FInv, [Next]_vars, NEW u \in Updaters
                PROVE  FrameOf(u)'
    BY DEF FInv
  <1>1. FrameOf(u) /\ u \in Tasks /\ u # None /\ \A p \in Prefetchers : p # u /\ p \in Tasks
    BY CacheConstants DEF FInv
  <1>2. CASE \E v \in Updaters, c \in Cameras : BeginUpdate(v, c)
    <2>1. PICK v \in Updaters : \E c \in Cameras : BeginUpdate(v, c)
      BY <1>2
    <2>2. v \in Tasks
      BY CacheConstants
    <2>. QED
      BY <1>1, <2>1, <2>2, LoadFrames, OthersFrames
  <1>3. CASE \E v \in Updaters : FillSlot(v) \/ Return(v)
    <2>1. PICK v \in Updaters : FillSlot(v) \/ Return(v)
      BY <1>3
    <2>2. v \in Tasks
      BY CacheConstants
    <2>. QED
      BY <1>1, <2>1, <2>2, LoadFrames, FillSlotFrames, OthersFrames
  <1>4. CASE \E p \in Prefetchers : ScanRing(p)
    BY <1>1, <1>4, OthersFrames
  <1>5. CASE \E k \in Tasks :
                FetchOk(k) \/ FetchErr(k) \/ InsertTile(k) \/ Evict(k) \/ EvictDone(k)
    BY <1>1, <1>5, LoadFrames, OthersFrames
  <1>6. CASE (\E t \in Tiles : Get(t)) \/ UNCHANGED vars
    <2>1. UNCHANGED <<entries, lock, pc, camera, todo, frame>>
      BY <1>6 DEF Get, vars
    <2>. QED
      BY <1>1, <2>1, FrameUntouched
  <1>. QED
    BY <1>2, <1>3, <1>4, <1>5, <1>6 DEF Next

LEMMA InitFrames == Init => FInv
  BY CacheConstants DEF Init, FInv, FrameOf

LEMMA FInvHolds == Spec => []FInv
  BY InitFrames, TInvHolds, NextFrames, PTL DEF Spec

(* The frame of an update is a snapshot of the cache (TileView::update's   *)
(* second critical section): however other updates, prefetches and peeks   *)
(* interleave with it, at no moment does a collected slot show anything    *)
(* but what the cache then holds for it.                                   *)
THEOREM FrameIsASnapshot == Spec => []FrameIsSnapshot
  <1>1. FInv => FrameIsSnapshot
    BY DEF FInv, FrameOf, FrameIsSnapshot
  <1>. QED
    BY <1>1, FInvHolds, PTL
=============================================================================
