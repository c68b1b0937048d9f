--------------------------- MODULE PreviewProofs ---------------------------
(***************************************************************************)
(* Theorems of Preview, for every pyramid, archive, budget and set of      *)
(* cameras, with their proofs.  The window's thread is one updater of the  *)
(* cache, so what TileCacheProofs shows of every updater holds of it.      *)
(***************************************************************************)
EXTENDS Preview, TileCacheProofs

LEMMA TheApp == App \in Updaters /\ App \in Tasks /\ Ring = 0
  BY PreviewAssumption DEF Tasks

(* The window moves the cache by steps of the cache.                       *)
LEMMA AppStepIsCacheStep == [AppNext]_<<vars, appVars>> => [Next]_vars
  <1>. SUFFICES ASSUME AppNext
                PROVE  Next \/ UNCHANGED vars
    OBVIOUS
  <1>1. CASE Moves
    <2>1. \E c \in Cameras : BeginUpdate(App, c)
      BY <1>1, PreviewAssumption DEF Moves, Resumed, PanPixels, ZoomBy, Resize
    <2>. QED
      BY <2>1, TheApp DEF Next
  <1>2. CASE Load
    BY <1>2, TheApp DEF Load, Next
  <1>3. CASE ApplyCamera
    BY <1>3, TheApp DEF ApplyCamera, NewState, SameScene, NewScene, Next
  <1>. QED
    BY <1>1, <1>2, <1>3 DEF AppNext

LEMMA AppIsACaller == AppSpec => Spec
  <1>1. AppInit => Init
    BY DEF AppInit
  <1>. QED
    BY <1>1, AppStepIsCacheStep, PTL DEF AppSpec, Spec

-----------------------------------------------------------------------------
(* Nothing of the viewport is lost on the way into the cache: what it      *)
(* still lacks of it is being fetched, then waiting to be inserted.  No    *)
(* other task is there to throw it out again.                              *)
AtRestDrawn ==
    \A t \in Visible(camera[App]) \cap DOMAIN Archive : \E f \in frame[App] : f.tile = t

OnItsWay ==
    /\ pc[App] = "fetch" => missing[App] # {} /\ Visible(camera[App]) \ Cached \subseteq missing[App]
    /\ pc[App] \in {"insert", "evict"} =>
          Visible(camera[App]) \ Cached \subseteq {a.tile : a \in batch[App]}
    /\ pc[App] = "collect" /\ ~failed[App] => Visible(camera[App]) \subseteq Cached
    /\ pc[App] = "idle" /\ camera[App] # None /\ ~failed[App] => AtRestDrawn

LEMMA InitOnItsWay == Init => OnItsWay
  BY TheApp DEF Init, OnItsWay

LEMMA BeginOnItsWay ==
    ASSUME TInv, NEW c \in Cameras, BeginUpdate(App, c)
    PROVE  OnItsWay'
  <1>1. /\ camera'[App] = c /\ Cached' = Cached
        /\ missing'[App] = Visible(c) \ Cached
        /\ pc'[App] = IF Visible(c) \ Cached = {} THEN "collect" ELSE "fetch"
    BY TheApp DEF TInv, TypeOK, BeginUpdate, cacheVars, Cached
  <1>. QED
    BY <1>1 DEF OnItsWay

LEMMA FetchOkAnswers ==
    ASSUME TInv, OnItsWay, FetchOk(App)
    PROVE  pc'[App] = "insert" /\ missing[App] \subseteq {a.tile : a \in batch'[App]}
  <1>. DEFINE answers == {[tile |-> t, answer |-> Lookup(t)] : t \in missing[App]}
  <1>1. missing[App] # {}
    BY DEF OnItsWay, FetchOk
  <1>2. answers # {} /\ missing[App] \subseteq {a.tile : a \in answers}
    <2>1. \A t \in missing[App] : [tile |-> t, answer |-> Lookup(t)] \in answers
      OBVIOUS
    <2>2. \A t \in missing[App] : \E a \in answers : t = a.tile
      BY <2>1
    <2>. HIDE DEF answers
    <2>. QED
      BY <1>1, <2>2
  <1>3. batch'[App] = answers /\ pc'[App] = "insert"
    BY <1>2, TheApp DEF FetchOk, TInv, TypeOK
  <1>. QED
    BY <1>2, <1>3

LEMMA FetchOnItsWay ==
    ASSUME TInv, OnItsWay, FetchOk(App) \/ FetchErr(App)
    PROVE  OnItsWay'
  <1>1. /\ Visible(camera[App]) \ Cached \subseteq missing[App]
        /\ camera' = camera /\ Cached' = Cached
    BY DEF OnItsWay, FetchOk, FetchErr, cacheVars, Cached
  <1>2. CASE FetchOk(App)
    BY <1>1, <1>2, FetchOkAnswers DEF OnItsWay
  <1>3. CASE FetchErr(App)
    BY <1>1, <1>3, TheApp DEF FetchErr, TInv, TypeOK, OnItsWay
  <1>. QED
    BY <1>2, <1>3

LEMMA InsertOnItsWay ==
    ASSUME TInv, OnItsWay, InsertTile(App)
    PROVE  OnItsWay'
  <1>1. PICK a \in batch[App] : /\ entries' = [entries EXCEPT ![a.tile] = Stored(a.answer)]
                               /\ batch' = [batch EXCEPT ![App] = @ \ {a}]
    BY DEF InsertTile
  <1>2. a.tile \in Tiles /\ Stored(a.answer) # None
    BY TheApp, StoredType, CacheConstants DEF TInv, TypeOK, BatchIsTruthful
  <1>3. Cached' = Cached \cup {a.tile} /\ batch'[App] = batch[App] \ {a}
    BY <1>1, <1>2, TheApp DEF TInv, TypeOK, Cached
  <1>4. pc[App] = "insert" /\ pc'[App] = "evict" /\ camera' = camera
    BY TheApp DEF InsertTile, TInv, TypeOK
  <1>. QED
    BY <1>3, <1>4 DEF OnItsWay

LEMMA EvictOnItsWay ==
    ASSUME TInv, OnItsWay, Evict(App)
    PROVE  OnItsWay'
  <1>1. PICK v \in Tiles : IsVictim(v, App) /\ entries' = [entries EXCEPT ![v] = None]
    BY DEF Evict
  <1>2. v \notin Visible(camera[App])
    BY <1>1, TheApp DEF IsVictim, Unprotected, Protected
  <1>3. Visible(camera[App]) \ Cached' = Visible(camera[App]) \ Cached
    BY <1>1, <1>2 DEF TInv, TypeOK, Cached
  <1>. QED
    BY <1>3 DEF Evict, OnItsWay

LEMMA EvictDoneOnItsWay ==
    ASSUME TInv, OnItsWay, EvictDone(App)
    PROVE  OnItsWay'
  <1>1. Cached' = Cached
    BY DEF EvictDone, cacheVars, Cached
  <1>. QED
    BY <1>1, TheApp DEF TInv, TypeOK, EvictDone, OnItsWay

LEMMA FillSlotOnItsWay ==
    ASSUME OnItsWay, FillSlot(App)
    PROVE  OnItsWay'
  <1>1. Cached' = Cached /\ pc[App] = "collect" /\ UNCHANGED <<pc, camera, failed>>
    BY DEF FillSlot, Cached
  <1>. QED
    BY <1>1 DEF OnItsWay

LEMMA ReturnOnItsWay ==
    ASSUME TInv, FInv, OnItsWay, Return(App)
    PROVE  OnItsWay'
  <1>1. pc[App] = "collect" /\ todo[App] = {} /\ frame' = frame /\ failed' = failed
    BY DEF Return
  <1>2. pc'[App] = "idle" /\ camera' = camera
    BY TheApp DEF Return, TInv, TypeOK
  <1>3. ASSUME ~failed[App], NEW t \in Visible(camera[App]) \cap DOMAIN Archive
        PROVE  \E f \in frame[App] : f.tile = t
    <2>1. t \in Cached
      BY <1>1, <1>3 DEF OnItsWay
    <2>2. HasData(t)
      BY <2>1, CacheConstants DEF HasData, TInv, CacheIsTruthful, Lookup, Cached
    <2>3. SlotIsRight(App, t)
      BY <1>1, TheApp DEF FInv, FrameOf
    <2>4. {f \in frame[App] : f.tile = t} = {[tile |-> t, data |-> t, source |-> t]}
      BY <2>2, <2>3 DEF SlotIsRight
    <2>. QED
      BY <2>4
  <1>. QED
    BY <1>1, <1>2, <1>3 DEF OnItsWay, AtRestDrawn

LEMMA NextOnItsWay == TInv /\ FInv /\ OnItsWay /\ [AppNext]_<<vars, appVars>> => OnItsWay'
  <1>. SUFFICES ASSUME TInv, FInv, OnItsWay, [AppNext]_<<vars, appVars>>
                PROVE  OnItsWay'
    OBVIOUS
  <1>1. CASE Moves
    <2>1. \E c \in Cameras : BeginUpdate(App, c)
      BY <1>1, PreviewAssumption DEF Moves, Resumed, PanPixels, ZoomBy, Resize
    <2>. QED
      BY <2>1, BeginOnItsWay
  <1>2. CASE Load
    BY <1>2, FetchOnItsWay, InsertOnItsWay, EvictOnItsWay, EvictDoneOnItsWay, FillSlotOnItsWay
       DEF Load
  <1>3. CASE ApplyCamera
    BY <1>3, ReturnOnItsWay DEF ApplyCamera, NewState, SameScene, NewScene
  <1>4. CASE UNCHANGED <<vars, appVars>>
    BY <1>4 DEF vars, OnItsWay, AtRestDrawn, Cached
  <1>. QED
    BY <1>1, <1>2, <1>3, <1>4 DEF AppNext

LEMMA OnItsWayHolds == AppSpec => []OnItsWay
  <1>1. AppInit => OnItsWay
    BY InitOnItsWay DEF AppInit
  <1>. QED
    BY <1>1, AppIsACaller, TInvHolds, FInvHolds, NextOnItsWay, PTL DEF AppSpec

(* "A miss at a materialized level means the feature is genuinely absent   *)
(* there" (view.rs): in the application, whose cache has one caller and no *)
(* prefetch, a slot left blank by a batch that was read is a tile the      *)
(* archive does not have, however small the budget.                        *)
THEOREM BlanksAreAbsent == AppSpec => []BlankMeansAbsent
  <1>1. OnItsWay => BlankMeansAbsent
    BY PreviewAssumption DEF OnItsWay, AtRestDrawn, BlankMeansAbsent
  <1>. QED
    BY <1>1, OnItsWayHolds, PTL

-----------------------------------------------------------------------------
(* Two frames with the same slots, each of them drawing its sources' own   *)
(* data, show the same: the key tells all that matters.                    *)
LEMMA KeyTells ==
    ASSUME NEW F, NEW G, NEW d, NEW e,
           \A v \in F : v.data = v.source, \A v \in G : v.data = v.source,
           VisibleKey(F, d) = VisibleKey(G, e)
    PROVE  Displayed(F, d) = Displayed(G, e)
  <1>. DEFINE slots(H) == {<<v.tile, v.source>> : v \in H}
              shown(t) == {[source |-> t, shape |-> s] : s \in {z \in Shapes[t] : z <= d}}
  <1>1. d = e /\ slots(F) = slots(G)
    BY DEF VisibleKey
  <1>2. ASSUME NEW H, \A v \in H : v.data = v.source
        PROVE  Displayed(H, d) = UNION {shown(p[2]) : p \in slots(H)}
    <2>1. \A v \in H : {[source |-> v.source, shape |-> s] : s \in {z \in Shapes[v.data] : z <= d}}
                           = shown(v.source)
      BY <1>2
    <2>2. Displayed(H, d) = UNION {shown(v.source) : v \in H}
      BY <2>1 DEF Displayed
    <2>. HIDE DEF shown
    <2>3. \A v \in H : <<v.tile, v.source>> \in slots(H) /\ <<v.tile, v.source>>[2] = v.source
      OBVIOUS
    <2>4. \A p \in slots(H) : \E v \in H : p[2] = v.source
      OBVIOUS
    <2>. HIDE DEF slots
    <2>5. ASSUME NEW x
          PROVE  (\E v \in H : x \in shown(v.source)) <=> (\E p \in slots(H) : x \in shown(p[2]))
      BY <2>3, <2>4, Zenon
    <2>6. UNION {shown(v.source) : v \in H} = UNION {shown(p[2]) : p \in slots(H)}
      BY <2>5
    <2>. QED
      BY <2>2, <2>6
  <1>. QED
    BY <1>1, <1>2

(* What the window shows is the last scene built: the frame and zoom the   *)
(* recorded key is of, where they show anything.                           *)
LastScene ==
    \E F, d :
        /\ last_key = VisibleKey(F, d)
        /\ \A v \in F : v.data = v.source
        /\ Displayed(F, d) # {} =>
              buffers.shapes = Displayed(F, d) /\ buffers.origin = origin
SceneInv == running => LastScene /\ SceneIsCurrent

(* The frame an update returns draws each source's own data.               *)
LEMMA FrameIsOwn ==
    ASSUME FInv
    PROVE  \A v \in frame[App] : v.data = v.source
  BY TheApp DEF FInv, FrameOf

LEMMA MovesScene ==
    ASSUME TInv, SceneInv, Moves
    PROVE  SceneInv'
  <1>1. pc'[App] # "idle" /\ UNCHANGED stateVars
    BY TheApp DEF Moves, Resumed, PanPixels, ZoomBy, Resize, BeginUpdate, TInv, TypeOK, appVars
  <1>. QED
    BY <1>1 DEF SceneInv, LastScene, SceneIsCurrent, AtRest, stateVars

LEMMA LoadScene ==
    ASSUME TInv, OnItsWay, SceneInv, Load
    PROVE  SceneInv'
  <1>1. UNCHANGED stateVars
    BY DEF Load, appVars
  <1>2. pc'[App] # "idle"
    <2>1. CASE FetchOk(App)
      BY <2>1, FetchOkAnswers
    <2>2. CASE FetchErr(App) \/ InsertTile(App) \/ Evict(App) \/ EvictDone(App) \/ FillSlot(App)
      BY <2>2, TheApp DEF FetchErr, InsertTile, Evict, EvictDone, FillSlot, TInv, TypeOK
    <2>. QED
      BY <2>1, <2>2 DEF Load
  <1>. QED
    BY <1>1, <1>2 DEF SceneInv, LastScene, SceneIsCurrent, AtRest, stateVars

LEMMA ApplyScene ==
    ASSUME TInv, FInv, SceneInv, ApplyCamera
    PROVE  SceneInv'
  <1>. DEFINE now == frame[App]
              zoom == DisplayZoom(camera[App])
  <1>1. /\ Return(App) /\ running'
        /\ camera'[App] = camera[App] /\ frame' = frame
    BY TheApp DEF ApplyCamera, NewState, SameScene, NewScene, Return
  <1>2. \A v \in now : v.data = v.source
    BY FrameIsOwn
  <1>3. last_key' = VisibleKey(now, zoom)
    BY DEF ApplyCamera, NewState, SameScene, NewScene
  <1>4. CASE \/ NewState
             \/ NewScene /\ Displayed(now, zoom) # {}
    <2>1. buffers' = Tessellate(now, camera[App]) /\ origin' = OriginFor(camera[App], now)
          /\ uniform' = CameraUniform(camera[App], origin')
      BY <1>4 DEF NewState, NewScene
    <2>2. buffers'.shapes = Displayed(now, zoom) /\ buffers'.origin = origin'
      BY <2>1 DEF Tessellate
    <2>. QED
      BY <1>1, <1>2, <1>3, <2>1, <2>2 DEF SceneInv, LastScene, SceneIsCurrent
  <1>5. CASE NewScene /\ Displayed(now, zoom) = {}
    BY <1>1, <1>2, <1>3, <1>5 DEF SceneInv, LastScene, SceneIsCurrent
  <1>6. CASE SameScene
    <2>1. last_key = VisibleKey(now, zoom) /\ LastScene /\ uniform' = CameraUniform(camera[App], origin)
          /\ UNCHANGED <<last_key, origin, buffers>>
      BY <1>6 DEF SameScene, SceneInv
    <2>2. PICK G, e : /\ last_key = VisibleKey(G, e)
                      /\ \A v \in G : v.data = v.source
                      /\ Displayed(G, e) # {} =>
                            buffers.shapes = Displayed(G, e) /\ buffers.origin = origin
      BY <2>1, Zenon DEF LastScene
    <2>. HIDE DEF now, zoom
    <2>3. Displayed(G, e) = Displayed(now, zoom)
      <3>1. VisibleKey(G, e) = VisibleKey(now, zoom)
        BY <2>1, <2>2, Zenon
      <3>2. \A H, z : (\A v \in H : v.data = v.source) /\ VisibleKey(G, e) = VisibleKey(H, z)
                         => Displayed(G, e) = Displayed(H, z)
        BY <2>2, KeyTells
      <3>. QED
        BY <1>2, <3>1, <3>2, Zenon
    <2>4. Displayed(now, zoom) # {} => buffers'.shapes = Displayed(now, zoom) /\ buffers'.origin = origin'
      BY <2>1, <2>2, <2>3
    <2>5. LastScene'
      BY <1>2, <1>3, <2>4 DEF LastScene
    <2>6. SceneIsCurrent'
      BY <1>1, <2>1, <2>4 DEF SceneIsCurrent, now, zoom
    <2>. QED
      BY <2>5, <2>6 DEF SceneInv
  <1>. QED
    BY <1>4, <1>5, <1>6 DEF ApplyCamera

LEMMA NextScene ==
    TInv /\ FInv /\ OnItsWay /\ SceneInv /\ [AppNext]_<<vars, appVars>> => SceneInv'
  <1>. SUFFICES ASSUME TInv, FInv, OnItsWay, SceneInv, UNCHANGED <<vars, appVars>>
                PROVE  SceneInv'
    BY MovesScene, LoadScene, ApplyScene DEF AppNext
  <1>. QED
    BY DEF vars, appVars, stateVars, SceneInv, LastScene, SceneIsCurrent, AtRest

(* "None means the previously returned scene is still valid" (decode.rs):  *)
(* whatever the cache did in between, the window that kept its buffers     *)
(* shows what a scene built afresh would.                                  *)
THEOREM SceneStaysCurrent == AppSpec => []SceneIsCurrent
  <1>1. AppInit => SceneInv
    BY DEF AppInit, SceneInv
  <1>2. SceneInv => SceneIsCurrent
    BY DEF SceneInv, SceneIsCurrent, AtRest
  <1>. QED
    BY <1>1, <1>2, AppIsACaller, TInvHolds, FInvHolds, OnItsWayHolds, NextScene, PTL DEF AppSpec
-----------------------------------------------------------------------------
(* A level is nearest to a camera, and the coarsest of those as near.      *)
LEMMA TargetLevelType ==
    ASSUME NEW cam, cam.zoom \in Int
    PROVE  TargetLevel(cam) \in ZoomLevels
  <1>. DEFINE dist(l)   == Distance(2 * l, cam.zoom)
              dists     == {dist(l) : l \in ZoomLevels}
  <1>1. ZoomLevels \in SUBSET Nat /\ ZoomLevels # {}
    BY ZoomLevelsAssumption
  <1>2. \A l \in ZoomLevels : dist(l) \in Nat
    BY <1>1 DEF Distance
  <1>. HIDE DEF dist
  <1>3. dists \in SUBSET Nat /\ dists # {}
    BY <1>1, <1>2
  <1>4. PICK m \in dists : \A n \in dists : m <= n
    BY <1>3, LeastNat
  <1>. DEFINE near == {l \in ZoomLevels : dist(l) = m}
  <1>5. near \in SUBSET Nat /\ near # {}
    BY <1>1, <1>4
  <1>6. PICK level \in near : \A l \in near : level <= l
    BY <1>5, LeastNat
  <1>7. \A other \in ZoomLevels :
            dist(level) < dist(other) \/ (dist(level) = dist(other) /\ level <= other)
    <2>. SUFFICES ASSUME NEW other \in ZoomLevels
                  PROVE  dist(level) < dist(other) \/ (dist(level) = dist(other) /\ level <= other)
      OBVIOUS
    <2>1. dist(level) = m /\ m <= dist(other) /\ m \in Nat /\ dist(other) \in Nat
      BY <1>2, <1>3, <1>4, <1>6
    <2>2. dist(other) = m => level <= other
      BY <1>6
    <2>. QED
      BY <2>1, <2>2
  <1>8. \E l \in ZoomLevels : \A other \in ZoomLevels :
            LET d == Distance(2 * l, cam.zoom)
                e == Distance(2 * other, cam.zoom)
            IN  d < e \/ (d = e /\ l <= other)
    BY <1>6, <1>7 DEF dist
  <1>. QED
    BY <1>8, Zenon DEF TargetLevel

(* A frame that is complete gives a scene an origin.                       *)
LEMMA OriginType ==
    ASSUME TInv, FInv, pc[App] = "collect"
    PROVE  OriginFor(camera[App], frame[App]) \in Origin
  <1>1. camera[App] \in Cameras
    BY TheApp DEF TInv, AtWork
  <1>2. camera[App].cx \in Int /\ camera[App].cy \in Int /\ camera[App].zoom \in Int
    BY <1>1, PreviewAssumption
  <1>3. \A f \in frame[App] : f.tile.z \in ZoomLevels
    <2>1. \A f \in frame[App] : f.tile \in Visible(camera[App])
      BY TheApp DEF FInv, FrameOf
    <2>2. \A t \in Visible(camera[App]) : t.z = TargetLevel(camera[App])
      BY DEF Visible, VisibleRange
    <2>3. TargetLevel(camera[App]) \in ZoomLevels
      <3>1. \A c : c.zoom \in Int => TargetLevel(c) \in ZoomLevels
        BY TargetLevelType
      <3>. QED
        BY <1>2, <3>1, Zenon
    <2>. QED
      BY <2>1, <2>2, <2>3
  <1>4. TargetZoom(frame[App]) \in ZoomLevels \cup {0}
    BY <1>3 DEF TargetZoom
  <1>5. SceneExtent(frame[App]) \in {0, Extent}
    BY DEF SceneExtent
  <1>. QED
    BY <1>2, <1>4, <1>5 DEF OriginFor, Origin

LEMMA NextAppType ==
    TInv /\ FInv /\ AppTypeOK /\ [AppNext]_<<vars, appVars>> => AppTypeOK'
  <1>. SUFFICES ASSUME TInv, FInv, AppTypeOK, [AppNext]_<<vars, appVars>>
                PROVE  AppTypeOK'
    OBVIOUS
  <1>1. CASE Moves \/ Load \/ UNCHANGED <<vars, appVars>>
    <2>1. UNCHANGED stateVars /\ configured' \in BOOLEAN
      BY <1>1 DEF AppTypeOK, Moves, Resumed, PanPixels, ZoomBy, Resize, Load, appVars
    <2>. QED
      BY <2>1 DEF stateVars, AppTypeOK
  <1>2. CASE ApplyCamera
    <2>. DEFINE new == OriginFor(camera[App], frame[App])
    <2>1. pc[App] = "collect" /\ running' = TRUE /\ configured' \in BOOLEAN
      BY <1>2 DEF AppTypeOK, ApplyCamera, NewState, SameScene, NewScene, Return
    <2>2. camera[App] \in Cameras /\ new \in Origin
      BY <2>1, TheApp, OriginType DEF TInv, AtWork
    <2>3. last_key'.slots \subseteq Tiles \X Tiles
      <3>1. last_key' = VisibleKey(frame[App], DisplayZoom(camera[App]))
        BY <1>2 DEF ApplyCamera, NewState, SameScene, NewScene
      <3>2. \A v \in frame[App] : v.tile \in Tiles /\ v.source \in Tiles
        BY TheApp DEF TInv, TypeOK
      <3>. QED
        BY <3>1, <3>2 DEF VisibleKey
    <2>. HIDE DEF new
    <2>4. origin' \in Origin
      BY <1>2, <2>2 DEF AppTypeOK, ApplyCamera, NewState, SameScene, NewScene, new
    <2>5. buffers'.origin \in Origin
      BY <1>2, <2>2 DEF AppTypeOK, ApplyCamera, NewState, SameScene, NewScene, Tessellate, new
    <2>6. uniform'.camera \in Cameras /\ uniform'.origin \in Origin
      BY <1>2, <2>2 DEF AppTypeOK, ApplyCamera, NewState, SameScene, NewScene, CameraUniform, new
    <2>. QED
      BY <2>1, <2>3, <2>4, <2>5, <2>6 DEF AppTypeOK
  <1>. QED
    BY <1>1, <1>2 DEF AppNext

(* The application's variables keep their types: every origin it draws     *)
(* from is a point of the world at a materialized level.                   *)
THEOREM AppTypes == AppSpec => []AppTypeOK
  <1>1. AppInit => AppTypeOK
    BY DEF AppInit, AppTypeOK
  <1>. QED
    BY <1>1, AppIsACaller, TInvHolds, FInvHolds, NextAppType, PTL DEF AppSpec
=============================================================================
