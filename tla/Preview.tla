------------------------------ MODULE Preview ------------------------------
(***************************************************************************)
(* The preview application (preview_tiles/src/main.rs, map.rs) over the    *)
(* scene view of tiles/src/decode.rs over the tile cache.                  *)
(*                                                                         *)
(* The window's events are handled by one thread, which blocks on          *)
(* SceneView::update.  An event that moves the camera starts an update of  *)
(* the cache; its return, the key comparison, the tessellation and the     *)
(* writes of the GPU buffers are one step, for nothing else reads them in  *)
(* between.  open_world asks for no prefetch ring.                         *)
(*                                                                         *)
(* A shape is what tessellate turns into triangles: a road, an area or a   *)
(* POI, known by the tile that has it and the camera zoom its class is     *)
(* displayed from.  Scene coordinates relative to an origin are known by   *)
(* that origin.                                                            *)
(***************************************************************************)
EXTENDS TileCache

CONSTANTS
    App,            \* the window's thread, the one caller of the cache
    FirstCamera,    \* State::new's starting point
    Shapes,         \* payload -> display_min_zoom of the shapes it holds
    Extent          \* DecodedTile::extent

ASSUME PreviewAssumption ==
    /\ Updaters = {App}
    /\ Ring = 0
    /\ FirstCamera \in Cameras
    /\ \A c \in Cameras : c.cx \in Int /\ c.cy \in Int /\ c.zoom \in Int
    /\ \A t \in DOMAIN Archive : Shapes[t] \subseteq Int
    /\ Extent \in Nat \ {0}

VARIABLES
    running,        \* App::state is Some
    configured,     \* State::is_surface_configured
    last_key,       \* SceneView::last_key
    origin,         \* State::origin, target_zoom and extent
    buffers,        \* State::vertex_buffer, index_buffer and num_indices
    uniform         \* what State::camera_buffer holds

stateVars == <<running, last_key, origin, buffers, uniform>>
appVars == <<stateVars, configured>>

-----------------------------------------------------------------------------
(* cam.zoom.floor(): a camera's own zoom is one level below its effective  *)
(* zoom, for a tile is drawn 512 pixels wide.                              *)
DisplayZoom(cam) == cam.zoom \div 2 - 1

(* visible_key: the display zoom, and per slot its tile and the tile its   *)
(* data comes from.  A hash in the code, taken to be injective.            *)
(* Fault: the display zoom is left out.                                    *)
KeyOfTiles(visible, display) == [display |-> 0, slots |-> {<<v.tile, v.source>> : v \in visible}]

VisibleKey(visible, display) ==
    [display |-> display, slots |-> {<<v.tile, v.source>> : v \in visible}]

(* Scene::from_visible: the zoom of the frame's slots, all on one level,   *)
(* the extent of their tiles, and the shapes displayed at this zoom; 0 and *)
(* 0 for a frame without tiles.                                            *)
TargetZoom(visible) == IF visible = {} THEN 0 ELSE (CHOOSE v \in visible : TRUE).tile.z

SceneExtent(visible) == IF visible = {} THEN 0 ELSE Extent

Displayed(visible, display) ==
    UNION {{[source |-> v.source, shape |-> s] : s \in {z \in Shapes[v.data] : z <= display}} :
           v \in visible}

(* The camera centre in the scene frame of this zoom and extent.           *)
OriginFor(cam, visible) ==
    [x |-> cam.cx, y |-> cam.cy, zoom |-> TargetZoom(visible), extent |-> SceneExtent(visible)]

(* map::tessellate: triangles relative to the origin.                      *)
Tessellate(visible, cam) ==
    [shapes |-> Displayed(visible, DisplayZoom(cam)), origin |-> OriginFor(cam, visible)]

(* camera_uniform: the transform from scene coordinates less `from` to the *)
(* camera's clip space.                                                    *)
CameraUniform(cam, from) == [camera |-> cam, origin |-> from]

-----------------------------------------------------------------------------
AppInit ==
    /\ Init
    /\ running = FALSE
    /\ configured = FALSE
    /\ last_key = None
    /\ origin = None
    /\ buffers = None
    /\ uniform = None

(* App::resumed, up to the first update of the world State::new opens.     *)
Resumed ==
    /\ ~running
    /\ BeginUpdate(App, FirstCamera)
    /\ UNCHANGED appVars

(* State::new, from the first scene on: no key is recorded yet, so there   *)
(* is one.                                                                 *)
NewState ==
    /\ ~running
    /\ Return(App)
    /\ LET cam == camera[App]
           visible == frame[App] IN
        /\ last_key' = VisibleKey(visible, DisplayZoom(cam))
        /\ origin' = OriginFor(cam, visible)
        /\ buffers' = Tessellate(visible, cam)
        /\ uniform' = CameraUniform(cam, OriginFor(cam, visible))
    /\ running' = TRUE
    /\ UNCHANGED configured

(* State::pan_pixels: the cursor moves with the left button held.          *)
PanPixels ==
    /\ running
    /\ \E c \in Cameras :
        /\ c.zoom = camera[App].zoom
        /\ c.hx = camera[App].hx
        /\ c.hy = camera[App].hy
        /\ BeginUpdate(App, c)
    /\ UNCHANGED appVars

(* State::zoom_by: toward the centre, clamped to the zooms of Cameras.     *)
ZoomBy ==
    /\ running
    /\ \E c \in Cameras :
        /\ c.cx = camera[App].cx
        /\ c.cy = camera[App].cy
        /\ BeginUpdate(App, c)
    /\ UNCHANGED appVars

(* State::resize: the first one configures the surface.                    *)
Resize ==
    /\ running
    /\ \E c \in Cameras :
        /\ c.cx = camera[App].cx
        /\ c.cy = camera[App].cy
        /\ c.zoom = camera[App].zoom
        /\ BeginUpdate(App, c)
    /\ configured' = TRUE
    /\ UNCHANGED stateVars

(* SceneView::update returns None: the composition is that of the last     *)
(* scene.  apply_camera writes the transform.                              *)
SameScene ==
    /\ running
    /\ Return(App)
    /\ last_key = VisibleKey(frame[App], DisplayZoom(camera[App]))
    /\ uniform' = CameraUniform(camera[App], origin)
    /\ UNCHANGED <<running, last_key, origin, buffers, configured>>

(* SceneView::update returns a scene.  apply_camera takes over its origin; *)
(* when there is nothing to draw in it, it returns before the buffers and  *)
(* the transform are written.                                              *)
NewScene ==
    /\ running
    /\ Return(App)
    /\ LET cam == camera[App]
           visible == frame[App] IN
        /\ last_key # VisibleKey(visible, DisplayZoom(cam))
        /\ last_key' = VisibleKey(visible, DisplayZoom(cam))
        /\ origin' = OriginFor(cam, visible)
        /\ IF Displayed(visible, DisplayZoom(cam)) = {}
           THEN UNCHANGED <<buffers, uniform>>
           ELSE /\ buffers' = Tessellate(visible, cam)
                /\ uniform' = CameraUniform(cam, OriginFor(cam, visible))
    /\ UNCHANGED <<running, configured>>

(* The cache's own steps while the thread is blocked on the update.        *)
Load ==
    /\ FetchOk(App) \/ FetchErr(App) \/ InsertTile(App) \/ Evict(App)
          \/ EvictDone(App) \/ FillSlot(App)
    /\ UNCHANGED appVars

ApplyCamera == NewState \/ SameScene \/ NewScene

Moves == Resumed \/ PanPixels \/ ZoomBy \/ Resize

AppNext == Moves \/ Load \/ ApplyCamera

AppSpec == AppInit /\ [][AppNext]_<<vars, appVars>>

(* The thread runs on while it has work.  The setting of RetryHeals: the   *)
(* user keeps moving the camera, and the source does not fail the batch of *)
(* one camera for ever.                                                    *)
AppFairSpec ==
    /\ AppSpec
    /\ WF_<<vars, appVars>>(Load \/ ApplyCamera)
    /\ WF_<<vars, appVars>>(Moves)
    /\ \A c \in Cameras :
           SF_<<vars, appVars>>(camera[App] = c /\ FetchOk(App) /\ UNCHANGED appVars)

-----------------------------------------------------------------------------
Origin == [x : Int, y : Int, zoom : ZoomLevels \cup {0}, extent : {0, Extent}]

(* Every variable of the application has its type; once it runs, all that  *)
(* State::new sets is there.                                               *)
AppTypeOK ==
    /\ running \in BOOLEAN
    /\ configured \in BOOLEAN
    /\ running =>
        /\ last_key.slots \subseteq Tiles \X Tiles
        /\ origin \in Origin
        /\ buffers.origin \in Origin
        /\ uniform.camera \in Cameras /\ uniform.origin \in Origin

AtRest == running /\ pc[App] = "idle"

(* "None means the previously returned scene is still valid" (decode.rs):  *)
(* whatever the window shows after an update, whether it built a scene or  *)
(* kept the last, is what a scene built afresh would show: the shapes of   *)
(* the tiles just collected that the camera's zoom displays, placed by the *)
(* transform of the camera and the origin they are relative to.  A scene   *)
(* with nothing to draw is excepted: see DrawnInPlace.                     *)
SceneIsCurrent ==
    AtRest /\ Displayed(frame[App], DisplayZoom(camera[App])) # {} =>
        /\ buffers.shapes = Displayed(frame[App], DisplayZoom(camera[App]))
        /\ uniform = CameraUniform(camera[App], buffers.origin)

(* "Vertices are `scene_coord - origin`" (camera_uniform): the transform   *)
(* the window draws with is for the origin the vertices are relative to.   *)
DrawnInPlace ==
    AtRest /\ configured /\ buffers.shapes # {} => uniform.origin = buffers.origin
=============================================================================
