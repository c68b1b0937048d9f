---------------------------- MODULE FeatureKinds ----------------------------
(***************************************************************************)
(* The feature kinds of util/src/feature.rs, which the tile builder and    *)
(* the decoder share: the order their wire ordinals follow, the zoom from  *)
(* which each is built into tiles and the zoom from which it is shown.     *)
(* A kind is its name; its ordinal is its place in the order, from 0.      *)
(***************************************************************************)
EXTENDS Integers, SequencesExt

NotAKind == "None"

RoadKind == <<
    "Motorway", "Trunk", "Primary", "Secondary", "Tertiary", "Unclassified", "Residential",
    "LivingStreet", "Service", "Footway", "Raceway", "Unknown", "MajorRoad", "Rail", "RailMinor",
    "Border", "MotorwayLink", "TrunkLink", "PrimaryLink", "SecondaryLink", "TertiaryLink">>

AreaKind == <<"Water", "Forest", "Grass", "Building", "Land">>

RoadStructure == <<"None", "Bridge", "Tunnel">>

EdgeNode == <<"Connected", "Disconnected", "Cut">>

LabelClass == <<"City", "Town", "Village", "Suburb", "Hamlet", "Locality", "Water", "Park">>

PoiKind == <<"TrafficSignal">>

(* `self as u8`, and the from_u8 that inverts it.                          *)
AsU8(order, kind) == (CHOOSE i \in DOMAIN order : order[i] = kind) - 1

FromU8(order, v) == IF v + 1 \in DOMAIN order THEN order[v + 1] ELSE NotAKind

RoadFromU8(v) == FromU8(RoadKind, v)
AreaFromU8(v) == FromU8(AreaKind, v)
StructureFromU8(v) == FromU8(RoadStructure, v)
EdgeFromU8(v) == FromU8(EdgeNode, v)
LabelFromU8(v) == FromU8(LabelClass, v)
PoiFromU8(v) == FromU8(PoiKind, v)

RoadKinds == ToSet(RoadKind)
AreaKinds == ToSet(AreaKind)

-----------------------------------------------------------------------------
(* RoadKind::min_zoom and display_min_zoom.                                *)
Arterial == {"Motorway", "Trunk", "Primary", "MotorwayLink", "TrunkLink", "PrimaryLink"}
Local == {"Tertiary", "Unclassified", "Residential", "Raceway", "TertiaryLink"}
Minor == {"LivingStreet", "Service", "Footway", "Unknown"}

RoadMinZoom(kind) ==
    CASE kind \in {"MajorRoad", "Border"}                   -> 4
      [] kind \in Arterial                                  -> 10
      [] kind \in {"Secondary", "SecondaryLink", "Rail"}    -> 12
      [] kind \in Local \cup {"RailMinor"}                  -> 14
      [] kind \in Minor                                     -> 16

RoadDisplayMinZoom(kind) ==
    CASE kind = "Border"                        -> 4
      [] kind = "MajorRoad"                     -> 5
      [] kind \in Arterial                      -> 10
      [] kind = "Rail"                          -> 12
      [] kind \in {"Secondary", "SecondaryLink"} -> 13
      [] kind = "RailMinor"                     -> 14
      [] kind \in Local                         -> 15
      [] kind \in Minor                         -> 17

(* AreaKind::min_zoom and display_min_zoom.                                *)
AreaMinZoom(kind) ==
    CASE kind = "Land"                  -> 1
      [] kind \in {"Water", "Forest"}   -> 3
      [] kind = "Grass"                 -> 12
      [] kind = "Building"              -> 14

AreaDisplayMinZoom(kind) ==
    CASE kind = "Land"                  -> 1
      [] kind \in {"Water", "Forest"}   -> 3
      [] kind = "Grass"                 -> 12
      [] kind = "Building"              -> 16

(* LabelClass::min_zoom, display_min_zoom and rank.                        *)
LabelMinZoom(class) ==
    CASE class = "City"                 -> 4
      [] class \in {"Town", "Water"}    -> 8
      [] class = "Park"                 -> 10
      [] class = "Village"              -> 11
      [] class \in {"Suburb", "Hamlet"} -> 12
      [] class = "Locality"             -> 13

LabelDisplayMinZoom(class) ==
    CASE class = "City"                 -> 4
      [] class \in {"Town", "Water"}    -> 8
      [] class = "Park"                 -> 10
      [] class = "Village"              -> 11
      [] class \in {"Suburb", "Hamlet"} -> 12
      [] class = "Locality"             -> 13

LabelRank(class) == AsU8(LabelClass, class)

(* PoiKind::min_zoom and display_min_zoom.                                 *)
PoiMinZoom(kind) == 14
PoiDisplayMinZoom(kind) == 15

(* Lanes::swapped, the split seen from the other direction of travel.      *)
Lanes(forward, backward) == [forward |-> forward, backward |-> backward]
Swapped(lanes) == Lanes(lanes.backward, lanes.forward)
=============================================================================
