----------------------------- MODULE Classifier -----------------------------
(***************************************************************************)
(* BlockShapeClassifier of build_tiles/src/classifier.rs: what the tags of *)
(* a way, a node or a relation make of it.  Keys and values are compared   *)
(* by the ids of the block's string table, so a tag counts only when its   *)
(* strings are the table's; texts are compared where the code does so.     *)
(***************************************************************************)
EXTENDS OsmPbf, FeatureKinds

CONSTANTS
    ParsedInt,      \* the integer a text reads as, for the texts that read as one
    ParsedTenths    \* the same for decimal numbers, in tenths

NoNumber == -1000

ShapeOf(shape, kind) == [shape |-> shape, kind |-> kind]
UnknownShape == ShapeOf("Unknown", NotAKind)

(* The word a string id stands for to the classifier.                      *)
Word(strings, sid) ==
    IF sid = Sid(strings, Text(strings, sid)) THEN Text(strings, sid) ELSE EmptyText

KeyOf(tag, strings) == Word(strings, tag.key)
ValueOf(tag, strings) == Word(strings, tag.value)

-----------------------------------------------------------------------------
HighwayKind == [
    motorway |-> "Motorway", motorway_link |-> "MotorwayLink",
    trunk |-> "Trunk", trunk_link |-> "TrunkLink",
    primary |-> "Primary", primary_link |-> "PrimaryLink",
    service |-> "Service",
    secondary |-> "Secondary", secondary_link |-> "SecondaryLink",
    tertiary |-> "Tertiary", tertiary_link |-> "TertiaryLink",
    unclassified |-> "Unclassified", residential |-> "Residential",
    living_street |-> "LivingStreet", road |-> "Unknown", raceway |-> "Raceway"]

RailwayKind == [rail |-> "Rail", light_rail |-> "RailMinor", narrow_gauge |-> "RailMinor"]

(* area_of_tag                                                             *)
AreaOfTag(key, value) ==
    CASE key = "natural" /\ value = "water" -> "Water"
      [] key = "building" -> "Building"
      [] \/ key = "natural" /\ value = "wood"
         \/ key = "landuse" /\ value = "forest" -> "Forest"
      [] \/ key = "landuse" /\ value \in {"grass", "meadow"}
         \/ key = "leisure" /\ value = "park" -> "Grass"
      [] OTHER -> NotAKind

TagShape(key, value) ==
    CASE key = "highway" /\ value \in DOMAIN HighwayKind -> ShapeOf("Road", HighwayKind[value])
      [] key = "railway" /\ value \in DOMAIN RailwayKind -> ShapeOf("Road", RailwayKind[value])
      [] AreaOfTag(key, value) # NotAKind -> ShapeOf("Area", AreaOfTag(key, value))
      [] OTHER -> UnknownShape

(* classify_way and classify_relation: the first tag that says something.  *)
ClassifyWay(tags, strings) ==
    LET Shape(tag) == TagShape(KeyOf(tag, strings), ValueOf(tag, strings))
        saying     == {i \in DOMAIN tags : Shape(tags[i]) # UnknownShape}
    IN  IF saying # {} THEN Shape(tags[Min(saying)]) ELSE UnknownShape

ClassifyRelation(tags, strings) ==
    LET Area(tag) == AreaOfTag(KeyOf(tag, strings), ValueOf(tag, strings))
        saying    == {i \in DOMAIN tags : Area(tags[i]) # NotAKind}
    IN  IF saying # {} THEN ShapeOf("Area", Area(tags[Min(saying)])) ELSE UnknownShape

-----------------------------------------------------------------------------
(* structure_of: a bridge before a tunnel.                                 *)
StructureOf(tags, strings) ==
    LET Has(key) == \E tag \in Range(tags) :
                        KeyOf(tag, strings) = key /\ ValueOf(tag, strings) # "no"
    IN  IF Has("bridge") THEN "Bridge" ELSE IF Has("tunnel") THEN "Tunnel" ELSE "None"

ParseWithin(text, lowest, highest) ==
    IF text \in DOMAIN ParsedInt /\ ParsedInt[text] \in lowest..highest
    THEN ParsedInt[text] ELSE NoNumber

Or(a, b) == IF a # NoNumber THEN a ELSE b

(* layer_of: the first layer tag, 0 when it does not parse as an i8.       *)
LayerOf(tags, strings) ==
    LET layers == SelectSeq(tags, LAMBDA tag : KeyOf(tag, strings) = "layer")
    IN  IF layers = <<>> THEN 0
        ELSE Or(ParseWithin(Text(strings, Head(layers).value), -128, 127), 0)

(* name_of: the first name that is not empty.                              *)
NameOf(tags, strings) ==
    LET names == SelectSeq(tags, LAMBDA tag : /\ KeyOf(tag, strings) = "name"
                                              /\ Text(strings, tag.value) # EmptyText)
    IN  IF names = <<>> THEN EmptyText ELSE Text(strings, Head(names).value)

PlaceClass == [
    city |-> "City", town |-> "Town", village |-> "Village",
    suburb |-> "Suburb", hamlet |-> "Hamlet", locality |-> "Locality"]

(* classify_place: the first place tag alone.                              *)
ClassifyPlace(tags, strings) ==
    LET places == SelectSeq(tags, LAMBDA tag : KeyOf(tag, strings) = "place")
        value  == ValueOf(Head(places), strings)
    IN  IF places # <<>> /\ value \in DOMAIN PlaceClass THEN PlaceClass[value] ELSE NotAKind

ClassifyPoi(tags, strings) ==
    IF \E tag \in Range(tags) : /\ KeyOf(tag, strings) = "highway"
                               /\ ValueOf(tag, strings) = "traffic_signals"
    THEN "TrafficSignal" ELSE NotAKind

-----------------------------------------------------------------------------
AtLeastOne(n) == Max({n, 1})
LessOrZero(a, b) == IF a < b THEN 0 ELSE a - b

(* lanes_of: keys by their text, the last tag of each key.                 *)
LanesOf(tags, strings) ==
    LET LastText(key) ==
            LET at == {i \in DOMAIN tags : Text(strings, tags[i].key) = key}
            IN  IF at = {} THEN EmptyText ELSE Text(strings, tags[Max(at)].value)
        Count(key) == ParseWithin(LastText(key), 0, 255)
        total == Count("lanes")
        fwd   == Count("lanes:forward")
        bwd   == Count("lanes:backward")
        Known(n) == n # NoNumber
    IN  CASE LastText("oneway") \in {"yes", "true", "1"} ->
                Lanes(AtLeastOne(Or(fwd, Or(total, 1))), 0)
          [] LastText("oneway") \in {"-1", "reverse"} ->
                Lanes(0, AtLeastOne(Or(bwd, Or(total, 1))))
          [] LastText("oneway") \notin {"yes", "true", "1", "-1", "reverse"} ->
                Lanes(AtLeastOne(
                        CASE Known(fwd) -> fwd
                          [] ~Known(fwd) /\ Known(bwd) ->
                                IF Known(total) THEN LessOrZero(total, bwd) ELSE bwd
                          [] ~Known(fwd) /\ ~Known(bwd) ->
                                IF Known(total) THEN (total + 1) \div 2 ELSE 1),
                      AtLeastOne(
                        CASE Known(bwd) -> bwd
                          [] ~Known(bwd) /\ Known(fwd) ->
                                IF Known(total) THEN LessOrZero(total, fwd) ELSE fwd
                          [] ~Known(bwd) /\ ~Known(fwd) ->
                                IF Known(total) THEN total \div 2 ELSE 1))

(* floors_of: the first building:levels, rounded, within 1..255.           *)
FloorsOf(tags, strings) ==
    LET levels == SelectSeq(tags, LAMBDA tag : Text(strings, tag.key) = "building:levels")
        text   == Text(strings, Head(levels).value)
    IN  IF levels # <<>> /\ text \in DOMAIN ParsedTenths
        THEN Max({1, Min({255, (ParsedTenths[text] + 5) \div 10})})
        ELSE 1
=============================================================================
