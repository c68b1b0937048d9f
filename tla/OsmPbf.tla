------------------------------- MODULE OsmPbf -------------------------------
(***************************************************************************)
(* The osm_pbf crate and the section index of cache/src/index.rs: how the  *)
(* builder reads an extract.                                               *)
(*                                                                         *)
(* A file is [blobs, length]: blobs in order, each [type, size, block],    *)
(* and the bytes there really are.  A block is [strings, granularity,      *)
(* latOffset, lonOffset, groups]; a string is a token, the string with id  *)
(* s is strings[s + 1], and a group is [nodes, dense, ways, relations] with *)
(* the fields of the protocol buffers, ids and coordinates delta coded.    *)
(***************************************************************************)
EXTENDS Integers, SequencesExt

NoSid == -1             \* the string is not in the block's table
NoDense == [id |-> <<>>, lat |-> <<>>, lon |-> <<>>, keysVals |-> <<>>, present |-> FALSE]

(* An empty string, what id 0 stands for.                                  *)
EmptyText == ""

-----------------------------------------------------------------------------
(* StringTable::lookup_map: id 0 is no string, of equal strings the last.  *)
Sid(strings, word) == Max({NoSid} \cup {i - 1 : i \in {j \in 2..Len(strings) : strings[j] = word}})

Text(strings, sid) == IF sid + 1 \in DOMAIN strings THEN strings[sid + 1] ELSE EmptyText

(* IntoDelta: the running sums.                                            *)
Delta(deltas) ==
    FoldLeft(LAMBDA sums, d : Append(sums, IF sums = <<>> THEN d ELSE Last(sums) + d), <<>>, deltas)

(* izip!: as long as the shortest.                                         *)
ZipLength(lengths) == Min(lengths)

Tag(key, value) == [key |-> key, value |-> value]

ZipTags(keys, vals) ==
    [i \in 1..ZipLength({Len(keys), Len(vals)}) |-> Tag(keys[i], vals[i])]

(* TagIterator over a dense block's keys_vals: a key of 0 ends a node's    *)
(* tags; tags not ended so are one node's more, unless a key lacks its     *)
(* value.                                                                  *)
TagLists(keysVals) ==
    LET Step(st, v) ==
            IF st.key # NoSid
            THEN [st EXCEPT !.tags = Append(@, Tag(st.key, v)), !.key = NoSid]
            ELSE IF v = 0
                 THEN [st EXCEPT !.lists = Append(@, st.tags), !.tags = <<>>]
                 ELSE [st EXCEPT !.key = v]
        end == FoldLeft(Step, [lists |-> <<>>, tags |-> <<>>, key |-> NoSid], keysVals)
    IN  IF end.tags # <<>> /\ end.key = NoSid THEN Append(end.lists, end.tags) ELSE end.lists

-----------------------------------------------------------------------------
(* PrimitiveGroup::primitives: what a group is taken to hold.              *)
Primitives(group) ==
    CASE group.nodes # <<>>     -> "Nodes"
      [] group.nodes = <<>> /\ group.dense.present -> "DenseNodes"
      [] group.nodes = <<>> /\ ~group.dense.present /\ group.ways # <<>> -> "Ways"
      [] group.nodes = <<>> /\ ~group.dense.present /\ group.ways = <<>>
            /\ group.relations # <<>> -> "Relations"
      [] OTHER -> "ChangeSets"

GroupsOf(block, type) == SelectSeq(block.groups, LAMBDA group : Primitives(group) = type)

ScaleCoord(coord, granularity, offset) == coord * granularity + offset

DecodedNode(block, id, lat, lon, tags) ==
    [id |-> id,
     lat |-> ScaleCoord(lat, block.granularity, block.latOffset),
     lon |-> ScaleCoord(lon, block.granularity, block.lonOffset),
     tags |-> tags]

(* DenseNodes::decode_nodes.                                               *)
DecodeDense(block, dense) ==
    LET id   == Delta(dense.id)
        lat  == Delta(dense.lat)
        lon  == Delta(dense.lon)
        tags == TagLists(dense.keysVals)
    IN  [i \in 1..ZipLength({Len(id), Len(lat), Len(lon), Len(tags)}) |->
            DecodedNode(block, id[i], lat[i], lon[i], tags[i])]

(* decode_nodes of plain nodes.                                            *)
DecodePlain(block, nodes) ==
    [i \in DOMAIN nodes |->
        DecodedNode(block, nodes[i].id, nodes[i].lat, nodes[i].lon,
                    ZipTags(nodes[i].keys, nodes[i].vals))]

DecodeNodes(block) ==
    FlattenSeq([g \in DOMAIN block.groups |->
        CASE Primitives(block.groups[g]) = "Nodes" -> DecodePlain(block, block.groups[g].nodes)
          [] Primitives(block.groups[g]) = "DenseNodes" ->
                DecodeDense(block, block.groups[g].dense)
          [] OTHER -> <<>>])

DecodeWay(w) == [id |-> w.id, refs |-> Delta(w.refs), tags |-> ZipTags(w.keys, w.vals)]

DecodeRelation(r) ==
    LET ids == Delta(r.memids)
    IN  [id |-> r.id,
         tags |-> ZipTags(r.keys, r.vals),
         members |-> [i \in 1..ZipLength({Len(r.rolesSid), Len(ids), Len(r.types)}) |->
            [id |-> ids[i], type |-> r.types[i], role |-> r.rolesSid[i]]]]

DecodeWays(block) ==
    FlattenSeq([g \in DOMAIN GroupsOf(block, "Ways") |->
        [i \in DOMAIN GroupsOf(block, "Ways")[g].ways |->
            DecodeWay(GroupsOf(block, "Ways")[g].ways[i])]])

DecodeRelations(block) ==
    FlattenSeq([g \in DOMAIN GroupsOf(block, "Relations") |->
        [i \in DOMAIN GroupsOf(block, "Relations")[g].relations |->
            DecodeRelation(GroupsOf(block, "Relations")[g].relations[i])]])

-----------------------------------------------------------------------------
(* TagFilter: a set of filters, each a set of <<key, values>>.             *)
(* get_sid_filter: keys the block does not know are left out, and so is a  *)
(* key none of whose values it knows, unless it takes any value.           *)
GetSidFilter(filter, strings) ==
    {{<<Sid(strings, kv[1]), {Sid(strings, v) : v \in kv[2]} \ {NoSid}>> :
        kv \in {p \in f : /\ Sid(strings, p[1]) # NoSid
                          /\ p[2] = {} \/ \E v \in p[2] : Sid(strings, v) # NoSid}} :
     f \in filter} \ {{}}

(* SidTagFilter::matches: any tag, of any pair, of any filter.             *)
Matches(sidFilter, tags) ==
    \E i \in DOMAIN tags, f \in sidFilter : \E kv \in f :
        tags[i].key = kv[1] /\ (kv[2] = {} \/ tags[i].value \in kv[2])

-----------------------------------------------------------------------------
(* OsmReader::read_next_blob, from a blob's first byte: the next blob of   *)
(* type OSMData that is there to its last byte.  What is skipped on the    *)
(* way counts from the position that was asked.                            *)
BlobStart(file, i) ==
    LET start[j \in 1..i] == IF j = 1 THEN 0 ELSE start[j - 1] + file.blobs[j - 1].size
    IN  start[i]

BlobEnd(file, i) == BlobStart(file, i) + file.blobs[i].size

DataBlobs(file, offset) ==
    {i \in DOMAIN file.blobs :
        /\ file.blobs[i].type = "OSMData"
        /\ BlobStart(file, i) >= offset
        /\ BlobEnd(file, i) <= file.length}

Position(file, offset, i) ==
    Max({offset} \cup {BlobEnd(file, j) : j \in {k \in DataBlobs(file, offset) : k < i}})

(* iter_blocks(offset, len): the blocks up to the one at offset + len.     *)
IterBlocks(file, offset, len) ==
    {i \in DataBlobs(file, offset) : Position(file, offset, i) <= offset + len}

-----------------------------------------------------------------------------
(* OsmPbfIndex::index: of one block ...                                    *)
MaxId(ids) == Max({0} \cup ids)

BlockIndex(file, i) ==
    LET block == file.blobs[i].block
        Sums(deltas) == IF deltas = <<>> THEN 0 ELSE Last(Delta(deltas))
    IN  [ways |-> IF GroupsOf(block, "Ways") # <<>> THEN {Position(file, 0, i)} ELSE {},
         relations |-> IF GroupsOf(block, "Relations") # <<>>
                       THEN {Position(file, 0, i)} ELSE {},
         maxNodeId |-> MaxId(
            {Sums(g.dense.id) : g \in ToSet(GroupsOf(block, "DenseNodes"))}
                \cup UNION {{n.id : n \in ToSet(g.nodes)} : g \in ToSet(GroupsOf(block, "Nodes"))}),
         maxWayId |-> MaxId(
            UNION {{w.id : w \in ToSet(g.ways)} : g \in ToSet(GroupsOf(block, "Ways"))})]

(* ... and of them all: the first position of each section and the highest *)
(* ids; the unwraps fail on an extract that lacks one of the sections.     *)
Indexable(file) ==
    /\ \E i \in DataBlobs(file, 0) : BlockIndex(file, i).ways # {}
    /\ \E i \in DataBlobs(file, 0) : BlockIndex(file, i).relations # {}

Index(file) ==
    LET parts == {BlockIndex(file, i) : i \in DataBlobs(file, 0)}
    IN  [ways |-> Min(UNION {p.ways : p \in parts}),
         relations |-> Min(UNION {p.relations : p \in parts}),
         end |-> file.length,
         maxNodeId |-> MaxId({p.maxNodeId : p \in parts}),
         maxWayId |-> MaxId({p.maxWayId : p \in parts})]
=============================================================================
