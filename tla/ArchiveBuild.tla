---------------------------- MODULE ArchiveBuild ----------------------------
(***************************************************************************)
(* What one run of build_tiles promises, whatever it does in between       *)
(* (build_tiles/src/main.rs): the archive it announces ("Wrote ...") holds *)
(* every record of the extract it was started with once, grouped by tile,  *)
(* each tile once, and nothing else.  A run that cannot keep the promise   *)
(* announces none.                                                         *)
(***************************************************************************)
EXTENDS Naturals, Sequences

CONSTANTS
    Records,        \* the records any extract may yield
    TileOf,         \* the tile a record belongs to (TileRecord::tile_key)
    Extracts        \* the sets of records an extract may yield

VARIABLES
    extract,        \* the records of the extract being built
    status,         \* "running", "wrote" or "dead"
    archive         \* the announced archive: the payloads of each tile

TileKeys == {TileOf[r] : r \in Records}

(* An archive that holds nothing yet.                                      *)
Nothing == [t \in TileKeys |-> <<>>]

(* The archive of a set of records: one payload for each tile that has     *)
(* any, with each of the tile's records in it once.                        *)
ArchiveOf(S) ==
    [t \in TileKeys |->
        LET recs == {r \in S : TileOf[r] = t} IN
        IF recs = {} THEN <<>> ELSE <<[r \in recs |-> 1]>>]

Init ==
    /\ extract \in Extracts
    /\ status = "running"
    /\ archive = Nothing

Announce ==
    /\ status = "running"
    /\ status' = "wrote"
    /\ archive' = ArchiveOf(extract)
    /\ UNCHANGED extract

Die ==
    /\ status = "running"
    /\ status' = "dead"
    /\ UNCHANGED <<extract, archive>>

Restart ==
    /\ status # "running"
    /\ extract' \in Extracts
    /\ status' = "running"
    /\ archive' = Nothing

Next == Announce \/ Die \/ Restart

Spec == Init /\ [][Next]_<<extract, status, archive>>
=============================================================================
