----------------------------- MODULE TileSource -----------------------------
(***************************************************************************)
(* What TileSource of tiles/src/reader/mod.rs promises its callers: each   *)
(* call for a batch of tiles is answered, in the order asked, with the     *)
(* bytes stored for each tile or None for one that is not in the archive,  *)
(* or it fails as a whole.  Any number of calls may be under way.          *)
(***************************************************************************)
EXTENDS Sequences

CONSTANTS
    Callers,
    Batches,        \* the batches they may ask for: sequences of tiles
    Contents,       \* the archives there may be: tile -> bytes
    None,
    Failed

VARIABLES
    stored,         \* the bytes of each tile in the archive
    asked,          \* the batch a caller waits for, or None
    result          \* the answer to its last call

Right(batch) ==
    [i \in DOMAIN batch |-> IF batch[i] \in DOMAIN stored THEN stored[batch[i]] ELSE None]

Init ==
    /\ stored \in Contents
    /\ asked = [c \in Callers |-> None]
    /\ result = [c \in Callers |-> None]

Ask(c, batch) ==
    /\ asked[c] = None
    /\ asked' = [asked EXCEPT ![c] = batch]
    /\ result' = [result EXCEPT ![c] = None]
    /\ UNCHANGED stored

Answer(c) ==
    /\ asked[c] # None
    /\ result' \in {[result EXCEPT ![c] = Right(asked[c])], [result EXCEPT ![c] = Failed]}
    /\ asked' = [asked EXCEPT ![c] = None]
    /\ UNCHANGED stored

Next == \E c \in Callers : Answer(c) \/ \E batch \in Batches : Ask(c, batch)

Spec == Init /\ [][Next]_<<stored, asked, result>>
=============================================================================
