--------------------------- MODULE MCBlockParts ------------------------------
(***************************************************************************)
(* Three parts of the block layer checked apart from the engine, run     *)
(* side by side: the layout of the refcount-table growth (GrowthLayout,   *)
(* at 512-byte clusters) and the discard coalescer (DiscardCoalescer,     *)
(* 8-byte clusters, 7 of them) of qcow2-refcount.c, and the group         *)
(* snapshot transaction of blockdev.c (BlockTransaction).  They share no  *)
(* state; each step is a step of one of them, so every state each reaches *)
(* is reached here.                                                        *)
(***************************************************************************)
EXTENDS GrowthLayout

CONSTANTS
    DISCARD_CLUSTER_SIZE,   \* bytes per cluster of the coalescer's image
    DISCARD_NB_CLUSTERS,    \* clusters of that image the run frees
    Devices, Files, MAX_LIST, NONE, NoMedium, InUse, ReadOnly,
    d1, d2, d3, f1, f2

VARIABLES
    discards,   \* s->discards
    freed,      \* ghost: the clusters queued since the last drain
    chain,      \* each drive's snapshot images, the active one first
    loose,      \* ghost: BlockDriverStates allocated and not accounted for
    request     \* ghost: the last transaction's action list

MCDiscardPassthrough == {}

DC == INSTANCE DiscardCoalescer WITH CLUSTER_SIZE <- DISCARD_CLUSTER_SIZE,
                                     NB_CLUSTERS <- DISCARD_NB_CLUSTERS

BT == INSTANCE BlockTransaction

parts_vars == <<refcount_table_size, grown, discards, freed, chain, loose, request>>

\* Each part at its initial state.
GrowthIdle == Init
DiscardIdle == DC!Init
TransactionIdle == BT!Init

\* The parts share no state, so a step of one commutes with a step of
\* another: the run lets the growth and the coalescer move together
\* while no transaction has changed anything, and transactions move only
\* while the other two are at their start.  Every state each part
\* reaches on its own is reached, at a fraction of the product.
PartsNext ==
    \/ TransactionIdle /\ Next /\ UNCHANGED <<discards, freed, chain, loose, request>>
    \/ TransactionIdle /\ DC!Next /\ UNCHANGED <<vars, chain, loose, request>>
    \/ GrowthIdle /\ DiscardIdle /\ BT!Next /\ UNCHANGED <<vars, discards, freed>>

PartsInit == Init /\ DC!Init /\ BT!Init

PartsSpec == PartsInit /\ [][PartsNext]_parts_vars

-----------------------------------------------------------------------------
(* The queue holds exactly the bytes of the freed clusters: no merge of   *)
(* update_refcount_discard loses or invents a byte.                       *)
QueueCoversFreed == DC!QueueCoversFreed

(* The queue stays coalesced: no two regions overlap or abut, so the two  *)
(* assert()s of update_refcount_discard never fire.                       *)
QueueCoalesced == DC!QueueCoalesced

(* No BlockDriverState a transaction allocated outlives it unaccounted:  *)
(* it is a device's active layer or was unreferenced, the one whose      *)
(* bdrv_open failed included.                                            *)
NoLeakedBds == BT!NoLeakedBds

(* qmp_transaction implements the group snapshot: all devices of the     *)
(* list pivoted in list order, or none.                                  *)
GroupSnapshotRefined == BT!GroupSnapshotRefined
=============================================================================
