----------------------------- MODULE GrowthLayout -----------------------------
(***************************************************************************)
(* The layout arithmetic of the refcount-table growth in                  *)
(* alloc_refcount_block(), at the format's real cluster sizes.            *)
(*                                                                         *)
(* QcowRefcount runs the whole growth over small clusters, where tables   *)
(* of a few entries are all that TLC can hold.  Here only the numbers are *)
(* kept: the table size, the fixed point that sizes the new table, and    *)
(* where the new blocks and table go.  An image is grown again and again, *)
(* each time for the first cluster ci whose refcount block has no slot in *)
(* the table, until the growth fails with -EFBIG.  Positions are kept in *)
(* clusters, as byte offsets of large images exceed TLC's integers.       *)
(***************************************************************************)
EXTENDS QcowRefcount, SequencesExt

VARIABLES
    refcount_table_size,  \* s->refcount_table_size, in entries
    grown                 \* <<>> or <<the layout of the last growth>>

vars == <<refcount_table_size, grown>>

(* Where cluster ci lies in its block: its first and last cluster. *)
CiOffsets == {0, RB_SIZE - 1}

(* Where alloc_clusters_noref() found the new block, relative to ci: the  *)
(* freed cluster just below it, the next one, or one a block further.     *)
NbOffsets == {-1, 1, RB_SIZE}

(* The layout growth computes, in clusters: the new table at table_at   *)
(* of table_size entries and table_clusters clusters, and blocks_clusters *)
(* new blocks at meta_at, after the blocks_used blocks in use.            *)
Laid(ret, rts, ci, nbc, bu, ts) ==
    LET tc == SizeToClusters(ts * 8)
        bc == BlocksClusters(tc)
    IN [ret |-> ret, rts |-> rts, ti |-> Shr(ci, RB_BITS), ci |-> ci, nbc |-> nbc,
        blocks_used |-> bu, table_size |-> ts, table_clusters |-> tc,
        blocks_clusters |-> bc, meta_at |-> MetaCluster(bu), table_at |-> MetaCluster(bu) + bc]

(* The growth for cluster ci with the new block in cluster nbc: the      *)
(* -EFBIG test on blocks_used, then the fixed point of the table size.    *)
Growth(rts, ci, nbc) ==
    LET bu == BlocksUsed(ci, nbc) IN
    IF bu > QCOW_MAX_REFTABLE_SIZE \div 8 THEN Laid(EFBIG, rts, ci, nbc, bu, rts)
    ELSE Laid(0, rts, ci, nbc, bu,
              GrowTableSize(rts, bu, NextRefcountTableSize(rts, bu + 1)))

(* qcow2_create2() writes a refcount table of one cluster. *)
Init ==
    /\ refcount_table_size = CS \div 8
    /\ grown = <<>>

(* An allocation reaches a cluster beyond the table: the table is grown  *)
(* and, on success, the new table replaces the old one.                  *)
Grow ==
    \E d \in CiOffsets, k \in NbOffsets :
        LET ci == refcount_table_size * RB_SIZE + d
            g  == Growth(refcount_table_size, ci, ci + k)
        IN /\ grown' = <<g>>
           /\ refcount_table_size' = IF g.ret = 0 THEN g.table_size ELSE refcount_table_size

Next == Grow

Spec == Init /\ [][Next]_vars

-----------------------------------------------------------------------------
(* The counter that describes cluster c among the new blocks: the new    *)
(* table's entry blocks_used + i points at new block i (the i-th cluster *)
(* of the new area), whose counter c % refcount_block_size the fill of   *)
(* new_blocks set or left 0; 0 when no new block describes c.            *)
NewCount(g, c) ==
    LET i == Shr(c, RB_BITS) - g.blocks_used IN
    IF 0 <= i /\ i < g.blocks_clusters
    THEN NewBlockCounter(i, c % RB_SIZE, g.table_clusters, g.blocks_clusters)
    ELSE 0

(* The buffers of the growth are written in bounds: the old table copied *)
(* into the new one, new_table[refcount_table_index] = new_block and      *)
(* new_table[blocks_used + i] for each new block all lie within           *)
(* table_size entries, and the table_clusters + blocks_clusters counters  *)
(* set in new_blocks fit in blocks_clusters blocks (alloc_refcount_block, *)
(* the fixed point and the loops that fill new_table and new_blocks).     *)
GrowthInBounds ==
    \A g \in ToSet(grown) : g.ret = 0 =>
        /\ g.rts <= g.table_size
        /\ g.ti < g.table_size
        /\ g.blocks_used + g.blocks_clusters <= g.table_size
        /\ g.table_clusters + g.blocks_clusters <= g.blocks_clusters * RB_SIZE

(* The new metadata describes itself and nothing else: it starts past    *)
(* cluster ci, the new block and every cluster an old block describes,   *)
(* and its first and last clusters (the first new block and the last     *)
(* table cluster) each have a counter of 1 in a block the new table      *)
(* points at, while the cluster after it has none.                        *)
GrowthSelfDescribing ==
    \A g \in ToSet(grown) : g.ret = 0 =>
        LET first == g.meta_at
            last  == g.table_at + g.table_clusters - 1
        IN /\ first > g.ci
           /\ first > g.nbc
           /\ first >= g.rts * RB_SIZE
           /\ NewCount(g, first) = 1
           /\ NewCount(g, last) = 1
           /\ NewCount(g, last + 1) = 0

(* A growth that succeeds never makes a table larger than                *)
(* QCOW_MAX_REFTABLE_SIZE: the error taxonomy of the engine says metadata *)
(* growth that would exceed the maximum table size fails as TooLarge.     *)
(* alloc_refcount_block() only tests blocks_used against the limit.       *)
GrowthWithinMaxTable ==
    \A g \in ToSet(grown) : g.ret = 0 => g.table_size * 8 <= QCOW_MAX_REFTABLE_SIZE
=============================================================================
