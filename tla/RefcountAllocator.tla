------------------------- MODULE RefcountAllocator -------------------------
(***************************************************************************)
(* The refcount engine of QcowRefcount driven by its callers: the mapping *)
(* layer (qcow2-cluster.c, qcow2.c) allocates clusters, extends an        *)
(* allocation in place, packs compressed data with qcow2_alloc_bytes and  *)
(* frees what it holds.  Each call is one atomic step, as the engine      *)
(* never yields in the middle of an update.                               *)
(*                                                                         *)
(* owned is a ghost: the byte ranges the mapping layer holds references   *)
(* to (what the allocation calls returned and it has not freed), i.e.     *)
(* what its L1/L2 tables would point at.  An I/O failure can be injected  *)
(* at one step of a call (FAULTS).                                        *)
(***************************************************************************)
EXTENDS QcowRefcount, Bags, BagsExt

CONSTANTS
    MAX_CLUSTERS,   \* the image never grows past this many clusters
    ALLOC_SIZES,    \* qcow2_alloc_clusters / _at request sizes, in clusters
    BYTE_SIZES,     \* qcow2_alloc_bytes sizes (compressed cluster lengths)
    MAX_OWNED,      \* bound on the ranges the mapping layer holds at once
    FAULTS,         \* the fault sites of FaultSites that may fail
    MAX_FAULTS,     \* bound on the I/O failures of one behaviour
    MAX_CALLS,      \* bound on the calls of one behaviour (state constraint)
    OPS             \* the caller operations this run issues

ASSUME FAULTS \subseteq FaultSites
ASSUME OPS \subseteq {"alloc", "alloc_at", "alloc_bytes", "free"}

VARIABLES
    refcount_table,         \* s->refcount_table
    refcount_table_size,    \* s->refcount_table_size
    refcount_table_offset,  \* s->refcount_table_offset
    free_cluster_index,     \* s->free_cluster_index
    free_byte_offset,       \* s->free_byte_offset
    discards,               \* s->discards
    blocks,                 \* refcount block contents, by block offset
    owned,                  \* ghost: bag of [off, len] held by the caller
    faults,                 \* ghost: I/O failures injected so far
    calls                   \* ghost: engine calls made so far

vars == <<refcount_table, refcount_table_size, refcount_table_offset,
          free_cluster_index, free_byte_offset, discards, blocks, owned,
          faults, calls>>

Clusters == 0 .. MAX_CLUSTERS - 1
Span(o, l) == [off |-> o, len |-> l]

\* The engine record the QcowRefcount operators work on, with fault f armed.
Engine(f) ==
    [rt |-> refcount_table, rts |-> refcount_table_size,
     rto |-> refcount_table_offset, fci |-> free_cluster_index,
     fbo |-> free_byte_offset, disc |-> discards, cd |-> FALSE,
     blk |-> blocks, fault |-> f]

\* The state after a call made with fault f armed; a fault that the call
\* never reached is the fault-free call and is not counted again.
Commit(f, st) ==
    /\ f = "none" \/ st.fault = "none"
    /\ faults' = IF f = "none" THEN faults ELSE faults + 1
    /\ calls' = calls + 1
    /\ refcount_table' = st.rt
    /\ refcount_table_size' = st.rts
    /\ refcount_table_offset' = st.rto
    /\ free_cluster_index' = st.fci
    /\ free_byte_offset' = st.fbo
    /\ discards' = st.disc
    /\ blocks' = st.blk

\* The bound: no step takes the image past MAX_CLUSTERS.
Fits(st) ==
    /\ st.fci <= MAX_CLUSTERS
    /\ st.rto + st.rts * 8 <= MAX_CLUSTERS * CS
    /\ \A o \in DOMAIN st.blk : o < MAX_CLUSTERS * CS

TypeOK ==
    /\ refcount_table \in [0 .. refcount_table_size - 1 -> Nat]
    /\ refcount_table_size \in Nat /\ refcount_table_offset \in Nat
    /\ free_cluster_index \in 0 .. MAX_CLUSTERS
    /\ free_byte_offset \in 0 .. MAX_CLUSTERS * CS
    /\ discards \in Seq([offset : Nat, bytes : Nat])
    /\ \A o \in DOMAIN blocks : blocks[o] \in [0 .. RB_SIZE - 1 -> 0 .. REFCOUNT_MAX]
    /\ IsABag(owned)
    /\ faults \in 0 .. MAX_FAULTS
    /\ calls \in Nat

(* A freshly created image (qcow2_create2): header in cluster 0, a one-   *)
(* cluster refcount table in cluster 1, its first refcount block in       *)
(* cluster 2, those three clusters at refcount 1.                         *)
Init ==
    /\ refcount_table = [i \in 0 .. CS \div 8 - 1 |-> IF i = 0 THEN 2 * CS ELSE 0]
    /\ refcount_table_size = CS \div 8
    /\ refcount_table_offset = CS
    /\ free_cluster_index = 0
    /\ free_byte_offset = 0
    /\ discards = <<>>
    /\ blocks = (2 * CS) :> [i \in 0 .. RB_SIZE - 1 |-> IF i < 3 THEN 1 ELSE 0]
    /\ owned = EmptyBag
    /\ faults = 0
    /\ calls = 0

Faulty == IF faults < MAX_FAULTS THEN FAULTS \cup {"none"} ELSE {"none"}

HoldsRoom == BagCardinality(owned) < MAX_OWNED

\* The caller receives a range [off, len] when ret is not an error.
Receive(ret, off, len) == IF ret >= 0 THEN BagAdd(owned, Span(off, len)) ELSE owned

\* qcow2_alloc_clusters(bs, n * cluster_size) with fault f armed; r is
\* its outcome
AllocClustersDone(n, f, r) ==
    /\ Fits(r.st)
    /\ r.ret < 0 \/ r.ret + n * CS <= MAX_CLUSTERS * CS
    /\ Commit(f, r.st)
    /\ owned' = Receive(r.ret, r.ret, n * CS)

AllocClusters ==
    /\ "alloc" \in OPS /\ HoldsRoom
    /\ \E n \in ALLOC_SIZES, f \in Faulty :
         AllocClustersDone(n, f, QAllocClusters(Engine(f), n * CS))

\* qcow2_alloc_clusters_at(bs, c * cluster_size, n): the mapping layer asks
\* for the clusters right after a range it holds, to keep an allocation
\* contiguous
AllocClustersAtDone(c, n, f, r) ==
    /\ Fits(r.st)
    /\ c + n <= MAX_CLUSTERS
    /\ Commit(f, r.st)
    /\ owned' = IF r.ret > 0 THEN Receive(r.ret, c * CS, r.ret * CS) ELSE owned

AllocClustersAt ==
    /\ "alloc_at" \in OPS /\ HoldsRoom
    /\ \E h \in DOMAIN owned, n \in ALLOC_SIZES, f \in Faulty :
         LET c == (h.off + h.len + CS - 1) \div CS IN
         AllocClustersAtDone(c, n, f, QAllocClustersAt(Engine(f), c * CS, n))

\* qcow2_alloc_bytes(bs, size)
AllocBytesDone(size, f, r) ==
    /\ Fits(r.st)
    /\ r.ret < 0 \/ r.ret + size <= MAX_CLUSTERS * CS
    /\ Commit(f, r.st)
    /\ owned' = Receive(r.ret, r.ret, size)

AllocBytes ==
    /\ "alloc_bytes" \in OPS /\ HoldsRoom
    /\ \E size \in BYTE_SIZES, f \in Faulty :
         AllocBytesDone(size, f, QAllocBytes(Engine(f), size))

\* qcow2_free_clusters(bs, offset, size, QCOW2_DISCARD_REQUEST) of a range
\* the caller holds
FreeClustersDone(r, f, st) ==
    /\ Fits(st)
    /\ Commit(f, st)
    /\ owned' = BagRemove(owned, r)

FreeClusters ==
    /\ "free" \in OPS
    /\ \E r \in DOMAIN owned, f \in Faulty :
         FreeClustersDone(r, f, QFreeClusters(Engine(f), r.off, r.len, "request"))

Next ==
    \/ AllocClusters
    \/ AllocClustersAt
    \/ AllocBytes
    \/ FreeClusters

Spec == Init /\ [][Next]_vars

\* State constraint of the runs: behaviours of at most MAX_CALLS calls.
CallsBound == calls <= MAX_CALLS

-----------------------------------------------------------------------------
(* What the refcounts should be: one per caller reference touching the   *)
(* cluster, plus the fixed roles: the header, the refcount table's own    *)
(* clusters and every refcount block the table points at.                *)
Stored(c) == GetRefcount(Engine("none"), c).ret

Touches(r, c) == r.off < (c + 1) * CS /\ c * CS < r.off + r.len

OwnerRefs(c) == MapThenSumSet(LAMBDA r : IF Touches(r, c) THEN owned[r] ELSE 0,
                              DOMAIN owned)

TableClusters ==
    { c \in Clusters : /\ refcount_table_offset \div CS <= c
                       /\ c < refcount_table_offset \div CS
                                + SizeToClusters(refcount_table_size * 8) }

MetaRefs(c) ==
    (IF c = 0 THEN 1 ELSE 0)
  + (IF c \in TableClusters THEN 1 ELSE 0)
  + Cardinality({i \in DOMAIN refcount_table :
                   refcount_table[i] # 0 /\ refcount_table[i] \div CS = c})

\* Round trip: without I/O errors, every stored refcount is exactly the
\* number of references to the cluster, across -EAGAIN restarts, block
\* bootstrap, table growth, the freeing of the old table and the undo of a
\* partially applied update (update_refcount, alloc_refcount_block).
RefcountsExact == \A c \in Clusters : Stored(c) = OwnerRefs(c) + MetaRefs(c)

\* Whatever single I/O step fails, no cluster is referenced more often than
\* its stored refcount says (a leak is allowed, an undercount is the data
\* corruption the error paths of update_refcount/alloc_refcount_block must
\* avoid).
NoUnderCount == \A c \in Clusters : Stored(c) >= OwnerRefs(c) + MetaRefs(c)

\* No double allocation: ranges handed to the caller never share a byte,
\* and no metadata cluster (header, refcount table, refcount block) is
\* handed out or holds two roles (alloc_clusters_noref, the growth layout).
NoDoubleAllocation ==
    /\ \A r \in DOMAIN owned : owned[r] = 1
    /\ \A r1, r2 \in DOMAIN owned :
          r1 # r2 => r1.off + r1.len <= r2.off \/ r2.off + r2.len <= r1.off
    /\ \A c \in Clusters : MetaRefs(c) <= 1 /\ (MetaRefs(c) = 1 => OwnerRefs(c) = 0)
=============================================================================
