---------------------------- MODULE QcowRefcount ----------------------------
(***************************************************************************)
(* The cluster refcount and allocation engine of block/qcow2-refcount.c.  *)
(*                                                                         *)
(* The engine runs single-threaded and no operation yields in the middle  *)
(* of an update, so every public entry point (qcow2_alloc_clusters,        *)
(* qcow2_alloc_clusters_at, qcow2_alloc_bytes, qcow2_free_clusters) is one *)
(* atomic action.  Inside an action the C control flow is followed with   *)
(* operators over an engine record st that returns [st, ret]:             *)
(*   rt, rts, rto   s->refcount_table, _size, _offset (entries are byte   *)
(*                  offsets of refcount blocks, 0 = none)                  *)
(*   fci, fbo       s->free_cluster_index, s->free_byte_offset            *)
(*   disc, cd       s->discards, s->cache_discards                         *)
(*   blk            refcount block contents as the refcount block cache  *)
(*                  presents them, by the block's byte offset             *)
(*   fault          the one I/O step of this call that fails, or "none"  *)
(* Negative ret values are -errno as in the C code.                       *)
(*                                                                         *)
(* Geometry is that of the format: cluster_size = 2^CLUSTER_BITS bytes,   *)
(* 16-bit counters (refcount_block_bits = CLUSTER_BITS - 1) and 8-byte    *)
(* table entries.                                                          *)
(***************************************************************************)
EXTENDS Naturals, Integers, Sequences, FiniteSets, Functions, FiniteSetsExt, TLC

CONSTANTS
    CLUSTER_BITS,           \* s->cluster_bits
    REFCOUNT_MAX,           \* the 16-bit counter limit checked by update_refcount
    QCOW_MAX_REFTABLE_SIZE, \* bytes
    DISCARD_PASSTHROUGH,    \* the discard types t with s->discard_passthrough[t]
    MAX_RESTARTS            \* bound on -EAGAIN retries of one allocation call

ASSUME CLUSTER_BITS \in 3..16 /\ MAX_RESTARTS \in Nat

CS      == 2^CLUSTER_BITS                 \* s->cluster_size
RB_BITS == CLUSTER_BITS - 1               \* s->refcount_block_bits
RB_SIZE == 2^RB_BITS                      \* s->refcount_block_size

EIO == -5
EAGAIN == -11
EINVAL == -22
EFBIG == -27

DiscardTypes == {"never", "always", "request", "snapshot", "other"}
FaultSites == {"cache", "l2_flush", "rb_flush", "hookup",
               "grow_blocks", "grow_table", "header"}

ASSUME DISCARD_PASSTHROUGH \subseteq DiscardTypes \ {"never"}

MaxOf(a, b) == IF a > b THEN a ELSE b
Shr(x, k) == x \div 2^k
Shl(x, k) == x * 2^k
DivRoundUp(x, y) == (x + y - 1) \div y
SizeToClusters(size) == DivRoundUp(size, CS)
StartOfCluster(o) == o - (o % CS)

ZeroBlock == [i \in 0 .. RB_SIZE - 1 |-> 0]
BlockAt(st, off) == IF off \in DOMAIN st.blk THEN st.blk[off] ELSE ZeroBlock
SetBlock(st, off, b) == [st EXCEPT !.blk = (off :> b) @@ @]

Ok(st, v) == [st |-> st, ret |-> v]
Consume(st) == [st EXCEPT !.fault = "none"]
Fails(st, site) == st.fault = site

DQ == INSTANCE DiscardQueue

-----------------------------------------------------------------------------
(* get_refcount(bs, cluster_index) *)
GetRefcount(st, ci) ==
    LET ti == Shr(ci, RB_BITS) IN
    IF ti >= st.rts THEN Ok(st, 0)
    ELSE IF st.rt[ti] = 0 THEN Ok(st, 0)
    ELSE IF Fails(st, "cache") THEN Ok(Consume(st), EIO)
    ELSE Ok(st, BlockAt(st, st.rt[ti])[ci % RB_SIZE])

(* Mutant: min_clusters without the + 1, so the size may fall short. *)
NextRefcountTableSizeShort(rts, min_size) ==
    LET min_clusters == Shr(min_size, CLUSTER_BITS - 3)
        RECURSIVE Grow(_)
        Grow(c) == IF min_clusters > c THEN Grow((c * 3 + 1) \div 2) ELSE c
    IN Shl(Grow(MaxOf(1, Shr(rts, CLUSTER_BITS - 3))), CLUSTER_BITS - 3)

(* next_refcount_table_size(s, min_size) *)
NextRefcountTableSize(rts, min_size) ==
    LET min_clusters == Shr(min_size, CLUSTER_BITS - 3) + 1
        RECURSIVE Grow(_)
        Grow(c) == IF min_clusters > c THEN Grow((c * 3 + 1) \div 2) ELSE c
    IN Shl(Grow(MaxOf(1, Shr(rts, CLUSTER_BITS - 3))), CLUSTER_BITS - 3)

(* in_same_refcount_block(s, offset_a, offset_b) *)
InSameRefcountBlock(a, b) ==
    Shr(a, CLUSTER_BITS + RB_BITS) = Shr(b, CLUSTER_BITS + RB_BITS)

(* qcow2_process_discards(bs, ret): the queue is drained; bdrv_discard of  *)
(* each region when ret >= 0 changes no engine state.                      *)
ProcessDiscards(st, ret) == [st EXCEPT !.disc = <<>>]

(***************************************************************************)
(* Where the C code keeps the result of a call in a local and tests it,   *)
(* the model passes that result r to an operator for the rest of the      *)
(* function, so that every call is made once.                              *)
(***************************************************************************)

(* alloc_clusters_noref(bs, size): the retry scan from free_cluster_index *)
RECURSIVE NorefScan(_, _, _), NorefStep(_, _, _)
NorefStep(r, i, nb) ==
    IF r.ret < 0 THEN r
    ELSE IF r.ret # 0 THEN NorefScan(r.st, 0, nb)
    ELSE NorefScan(r.st, i + 1, nb)

NorefScan(st, i, nb) ==
    IF i = nb THEN Ok(st, (st.fci - nb) * CS)
    ELSE NorefStep(GetRefcount([st EXCEPT !.fci = @ + 1], st.fci), i, nb)

AllocClustersNoref(st, size) ==
    NorefScan(IF st.cd THEN ProcessDiscards(st, 0) ELSE st, 0, SizeToClusters(size))

(* The do/while fixed point of alloc_refcount_block that sizes the new    *)
(* table so that it and the blocks describing it fit.                      *)
(* blocks_clusters: the new refcount blocks for a table of table_clusters *)
BlocksClusters(table_clusters) == 1 + DivRoundUp(table_clusters, RB_SIZE)

(* blocks_used: the refcount blocks that cover cluster ci and the new    *)
(* block's cluster nbc.                                                   *)
BlocksUsed(ci, nbc) == DivRoundUp(MaxOf(ci + 1, nbc + 1), RB_SIZE)

NextTableSize(rts, blocks_used, table_size) ==
    LET table_clusters  == SizeToClusters(table_size * 8)
        blocks_clusters == BlocksClusters(table_clusters)
        meta_clusters   == table_clusters + blocks_clusters
    IN NextRefcountTableSize(rts, blocks_used + DivRoundUp(meta_clusters, RB_SIZE))

RECURSIVE GrowTableSize(_, _, _), GrowTableStep(_, _, _, _)
GrowTableStep(rts, blocks_used, table_size, next) ==
    IF next = table_size THEN table_size ELSE GrowTableSize(rts, blocks_used, next)

GrowTableSize(rts, blocks_used, table_size) ==
    GrowTableStep(rts, blocks_used, table_size,
                  NextTableSize(rts, blocks_used, table_size))

Fail3(st, e) == [st |-> st, ret |-> e, blk |-> 0]

(* Mutant: the new metadata area starts one refcount block too low. *)
MetaClusterOneBlockLow(blocks_used) == (blocks_used - 1) * RB_SIZE

(* The new metadata area starts at the first cluster no refcount block in *)
(* use describes: blocks_used * refcount_block_size.                      *)
MetaCluster(blocks_used) == blocks_used * RB_SIZE

(* meta_offset, in bytes *)
MetaOffset(blocks_used) == MetaCluster(blocks_used) * CS

(* Mutant: the new table is allocated with one entry too many. *)
NewRefcountTableOneLong(st, ti, new_block, table_size, blocks_used, blocks_clusters) ==
    [i \in 0 .. table_size |->
       IF i >= blocks_used /\ i < blocks_used + blocks_clusters
       THEN MetaOffset(blocks_used) + (i - blocks_used) * CS
       ELSE IF i = ti THEN new_block
       ELSE IF i < st.rts THEN st.rt[i] ELSE 0]

(* new_table: the old entries, the new block at its index and the blocks  *)
(* of the new metadata area after blocks_used.                             *)
NewRefcountTable(st, ti, new_block, table_size, blocks_used, blocks_clusters) ==
    [i \in 0 .. table_size - 1 |->
       IF i >= blocks_used /\ i < blocks_used + blocks_clusters
       THEN MetaOffset(blocks_used) + (i - blocks_used) * CS
       ELSE IF i = ti THEN new_block
       ELSE IF i < st.rts THEN st.rt[i] ELSE 0]

(* Counter b of new block j: the fill loop sets the first               *)
(* table_clusters + blocks_clusters counters of new_blocks to 1.          *)
NewBlockCounter(j, b, table_clusters, blocks_clusters) ==
    IF j * RB_SIZE + b < table_clusters + blocks_clusters THEN 1 ELSE 0

(* new_blocks, by block offset *)
NewRefcountBlocks(blocks_used, table_clusters, blocks_clusters) ==
    LET meta_offset == MetaOffset(blocks_used) IN
    [o \in {meta_offset + j * CS : j \in 0 .. blocks_clusters - 1} |->
       [b \in 0 .. RB_SIZE - 1 |->
          NewBlockCounter((o - meta_offset) \div CS, b, table_clusters, blocks_clusters)]]

(* The end of the growth: load_refcount_block(new_block) after the old    *)
(* table was freed (whose failure qcow2_free_clusters only prints).       *)
LoadGrownBlock(freed, new_block) ==
    IF Fails(freed, "cache") THEN Fail3(Consume(freed), EIO)
    ELSE [st |-> freed, ret |-> EAGAIN, blk |-> new_block]

(* alloc_refcount_block, self-describing new block: cache_get_empty, the  *)
(* block zeroed and its own counter set to 1.                              *)
SelfInit(st, new_block) ==
    IF Fails(st, "cache") THEN Ok(Consume(st), EIO)
    ELSE Ok(SetBlock(st, new_block,
                     [ZeroBlock EXCEPT ![(new_block \div CS) % RB_SIZE] = 1]), 0)

(* alloc_refcount_block, block described elsewhere: after the recursive   *)
(* update_refcount (result upd), the cache flush and the zeroed block.    *)
OtherInit(upd, new_block) ==
    IF upd.ret < 0 THEN upd
    ELSE IF Fails(upd.st, "rb_flush") THEN Ok(Consume(upd.st), EIO)
    ELSE IF Fails(upd.st, "cache") THEN Ok(Consume(upd.st), EIO)
    ELSE Ok(SetBlock(upd.st, new_block, ZeroBlock), 0)

(* The per-cluster step of update_refcount(): the counter after addend.   *)
ClusterUpdated(st, blk, co, addend, type) ==
    LET ci == co \div CS
        bi == ci % RB_SIZE
        refcount == BlockAt(st, blk)[bi] + addend
    IN [st EXCEPT
          !.fci  = IF refcount = 0 /\ ci < @ THEN ci ELSE @,
          !.blk  = (blk :> [BlockAt(st, blk) EXCEPT ![bi] = refcount]) @@ @,
          !.disc = IF refcount = 0 /\ type \in DISCARD_PASSTHROUGH
                   THEN DQ!Enqueue(@, co, CS) ELSE @]

(* Mutant: a failed update is not undone. *)
UndoneNothing(offset, co) == 0

(* The length the undo of a failed update_refcount() reverts: from offset *)
(* up to the cluster the loop stopped at.                                  *)
Undone(offset, co) == co - offset

-----------------------------------------------------------------------------
(***************************************************************************)
(* update_refcount() and alloc_refcount_block() call each other: a new    *)
(* refcount block that does not describe itself gets its refcount from    *)
(* update_refcount(), which may need a refcount block in turn.            *)
(***************************************************************************)
RECURSIVE UpdateRefcount(_, _, _, _, _), UpdateDone(_, _, _),
          UpdateLoop(_, _, _, _, _, _, _), UpdateCluster(_, _, _, _, _),
          AllocRefcountBlock(_, _), NewRefcountBlock(_, _), HookUp(_, _, _),
          GrowRefcountTable(_, _, _, _), GrowWrite(_, _, _, _, _)

(* The table, blocks and header writes of the growth, each of which may   *)
(* fail, then the switch to the new table and the freeing of the old one.  *)
GrowWrite(st, ti, new_block, blocks_used, table_size) ==
    LET table_clusters  == SizeToClusters(table_size * 8)
        blocks_clusters == BlocksClusters(table_clusters)
        written == [st EXCEPT !.blk = NewRefcountBlocks(blocks_used, table_clusters,
                                                        blocks_clusters) @@ @]
    IN
    IF Fails(st, "grow_blocks") THEN Fail3(Consume(st), EIO)
    ELSE IF Fails(written, "grow_table") THEN Fail3(Consume(written), EIO)
    ELSE IF Fails(written, "header") THEN Fail3(Consume(written), EIO)
    ELSE LoadGrownBlock(
           UpdateRefcount(
             [written EXCEPT
                !.rt = NewRefcountTable(st, ti, new_block, table_size,
                                        blocks_used, blocks_clusters),
                !.rts = table_size,
                !.rto = MetaOffset(blocks_used) + blocks_clusters * CS],
             st.rto, st.rts * 8, -1, "other").st,
           new_block)

(* The refcount-table growth half of alloc_refcount_block (from           *)
(* "If we come here, we need to grow the refcount table" to its -EAGAIN). *)
GrowRefcountTable(st, ci, ti, new_block) ==
    LET blocks_used == BlocksUsed(ci, new_block \div CS) IN
    IF blocks_used > QCOW_MAX_REFTABLE_SIZE \div 8 THEN Fail3(st, EFBIG)
    ELSE GrowWrite(st, ti, new_block, blocks_used,
                   GrowTableSize(st.rts, blocks_used,
                                 NextRefcountTableSize(st.rts, blocks_used + 1)))

(* After the new block is initialised (result init): the flush, then the  *)
(* hook-up into a free table slot or the growth of the table.             *)
HookUp(init, ci, new_block) ==
    LET ti == Shr(ci, RB_BITS)
        s1 == init.st
    IN
    IF init.ret < 0 THEN Fail3(s1, init.ret)
    ELSE IF Fails(s1, "rb_flush") THEN Fail3(Consume(s1), EIO)
    ELSE IF ti < s1.rts
         THEN IF Fails(s1, "hookup") THEN Fail3(Consume(s1), EIO)
              ELSE [st |-> [s1 EXCEPT !.rt[ti] = new_block], ret |-> EAGAIN,
                    blk |-> new_block]
    ELSE GrowRefcountTable(s1, ci, ti, new_block)

(* The new block nb found by alloc_clusters_noref, initialised according  *)
(* to whether it describes itself.                                        *)
NewRefcountBlock(nb, ci) ==
    IF nb.ret < 0 THEN Fail3(nb.st, nb.ret)
    ELSE IF InSameRefcountBlock(nb.ret, ci * CS)
    THEN HookUp(SelfInit(nb.st, nb.ret), ci, nb.ret)
    ELSE HookUp(OtherInit(UpdateRefcount(nb.st, nb.ret, CS, 1, "never"), nb.ret),
                ci, nb.ret)

(* alloc_refcount_block(bs, cluster_index, &refcount_block): ret and the  *)
(* offset of the block it hands back.                                     *)
AllocRefcountBlock(st, ci) ==
    LET ti  == Shr(ci, RB_BITS)
        cur == IF ti < st.rts THEN st.rt[ti] ELSE 0
    IN
    IF cur # 0
    THEN IF Fails(st, "cache") THEN Fail3(Consume(st), EIO)
         ELSE [st |-> st, ret |-> 0, blk |-> cur]
    ELSE IF Fails(st, "l2_flush") THEN Fail3(Consume(st), EIO)
    ELSE NewRefcountBlock(AllocClustersNoref(st, CS), ci)

(* One iteration of the loop of update_refcount() on the block a that     *)
(* alloc_refcount_block handed back (or the one already loaded).          *)
UpdateCluster(a, co, last, addend, type) ==
    LET ti == Shr(co \div CS, RB_BITS)
        refcount == BlockAt(a.st, a.blk)[(co \div CS) % RB_SIZE] + addend
    IN
    IF a.ret < 0 THEN [st |-> a.st, ret |-> a.ret, co |-> co]
    ELSE IF refcount < 0 \/ refcount > REFCOUNT_MAX
         THEN [st |-> a.st, ret |-> EINVAL, co |-> co]
    ELSE UpdateLoop(ClusterUpdated(a.st, a.blk, co, addend, type),
                    co + CS, last, ti, a.blk, addend, type)

(* The per-cluster loop of update_refcount(): returns [st, ret, co] with  *)
(* co the cluster_offset the loop stopped at.                             *)
UpdateLoop(st, co, last, oti, blk, addend, type) ==
    IF co > last THEN [st |-> st, ret |-> 0, co |-> co]
    ELSE UpdateCluster(IF Shr(co \div CS, RB_BITS) # oti
                       THEN AllocRefcountBlock(st, co \div CS)
                       ELSE [st |-> st, ret |-> 0, blk |-> blk],
                       co, last, addend, type)

(* The end of update_refcount() after the loop (result r): the discards   *)
(* are processed, and a failure undoes the processed prefix.               *)
UpdateDone(r, offset, addend) ==
    LET s1 == IF ~r.st.cd THEN ProcessDiscards(r.st, r.ret) ELSE r.st IN
    IF r.ret < 0
    THEN Ok(UpdateRefcount(s1, offset, Undone(offset, r.co), -addend, "never").st, r.ret)
    ELSE Ok(s1, 0)

(* update_refcount(bs, offset, length, addend, type), with the best-effort *)
(* undo of the processed prefix when the loop fails (-EAGAIN included).    *)
UpdateRefcount(st, offset, length, addend, type) ==
    IF length < 0 THEN Ok(st, EINVAL)
    ELSE IF length = 0 THEN Ok(st, 0)
    ELSE UpdateDone(UpdateLoop(st, StartOfCluster(offset),
                               StartOfCluster(offset + length - 1), -1, 0, addend, type),
                    offset, addend)

-----------------------------------------------------------------------------
(* qcow2_update_cluster_refcount(bs, cluster_index, addend, type) *)
ClusterRefcountResult(u, ci) == IF u.ret < 0 THEN u ELSE GetRefcount(u.st, ci)

UpdateClusterRefcount(st, ci, addend, type) ==
    ClusterRefcountResult(UpdateRefcount(st, ci * CS, 1, addend, type), ci)

(* Mutant: the result of the refcount update is not checked. *)
AllocResultIgnoringError(u, v) == Ok(u.st, v)

(* The end of qcow2_alloc_clusters/_at: the error of update_refcount(),  *)
(* or the allocation.                                                      *)
AllocResult(u, v) == IF u.ret < 0 THEN u ELSE Ok(u.st, v)

(* qcow2_alloc_clusters(bs, size): search, then count, until no -EAGAIN *)
RECURSIVE AllocClustersTry(_, _, _), AllocClustersCount(_, _, _),
          AllocClustersRetry(_, _, _, _)
AllocClustersRetry(u, offset, size, tries) ==
    IF u.ret = EAGAIN
    THEN IF tries = MAX_RESTARTS
         THEN Assert(FALSE, "qcow2_alloc_clusters restarted MAX_RESTARTS times")
         ELSE AllocClustersTry(u.st, size, tries + 1)
    ELSE AllocResult(u, offset)

AllocClustersCount(n, size, tries) ==
    IF n.ret < 0 THEN n
    ELSE AllocClustersRetry(UpdateRefcount(n.st, n.ret, size, 1, "never"),
                            n.ret, size, tries)

AllocClustersTry(st, size, tries) ==
    AllocClustersCount(AllocClustersNoref(st, size), size, tries)

QAllocClusters(st, size) == AllocClustersTry(st, size, 0)

(* qcow2_alloc_clusters_at(bs, offset, nb_clusters) *)
RECURSIVE CountFree(_, _, _, _), CountFreeStep(_, _, _, _)
CountFreeStep(r, ci, i, n) ==
    IF r.ret < 0 THEN [st |-> r.st, ret |-> r.ret]
    ELSE IF r.ret # 0 THEN Ok(r.st, i)
    ELSE CountFree(r.st, ci, i + 1, n)

CountFree(st, ci, i, n) ==
    IF i = n THEN Ok(st, i) ELSE CountFreeStep(GetRefcount(st, ci + i), ci, i, n)

RECURSIVE AllocClustersAtTry(_, _, _, _), AllocClustersAtCount(_, _, _, _),
          AllocClustersAtRetry(_, _, _, _, _)
AllocClustersAtRetry(u, free, offset, n, tries) ==
    IF u.ret = EAGAIN
    THEN IF tries = MAX_RESTARTS
         THEN Assert(FALSE, "qcow2_alloc_clusters_at restarted MAX_RESTARTS times")
         ELSE AllocClustersAtTry(u.st, offset, n, tries + 1)
    ELSE AllocResult(u, free)

AllocClustersAtCount(c, offset, n, tries) ==
    IF c.ret < 0 THEN c
    ELSE AllocClustersAtRetry(UpdateRefcount(c.st, offset, c.ret * CS, 1, "never"),
                              c.ret, offset, n, tries)

AllocClustersAtTry(st, offset, n, tries) ==
    AllocClustersAtCount(CountFree(st, offset \div CS, 0, n), offset, n, tries)

QAllocClustersAt(st, offset, n) ==
    IF n = 0 THEN Ok(st, 0) ELSE AllocClustersAtTry(st, offset, n, 0)

(* Mutant: free_byte_offset is not reset when the cluster is full. *)
NextFreeByteNoReset(fbo, size, free_in_cluster) == fbo + size

(* free_byte_offset after a piece of size bytes is cut from the cluster: *)
(* 0 once the cluster is full.                                            *)
NextFreeByte(fbo, size, free_in_cluster) ==
    IF free_in_cluster - size = 0 THEN 0 ELSE fbo + size

(* qcow2_alloc_bytes(bs, size), from the redo: label on.  The result of   *)
(* qcow2_update_cluster_refcount() is not looked at, as in the C code.    *)
RECURSIVE AllocBytesRedo(_, _), AllocBytesNext(_, _, _)
AllocBytesNext(st, a, size) ==
    IF a.ret < 0 THEN a
    ELSE IF StartOfCluster(st.fbo) + CS = a.ret
         THEN Ok([UpdateClusterRefcount(a.st, st.fbo \div CS, 1, "never").st
                    EXCEPT !.fbo = @ + size], st.fbo)
    ELSE AllocBytesRedo([a.st EXCEPT !.fbo = a.ret], size)

AllocBytesRedo(st, size) ==
    LET free_in_cluster == CS - (st.fbo % CS)
        offset == st.fbo
        s1 == [st EXCEPT !.fbo = NextFreeByte(@, size, free_in_cluster)]
    IN
    IF size <= free_in_cluster
    THEN Ok(IF offset % CS # 0
            THEN UpdateClusterRefcount(s1, offset \div CS, 1, "never").st
            ELSE s1, offset)
    ELSE AllocBytesNext(st, QAllocClusters(st, CS), size)

AllocBytesFirst(a, size) ==
    IF a.ret < 0 THEN a ELSE AllocBytesRedo([a.st EXCEPT !.fbo = a.ret], size)

QAllocBytes(st, size) ==
    IF st.fbo # 0 THEN AllocBytesRedo(st, size)
    ELSE AllocBytesFirst(QAllocClusters(st, CS), size)

(* qcow2_free_clusters(bs, offset, size, type): an error is only printed *)
QFreeClusters(st, offset, size, type) ==
    UpdateRefcount(st, offset, size, -1, type).st
=============================================================================
