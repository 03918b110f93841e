-------------------------- MODULE SnapshotRefcount --------------------------
(***************************************************************************)
(* qcow2_update_snapshot_refcount() and qcow2_free_any_clusters(): the    *)
(* refcount engine walking the mapping tables.                             *)
(*                                                                         *)
(* An L1 table is a function from 0 .. L1_SIZE-1 to entries, an L2 table  *)
(* one from 0 .. L2_SIZE-1 to entries; an entry is [off, copied] with off *)
(* a cluster index (0 = unallocated) and copied the QCOW_OFLAG_COPIED    *)
(* bit.  Offsets are cluster aligned, so the "unaligned" corruption      *)
(* branches are never taken, and only normal and unallocated clusters     *)
(* occur.  The engine record st of QcowRefcount carries one more field,  *)
(* l2: the contents of the L2 tables, by cluster index, as the L2 table   *)
(* cache presents them.                                                    *)
(***************************************************************************)
EXTENDS QcowRefcount

CONSTANT L1_SIZE        \* s->l1_size

L2_SIZE == CS \div 8                     \* s->l2_size
L2Index == 0 .. L2_SIZE - 1
L1Index == 0 .. L1_SIZE - 1

Unallocated == [off |-> 0, copied |-> FALSE]
EmptyL2 == [j \in L2Index |-> Unallocated]

(* qcow2_free_any_clusters(bs, l2_entry, nb_clusters, type) for normal    *)
(* and unallocated entries.                                                *)
QFreeAnyClusters(st, e, nb, type) ==
    IF e.off # 0 THEN QFreeClusters(st, e.off * CS, nb * CS, type) ELSE st

(* Mutant: the addend != 0 test inverted. *)
EntryRefcountInverted(st, e, addend) ==
    IF e.off = 0 THEN Ok(st, 0)
    ELSE IF addend = 0 THEN UpdateClusterRefcount(st, e.off, addend, "snapshot")
    ELSE GetRefcount(st, e.off)

(* The refcount the switch on the cluster type yields for an entry:       *)
(* 0 when unallocated, else the count after qcow2_update_cluster_refcount *)
(* or, for addend 0, get_refcount.                                        *)
EntryRefcount(st, e, addend) ==
    IF e.off = 0 THEN Ok(st, 0)
    ELSE IF addend # 0 THEN UpdateClusterRefcount(st, e.off, addend, "snapshot")
    ELSE GetRefcount(st, e.off)

(* Mutant: the COPIED bit is only ever set, never cleared. *)
WithCopiedSticky(e, refcount) == [e EXCEPT !.copied = @ \/ refcount = 1]

(* offset &= ~QCOW_OFLAG_COPIED; if (refcount == 1) offset |= COPIED *)
WithCopied(e, refcount) == [e EXCEPT !.copied = refcount = 1]

RECURSIVE SnapL2Loop(_, _, _, _), SnapL2Entry(_, _, _, _)
(* The loop over the entries of L2 table t: the count is adjusted, the    *)
(* entry's COPIED bit rewritten in the cache; an error leaves the loop.   *)
SnapL2Entry(r, t, j, addend) ==
    IF r.ret < 0 THEN r
    ELSE SnapL2Loop([r.st EXCEPT !.l2[t][j] = WithCopied(@, r.ret)], t, j + 1, addend)

SnapL2Loop(st, t, j, addend) ==
    IF j = L2_SIZE THEN Ok(st, 0)
    ELSE SnapL2Entry(EntryRefcount(st, st.l2[t][j], addend), t, j, addend)

Walked(st, ret, l1, mod) == [st |-> st, ret |-> ret, l1 |-> l1, mod |-> mod]

(* After the L2 table of L1 entry i was walked: its own count (result r), *)
(* the COPIED bit of the L1 entry and l1_modified.                        *)
SnapL1Entry(r, l1, i, mod) ==
    IF r.ret < 0 THEN Walked(r.st, r.ret, l1, mod)
    ELSE Walked(r.st, 0, [l1 EXCEPT ![i] = WithCopied(@, r.ret)],
                mod \/ WithCopied(l1[i], r.ret) # l1[i])

RECURSIVE SnapL1Loop(_, _, _, _, _), SnapL1Next(_, _, _), SnapL2Done(_, _, _, _, _),
          SnapL1LoopSkippingUnreadable(_, _, _, _, _)
SnapL1Next(w, i, addend) ==
    IF w.ret < 0 THEN w ELSE SnapL1Loop(w.st, w.l1, i + 1, addend, w.mod)

SnapL2Done(r, l1, i, addend, mod) ==
    IF r.ret < 0 THEN Walked(r.st, r.ret, l1, mod)
    ELSE SnapL1Next(SnapL1Entry(EntryRefcount(r.st, l1[i], addend), l1, i, mod),
                    i, addend)

(* Mutant: an L2 table that cannot be loaded is skipped, not an error. *)
SnapL1LoopSkippingUnreadable(st, l1, i, addend, mod) ==
    IF i = L1_SIZE THEN Walked(st, 0, l1, mod)
    ELSE IF l1[i].off = 0 THEN SnapL1Loop(st, l1, i + 1, addend, mod)
    ELSE IF Fails(st, "l2_load") THEN SnapL1Loop(Consume(st), l1, i + 1, addend, mod)
    ELSE SnapL2Done(SnapL2Loop(st, l1[i].off, 0, addend), l1, i, addend, mod)

(* The loop over the L1 table: qcow2_cache_get of each L2 table, its      *)
(* walk, then the L2 table's own count.  Returns [st, ret, l1, mod].      *)
SnapL1Loop(st, l1, i, addend, mod) ==
    IF i = L1_SIZE THEN Walked(st, 0, l1, mod)
    ELSE IF l1[i].off = 0 THEN SnapL1Loop(st, l1, i + 1, addend, mod)
    ELSE IF Fails(st, "l2_load") THEN Walked(Consume(st), EIO, l1, mod)
    ELSE SnapL2Done(SnapL2Loop(st, l1[i].off, 0, addend), l1, i, addend, mod)

(* Mutant: the queued discards are not processed at the end. *)
SnapWriteL1NoDrain(w, addend) ==
    LET s1 == [w.st EXCEPT !.cd = FALSE] IN
    IF w.ret = 0 /\ addend >= 0 /\ w.mod /\ Fails(s1, "l1_write")
    THEN Walked(Consume(s1), EIO, w.l1, w.mod)
    ELSE Walked(s1, w.ret, w.l1, w.mod)

(* The fail: label on: cache_discards ends, the queued discards are      *)
(* processed, and the L1 table is written when the walk succeeded, the    *)
(* addend is not negative and an entry changed.                           *)
SnapWriteL1(w, addend) ==
    LET s1 == ProcessDiscards([w.st EXCEPT !.cd = FALSE], w.ret) IN
    IF w.ret = 0 /\ addend >= 0 /\ w.mod /\ Fails(s1, "l1_write")
    THEN Walked(Consume(s1), EIO, w.l1, w.mod)
    ELSE Walked(s1, w.ret, w.l1, w.mod)

(* ret = bdrv_flush(bs) after a walk that succeeded *)
SnapFinish(w, addend) ==
    SnapWriteL1(IF w.ret = 0 /\ Fails(w.st, "flush")
                THEN Walked(Consume(w.st), EIO, w.l1, w.mod) ELSE w,
                addend)

(* qcow2_update_snapshot_refcount(bs, l1_table_offset, l1_size, addend)   *)
(* over the L1 table l1: the in-memory s->l1_table when active, else one  *)
(* read from disk (bdrv_pread may fail).  Returns [st, ret, l1, mod] with *)
(* l1 the table as the walk left it.                                       *)
UpdateSnapshotRefcount(st, l1, addend, active) ==
    IF ~active /\ Fails(st, "l1_read")
    THEN SnapFinish(Walked(Consume([st EXCEPT !.cd = TRUE]), EIO, l1, FALSE), addend)
    ELSE SnapFinish(SnapL1Loop([st EXCEPT !.cd = TRUE], l1, 0, addend, FALSE), addend)
=============================================================================
