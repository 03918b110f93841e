------------------------------ MODULE QcowImage ------------------------------
(***************************************************************************)
(* A qcow2 image: the refcount engine composed with the mapping tables     *)
(* that hold the references it counts.  The active L1 table points at L2   *)
(* tables, L2 tables at data clusters; each internal snapshot holds its    *)
(* own copy of an L1 table and shares L2 tables and data clusters with the *)
(* image until a write copies them (copy-on-write).  A cluster's refcount  *)
(* is the number of table entries that point at it, over every L1 table.   *)
(*                                                                         *)
(* The callers in qcow2-cluster.c and qcow2-snapshot.c are the             *)
(* environment: a guest write of one cluster, snapshot creation and         *)
(* snapshot deletion, as they use the engine.  The checker runs as a fix-  *)
(* leaks repair.  Each of these is one atomic step, as in the driver.      *)
(*                                                                         *)
(* content is a ghost: the guest data of a cluster, one bit that every    *)
(* guest write flips.                                                      *)
(***************************************************************************)
EXTENDS RefcountCheck, OverlapGuard

CONSTANTS
    MAX_CLUSTERS,   \* the image never grows past this many clusters
    MAX_SNAPSHOTS,  \* bound on the snapshots that exist at once
    FAULTS,         \* the fault sites that may fail
    MAX_FAULTS,     \* bound on the I/O failures of one behaviour
    MAX_CALLS       \* bound on the calls of one behaviour (state constraint)

ImageFaultSites == FaultSites \cup {"l2_load", "flush", "l1_write", "l1_read", "snapshots"}
ASSUME FAULTS \subseteq ImageFaultSites

VARIABLES
    refcount_table, refcount_table_size, refcount_table_offset,
    free_cluster_index, discards, blocks,
    l1_table,       \* s->l1_table, the active L1 table
    l2_tables,      \* L2 table contents, by cluster index
    snapshots,      \* s->snapshots: [off, l1] with l1 its L1 table
    content,        \* ghost: guest data bit of each data cluster
    faults, calls

vars == <<refcount_table, refcount_table_size, refcount_table_offset,
          free_cluster_index, discards, blocks, l1_table, l2_tables,
          snapshots, content, faults, calls>>

L1_TABLE_OFFSET == 3    \* cluster of s->l1_table_offset in a new image
Guest == 0 .. L1_SIZE * L2_SIZE - 1
Clusters == 0 .. MAX_CLUSTERS - 1

Engine(f) ==
    [rt |-> refcount_table, rts |-> refcount_table_size,
     rto |-> refcount_table_offset, fci |-> free_cluster_index, fbo |-> 0,
     disc |-> discards, cd |-> FALSE, blk |-> blocks, fault |-> f,
     l2 |-> l2_tables]

(* The L2 tables and data clusters the L1 tables l1s reach. *)
TablesOf(l1s) == {l1[i].off : l1 \in l1s, i \in L1Index} \ {0}
DataOf(l1s, l2) == {l2[t][j].off : t \in TablesOf(l1s), j \in L2Index} \ {0}
AllL1(l1, snaps) == {l1} \cup {snaps[k].l1 : k \in DOMAIN snaps}

(* What guest cluster g reads through L1 table l1. *)
GuestData(l1, l2, data, g) ==
    LET e1 == l1[g \div L2_SIZE] IN
    IF e1.off = 0 \/ l2[e1.off][g % L2_SIZE].off = 0 THEN 0
    ELSE data[l2[e1.off][g % L2_SIZE].off]

GuestView(l1, l2, data) == [g \in Guest |-> GuestData(l1, l2, data, g)]

Fits(st) ==
    /\ st.fci <= MAX_CLUSTERS
    /\ st.rto + st.rts * 8 <= MAX_CLUSTERS * CS
    /\ \A o \in DOMAIN st.blk : o < MAX_CLUSTERS * CS

(* The state after a call made with fault f armed, leaving the engine in  *)
(* st, the active L1 table l1, the snapshot list snaps and the guest data *)
(* data; what no table reaches any more is dropped.                       *)
Commit(f, st, l1, snaps, data) ==
    /\ Fits(st)
    /\ f = "none" \/ st.fault = "none"
    /\ faults' = IF f = "none" THEN faults ELSE faults + 1
    /\ calls' = calls + 1
    /\ refcount_table' = st.rt
    /\ refcount_table_size' = st.rts
    /\ refcount_table_offset' = st.rto
    /\ free_cluster_index' = st.fci
    /\ discards' = st.disc
    /\ blocks' = st.blk
    /\ l1_table' = l1
    /\ snapshots' = snaps
    /\ l2_tables' = Restrict(st.l2, TablesOf(AllL1(l1, snaps)))
    /\ content' = Restrict(data, DataOf(AllL1(l1, snaps), st.l2))

Faulty == IF faults < MAX_FAULTS THEN FAULTS \cup {"none"} ELSE {"none"}

(* A new image: header, refcount table, refcount block and an empty L1    *)
(* table in clusters 0 to 3, each at refcount 1.                           *)
Init ==
    /\ refcount_table = [i \in 0 .. CS \div 8 - 1 |-> IF i = 0 THEN 2 * CS ELSE 0]
    /\ refcount_table_size = CS \div 8
    /\ refcount_table_offset = CS
    /\ free_cluster_index = 0
    /\ discards = <<>>
    /\ blocks = (2 * CS) :> [i \in 0 .. RB_SIZE - 1 |-> IF i < 4 THEN 1 ELSE 0]
    /\ l1_table = [i \in L1Index |-> Unallocated]
    /\ l2_tables = <<>>
    /\ snapshots = <<>>
    /\ content = <<>>
    /\ faults = 0
    /\ calls = 0

TypeOK ==
    /\ refcount_table \in [0 .. refcount_table_size - 1 -> Nat]
    /\ free_cluster_index \in 0 .. MAX_CLUSTERS
    /\ discards = <<>>
    /\ l1_table \in [L1Index -> [off : Clusters, copied : BOOLEAN]]
    /\ DOMAIN l2_tables = TablesOf(AllL1(l1_table, snapshots))
    /\ \A t \in DOMAIN l2_tables : l2_tables[t] \in [L2Index -> [off : Clusters, copied : BOOLEAN]]
    /\ Len(snapshots) <= MAX_SNAPSHOTS
    /\ content \in [DataOf(AllL1(l1_table, snapshots), l2_tables) -> {0, 1}]
    /\ faults \in 0 .. MAX_FAULTS

-----------------------------------------------------------------------------
(* The write path of qcow2-cluster.c for one guest cluster g.              *)
Written(st, ret, l1, data) == [st |-> st, ret |-> ret, l1 |-> l1, data |-> data]

(* handle_alloc() and qcow2_alloc_cluster_link_l2(): the data goes to a   *)
(* new cluster (allocation a), the entry points at it with COPIED, and    *)
(* the old cluster is released by qcow2_free_any_clusters().              *)
DataAllocated(a, l1, t, g) ==
    IF a.ret < 0 THEN Written(a.st, a.ret, l1, 0)
    ELSE Written(QFreeAnyClusters(
                   [a.st EXCEPT !.l2[t][g % L2_SIZE] = [off |-> a.ret \div CS, copied |-> TRUE]],
                   a.st.l2[t][g % L2_SIZE], 1, "never"),
                 0, l1, a.ret \div CS)

(* handle_copied(): a COPIED entry is written in place. *)
WriteData(st, l1, g) ==
    LET t == l1[g \div L2_SIZE].off IN
    IF st.l2[t][g % L2_SIZE].copied THEN Written(st, 0, l1, st.l2[t][g % L2_SIZE].off)
    ELSE DataAllocated(QAllocClusters(st, CS), l1, t, g)

L2Freed(st, old) == IF old = 0 THEN st ELSE QFreeClusters(st, old * CS, CS, "other")

(* Mutant: the new L2 table starts empty instead of as a copy. *)
L2AllocatedEmpty(a, l1, g) ==
    LET i == g \div L2_SIZE
        old == l1[i].off
    IN
    IF a.ret < 0 THEN Written(a.st, a.ret, l1, 0)
    ELSE WriteData(L2Freed([a.st EXCEPT !.l2 = (a.ret \div CS :> EmptyL2) @@ @], old),
                   [l1 EXCEPT ![i] = [off |-> a.ret \div CS, copied |-> TRUE]], g)

(* l2_allocate(): the old L2 table (or an empty one) copied into the new  *)
(* cluster of allocation a, the L1 entry pointed at it with COPIED, then  *)
(* the old table released.                                                 *)
L2Allocated(a, l1, g) ==
    LET i == g \div L2_SIZE
        old == l1[i].off
    IN
    IF a.ret < 0 THEN Written(a.st, a.ret, l1, 0)
    ELSE WriteData(L2Freed([a.st EXCEPT !.l2 = (a.ret \div CS :>
                                          IF old = 0 THEN EmptyL2 ELSE @[old]) @@ @],
                           old),
                   [l1 EXCEPT ![i] = [off |-> a.ret \div CS, copied |-> TRUE]], g)

(* get_cluster_table(): in place when the L1 entry is COPIED. *)
GetClusterTable(st, l1, g) ==
    IF l1[g \div L2_SIZE].copied THEN WriteData(st, l1, g)
    ELSE L2Allocated(QAllocClusters(st, CS), l1, g)

WriteDone(g, f, w) ==
    Commit(f, w.st, w.l1, snapshots,
           IF w.ret < 0 THEN content
           ELSE (w.data :> 1 - GuestData(l1_table, l2_tables, content, g)) @@ content)

GuestWrite ==
    \E g \in Guest, f \in Faulty : WriteDone(g, f, GetClusterTable(Engine(f), l1_table, g))

(* qcow2_snapshot_create(): the L1 table copied into a new cluster, every *)
(* count it reaches raised by qcow2_update_snapshot_refcount(+1) (result  *)
(* u), then the snapshot added to the snapshot table (qcow2_write_snapshots).*)
SnapshotCounted(f, off, u) ==
    IF u.ret < 0 THEN Commit(f, u.st, u.l1, snapshots, content)
    ELSE IF Fails(u.st, "snapshots") THEN Commit(f, Consume(u.st), u.l1, snapshots, content)
    ELSE Commit(f, u.st, u.l1,
                Append(snapshots, [off |-> off, l1 |-> l1_table]),
                content)

SnapshotL1Allocated(f, a) ==
    IF a.ret < 0 THEN Commit(f, a.st, l1_table, snapshots, content)
    ELSE IF Fails(a.st, "l1_write") THEN Commit(f, Consume(a.st), l1_table, snapshots, content)
    ELSE SnapshotCounted(f, a.ret \div CS, UpdateSnapshotRefcount(a.st, l1_table, 1, TRUE))

SnapshotCreate ==
    /\ Len(snapshots) < MAX_SNAPSHOTS
    /\ \E f \in Faulty : SnapshotL1Allocated(f, QAllocClusters(Engine(f), L1_SIZE * 8))

(* qcow2_snapshot_delete(): the snapshot leaves the snapshot table, its   *)
(* counts are dropped (qcow2_update_snapshot_refcount(-1), result u), its *)
(* L1 table freed, and the COPIED bits of the active table recomputed     *)
(* (addend 0).                                                             *)
SnapshotFlagsFixed(f, snaps, z) == Commit(f, z.st, z.l1, snaps, content)

SnapshotUncounted(f, snaps, sn, u) ==
    IF u.ret < 0 THEN Commit(f, u.st, l1_table, snaps, content)
    ELSE SnapshotFlagsFixed(f, snaps,
           UpdateSnapshotRefcount(QFreeClusters(u.st, sn.off * CS, L1_SIZE * 8, "snapshot"),
                                  l1_table, 0, TRUE))

SnapshotDelete ==
    \E k \in DOMAIN snapshots, f \in Faulty :
        IF Fails(Engine(f), "snapshots")
        THEN Commit(f, Consume(Engine(f)), l1_table, snapshots, content)
        ELSE SnapshotUncounted(f, RemoveAt(snapshots, k), snapshots[k],
                               UpdateSnapshotRefcount(Engine(f), snapshots[k].l1, -1, FALSE))

(* qemu-img check -r leaks: qcow2_check_refcounts(bs, res, BDRV_FIX_LEAKS) *)
CheckDone(c) == Commit("none", c.st, c.l1, snapshots, content)

CheckRepair ==
    CheckDone(CheckRefcounts(Engine("none"), L1_TABLE_OFFSET, l1_table, snapshots,
                             MAX_CLUSTERS, TRUE))

Next == GuestWrite \/ SnapshotCreate \/ SnapshotDelete \/ CheckRepair

Spec == Init /\ [][Next]_vars

CallsBound == calls <= MAX_CALLS

-----------------------------------------------------------------------------
Stored(c) == GetRefcount(Engine("none"), c).ret

(* The counts calculate_refcounts() finds, and the report of a report-only *)
(* qcow2_check_refcounts().                                                *)
Computed == CalculateRefcounts(Engine("none"), L1_TABLE_OFFSET, l1_table, snapshots,
                               MAX_CLUSTERS).rc

Report == CheckRefcounts(Engine("none"), L1_TABLE_OFFSET, l1_table, snapshots,
                         MAX_CLUSTERS, FALSE).res

CleanReport(res) == res.corruptions = 0 /\ res.leaks = 0 /\ res.check_errors = 0

(* Without I/O errors, qemu-img check finds nothing wrong after any        *)
(* sequence of guest writes, snapshot creations and deletions: every       *)
(* stored count equals the references the checker finds over the active   *)
(* and every snapshot L1 table, and every COPIED bit of the active tables  *)
(* says refcount == 1 (update_refcount, qcow2_update_snapshot_refcount,    *)
(* compare_refcounts, check_oflag_copied).                                 *)
Consistent == CleanReport(Report)

(* The image implements a virtual disk with snapshots: under the mapping *)
(* of the active and each snapshot's L1 table to what the guest reads    *)
(* through it, every call is a write of one guest cluster, a snapshot    *)
(* creation, a deletion, or (a failed call, a repair) no change.  It     *)
(* breaks when a write lands in place in a cluster a snapshot shares, or *)
(* when a failure leaves a step half visible to the guest.              *)
Disk == INSTANCE VirtualDisk WITH
            disk  <- GuestView(l1_table, l2_tables, content),
            snaps <- [k \in DOMAIN snapshots |-> GuestView(snapshots[k].l1, l2_tables, content)]

DiskRefinement == Disk!Spec

(* With one I/O failure anywhere in a write, a snapshot creation or        *)
(* deletion, no stored count is below the references the checker finds:   *)
(* the error paths of qcow2_update_snapshot_refcount leave leaks only.     *)
StoredNotBelowComputed == \A c \in Clusters : Stored(c) >= Computed[c]

(* A COPIED bit in the active tables, which lets a write go in place, is  *)
(* only ever set on a cluster whose stored refcount is 1, also after a    *)
(* failed snapshot operation left the bits half rewritten.                *)
CopiedImpliesExclusive ==
    \A i \in L1Index :
        LET t == l1_table[i].off IN
        t # 0 =>
           /\ l1_table[i].copied => Stored(t) = 1
           /\ \A j \in L2Index : l2_tables[t][j].copied => Stored(l2_tables[t][j].off) = 1

(* The report of a report-only check of the image left by a fix-leaks   *)
(* check r (CheckRepair).                                                  *)
ReportAfter(r) ==
    CheckRefcounts(r.st, L1_TABLE_OFFSET, r.l1, snapshots, MAX_CLUSTERS, FALSE).res

(* Every image reachable through guest writes and snapshot operations,    *)
(* each of which may fail once, is repaired by one fix-leaks check        *)
(* (compare_refcounts with BDRV_FIX_LEAKS, then check_oflag_copied): a     *)
(* report-only check of what it leaves finds nothing, whatever leaks and  *)
(* stale COPIED bits the failures left.                                   *)
RepairRestores ==
    CleanReport(ReportAfter(CheckRefcounts(Engine("none"), L1_TABLE_OFFSET, l1_table,
                                           snapshots, MAX_CLUSTERS, TRUE)))

(* The clusters of each metadata section, from the image state: the      *)
(* header, the tables at their offsets, the blocks and L2 tables the     *)
(* tables point at.                                                        *)
Roles ==
    [main_header    |-> {0},
     active_l1      |-> {L1_TABLE_OFFSET},
     refcount_table |-> (refcount_table_offset \div CS) ..
                        ((refcount_table_offset + refcount_table_size * 8 - 1) \div CS),
     snapshot_table |-> {},
     inactive_l1    |-> {snapshots[k].off : k \in DOMAIN snapshots},
     active_l2      |-> TablesOf({l1_table}),
     refcount_block |-> {refcount_table[i] \div CS : i \in DOMAIN refcount_table} \ {0},
     inactive_l2    |-> TablesOf({snapshots[k].l1 : k \in DOMAIN snapshots})]

ImageSections == Sections(Engine("none"), L1_TABLE_OFFSET, l1_table, snapshots)

(* qcow2_check_metadata_overlap reports a write exactly when one of the   *)
(* clusters it touches holds a section that is checked and not ignored,  *)
(* and then the first such section in the order it tests them; this for  *)
(* writes of a whole cluster, of one byte at a cluster's end and of a    *)
(* cluster's size from there (spanning two), with nothing or the active  *)
(* L2 tables ignored, as check_oflag_copied ignores them.  sec and roles *)
(* are the image's sections as the guard and Roles see them.             *)
GuardExactIn(sec, roles) ==
    \A ign \in {{}, {"active_l2"}}, c \in Clusters,
       w \in {<<0, CS>>, <<CS - 1, 1>>, <<CS - 1, CS>>} :
        LET offset == c * CS + w[1]
            touched == c .. (offset + w[2] - 1) \div CS
            Hit(s) == s \in OVERLAP_CHECK \ ign /\ roles[s] \cap touched # {}
            k == SelectInSeq(OlSections, Hit)
        IN CheckMetadataOverlap(sec, ign, offset, w[2]) = IF k = 0 THEN "none" ELSE OlSections[k]

OverlapGuardExact == GuardExactIn(ImageSections, Roles)

(* No cluster a table maps as guest data, in the image or a snapshot, is *)
(* one the guard takes for metadata, so qcow2_pre_write_overlap_check     *)
(* never refuses a guest write, also after failed calls left leaks.      *)
GuestDataClearIn(sec) ==
    \A d \in DataOf(AllL1(l1_table, snapshots), l2_tables) :
        PreWriteOverlapCheck(sec, {}, d * CS, CS) = 0

GuestDataClear == GuestDataClearIn(ImageSections)
=============================================================================
